--------------------------- MODULE SessionsProofs ---------------------------
(***************************************************************************)
(* For every set of users, browsers, requests and administrators and every *)
(* bound: type correctness of the sessions; revocation works up to the     *)
(* holes RevocationCovers names; nothing superseded or revoked is served;  *)
(* the lock sentinel follows the lock, and a browser's cookies are of one  *)
(* account, up to the named orders of steps in which they do not.          *)
(***************************************************************************)
EXTENDS Sessions, TLAPS

(* A credential is no newer than its user's epoch, and if it claims more   *)
(* than the account has it is one of those RevocationCovers allows.        *)
Good(x) ==
  /\ x.sess <= epoch[x.user]
  /\ Excess(x) => x.sess < epoch[x.user] \/ Owed(x.user) \/ x.user \in missed \/ x.straddled

GoodConn(r) ==
  /\ \A x \in r.cred : Good(x)
  /\ \A j \in r.jwt \union r.newJwt : Good(j.cred)

CredsGood ==
  /\ \A r \in refresh : Good(r.cred)
  /\ \A b \in Browsers : \A j \in jar[b].session : Good(j.cred)
  /\ \A c \in Conns : GoodConn(conn[c])

(* An idle administrator works on nobody; only locks and unlocks mirror.   *)
AdmOK ==
  \A a \in Admins :
    /\ adm[a].pc = "idle" => adm[a].user = {}
    /\ adm[a].pc = "mirror" => adm[a].op \in {"lock", "unlock"}

IInv == TypeOK /\ CredsGood /\ AdmOK

-----------------------------------------------------------------------------
LEMMA IdleConnType == IdleConn \in ConnType
BY DEF IdleConn, ConnPC, ConnType

(* A typed request stays typed when the fields an action sets are typed;   *)
(* one lemma for each combination of fields the actions set.               *)
LEMMA TypedPc ==
  ASSUME NEW r \in ConnType, NEW p \in ConnPC
  PROVE  [r EXCEPT !.pc = p] \in ConnType
BY DEF ConnType

LEMMA TypedPcCred ==
  ASSUME NEW r \in ConnType, NEW p \in ConnPC, NEW x \in SUBSET Cred
  PROVE  [r EXCEPT !.pc = p, !.cred = x] \in ConnType
BY DEF ConnType

LEMMA TypedPcJwtSets ==
  ASSUME NEW r \in ConnType, NEW p \in ConnPC, NEW j \in SUBSET Jwt, NEW s \in SUBSET {"session", "refresh"}
  PROVE  [r EXCEPT !.pc = p, !.newJwt = j, !.sets = s] \in ConnType
BY DEF ConnType

LEMMA TypedPcCredSets ==
  ASSUME NEW r \in ConnType, NEW p \in ConnPC, NEW x \in SUBSET Cred, NEW s \in SUBSET {"session", "refresh"}
  PROVE  [r EXCEPT !.pc = p, !.cred = x, !.sets = s] \in ConnType
BY DEF ConnType

LEMMA TypedPcOpen ==
  ASSUME NEW r \in ConnType, NEW p \in ConnPC, NEW f \in BOOLEAN
  PROVE  [r EXCEPT !.pc = p, !.failOpen = f] \in ConnType
BY DEF ConnType

LEMMA TypedPcCredJwtSets ==
  ASSUME NEW r \in ConnType, NEW p \in ConnPC, NEW x \in SUBSET Cred, NEW j \in SUBSET Jwt, NEW s \in SUBSET {"session", "refresh"}
  PROVE  [r EXCEPT !.pc = p, !.cred = x, !.newJwt = j, !.sets = s] \in ConnType
BY DEF ConnType

LEMMA TypedPcOldCred ==
  ASSUME NEW r \in ConnType, NEW p \in ConnPC, NEW o \in SUBSET Users, NEW x \in SUBSET Cred
  PROVE  [r EXCEPT !.pc = p, !.old = o, !.cred = x] \in ConnType
BY DEF ConnType

LEMMA TypedPcOld ==
  ASSUME NEW r \in ConnType, NEW p \in ConnPC, NEW o \in SUBSET Users
  PROVE  [r EXCEPT !.pc = p, !.old = o] \in ConnType
BY DEF ConnType

LEMMA TypedPcCredOld ==
  ASSUME NEW r \in ConnType, NEW p \in ConnPC, NEW x \in SUBSET Cred, NEW o \in SUBSET Users
  PROVE  [r EXCEPT !.pc = p, !.cred = x, !.old = o] \in ConnType
BY DEF ConnType

LEMMA TypedPcJwtRidSets ==
  ASSUME NEW r \in ConnType, NEW p \in ConnPC, NEW j \in SUBSET Jwt, NEW n \in SUBSET Nat, NEW s \in SUBSET {"session", "refresh"}
  PROVE  [r EXCEPT !.pc = p, !.newJwt = j, !.newRid = n, !.sets = s] \in ConnType
BY DEF ConnType

LEMMA TypedPcJwtNoRidSets ==
  ASSUME NEW r \in ConnType, NEW p \in ConnPC, NEW j \in SUBSET Jwt, NEW s \in SUBSET {"session", "refresh"}
  PROVE  [r EXCEPT !.pc = p, !.newJwt = j, !.rid = {}, !.sets = s] \in ConnType
BY DEF ConnType

LEMMA TypedPcSets ==
  ASSUME NEW r \in ConnType, NEW p \in ConnPC, NEW s \in SUBSET {"session", "refresh"}
  PROVE  [r EXCEPT !.pc = p, !.sets = s] \in ConnType
BY DEF ConnType

LEMMA ConnUpdate ==
  ASSUME conn \in [Conns -> ConnType], NEW c \in Conns, NEW r \in ConnType
  PROVE  [conn EXCEPT ![c] = r] \in [Conns -> ConnType]
OBVIOUS

LEMMA InitTypeOK == Init => TypeOK
BY IdleConnType, SessionsAssumption DEF Init, TypeOK, AllRoles, IdleAdm

(* Each step of a request keeps its record typed.                          *)
LEMMA ConnTyped ==
  ASSUME TypeOK, NEW c \in Conns
  PROVE  /\ conn \in [Conns -> ConnType] /\ conn[c] \in ConnType
         /\ conn[c].cred \subseteq Cred /\ conn[c].jwt \subseteq Jwt /\ conn[c].newJwt \subseteq Jwt
         /\ conn[c].sets \subseteq {"session", "refresh"}
BY DEF TypeOK, ConnType

LEMMA LookupRefreshTyped ==
  ASSUME TypeOK, NEW c \in Conns, LookupRefresh(c)
  PROVE  conn' \in [Conns -> ConnType]
<1>1. "drop" \in ConnPC /\ "locked" \in ConnPC
  BY DEF ConnPC
<1>2. ASSUME NEW r \in Held(conn[c].rid),
             conn' = [conn EXCEPT ![c] = [conn[c] EXCEPT !.pc = "locked", !.cred = {r.cred}]]
      PROVE  conn' \in [Conns -> ConnType]
  <2>1. {r.cred} \in SUBSET Cred
    BY DEF TypeOK, Held, Refresh
  <2>2. QED
    BY <1>1, <1>2, <2>1, ConnTyped, TypedPcCred
<1>3. CASE conn' = [conn EXCEPT ![c] = [conn[c] EXCEPT !.pc = "drop"]]
  BY <1>1, <1>3, ConnTyped, TypedPc
<1>4. QED
  BY <1>2, <1>3 DEF LookupRefresh

LEMMA RenewJwtTyped ==
  ASSUME TypeOK, NEW c \in Conns, RenewJwt(c)
  PROVE  conn' \in [Conns -> ConnType]
<1>1. "drop" \in ConnPC /\ "handler" \in ConnPC /\ "check" \in ConnPC
  BY DEF ConnPC
<1>2. {"session"} \in SUBSET {"session", "refresh"}
  OBVIOUS
<1>3. \A x \in conn[c].cred :
        {[jti |-> serial + 1, cred |-> [x EXCEPT !.sess = epoch[x.user]]]} \in SUBSET Jwt
  <2>1. ASSUME NEW x \in conn[c].cred PROVE [x EXCEPT !.sess = epoch[x.user]] \in Cred
    <3>1. x \in Cred
      BY ConnTyped
    <3>2. epoch[x.user] \in Nat
      BY <3>1 DEF TypeOK, Cred
    <3>3. QED
      BY <3>1, <3>2 DEF Cred
  <2>2. serial + 1 \in Nat
    BY DEF TypeOK
  <2>3. QED
    BY <2>1, <2>2 DEF Jwt
<1>4. ASSUME NEW x \in conn[c].cred,
             conn' = [conn EXCEPT ![c] =
                        [conn[c] EXCEPT !.pc = IF conn[c].jwt = {} THEN "handler" ELSE "check",
                        !.newJwt = {[jti |-> serial + 1,
                                        cred |-> [x EXCEPT !.sess = epoch[x.user]]]},
                        !.sets = {"session"}]]
      PROVE  conn' \in [Conns -> ConnType]
  <2>1. CASE conn[c].jwt = {}
    BY <1>1, <1>2, <1>3, <1>4, <2>1, ConnTyped, TypedPcJwtSets
  <2>2. CASE conn[c].jwt # {}
    BY <1>1, <1>2, <1>3, <1>4, <2>2, ConnTyped, TypedPcJwtSets
  <2>3. QED
    BY <2>1, <2>2
<1>5. CASE conn' = [conn EXCEPT ![c] = [conn[c] EXCEPT !.pc = "drop"]]
  BY <1>1, <1>5, ConnTyped, TypedPc
<1>6. QED
  BY <1>4, <1>5 DEF RenewJwt

LEMMA DropRefreshTyped ==
  ASSUME TypeOK, NEW c \in Conns, DropRefresh(c)
  PROVE  conn' \in [Conns -> ConnType]
<1>1. "handler" \in ConnPC /\ {} \in SUBSET Cred
  BY DEF ConnPC
<1>2. ({"refresh"} \union (IF conn[c].jwt = {} THEN {} ELSE {"session"})) \in SUBSET {"session", "refresh"}
  OBVIOUS
<1>3. QED
  BY <1>1, <1>2, ConnTyped, TypedPcCredSets DEF DropRefresh

LEMMA CheckSessionTyped ==
  ASSUME TypeOK, NEW c \in Conns, CheckSession(c)
  PROVE  conn' \in [Conns -> ConnType]
<1>1. "handler" \in ConnPC /\ {} \in SUBSET Cred /\ {} \in SUBSET Jwt /\ TRUE \in BOOLEAN
  BY DEF ConnPC
<1>2. (conn[c].sets \union {"session"}) \in SUBSET {"session", "refresh"}
  BY ConnTyped
<1>3. CASE conn' = [conn EXCEPT ![c] = [conn[c] EXCEPT !.pc = "handler"]]
  BY <1>1, <1>3, ConnTyped, TypedPc
<1>4. CASE conn' = [conn EXCEPT ![c] = [conn[c] EXCEPT !.pc = "handler", !.failOpen = TRUE]]
  BY <1>1, <1>4, ConnTyped, TypedPcOpen
<1>5. CASE conn' = [conn EXCEPT ![c] = [conn[c] EXCEPT !.pc = "handler", !.cred = {}, !.newJwt = {},
                                !.sets = conn[c].sets \union {"session"}]]
  BY <1>1, <1>2, <1>5, ConnTyped, TypedPcCredJwtSets
<1>6. QED
  BY <1>3, <1>4, <1>5 DEF CheckSession

LEMMA ReadAccountTyped ==
  ASSUME TypeOK, NEW u \in Users
  PROVE  ReadAccount(u) \in SUBSET Cred
BY DEF TypeOK, ReadAccount, Cred

LEMMA MergeChecksTyped ==
  ASSUME TypeOK, NEW c \in Conns, MergeSource(c) \/ (\E u \in Users : MergeTarget(c, u)) \/ MergeProvider(c)
  PROVE  conn' \in [Conns -> ConnType]
<1>1. /\ {"target", "provider", "transfer", "reply"} \subseteq ConnPC /\ {} \in SUBSET Cred /\ {} \in SUBSET Users
      /\ \A x \in conn[c].cred : {x.user} \in SUBSET Users
  BY ConnTyped DEF ConnPC, Cred
<1>2. CASE MergeSource(c)
  BY <1>1, <1>2, ConnTyped, TypedPc DEF MergeSource
<1>3. ASSUME NEW u \in Users, MergeTarget(c, u) PROVE conn' \in [Conns -> ConnType]
  <2>1. PICK x \in conn[c].cred :
          conn' = [conn EXCEPT ![c] = [conn[c] EXCEPT !.pc = "provider", !.old = {x.user}, !.cred = ReadAccount(u)]]
    BY <1>3 DEF MergeTarget
  <2>2. QED
    BY <1>1, <2>1, ConnTyped, ReadAccountTyped, TypedPcOldCred
<1>4. CASE MergeProvider(c)
  <2>1. CASE conn' = [conn EXCEPT ![c] = [conn[c] EXCEPT !.pc = "transfer"]]
    BY <1>1, <2>1, ConnTyped, TypedPc
  <2>2. CASE conn' = [conn EXCEPT ![c] = [conn[c] EXCEPT !.pc = "reply", !.cred = {}, !.old = {}]]
    BY <1>1, <2>2, ConnTyped, TypedPcCredOld
  <2>3. QED
    BY <1>4, <2>1, <2>2 DEF MergeProvider
<1>5. QED
  BY <1>2, <1>3, <1>4

LEMMA MergeTransferTyped ==
  ASSUME TypeOK, NEW c \in Conns, MergeTransfer(c)
  PROVE  conn' \in [Conns -> ConnType]
<1>1. "stamp" \in ConnPC /\ "reply" \in ConnPC /\ {} \in SUBSET Cred /\ {} \in SUBSET Users
  BY DEF ConnPC
<1>2. CASE conn' = [conn EXCEPT ![c] = [conn[c] EXCEPT !.pc = "stamp", !.old = {}]]
  BY <1>1, <1>2, ConnTyped, TypedPcOld
<1>3. CASE conn' = [conn EXCEPT ![c] = [conn[c] EXCEPT !.pc = "reply", !.cred = {}, !.old = {}]]
  BY <1>1, <1>3, ConnTyped, TypedPcCredOld
<1>4. QED
  BY <1>2, <1>3 DEF MergeTransfer

LEMMA StampEpochTyped ==
  ASSUME TypeOK, NEW c \in Conns, StampEpoch(c)
  PROVE  conn' \in [Conns -> ConnType]
<1>1. "issue" \in ConnPC
  BY DEF ConnPC
<1>2. PICK x \in conn[c].cred :
        \E e \in {epoch[x.user]} \union (IF RedisMayFail THEN {0} ELSE {}) :
          conn' = [conn EXCEPT ![c] = [conn[c] EXCEPT !.pc = "issue",
                     !.cred = {[x EXCEPT !.sess = e, !.straddled = x.straddled \/ e > x.sess]}]]
  BY DEF StampEpoch
<1>3. PICK e \in {epoch[x.user]} \union (IF RedisMayFail THEN {0} ELSE {}) :
        conn' = [conn EXCEPT ![c] = [conn[c] EXCEPT !.pc = "issue",
                   !.cred = {[x EXCEPT !.sess = e, !.straddled = x.straddled \/ e > x.sess]}]]
  BY <1>2
<1>4. e \in Nat
  BY ConnTyped DEF TypeOK, Cred
<1>5. {[x EXCEPT !.sess = e, !.straddled = x.straddled \/ e > x.sess]} \in SUBSET Cred
  <2> DEFINE s == x.straddled \/ e > x.sess
  <2>1. s \in BOOLEAN
    OBVIOUS
  <2>2. x \in Cred
    BY ConnTyped
  <2> HIDE DEF s
  <2>3. [x EXCEPT !.sess = e, !.straddled = s] \in Cred
    BY <1>4, <2>1, <2>2 DEF Cred
  <2>4. QED
    BY <2>3 DEF s
<1>6. QED
  BY <1>1, <1>3, <1>5, ConnTyped, TypedPcCred

LEMMA IssueCookiesTyped ==
  ASSUME TypeOK, NEW c \in Conns, IssueCookies(c)
  PROVE  conn' \in [Conns -> ConnType] /\ refresh' \subseteq Refresh
<1>1. "reply" \in ConnPC /\ {serial + 1} \in SUBSET Nat
  BY DEF ConnPC, TypeOK
<1>2. /\ (conn[c].sets \union {"session"}) \in SUBSET {"session", "refresh"}
      /\ (conn[c].sets \union LoginCookies(c)) \in SUBSET {"session", "refresh"}
  BY ConnTyped DEF LoginCookies
<1>3. \A x \in conn[c].cred : /\ {[jti |-> serial + 1, cred |-> x]} \in SUBSET Jwt
                              /\ [rid |-> serial + 1, cred |-> x] \in Refresh
  BY <1>1, ConnTyped DEF Jwt, Refresh
<1>4. ASSUME NEW x \in conn[c].cred,
             conn' = [conn EXCEPT ![c] = [conn[c] EXCEPT !.pc = "reply",
                        !.newJwt = {[jti |-> serial + 1, cred |-> x]},
                        !.newRid = {serial + 1}, !.sets = conn[c].sets \union LoginCookies(c)]]
      PROVE  conn' \in [Conns -> ConnType]
  BY <1>1, <1>2, <1>3, <1>4, ConnTyped, TypedPcJwtRidSets
<1>5. ASSUME NEW x \in conn[c].cred,
             conn' = [conn EXCEPT ![c] = [conn[c] EXCEPT !.pc = "reply",
                        !.newJwt = {[jti |-> serial + 1, cred |-> x]}, !.rid = {},
                        !.sets = conn[c].sets \union {"session"}]]
      PROVE  conn' \in [Conns -> ConnType]
  BY <1>1, <1>2, <1>3, <1>5, ConnTyped, TypedPcJwtNoRidSets
<1>6. conn' \in [Conns -> ConnType]
  BY <1>4, <1>5 DEF IssueCookies
<1>7. refresh' \subseteq Refresh
  <2>1. refresh \subseteq Refresh
    BY DEF TypeOK
  <2>2. ASSUME NEW x \in conn[c].cred, refresh' = refresh \union {[rid |-> serial + 1, cred |-> x]}
        PROVE  refresh' \subseteq Refresh
    BY <1>3, <2>1, <2>2
  <2>3. CASE UNCHANGED refresh
    BY <2>1, <2>3
  <2>4. QED
    BY <2>2, <2>3 DEF IssueCookies
<1>8. QED
  BY <1>6, <1>7

LEMMA ArriveTyped ==
  ASSUME TypeOK, NEW c \in Conns, NEW b \in Browsers, NEW op \in {"get", "merge"}, Arrive(c, b, op)
  PROVE  conn' \in [Conns -> ConnType]
<1> DEFINE js == jar[b].session
           p == IF Live(js) # {} THEN "check" ELSE IF jar[b].rid # {} THEN "lookup"
                ELSE IF js # {} THEN "drop" ELSE "handler"
           r == [IdleConn EXCEPT !.pc = p, !.op = op, !.from = {b}, !.jwt = js, !.rid = jar[b].rid,
                   !.cred = {j.cred : j \in Live(js)}, !.floor = epoch,
                   !.out = revoked \intersect {j.jti : j \in js}]
<1>1. p \in ConnPC
  BY DEF ConnPC
<1>2. js \in SUBSET Jwt /\ jar[b].rid \in SUBSET Nat /\ epoch \in [Users -> Nat]
  BY DEF TypeOK
<1>3. {j.cred : j \in Live(js)} \in SUBSET Cred
  BY <1>2 DEF Live, Jwt
<1>4. (revoked \intersect {j.jti : j \in js}) \in SUBSET Nat
  BY DEF TypeOK
<1>5. conn' = [conn EXCEPT ![c] = r]
  BY DEF Arrive
<1> HIDE DEF p, js
<1>6. r \in ConnType
  BY <1>1, <1>2, <1>3, <1>4, IdleConnType DEF ConnType
<1> HIDE DEF r
<1>7. QED
  BY <1>5, <1>6, ConnTyped, ConnUpdate

LEMMA RespondTyped ==
  ASSUME TypeOK, NEW c \in Conns, Respond(c)
  PROVE  /\ conn' \in [Conns -> ConnType]
         /\ jar' \in [Browsers -> [session : SUBSET Jwt, rid : SUBSET Nat]]
<1>1. conn' \in [Conns -> ConnType]
  BY ConnTyped, ConnUpdate, IdleConnType DEF Respond
<1>2. conn[c].newJwt \in SUBSET Jwt /\ conn[c].newRid \in SUBSET Nat
  BY ConnTyped DEF ConnType
<1>3. QED
  BY <1>1, <1>2 DEF Respond, TypeOK

(* Each action keeps the types.                                            *)
LEMMA TypeStep == TypeOK /\ [Next]_vars => TypeOK'
<1> SUFFICES ASSUME TypeOK, [Next]_vars PROVE TypeOK'
  OBVIOUS
<1> USE SessionsAssumption
<1> USE DEF postgres, redis, clock, toggles
<1>1. ASSUME NEW c \in Conns, NEW b \in Browsers, NEW op \in {"get", "merge"}, Arrive(c, b, op)
      PROVE  TypeOK'
  BY <1>1, ArriveTyped DEF Arrive, TypeOK
<1>2. ASSUME NEW c \in Conns, LookupRefresh(c) PROVE TypeOK'
  BY <1>2, LookupRefreshTyped DEF LookupRefresh, TypeOK
<1>3. ASSUME NEW c \in Conns, CheckLocked(c) PROVE TypeOK'
  <2>1. "drop" \in ConnPC /\ "epoch" \in ConnPC
    BY DEF ConnPC
  <2>2. conn' \in [Conns -> ConnType]
    BY <1>3, <2>1, ConnTyped, TypedPc DEF CheckLocked
  <2>3. QED
    BY <1>3, <2>2 DEF CheckLocked, TypeOK
<1>4. ASSUME NEW c \in Conns, RenewJwt(c) PROVE TypeOK'
  <2>1. UNCHANGED <<postgres, redis, expired, jar, adm, missed, toggles, mixed>>
    BY <1>4 DEF RenewJwt
  <2>2. serial' = serial + 1 \/ serial' = serial
    BY <1>4, Zenon DEF RenewJwt
  <2>3. QED
    BY <1>4, <2>1, <2>2, RenewJwtTyped DEF TypeOK
<1>5. ASSUME NEW c \in Conns, DropRefresh(c) PROVE TypeOK'
  BY <1>5, DropRefreshTyped DEF DropRefresh, TypeOK
<1>6. ASSUME NEW c \in Conns, CheckSession(c) PROVE TypeOK'
  BY <1>6, CheckSessionTyped DEF CheckSession, TypeOK
<1>7. ASSUME NEW c \in Conns, NEW b \in Browsers, NEW u \in Users, LoginRead(c, b, u) PROVE TypeOK'
  <2>1. [IdleConn EXCEPT !.pc = "stamp", !.op = "login", !.from = {b}, !.cred = ReadAccount(u)] \in ConnType
    BY IdleConnType, ReadAccountTyped DEF ConnType, ConnPC
  <2>2. conn' \in [Conns -> ConnType]
    BY <1>7, <2>1, ConnTyped, ConnUpdate DEF LoginRead
  <2>3. QED
    BY <1>7, <2>2 DEF LoginRead, TypeOK
<1>8. ASSUME NEW c \in Conns, MergeSource(c) \/ (\E u \in Users : MergeTarget(c, u)) \/ MergeProvider(c)
      PROVE  TypeOK'
  <2>1. UNCHANGED <<postgres, redis, clock, jar, adm, missed, toggles, mixed>>
    BY <1>8 DEF MergeSource, MergeTarget, MergeProvider
  <2>2. QED
    BY <1>8, <2>1, MergeChecksTyped DEF TypeOK
<1>9. ASSUME NEW c \in Conns, MergeTransfer(c) PROVE TypeOK'
  <2>1. conn[c].old \subseteq Users /\ \A x \in conn[c].cred : x.user \in Users
    BY ConnTyped DEF ConnType, Cred
  <2>2. /\ status' \in [Users -> {"active", "locked", "deleted"}]
        /\ linked' \subseteq Users /\ missed' \subseteq Users
    BY <1>9, <2>1 DEF MergeTransfer, TypeOK
  <2>3. QED
    BY <1>9, <2>2, MergeTransferTyped DEF MergeTransfer, TypeOK
<1>10. ASSUME NEW c \in Conns, StampEpoch(c) PROVE TypeOK'
  BY <1>10, StampEpochTyped DEF StampEpoch, TypeOK
<1>11. ASSUME NEW c \in Conns, IssueCookies(c) PROVE TypeOK'
  <2>1. /\ serial' \in Nat
        /\ UNCHANGED <<postgres, epoch, lockMark, revoked, expired, jar, adm, missed, toggles, mixed>>
    BY <1>11 DEF IssueCookies, TypeOK
  <2>2. QED
    BY <1>11, <2>1, IssueCookiesTyped DEF TypeOK
<1>12. ASSUME NEW c \in Conns, NEW b \in Browsers, LogoutRevoke(c, b) PROVE TypeOK'
  <2>1. [IdleConn EXCEPT !.pc = "forget", !.op = "logout", !.from = {b}, !.rid = jar[b].rid] \in ConnType
    <3>1. "forget" \in ConnPC /\ jar[b].rid \in SUBSET Nat
      BY DEF ConnPC, TypeOK
    <3>2. QED
      BY <3>1, IdleConnType DEF ConnType
  <2>2. conn' \in [Conns -> ConnType]
    BY <1>12, <2>1, ConnTyped, ConnUpdate DEF LogoutRevoke
  <2>3. revoked' \subseteq Nat
    BY <1>12 DEF LogoutRevoke, TypeOK, Live, Jwt
  <2>4. QED
    BY <1>12, <2>2, <2>3 DEF LogoutRevoke, TypeOK
<1>13. ASSUME NEW c \in Conns, LogoutForget(c) PROVE TypeOK'
  <2>1. "reply" \in ConnPC /\ {"session", "refresh"} \in SUBSET {"session", "refresh"}
    BY DEF ConnPC
  <2>2. conn' \in [Conns -> ConnType]
    BY <1>13, <2>1, ConnTyped, TypedPcSets DEF LogoutForget
  <2>3. QED
    BY <1>13, <2>2 DEF LogoutForget, TypeOK
<1>14. ASSUME NEW c \in Conns, Respond(c) PROVE TypeOK'
  <2>1. mixed' \subseteq Browsers
    <3>1. conn[c].from \subseteq Browsers
      BY ConnTyped DEF ConnType
    <3>2. QED
      BY <1>14, <3>1 DEF Respond, TypeOK
  <2>2. QED
    BY <1>14, <2>1, RespondTyped DEF Respond, TypeOK
<1>15. ASSUME NEW a \in Admins, NEW op \in AdminOps, NEW u \in Users, NEW r \in Roles,
              AdminWrite(a, op, u, r)
       PROVE TypeOK'
  BY <1>15 DEF AdminWrite, AfterWrite, MirrorsOf, AllRoles, TypeOK
<1>16. ASSUME NEW a \in Admins, AdminMirror(a) PROVE TypeOK'
  BY <1>16 DEF AdminMirror, Mirrored, IdleAdm, TypeOK
<1>17. ASSUME NEW a \in Admins, AdminBump(a) PROVE TypeOK'
  BY <1>17 DEF AdminBump, Bumped, IdleAdm, TypeOK
<1>18. ASSUME NEW b \in Browsers, ExpireJwt(b) PROVE TypeOK'
  <2>1. jar[b].session \subseteq Jwt /\ expired \subseteq Nat
    BY DEF TypeOK
  <2>2. expired' \subseteq Nat
    BY <1>18, <2>1 DEF ExpireJwt, Jwt
  <2>3. QED
    BY <1>18, <2>2 DEF ExpireJwt, TypeOK
<1>19. ASSUME NEW b \in Browsers, DropCookies(b) PROVE TypeOK'
  <2>1. jar \in [Browsers -> [session : SUBSET Jwt, rid : SUBSET Nat]]
    BY DEF TypeOK
  <2>2. CASE jar' = [jar EXCEPT ![b].session = {}]
    BY <1>19, <2>1, <2>2 DEF DropCookies, TypeOK
  <2>3. CASE jar' = [jar EXCEPT ![b] = [session |-> {}, rid |-> {}]]
    BY <1>19, <2>1, <2>3 DEF DropCookies, TypeOK
  <2>4. QED
    BY <1>19, <2>2, <2>3 DEF DropCookies
<1>20. ASSUME NEW r \in refresh, ExpireRefresh(r) PROVE TypeOK'
  BY <1>20 DEF ExpireRefresh, TypeOK
<1>21. CASE UNCHANGED vars
  BY <1>21 DEF vars, TypeOK
<1>22. QED
  BY <1>1, <1>2, <1>3, <1>4, <1>5, <1>6, <1>7, <1>8, <1>9, <1>10, <1>11, <1>12, <1>13,
     <1>14, <1>15, <1>16, <1>17, <1>18, <1>19, <1>20, <1>21
     DEF Next, ConnStep, AdminStep

(* Every variable keeps its type in every behaviour.                       *)
THEOREM TypeCorrect == Spec => []TypeOK
<1>1. QED
  BY InitTypeOK, TypeStep, PTL DEF Spec
-----------------------------------------------------------------------------
(* The fields of a request record that hold credentials, after an update.  *)
LEMMA GoodPc ==
  ASSUME NEW r \in ConnType, GoodConn(r), NEW p \in ConnPC
  PROVE  GoodConn([r EXCEPT !.pc = p])
BY DEF ConnType, GoodConn

LEMMA GoodPcCred ==
  ASSUME NEW r \in ConnType, GoodConn(r), NEW p \in ConnPC,
         NEW x \in SUBSET Cred, \A y \in x : Good(y)
  PROVE  GoodConn([r EXCEPT !.pc = p, !.cred = x])
BY DEF ConnType, GoodConn

LEMMA GoodPcJwtSets ==
  ASSUME NEW r \in ConnType, GoodConn(r), NEW p \in ConnPC,
         NEW j \in SUBSET Jwt, \A y \in j : Good(y.cred), NEW s \in SUBSET {"session", "refresh"}
  PROVE  GoodConn([r EXCEPT !.pc = p, !.newJwt = j, !.sets = s])
BY DEF ConnType, GoodConn

LEMMA GoodPcCredSets ==
  ASSUME NEW r \in ConnType, GoodConn(r), NEW p \in ConnPC, NEW s \in SUBSET {"session", "refresh"}
  PROVE  GoodConn([r EXCEPT !.pc = p, !.cred = {}, !.sets = s])
BY DEF ConnType, GoodConn

LEMMA GoodPcOpen ==
  ASSUME NEW r \in ConnType, GoodConn(r), NEW p \in ConnPC
  PROVE  GoodConn([r EXCEPT !.pc = p, !.failOpen = TRUE])
BY DEF ConnType, GoodConn

LEMMA GoodPcCredJwtSets ==
  ASSUME NEW r \in ConnType, GoodConn(r), NEW p \in ConnPC, NEW s \in SUBSET {"session", "refresh"}
  PROVE  GoodConn([r EXCEPT !.pc = p, !.cred = {}, !.newJwt = {}, !.sets = s])
BY DEF ConnType, GoodConn

LEMMA GoodPcOldCred ==
  ASSUME NEW r \in ConnType, GoodConn(r), NEW p \in ConnPC, NEW o \in SUBSET Users,
         NEW x \in SUBSET Cred, \A y \in x : Good(y)
  PROVE  GoodConn([r EXCEPT !.pc = p, !.old = o, !.cred = x])
BY DEF ConnType, GoodConn

LEMMA GoodPcOld ==
  ASSUME NEW r \in ConnType, GoodConn(r), NEW p \in ConnPC
  PROVE  GoodConn([r EXCEPT !.pc = p, !.old = {}])
BY DEF ConnType, GoodConn

LEMMA GoodPcCredOld ==
  ASSUME NEW r \in ConnType, GoodConn(r), NEW p \in ConnPC
  PROVE  GoodConn([r EXCEPT !.pc = p, !.cred = {}, !.old = {}])
BY DEF ConnType, GoodConn

LEMMA GoodPcJwtRidSets ==
  ASSUME NEW r \in ConnType, GoodConn(r), NEW p \in ConnPC,
         NEW j \in SUBSET Jwt, \A y \in j : Good(y.cred),
         NEW n \in SUBSET Nat, NEW s \in SUBSET {"session", "refresh"}
  PROVE  GoodConn([r EXCEPT !.pc = p, !.newJwt = j, !.newRid = n, !.sets = s])
BY DEF ConnType, GoodConn

LEMMA GoodPcJwtNoRidSets ==
  ASSUME NEW r \in ConnType, GoodConn(r), NEW p \in ConnPC,
         NEW j \in SUBSET Jwt, \A y \in j : Good(y.cred), NEW s \in SUBSET {"session", "refresh"}
  PROVE  GoodConn([r EXCEPT !.pc = p, !.newJwt = j, !.rid = {}, !.sets = s])
BY DEF ConnType, GoodConn

LEMMA GoodPcSets ==
  ASSUME NEW r \in ConnType, GoodConn(r), NEW p \in ConnPC, NEW s \in SUBSET {"session", "refresh"}
  PROVE  GoodConn([r EXCEPT !.pc = p, !.sets = s])
BY DEF ConnType, GoodConn

LEMMA GoodIdle == GoodConn(IdleConn)
BY DEF IdleConn, GoodConn

(* The requests after one of them is updated to a good record.             *)
LEMMA GoodUpdate ==
  ASSUME TypeOK, CredsGood, NEW c \in Conns, NEW r, GoodConn(r),
         conn' = [conn EXCEPT ![c] = r]
  PROVE  \A d \in Conns : GoodConn(conn'[d])
<1>1. conn \in [Conns -> ConnType]
  BY DEF TypeOK
<1>2. TAKE d \in Conns
<1>3. conn'[d] = r \/ conn'[d] = conn[d]
  BY <1>1
<1>4. QED
  BY <1>3 DEF CredsGood

(* A credential just read from the account row claims what the account has.*)
LEMMA GoodReadAccount ==
  ASSUME TypeOK, NEW u \in Users, status[u] = "active"
  PROVE  \A x \in ReadAccount(u) : Good(x)
<1>1. role[u] \in AllRoles /\ epoch[u] \in Nat
  BY DEF TypeOK
<1>2. QED
  BY <1>1 DEF ReadAccount, Good, Excess, Rank, AllRoles
(* Each step of a request leaves every request with good credentials.      *)
LEMMA ConnGood ==
  ASSUME TypeOK, CredsGood, NEW c \in Conns
  PROVE  /\ conn[c] \in ConnType /\ GoodConn(conn[c])
         /\ \A x \in conn[c].cred : x \in Cred /\ Good(x)
         /\ \A j \in conn[c].jwt \union conn[c].newJwt : j \in Jwt /\ Good(j.cred)
BY ConnTyped DEF CredsGood, GoodConn

LEMMA ArriveGood ==
  ASSUME TypeOK, CredsGood, NEW c \in Conns, NEW b \in Browsers, NEW op \in {"get", "merge"}, Arrive(c, b, op)
  PROVE  \A d \in Conns : GoodConn(conn'[d])
<1> DEFINE js == jar[b].session
           p == IF Live(js) # {} THEN "check" ELSE IF jar[b].rid # {} THEN "lookup"
                ELSE IF js # {} THEN "drop" ELSE "handler"
           r == [IdleConn EXCEPT !.pc = p, !.op = op, !.from = {b}, !.jwt = js, !.rid = jar[b].rid,
                   !.cred = {j.cred : j \in Live(js)}, !.floor = epoch,
                   !.out = revoked \intersect {j.jti : j \in js}]
<1>1. conn' = [conn EXCEPT ![c] = r]
  BY DEF Arrive
<1>2. \A j \in js : Good(j.cred)
  BY DEF CredsGood
<1>3. \A x \in {j.cred : j \in Live(js)} : Good(x)
  BY <1>2 DEF Live
<1> HIDE DEF p, js
<1>4. /\ r.cred = {j.cred : j \in Live(js)} /\ r.jwt = js /\ r.newJwt = {}
  BY DEF IdleConn
<1> HIDE DEF r
<1>5. GoodConn(r)
  BY <1>2, <1>3, <1>4 DEF GoodConn
<1>6. QED
  BY <1>1, <1>5, GoodUpdate

LEMMA LookupRefreshGood ==
  ASSUME TypeOK, CredsGood, NEW c \in Conns, LookupRefresh(c)
  PROVE  \A d \in Conns : GoodConn(conn'[d])
<1>1. "drop" \in ConnPC /\ "locked" \in ConnPC
  BY DEF ConnPC
<1>2. ASSUME NEW r \in Held(conn[c].rid),
             conn' = [conn EXCEPT ![c] = [conn[c] EXCEPT !.pc = "locked", !.cred = {r.cred}]]
      PROVE  \A d \in Conns : GoodConn(conn'[d])
  <2>1. {r.cred} \in SUBSET Cred /\ \A y \in {r.cred} : Good(y)
    BY DEF TypeOK, Held, Refresh, CredsGood
  <2>2. QED
    BY <1>1, <1>2, <2>1, ConnGood, GoodPcCred, GoodUpdate
<1>3. CASE conn' = [conn EXCEPT ![c] = [conn[c] EXCEPT !.pc = "drop"]]
  BY <1>1, <1>3, ConnGood, GoodPc, GoodUpdate
<1>4. QED
  BY <1>2, <1>3 DEF LookupRefresh

LEMMA RenewJwtGood ==
  ASSUME TypeOK, CredsGood, NEW c \in Conns, RenewJwt(c)
  PROVE  \A d \in Conns : GoodConn(conn'[d])
<1>1. "drop" \in ConnPC /\ "handler" \in ConnPC /\ "check" \in ConnPC
  BY DEF ConnPC
<1>2. {"session"} \in SUBSET {"session", "refresh"}
  OBVIOUS
<1>3. ASSUME NEW x \in conn[c].cred, Renewable(x),
             conn' = [conn EXCEPT ![c] =
                        [conn[c] EXCEPT !.pc = IF conn[c].jwt = {} THEN "handler" ELSE "check",
                        !.newJwt = {[jti |-> serial + 1,
                                        cred |-> [x EXCEPT !.sess = epoch[x.user]]]},
                        !.sets = {"session"}]]
      PROVE  \A d \in Conns : GoodConn(conn'[d])
  <2>1. [x EXCEPT !.sess = epoch[x.user]] = x /\ x \in Cred /\ Good(x)
    BY <1>3, ConnGood DEF Renewable, Cred
  <2> DEFINE j == {[jti |-> serial + 1, cred |-> [x EXCEPT !.sess = epoch[x.user]]]}
  <2>2. j \in SUBSET Jwt /\ \A y \in j : Good(y.cred)
    BY <2>1 DEF TypeOK, Jwt
  <2>3. CASE conn[c].jwt = {}
    BY <1>1, <1>2, <1>3, <2>2, <2>3, ConnGood, GoodPcJwtSets, GoodUpdate
  <2>4. CASE conn[c].jwt # {}
    BY <1>1, <1>2, <1>3, <2>2, <2>4, ConnGood, GoodPcJwtSets, GoodUpdate
  <2>5. QED
    BY <2>3, <2>4
<1>4. CASE conn' = [conn EXCEPT ![c] = [conn[c] EXCEPT !.pc = "drop"]]
  BY <1>1, <1>4, ConnGood, GoodPc, GoodUpdate
<1>5. QED
  BY <1>3, <1>4 DEF RenewJwt

LEMMA DropRefreshGood ==
  ASSUME TypeOK, CredsGood, NEW c \in Conns, DropRefresh(c)
  PROVE  \A d \in Conns : GoodConn(conn'[d])
<1>1. "handler" \in ConnPC
  BY DEF ConnPC
<1>2. ({"refresh"} \union (IF conn[c].jwt = {} THEN {} ELSE {"session"})) \in SUBSET {"session", "refresh"}
  OBVIOUS
<1>3. QED
  BY <1>1, <1>2, ConnGood, GoodPcCredSets, GoodUpdate DEF DropRefresh

LEMMA CheckSessionGood ==
  ASSUME TypeOK, CredsGood, NEW c \in Conns, CheckSession(c)
  PROVE  \A d \in Conns : GoodConn(conn'[d])
<1>1. "handler" \in ConnPC
  BY DEF ConnPC
<1>2. (conn[c].sets \union {"session"}) \in SUBSET {"session", "refresh"}
  BY ConnTyped
<1>3. CASE conn' = [conn EXCEPT ![c] = [conn[c] EXCEPT !.pc = "handler"]]
  BY <1>1, <1>3, ConnGood, GoodPc, GoodUpdate
<1>4. CASE conn' = [conn EXCEPT ![c] = [conn[c] EXCEPT !.pc = "handler", !.failOpen = TRUE]]
  BY <1>1, <1>4, ConnGood, GoodPcOpen, GoodUpdate
<1>5. CASE conn' = [conn EXCEPT ![c] = [conn[c] EXCEPT !.pc = "handler", !.cred = {}, !.newJwt = {},
                                !.sets = conn[c].sets \union {"session"}]]
  BY <1>1, <1>2, <1>5, ConnGood, GoodPcCredJwtSets, GoodUpdate
<1>6. QED
  BY <1>3, <1>4, <1>5 DEF CheckSession

LEMMA LoginReadGood ==
  ASSUME TypeOK, CredsGood, NEW c \in Conns, NEW b \in Browsers, NEW u \in Users, LoginRead(c, b, u)
  PROVE  \A d \in Conns : GoodConn(conn'[d])
<1> DEFINE r == [IdleConn EXCEPT !.pc = "stamp", !.op = "login", !.from = {b}, !.cred = ReadAccount(u)]
<1>1. r.cred = ReadAccount(u) /\ r.jwt = {} /\ r.newJwt = {}
  BY DEF IdleConn
<1>2. conn' = [conn EXCEPT ![c] = r] /\ \A x \in ReadAccount(u) : Good(x)
  BY GoodReadAccount DEF LoginRead
<1> HIDE DEF r
<1>3. GoodConn(r)
  BY <1>1, <1>2 DEF GoodConn
<1>4. QED
  BY <1>2, <1>3, GoodUpdate

LEMMA MergeChecksGood ==
  ASSUME TypeOK, CredsGood, NEW c \in Conns,
         MergeSource(c) \/ (\E u \in Users : MergeTarget(c, u)) \/ MergeProvider(c)
  PROVE  \A d \in Conns : GoodConn(conn'[d])
<1>1. /\ {"target", "provider", "transfer", "reply"} \subseteq ConnPC
      /\ \A x \in conn[c].cred : {x.user} \in SUBSET Users
  BY ConnTyped DEF ConnPC, Cred
<1>2. CASE MergeSource(c)
  BY <1>1, <1>2, ConnGood, GoodPc, GoodUpdate DEF MergeSource
<1>3. ASSUME NEW u \in Users, MergeTarget(c, u) PROVE \A d \in Conns : GoodConn(conn'[d])
  <2>1. PICK x \in conn[c].cred :
          conn' = [conn EXCEPT ![c] = [conn[c] EXCEPT !.pc = "provider", !.old = {x.user}, !.cred = ReadAccount(u)]]
    BY <1>3 DEF MergeTarget
  <2>2. status[u] = "active"
    BY <1>3 DEF MergeTarget
  <2>3. QED
    BY <1>1, <2>1, <2>2, ConnGood, ReadAccountTyped, GoodReadAccount, GoodPcOldCred, GoodUpdate
<1>4. CASE MergeProvider(c)
  <2>1. CASE conn' = [conn EXCEPT ![c] = [conn[c] EXCEPT !.pc = "transfer"]]
    BY <1>1, <2>1, ConnGood, GoodPc, GoodUpdate
  <2>2. CASE conn' = [conn EXCEPT ![c] = [conn[c] EXCEPT !.pc = "reply", !.cred = {}, !.old = {}]]
    BY <1>1, <2>2, ConnGood, GoodPcCredOld, GoodUpdate
  <2>3. QED
    BY <1>4, <2>1, <2>2 DEF MergeProvider
<1>5. QED
  BY <1>2, <1>3, <1>4

LEMMA MergeTransferGood ==
  ASSUME TypeOK, CredsGood, NEW c \in Conns, MergeTransfer(c)
  PROVE  \A d \in Conns : GoodConn(conn'[d])
<1>1. "stamp" \in ConnPC /\ "reply" \in ConnPC
  BY DEF ConnPC
<1>2. CASE conn' = [conn EXCEPT ![c] = [conn[c] EXCEPT !.pc = "stamp", !.old = {}]]
  BY <1>1, <1>2, ConnGood, GoodPcOld, GoodUpdate
<1>3. CASE conn' = [conn EXCEPT ![c] = [conn[c] EXCEPT !.pc = "reply", !.cred = {}, !.old = {}]]
  BY <1>1, <1>3, ConnGood, GoodPcCredOld, GoodUpdate
<1>4. QED
  BY <1>2, <1>3 DEF MergeTransfer

(* A stamp newer than the account row marks the credential as straddling;  *)
(* an older one leaves it as superseded as it was.                         *)
LEMMA StampEpochGood ==
  ASSUME TypeOK, CredsGood, NEW c \in Conns, StampEpoch(c)
  PROVE  \A d \in Conns : GoodConn(conn'[d])
<1>1. "issue" \in ConnPC
  BY DEF ConnPC
<1>2. PICK x \in conn[c].cred :
        \E e \in {epoch[x.user]} \union (IF RedisMayFail THEN {0} ELSE {}) :
          conn' = [conn EXCEPT ![c] = [conn[c] EXCEPT !.pc = "issue",
                     !.cred = {[x EXCEPT !.sess = e, !.straddled = x.straddled \/ e > x.sess]}]]
  BY DEF StampEpoch
<1>3. PICK e \in {epoch[x.user]} \union (IF RedisMayFail THEN {0} ELSE {}) :
        conn' = [conn EXCEPT ![c] = [conn[c] EXCEPT !.pc = "issue",
                   !.cred = {[x EXCEPT !.sess = e, !.straddled = x.straddled \/ e > x.sess]}]]
  BY <1>2
<1>4. x \in Cred /\ Good(x)
  BY ConnGood
<1>5. x.user \in Users /\ x.sess \in Nat /\ x.straddled \in BOOLEAN /\ epoch[x.user] \in Nat
  BY <1>4 DEF Cred, TypeOK
<1>6. e \in Nat /\ e <= epoch[x.user]
  BY <1>5
<1> DEFINE s == x.straddled \/ e > x.sess
           y == [x EXCEPT !.sess = e, !.straddled = s]
<1>7. s \in BOOLEAN
  OBVIOUS
<1>8. (e > x.sess => s) /\ (x.straddled => s)
  OBVIOUS
<1> HIDE DEF s
<1>9. y \in Cred /\ y.user = x.user /\ y.role = x.role /\ y.sess = e /\ y.straddled = s
  BY <1>4, <1>6, <1>7 DEF Cred
<1> HIDE DEF y
<1>10. Good(y)
  BY <1>4, <1>5, <1>6, <1>8, <1>9 DEF Good, Excess
<1>11. conn' = [conn EXCEPT ![c] = [conn[c] EXCEPT !.pc = "issue", !.cred = {y}]]
  BY <1>3 DEF y, s
<1>12. {y} \in SUBSET Cred /\ \A z \in {y} : Good(z)
  BY <1>9, <1>10
<1>13. QED
  BY <1>1, <1>11, <1>12, ConnGood, GoodPcCred, GoodUpdate
LEMMA IssueCookiesGood ==
  ASSUME TypeOK, CredsGood, NEW c \in Conns, IssueCookies(c)
  PROVE  /\ \A d \in Conns : GoodConn(conn'[d])
         /\ \A r \in refresh' : Good(r.cred)
<1>1. "reply" \in ConnPC /\ {serial + 1} \in SUBSET Nat
  BY DEF ConnPC, TypeOK
<1>2. /\ (conn[c].sets \union {"session"}) \in SUBSET {"session", "refresh"}
      /\ (conn[c].sets \union LoginCookies(c)) \in SUBSET {"session", "refresh"}
  BY ConnTyped DEF LoginCookies
<1>3. \A x \in conn[c].cred : /\ {[jti |-> serial + 1, cred |-> x]} \in SUBSET Jwt
                              /\ \A y \in {[jti |-> serial + 1, cred |-> x]} : Good(y.cred)
  BY <1>1, ConnGood DEF Jwt
<1>4. \A r \in refresh : Good(r.cred)
  BY DEF CredsGood
<1>5. ASSUME NEW x \in conn[c].cred,
             refresh' = refresh \union {[rid |-> serial + 1, cred |-> x]},
             conn' = [conn EXCEPT ![c] = [conn[c] EXCEPT !.pc = "reply",
                        !.newJwt = {[jti |-> serial + 1, cred |-> x]},
                        !.newRid = {serial + 1}, !.sets = conn[c].sets \union LoginCookies(c)]]
      PROVE  (\A d \in Conns : GoodConn(conn'[d])) /\ (\A r \in refresh' : Good(r.cred))
  <2>1. \A r \in refresh' : Good(r.cred)
    BY <1>4, <1>5, ConnGood
  <2>2. \A d \in Conns : GoodConn(conn'[d])
    BY <1>1, <1>2, <1>3, <1>5, ConnGood, GoodPcJwtRidSets, GoodUpdate
  <2>3. QED
    BY <2>1, <2>2
<1>6. ASSUME NEW x \in conn[c].cred, UNCHANGED refresh,
             conn' = [conn EXCEPT ![c] = [conn[c] EXCEPT !.pc = "reply",
                        !.newJwt = {[jti |-> serial + 1, cred |-> x]}, !.rid = {},
                        !.sets = conn[c].sets \union {"session"}]]
      PROVE  (\A d \in Conns : GoodConn(conn'[d])) /\ (\A r \in refresh' : Good(r.cred))
  BY <1>1, <1>2, <1>3, <1>4, <1>6, ConnGood, GoodPcJwtNoRidSets, GoodUpdate
<1>7. QED
  BY <1>5, <1>6 DEF IssueCookies

(* The browser of an answered request holds its old JWT or the request's.  *)
LEMMA RespondGood ==
  ASSUME TypeOK, CredsGood, NEW c \in Conns, Respond(c)
  PROVE  /\ \A d \in Conns : GoodConn(conn'[d])
         /\ \A b \in Browsers : \A j \in jar'[b].session : Good(j.cred)
<1>1. \A d \in Conns : GoodConn(conn'[d])
  BY GoodIdle, GoodUpdate DEF Respond
<1>2. ASSUME NEW b \in Browsers
      PROVE  jar'[b].session \subseteq jar[b].session \union conn[c].newJwt
  BY DEF Respond
<1>3. QED
  BY <1>1, <1>2, ConnGood DEF CredsGood

-----------------------------------------------------------------------------
(* Good only looks at the accounts, the epochs and the administrators.     *)
LEMMA GoodUnchanged ==
  ASSUME NEW x, UNCHANGED <<role, status, epoch, adm, missed>>
  PROVE  Good(x)' = Good(x)
BY DEF Good, Excess, Owed, Rank

(* If a step keeps good credentials good and brings no others in, then     *)
(* every credential is good after it.                                      *)
LEMMA CredsGoodStep ==
  ASSUME \A x \in Cred : Good(x) => Good(x)',
         TypeOK',
         \A r \in refresh' : Good(r.cred),
         \A b \in Browsers : \A j \in jar'[b].session : Good(j.cred),
         \A c \in Conns : GoodConn(conn'[c])
  PROVE  CredsGood'
<1>1. \A r \in refresh' : Good(r.cred)'
  BY DEF TypeOK, Refresh
<1>2. \A b \in Browsers : \A j \in jar'[b].session : Good(j.cred)'
  BY DEF TypeOK, Jwt
<1>3. ASSUME NEW c \in Conns PROVE GoodConn(conn[c])'
  <2>1. conn'[c].cred \subseteq Cred /\ conn'[c].jwt \subseteq Jwt /\ conn'[c].newJwt \subseteq Jwt
    BY DEF TypeOK, ConnType
  <2>2. \A x \in conn'[c].cred : Good(x)'
    BY <2>1 DEF GoodConn
  <2>3. \A j \in conn'[c].jwt \union conn'[c].newJwt : Good(j.cred)'
    BY <2>1 DEF GoodConn, Jwt
  <2>4. QED
    BY <2>2, <2>3 DEF GoodConn
<1>4. QED
  BY <1>1, <1>2, <1>3 DEF CredsGood

(* An administrator's write puts the account in flight before anything is  *)
(* taken from it; an approval and an unlock only give.                     *)
LEMMA AdminWriteGood ==
  ASSUME TypeOK, AdmOK, NEW a \in Admins, NEW op \in AdminOps, NEW u \in Users, NEW r \in Roles,
         AdminWrite(a, op, u, r), NEW x \in Cred, Good(x)
  PROVE  Good(x)'
<1> USE SessionsAssumption
<1>1. adm[a].user = {} /\ UNCHANGED <<epoch, missed>>
  BY DEF AdminWrite, AdmOK, redis
<1>2. x.user \in Users /\ adm \in [Admins -> [pc : {"idle", "mirror", "bump"}, op : {"role", "lock", "unlock", "delete"}, user : SUBSET Users]]
  BY DEF Cred, TypeOK
<1>3. Owed(x.user) => Owed(x.user)'
  BY <1>1, <1>2 DEF AdminWrite, Owed
<1>4. CASE op \in {"role", "lock", "delete"} /\ x.user = u
  <2>1. adm' = [adm EXCEPT ![a] = [pc |-> AfterWrite(op), op |-> op, user |-> {u}]]
    BY <1>4 DEF AdminWrite, AfterWrite
  <2>2. Owed(x.user)'
    BY <1>2, <1>4, <2>1 DEF Owed
  <2>3. QED
    BY <1>1, <2>2 DEF Good
<1>5. CASE op \notin {"role", "lock", "delete"} \/ x.user # u
  <2>1. Excess(x)' => Excess(x)
    BY <1>2, <1>5 DEF AdminWrite, Excess, Rank, TypeOK
  <2>2. QED
    BY <1>1, <1>3, <2>1 DEF Good
<1>6. QED
  BY <1>4, <1>5

LEMMA AdminMirrorGood ==
  ASSUME TypeOK, AdmOK, NEW a \in Admins, AdminMirror(a), NEW x \in Cred, Good(x)
  PROVE  Good(x)'
<1>1. UNCHANGED <<role, status, epoch, missed>>
  BY DEF AdminMirror, postgres
<1>2. Owed(x.user) => Owed(x.user)'
  BY DEF AdminMirror, BumpingOps, Owed, AdmOK, TypeOK
<1>3. QED
  BY <1>1, <1>2 DEF Good, Excess

(* A bump puts the old credentials below the epoch; a lost one is recorded.*)
LEMMA AdminBumpGood ==
  ASSUME TypeOK, NEW a \in Admins, AdminBump(a), NEW x \in Cred, Good(x)
  PROVE  Good(x)'
<1>1. x.user \in Users /\ x.sess \in Nat /\ epoch[x.user] \in Nat /\ UNCHANGED <<role, status>>
  BY DEF AdminBump, postgres, Cred, TypeOK
<1>2. Excess(x)' = Excess(x)
  BY <1>1 DEF Excess
<1>3. CASE x.user \in adm[a].user
  BY <1>1, <1>2, <1>3 DEF AdminBump, Bumped, Good
<1>4. CASE x.user \notin adm[a].user
  <2>1. Owed(x.user) => Owed(x.user)'
    BY <1>4 DEF AdminBump, Owed, TypeOK
  <2>2. epoch'[x.user] = epoch[x.user] /\ (x.user \in missed => x.user \in missed')
    BY <1>1, <1>4 DEF AdminBump
  <2>3. QED
    BY <1>1, <1>2, <2>1, <2>2 DEF Good
<1>5. QED
  BY <1>3, <1>4

LEMMA MergeTransferKeepsGood ==
  ASSUME TypeOK, NEW c \in Conns, MergeTransfer(c), NEW x \in Cred, Good(x)
  PROVE  Good(x)'
<1>1. UNCHANGED <<role, epoch, adm>>
  BY DEF MergeTransfer, redis
<1>2. Owed(x.user)' = Owed(x.user)
  BY <1>1 DEF Owed
<1>3. x.user \in missed \/ status'[x.user] = status[x.user] \/ x.user \in missed'
  BY DEF MergeTransfer, TypeOK, Cred
<1>4. x.user \in missed => x.user \in missed'
  BY DEF MergeTransfer
<1>5. QED
  BY <1>1, <1>2, <1>3, <1>4 DEF Good, Excess
-----------------------------------------------------------------------------
LEMMA InitIInv == Init => IInv
<1> SUFFICES ASSUME Init PROVE IInv
  OBVIOUS
<1>1. TypeOK
  BY InitTypeOK
<1>2. CredsGood
  BY GoodIdle DEF Init, CredsGood
<1>3. AdmOK
  BY DEF Init, IdleAdm, AdmOK
<1>4. QED
  BY <1>1, <1>2, <1>3 DEF IInv

(* The steps that write anything but requests, cookies and the clock.      *)
Quiet == UNCHANGED <<role, status, linked, epoch, lockMark, refresh, revoked, serial, adm, late, torn>>

LEMMA Footprints ==
  ASSUME [Next]_vars
  PROVE  \/ Quiet
         \/ \E c \in Conns : \/ RenewJwt(c) \/ DropRefresh(c) \/ MergeTransfer(c)
                           \/ IssueCookies(c) \/ LogoutForget(c)
         \/ \E c \in Conns, b \in Browsers : LogoutRevoke(c, b)
         \/ \E a \in Admins : AdminMirror(a) \/ AdminBump(a)
         \/ \E a \in Admins, op \in AdminOps, u \in Users, r \in Roles : AdminWrite(a, op, u, r)
         \/ \E r \in refresh : ExpireRefresh(r)
<1> USE DEF Quiet, postgres, redis, clock, toggles
<1>1. ASSUME NEW c \in Conns, NEW b \in Browsers, NEW op \in {"get", "merge"}, Arrive(c, b, op) PROVE Quiet
  BY <1>1 DEF Arrive
<1>2. ASSUME NEW c \in Conns, NEW b \in Browsers, NEW u \in Users, LoginRead(c, b, u) PROVE Quiet
  BY <1>2 DEF LoginRead
<1>3. ASSUME NEW c \in Conns, MergeSource(c) \/ (\E u \in Users : MergeTarget(c, u)) \/ MergeProvider(c)
      PROVE  Quiet
  BY <1>3 DEF MergeSource, MergeTarget, MergeProvider
<1>4. ASSUME NEW c \in Conns, LookupRefresh(c) PROVE Quiet
  BY <1>4 DEF LookupRefresh
<1>5. ASSUME NEW c \in Conns, CheckLocked(c) PROVE Quiet
  BY <1>5 DEF CheckLocked
<1>6. ASSUME NEW c \in Conns, CheckSession(c) PROVE Quiet
  BY <1>6 DEF CheckSession
<1>7. ASSUME NEW c \in Conns, StampEpoch(c) PROVE Quiet
  BY <1>7 DEF StampEpoch
<1>8. ASSUME NEW c \in Conns, Respond(c) PROVE Quiet
  BY <1>8 DEF Respond
<1>9. ASSUME NEW b \in Browsers, ExpireJwt(b) \/ DropCookies(b) PROVE Quiet
  BY <1>9 DEF ExpireJwt, DropCookies
<1>10. CASE UNCHANGED vars
  BY <1>10 DEF vars
<1> HIDE DEF Quiet, postgres, redis, clock, toggles
<1>11. QED
  BY <1>1, <1>2, <1>3, <1>4, <1>5, <1>6, <1>7, <1>8, <1>9, <1>10 DEF Next, ConnStep, AdminStep

LEMMA AdmOKStep == TypeOK /\ AdmOK /\ [Next]_vars => AdmOK'
<1> SUFFICES ASSUME TypeOK, AdmOK, [Next]_vars PROVE AdmOK'
  OBVIOUS
<1>1. adm \in [Admins -> [pc : {"idle", "mirror", "bump"}, op : {"role", "lock", "unlock", "delete"}, user : SUBSET Users]]
  BY DEF TypeOK
<1>2. ASSUME NEW a \in Admins, NEW op \in AdminOps, NEW u \in Users, NEW r \in Roles,
             AdminWrite(a, op, u, r)
      PROVE  AdmOK'
  BY <1>1, <1>2 DEF AdminWrite, AfterWrite, AdmOK
<1>3. ASSUME NEW a \in Admins, AdminMirror(a) PROVE AdmOK'
  BY <1>1, <1>3 DEF AdminMirror, IdleAdm, AdmOK
<1>4. ASSUME NEW a \in Admins, AdminBump(a) PROVE AdmOK'
  BY <1>1, <1>4 DEF AdminBump, IdleAdm, AdmOK
<1>5. CASE UNCHANGED adm
  BY <1>5 DEF AdmOK
<1>6. ASSUME NEW c \in Conns, \/ RenewJwt(c) \/ DropRefresh(c) \/ MergeTransfer(c)
                              \/ IssueCookies(c) \/ LogoutForget(c)
      PROVE  UNCHANGED adm
  BY <1>6 DEF RenewJwt, DropRefresh, MergeTransfer, IssueCookies, LogoutForget
<1>7. ASSUME NEW c \in Conns, NEW b \in Browsers, LogoutRevoke(c, b) PROVE UNCHANGED adm
  BY <1>7 DEF LogoutRevoke
<1>8. ASSUME NEW r \in refresh, ExpireRefresh(r) PROVE UNCHANGED adm
  BY <1>8 DEF ExpireRefresh
<1>9. QED
  BY <1>2, <1>3, <1>4, <1>5, <1>6, <1>7, <1>8, Footprints DEF Quiet

(* A step that touches neither accounts nor epochs nor administrators      *)
(* keeps every credential good if those it leaves anywhere were good.      *)
LEMMA QuietStep ==
  ASSUME TypeOK, CredsGood, TypeOK', UNCHANGED <<role, status, epoch, adm, missed>>,
         \A r \in refresh' : Good(r.cred),
         \A b \in Browsers : \A j \in jar'[b].session : Good(j.cred),
         \A c \in Conns : GoodConn(conn'[c])
  PROVE  CredsGood'
BY GoodUnchanged, CredsGoodStep

LEMMA CredsGoodInductive == IInv /\ [Next]_vars => CredsGood'
<1> SUFFICES ASSUME IInv, [Next]_vars PROVE CredsGood'
  OBVIOUS
<1> USE DEF postgres, redis, clock
<1>0. TypeOK /\ CredsGood /\ AdmOK /\ TypeOK'
  BY TypeStep DEF IInv
<1>a. /\ \A r \in refresh : Good(r.cred)
      /\ \A b \in Browsers : \A j \in jar[b].session : Good(j.cred)
      /\ \A c \in Conns : GoodConn(conn[c])
  BY <1>0 DEF CredsGood
<1>1. ASSUME NEW c \in Conns, NEW b \in Browsers, NEW op \in {"get", "merge"}, Arrive(c, b, op)
      PROVE  CredsGood'
  <2>1. UNCHANGED <<role, status, epoch, adm, missed, refresh, jar>>
    BY <1>1 DEF Arrive
  <2>2. QED
    BY <1>0, <1>a, <1>1, <2>1, ArriveGood, QuietStep
<1>2. ASSUME NEW c \in Conns, LookupRefresh(c) PROVE CredsGood'
  <2>1. UNCHANGED <<role, status, epoch, adm, missed, refresh, jar>>
    BY <1>2 DEF LookupRefresh
  <2>2. QED
    BY <1>0, <1>a, <1>2, <2>1, LookupRefreshGood, QuietStep
<1>3. ASSUME NEW c \in Conns, CheckLocked(c) PROVE CredsGood'
  <2>1. UNCHANGED <<role, status, epoch, adm, missed, refresh, jar>>
    BY <1>3 DEF CheckLocked
  <2>2. "drop" \in ConnPC /\ "epoch" \in ConnPC
    BY DEF ConnPC
  <2>3. \A d \in Conns : GoodConn(conn'[d])
    BY <1>0, <1>3, <2>2, ConnGood, GoodPc, GoodUpdate DEF CheckLocked
  <2>4. QED
    BY <1>0, <1>a, <2>1, <2>3, QuietStep
<1>4. ASSUME NEW c \in Conns, RenewJwt(c) PROVE CredsGood'
  <2>1. UNCHANGED <<role, status, epoch, adm, missed, refresh, jar>>
    BY <1>4 DEF RenewJwt
  <2>2. QED
    BY <1>0, <1>a, <1>4, <2>1, RenewJwtGood, QuietStep
<1>5. ASSUME NEW c \in Conns, DropRefresh(c) PROVE CredsGood'
  <2>1. UNCHANGED <<role, status, epoch, adm, missed, jar>> /\ refresh' \subseteq refresh
    BY <1>5 DEF DropRefresh
  <2>2. QED
    BY <1>0, <1>a, <1>5, <2>1, DropRefreshGood, QuietStep
<1>6. ASSUME NEW c \in Conns, CheckSession(c) PROVE CredsGood'
  <2>1. UNCHANGED <<role, status, epoch, adm, missed, refresh, jar>>
    BY <1>6 DEF CheckSession
  <2>2. QED
    BY <1>0, <1>a, <1>6, <2>1, CheckSessionGood, QuietStep
<1>7. ASSUME NEW c \in Conns, NEW b \in Browsers, NEW u \in Users, LoginRead(c, b, u) PROVE CredsGood'
  <2>1. UNCHANGED <<role, status, epoch, adm, missed, refresh, jar>>
    BY <1>7 DEF LoginRead
  <2>2. QED
    BY <1>0, <1>a, <1>7, <2>1, LoginReadGood, QuietStep
<1>8. ASSUME NEW c \in Conns, MergeSource(c) \/ (\E u \in Users : MergeTarget(c, u)) \/ MergeProvider(c)
      PROVE  CredsGood'
  <2>1. UNCHANGED <<role, status, epoch, adm, missed, refresh, jar>>
    BY <1>8 DEF MergeSource, MergeTarget, MergeProvider
  <2>2. QED
    BY <1>0, <1>a, <1>8, <2>1, MergeChecksGood, QuietStep
<1>9. ASSUME NEW c \in Conns, MergeTransfer(c) PROVE CredsGood'
  <2>1. UNCHANGED <<refresh, jar>>
    BY <1>9 DEF MergeTransfer
  <2>2. QED
    BY <1>0, <1>a, <1>9, <2>1, MergeTransferGood, MergeTransferKeepsGood, CredsGoodStep
<1>10. ASSUME NEW c \in Conns, StampEpoch(c) PROVE CredsGood'
  <2>1. UNCHANGED <<role, status, epoch, adm, missed, refresh, jar>>
    BY <1>10 DEF StampEpoch
  <2>2. QED
    BY <1>0, <1>a, <1>10, <2>1, StampEpochGood, QuietStep
<1>11. ASSUME NEW c \in Conns, IssueCookies(c) PROVE CredsGood'
  <2>1. UNCHANGED <<role, status, epoch, adm, missed, jar>>
    BY <1>11 DEF IssueCookies
  <2>2. QED
    BY <1>0, <1>a, <1>11, <2>1, IssueCookiesGood, QuietStep
<1>12. ASSUME NEW c \in Conns, NEW b \in Browsers, LogoutRevoke(c, b) PROVE CredsGood'
  <2> DEFINE r == [IdleConn EXCEPT !.pc = "forget", !.op = "logout", !.from = {b}, !.rid = jar[b].rid]
  <2>1. UNCHANGED <<role, status, epoch, adm, missed, refresh, jar>> /\ conn' = [conn EXCEPT ![c] = r]
    BY <1>12 DEF LogoutRevoke
  <2>2. r.cred = {} /\ r.jwt = {} /\ r.newJwt = {}
    BY DEF IdleConn
  <2> HIDE DEF r
  <2>3. GoodConn(r)
    BY <2>2 DEF GoodConn
  <2>4. QED
    BY <1>0, <1>a, <2>1, <2>3, GoodUpdate, QuietStep
<1>13. ASSUME NEW c \in Conns, LogoutForget(c) PROVE CredsGood'
  <2>1. UNCHANGED <<role, status, epoch, adm, missed, jar>> /\ refresh' \subseteq refresh
    BY <1>13 DEF LogoutForget
  <2>2. "reply" \in ConnPC /\ {"session", "refresh"} \in SUBSET {"session", "refresh"}
    BY DEF ConnPC
  <2>3. \A d \in Conns : GoodConn(conn'[d])
    BY <1>0, <1>13, <2>2, ConnGood, GoodPcSets, GoodUpdate DEF LogoutForget
  <2>4. QED
    BY <1>0, <1>a, <2>1, <2>3, QuietStep
<1>14. ASSUME NEW c \in Conns, Respond(c) PROVE CredsGood'
  <2>1. UNCHANGED <<role, status, epoch, adm, missed, refresh>>
    BY <1>14 DEF Respond
  <2>2. QED
    BY <1>0, <1>a, <1>14, <2>1, RespondGood, QuietStep
<1>15. ASSUME NEW a \in Admins, NEW op \in AdminOps, NEW u \in Users, NEW r \in Roles,
              AdminWrite(a, op, u, r)
       PROVE CredsGood'
  <2>1. UNCHANGED <<refresh, jar, conn>>
    BY <1>15 DEF AdminWrite
  <2>2. QED
    BY <1>0, <1>a, <1>15, <2>1, AdminWriteGood, CredsGoodStep
<1>16. ASSUME NEW a \in Admins, AdminMirror(a) PROVE CredsGood'
  <2>1. UNCHANGED <<refresh, jar, conn>>
    BY <1>16 DEF AdminMirror
  <2>2. QED
    BY <1>0, <1>a, <1>16, <2>1, AdminMirrorGood, CredsGoodStep
<1>17. ASSUME NEW a \in Admins, AdminBump(a) PROVE CredsGood'
  <2>1. UNCHANGED <<refresh, jar, conn>>
    BY <1>17 DEF AdminBump
  <2>2. QED
    BY <1>0, <1>a, <1>17, <2>1, AdminBumpGood, CredsGoodStep
<1>18. ASSUME NEW b \in Browsers, ExpireJwt(b) PROVE CredsGood'
  <2>1. UNCHANGED <<role, status, epoch, adm, missed, refresh, jar, conn>>
    BY <1>18 DEF ExpireJwt
  <2>2. QED
    BY <1>0, <1>a, <2>1, QuietStep
<1>19. ASSUME NEW b \in Browsers, DropCookies(b) PROVE CredsGood'
  <2>1. UNCHANGED <<role, status, epoch, adm, missed, refresh, conn>>
    BY <1>19 DEF DropCookies
  <2>2. \A d \in Browsers : jar'[d].session \subseteq jar[d].session
    <3>1. jar \in [Browsers -> [session : SUBSET Jwt, rid : SUBSET Nat]]
      BY <1>0 DEF TypeOK
    <3>2. CASE jar' = [jar EXCEPT ![b].session = {}]
      BY <3>1, <3>2
    <3>3. CASE jar' = [jar EXCEPT ![b] = [session |-> {}, rid |-> {}]]
      BY <3>1, <3>3
    <3>4. QED
      BY <1>19, <3>2, <3>3 DEF DropCookies
  <2>3. QED
    BY <1>0, <1>a, <2>1, <2>2, QuietStep
<1>20. ASSUME NEW r \in refresh, ExpireRefresh(r) PROVE CredsGood'
  <2>1. UNCHANGED <<role, status, epoch, adm, missed, jar, conn>> /\ refresh' \subseteq refresh
    BY <1>20 DEF ExpireRefresh
  <2>2. QED
    BY <1>0, <1>a, <2>1, QuietStep
<1>21. CASE UNCHANGED vars
  BY <1>0, <1>a, <1>21, QuietStep DEF vars
<1>22. QED
  BY <1>1, <1>2, <1>3, <1>4, <1>5, <1>6, <1>7, <1>8, <1>9, <1>10, <1>11, <1>12, <1>13,
     <1>14, <1>15, <1>16, <1>17, <1>18, <1>19, <1>20, <1>21
     DEF Next, ConnStep, AdminStep

LEMMA IInvCovers == IInv => RevocationCovers
BY DEF IInv, CredsGood, GoodConn, Good, RevocationCovers, AllCreds, StoredCreds, ConnCreds

(* A credential that claims more than its account has is refused by its    *)
(* epoch, or its revocation is still running, was lost, or was straddled   *)
(* by the login: middleware, logins, merges and administrators together.   *)
THEOREM RevocationIsCovered == Spec => []RevocationCovers
<1>1. IInv /\ [Next]_vars => IInv'
  BY TypeStep, CredsGoodInductive, AdmOKStep DEF IInv
<1>2. QED
  BY InitIInv, IInvCovers, <1>1, PTL DEF Spec
-----------------------------------------------------------------------------
(* What a request is served on.                                            *)

AtMostOne(s) == \A x, y \in s : x = y

(* The access token the session check reads: a renewed one, or the cookie. *)
Presented(r) == IF r.newJwt # {} THEN r.newJwt ELSE r.jwt

CurrentCreds(r) == \A x \in r.cred : x.sess >= r.floor[x.user]
NotRevoked(r) == r.cred # {} /\ r.newJwt = {} => \A j \in r.jwt : j.jti \notin r.out

(* A request about to be checked carries the account of the token that is  *)
(* checked; one that passed carries nothing superseded or revoked.         *)
Vetted(r) ==
  /\ AtMostOne(r.jwt) /\ AtMostOne(r.newJwt)
  /\ r.pc \in {"locked", "epoch"} => AtMostOne(r.cred)
  /\ r.pc = "check" => \A x \in r.cred : \E j \in Presented(r) : j.cred = x
  /\ r.pc = "handler" /\ ~r.failOpen => CurrentCreds(r) /\ NotRevoked(r)

(* What held when the request arrived still holds.                         *)
Since(r) == r.out \subseteq revoked /\ \A u \in Users : r.floor[u] <= epoch[u]

(* ServedIsCurrent, made inductive.                                        *)
ServedInv ==
  /\ \A b \in Browsers : AtMostOne(jar[b].session)
  /\ \A c \in Conns : Vetted(conn[c]) /\ Since(conn[c])

(* Epochs only grow, and a revoked token stays revoked.                    *)
LEMMA NothingIsUnrevoked ==
  ASSUME TypeOK, [Next]_vars
  PROVE  revoked \subseteq revoked' /\ \A u \in Users : epoch[u] <= epoch'[u]
<1>1. \A u \in Users : epoch[u] \in Nat
  BY DEF TypeOK
<1>2. ASSUME NEW c \in Conns, NEW b \in Browsers, LogoutRevoke(c, b)
      PROVE  revoked \subseteq revoked' /\ UNCHANGED epoch
  BY <1>2 DEF LogoutRevoke
<1>3. ASSUME NEW a \in Admins, AdminBump(a)
      PROVE  UNCHANGED revoked /\ \A u \in Users : epoch[u] <= epoch'[u]
  BY <1>1, <1>3 DEF AdminBump, Bumped
<1>4. ASSUME NEW c \in Conns, \/ RenewJwt(c) \/ DropRefresh(c) \/ MergeTransfer(c)
                              \/ IssueCookies(c) \/ LogoutForget(c)
      PROVE  UNCHANGED <<epoch, revoked>>
  BY <1>4 DEF redis, RenewJwt, DropRefresh, MergeTransfer, IssueCookies, LogoutForget
<1>5. ASSUME NEW a \in Admins, AdminMirror(a) PROVE UNCHANGED <<epoch, revoked>>
  BY <1>5 DEF AdminMirror
<1>6. ASSUME NEW a \in Admins, NEW op \in AdminOps, NEW u \in Users, NEW r \in Roles, AdminWrite(a, op, u, r)
      PROVE  UNCHANGED <<epoch, revoked>>
  BY <1>6 DEF AdminWrite, redis
<1>7. ASSUME NEW r \in refresh, ExpireRefresh(r) PROVE UNCHANGED <<epoch, revoked>>
  BY <1>7 DEF ExpireRefresh
<1>8. CASE UNCHANGED <<epoch, revoked>>
  BY <1>1, <1>8
<1>9. QED
  BY <1>1, <1>2, <1>3, <1>4, <1>5, <1>6, <1>7, <1>8, Footprints DEF Quiet

(* A request changes to a vetted record whose history is no newer than     *)
(* its record's, and browsers keep one access token each.                  *)
LEMMA ServedStep ==
  ASSUME TypeOK, TypeOK', ServedInv,
         revoked \subseteq revoked', \A u \in Users : epoch[u] <= epoch'[u],
         \A b \in Browsers : AtMostOne(jar'[b].session),
         NEW c \in Conns, NEW r \in ConnType, conn' = [conn EXCEPT ![c] = r],
         Vetted(r), r.out \subseteq revoked, \A u \in Users : r.floor[u] <= epoch[u]
  PROVE  ServedInv'
<1>1. conn \in [Conns -> ConnType] /\ \A u \in Users : epoch[u] \in Nat /\ epoch'[u] \in Nat
  BY DEF TypeOK
<1>2. ASSUME NEW d \in Conns
      PROVE  Vetted(conn'[d]) /\ conn'[d].out \subseteq revoked' /\ \A u \in Users : conn'[d].floor[u] <= epoch'[u]
  <2>1. CASE d = c
    <3>1. conn'[d] = r /\ \A u \in Users : r.floor[u] \in Nat
      BY <1>1, <2>1 DEF ConnType
    <3>2. QED
      BY <1>1, <3>1
  <2>2. CASE d # c
    <3>1. conn'[d] = conn[d] /\ \A u \in Users : conn[d].floor[u] \in Nat
      BY <1>1, <2>2 DEF ConnType
    <3>2. QED
      BY <1>1, <3>1 DEF ServedInv, Since
  <2>3. QED
    BY <2>1, <2>2
<1>3. QED
  BY <1>2 DEF ServedInv, Since

(* The same with the request's history as it was.                          *)
LEMMA ServedOnward ==
  ASSUME TypeOK, TypeOK', ServedInv,
         revoked \subseteq revoked', \A u \in Users : epoch[u] <= epoch'[u],
         \A b \in Browsers : AtMostOne(jar'[b].session),
         NEW c \in Conns, NEW r, conn' = [conn EXCEPT ![c] = r],
         Vetted(r), r.out = conn[c].out, r.floor = conn[c].floor
  PROVE  ServedInv'
<1>1. conn \in [Conns -> ConnType] /\ conn' \in [Conns -> ConnType]
  BY DEF TypeOK
<1>2. r \in ConnType
  BY <1>1
<1>3. r.out \subseteq revoked /\ \A u \in Users : r.floor[u] <= epoch[u]
  BY DEF ServedInv, Since
<1>4. QED
  BY <1>2, <1>3, ServedStep

(* Where no credential is being checked or served, few of its tokens       *)
(* suffice.                                                                *)
LEMMA VettedElsewhere ==
  ASSUME NEW r, AtMostOne(r.jwt), AtMostOne(r.newJwt), r.pc \notin {"locked", "epoch", "check", "handler"}
  PROVE  Vetted(r)
BY DEF Vetted

LEMMA ArriveServed ==
  ASSUME TypeOK, TypeOK', ServedInv, [Next]_vars,
         NEW c \in Conns, NEW b \in Browsers, NEW op \in {"get", "merge"}, Arrive(c, b, op)
  PROVE  ServedInv'
<1> DEFINE js == jar[b].session
           p == IF Live(js) # {} THEN "check" ELSE IF jar[b].rid # {} THEN "lookup"
                ELSE IF js # {} THEN "drop" ELSE "handler"
           r == [IdleConn EXCEPT !.pc = p, !.op = op, !.from = {b}, !.jwt = js, !.rid = jar[b].rid,
                   !.cred = {j.cred : j \in Live(js)}, !.floor = epoch,
                   !.out = revoked \intersect {j.jti : j \in js}]
<1>1. conn' = [conn EXCEPT ![c] = r] /\ UNCHANGED jar
  BY DEF Arrive
<1>2. Live(js) \subseteq js /\ AtMostOne(js)
  BY DEF Live, ServedInv
<1>3. /\ p = "handler" => js = {}
      /\ p \notin {"locked", "epoch"}
  OBVIOUS
<1>4. conn' \in [Conns -> ConnType] /\ conn \in [Conns -> ConnType] /\ \A u \in Users : epoch[u] \in Nat
  BY DEF TypeOK
<1> HIDE DEF p, js
<1>5. /\ r.pc = p /\ r.cred = {j.cred : j \in Live(js)} /\ r.jwt = js /\ r.newJwt = {}
      /\ r.floor = epoch /\ r.out = revoked \intersect {j.jti : j \in js}
  BY DEF IdleConn
<1> HIDE DEF r
<1>6. Vetted(r)
  BY <1>2, <1>3, <1>5 DEF Vetted, AtMostOne, Presented, CurrentCreds, NotRevoked
<1>7. r \in ConnType
  BY <1>1, <1>4
<1>8. r.out \subseteq revoked /\ \A u \in Users : r.floor[u] <= epoch[u]
  BY <1>4, <1>5
<1>9. QED
  BY <1>1, <1>6, <1>7, <1>8, NothingIsUnrevoked, ServedStep DEF ServedInv

(* What a step of a request may rely on.                                   *)
LEMMA Requested ==
  ASSUME TypeOK, TypeOK', ServedInv, NEW c \in Conns, [Next]_vars
  PROVE  /\ conn[c] \in ConnType /\ Vetted(conn[c]) /\ Since(conn[c])
         /\ revoked \subseteq revoked' /\ \A u \in Users : epoch[u] <= epoch'[u]
BY NothingIsUnrevoked DEF TypeOK, ServedInv

LEMMA LookupServed ==
  ASSUME TypeOK, TypeOK', ServedInv, [Next]_vars, NEW c \in Conns, LookupRefresh(c)
  PROVE  ServedInv'
<1>1. UNCHANGED jar
  BY DEF LookupRefresh
<1>2. ASSUME NEW q \in Held(conn[c].rid),
             conn' = [conn EXCEPT ![c] = [conn[c] EXCEPT !.pc = "locked", !.cred = {q.cred}]]
      PROVE  ServedInv'
  <2> DEFINE r == [conn[c] EXCEPT !.pc = "locked", !.cred = {q.cred}]
  <2>1. /\ r.pc = "locked" /\ r.cred = {q.cred} /\ r.jwt = conn[c].jwt /\ r.newJwt = conn[c].newJwt
        /\ r.out = conn[c].out /\ r.floor = conn[c].floor
    BY Requested DEF ConnType
  <2>2. Vetted(r)
    BY <2>1, Requested DEF Vetted, AtMostOne
  <2>3. QED
    BY <1>1, <1>2, <2>1, <2>2, Requested, ServedOnward DEF ServedInv
<1>3. CASE conn' = [conn EXCEPT ![c] = [conn[c] EXCEPT !.pc = "drop"]]
  <2> DEFINE r == [conn[c] EXCEPT !.pc = "drop"]
  <2>1. /\ r.pc = "drop" /\ r.jwt = conn[c].jwt /\ r.newJwt = conn[c].newJwt
        /\ r.out = conn[c].out /\ r.floor = conn[c].floor
    BY Requested DEF ConnType
  <2>2. Vetted(r)
    BY <2>1, Requested DEF Vetted
  <2>3. QED
    BY <1>1, <1>3, <2>1, <2>2, Requested, ServedOnward DEF ServedInv
<1>4. QED
  BY <1>2, <1>3 DEF LookupRefresh

LEMMA CheckLockedServed ==
  ASSUME TypeOK, TypeOK', ServedInv, [Next]_vars, NEW c \in Conns, CheckLocked(c)
  PROVE  ServedInv'
<1>1. PICK p \in {"drop", "epoch"} : conn' = [conn EXCEPT ![c] = [conn[c] EXCEPT !.pc = p]]
  BY DEF CheckLocked
<1>2. UNCHANGED jar /\ conn[c].pc = "locked"
  BY DEF CheckLocked
<1> DEFINE r == [conn[c] EXCEPT !.pc = p]
<1>3. /\ r.pc = p /\ r.cred = conn[c].cred /\ r.jwt = conn[c].jwt /\ r.newJwt = conn[c].newJwt
      /\ r.out = conn[c].out /\ r.floor = conn[c].floor
  BY Requested DEF ConnType
<1> HIDE DEF r
<1>4. Vetted(r)
  BY <1>2, <1>3, Requested DEF Vetted
<1>5. QED
  BY <1>1, <1>2, <1>3, <1>4, Requested, ServedOnward DEF ServedInv, r

(* The identity of a renewal carries the current epoch, which is no older  *)
(* than the arrival's.                                                     *)
LEMMA RenewServed ==
  ASSUME TypeOK, TypeOK', ServedInv, [Next]_vars, NEW c \in Conns, RenewJwt(c)
  PROVE  ServedInv'
<1>1. UNCHANGED jar /\ conn[c].pc = "epoch"
  BY DEF RenewJwt
<1>2. ASSUME NEW x \in conn[c].cred, Renewable(x),
             conn' = [conn EXCEPT ![c] =
                        [conn[c] EXCEPT !.pc = IF conn[c].jwt = {} THEN "handler" ELSE "check",
                                        !.newJwt = {[jti |-> serial + 1,
                                                     cred |-> [x EXCEPT !.sess = epoch[x.user]]]},
                                        !.sets = {"session"}]]
      PROVE  ServedInv'
  <2>1. x \in Cred /\ [x EXCEPT !.sess = epoch[x.user]] = x
    BY <1>2, ConnTyped DEF Renewable, Cred
  <2> DEFINE j == [jti |-> serial + 1, cred |-> x]
             p == IF conn[c].jwt = {} THEN "handler" ELSE "check"
             r == [conn[c] EXCEPT !.pc = p, !.newJwt = {j}, !.sets = {"session"}]
  <2>2. p \in {"handler", "check"} /\ j.cred = x
    OBVIOUS
  <2>3. conn' = [conn EXCEPT ![c] = r]
    BY <1>2, <2>1
  <2> HIDE DEF p, j
  <2>4. /\ r.pc = p /\ r.cred = conn[c].cred /\ r.jwt = conn[c].jwt /\ r.newJwt = {j}
        /\ r.out = conn[c].out /\ r.floor = conn[c].floor
    BY Requested DEF ConnType
  <2> HIDE DEF r
  <2>5. \A y \in r.cred : y = x
    BY <1>1, <2>4, Requested DEF Vetted, AtMostOne
  <2>6. x.user \in Users /\ x.sess = epoch[x.user] /\ r.floor[x.user] <= epoch[x.user]
    BY <1>2, <2>1, <2>4, Requested DEF Renewable, Cred, Since
  <2>7. Vetted(r)
    BY <2>2, <2>4, <2>5, <2>6, Requested DEF Vetted, AtMostOne, Presented, CurrentCreds, NotRevoked
  <2>8. QED
    BY <1>1, <2>3, <2>4, <2>7, Requested, ServedOnward DEF ServedInv
<1>3. CASE conn' = [conn EXCEPT ![c] = [conn[c] EXCEPT !.pc = "drop"]]
  <2> DEFINE r == [conn[c] EXCEPT !.pc = "drop"]
  <2>1. /\ r.pc = "drop" /\ r.jwt = conn[c].jwt /\ r.newJwt = conn[c].newJwt
        /\ r.out = conn[c].out /\ r.floor = conn[c].floor
    BY Requested DEF ConnType
  <2>2. Vetted(r)
    BY <2>1, Requested DEF Vetted
  <2>3. QED
    BY <1>1, <1>3, <2>1, <2>2, Requested, ServedOnward DEF ServedInv
<1>4. QED
  BY <1>2, <1>3 DEF RenewJwt

(* A guest holds nothing that could be superseded or revoked.              *)
LEMMA DropServed ==
  ASSUME TypeOK, TypeOK', ServedInv, [Next]_vars, NEW c \in Conns, DropRefresh(c)
  PROVE  ServedInv'
<1> DEFINE s == {"refresh"} \union (IF conn[c].jwt = {} THEN {} ELSE {"session"})
           r == [conn[c] EXCEPT !.pc = "handler", !.cred = {}, !.sets = s]
<1>1. UNCHANGED jar /\ conn' = [conn EXCEPT ![c] = r]
  BY DEF DropRefresh
<1> HIDE DEF s
<1>2. /\ r.pc = "handler" /\ r.cred = {} /\ r.jwt = conn[c].jwt /\ r.newJwt = conn[c].newJwt
      /\ r.out = conn[c].out /\ r.floor = conn[c].floor
  BY Requested DEF ConnType
<1> HIDE DEF r
<1>3. Vetted(r)
  BY <1>2, Requested DEF Vetted, CurrentCreds, NotRevoked
<1>4. QED
  BY <1>1, <1>2, <1>3, Requested, ServedOnward DEF ServedInv

(* The check lets a token through that is neither revoked nor superseded   *)
(* now, so neither was it when the request arrived.                        *)
LEMMA CheckServed ==
  ASSUME TypeOK, TypeOK', ServedInv, [Next]_vars, NEW c \in Conns, CheckSession(c)
  PROVE  ServedInv'
<1>1. UNCHANGED jar /\ conn[c].pc = "check"
  BY DEF CheckSession
<1>2. ASSUME NEW j \in Presented(conn[c]), ~Stale(j),
             conn' = [conn EXCEPT ![c] = [conn[c] EXCEPT !.pc = "handler"]]
      PROVE  ServedInv'
  <2> DEFINE r == [conn[c] EXCEPT !.pc = "handler"]
  <2>1. /\ r.pc = "handler" /\ r.cred = conn[c].cred /\ r.jwt = conn[c].jwt /\ r.newJwt = conn[c].newJwt
        /\ r.out = conn[c].out /\ r.floor = conn[c].floor
    BY Requested DEF ConnType
  <2> HIDE DEF r
  <2>2. j.cred.user \in Users
    BY ConnTyped DEF Presented, Jwt, Cred
  <2>3. \A y \in r.cred : y = j.cred
    BY <1>1, <1>2, <2>1, Requested DEF Vetted, AtMostOne, Presented
  <2>4. r.floor[j.cred.user] <= j.cred.sess /\ j.jti \notin r.out
    BY <1>2, <2>1, <2>2, Requested DEF Since, Stale
  <2>5. r.newJwt = {} => \A i \in r.jwt : i = j
    BY <2>1, Requested DEF Vetted, AtMostOne, Presented
  <2>6. CurrentCreds(r) /\ NotRevoked(r)
    <3>1. CurrentCreds(r)
      BY <2>3, <2>4, <2>2, ConnTyped, Requested, <2>1 DEF CurrentCreds, Presented, Jwt, Cred, ConnType
    <3>2. QED
      BY <3>1, <2>4, <2>5 DEF NotRevoked
  <2>7. Vetted(r)
    BY <2>1, <2>6, Requested DEF Vetted
  <2>8. QED
    BY <1>1, <1>2, <2>1, <2>7, Requested, ServedOnward DEF ServedInv, r
<1>3. CASE conn' = [conn EXCEPT ![c] = [conn[c] EXCEPT !.pc = "handler", !.failOpen = TRUE]]
  <2> DEFINE r == [conn[c] EXCEPT !.pc = "handler", !.failOpen = TRUE]
  <2>1. /\ r.pc = "handler" /\ r.failOpen /\ r.jwt = conn[c].jwt /\ r.newJwt = conn[c].newJwt
        /\ r.out = conn[c].out /\ r.floor = conn[c].floor
    BY Requested DEF ConnType
  <2>2. Vetted(r)
    BY <2>1, Requested DEF Vetted
  <2>3. QED
    BY <1>1, <1>3, <2>1, <2>2, Requested, ServedOnward DEF ServedInv
<1>4. CASE conn' = [conn EXCEPT ![c] = [conn[c] EXCEPT !.pc = "handler", !.cred = {}, !.newJwt = {},
                                                       !.sets = conn[c].sets \union {"session"}]]
  <2> DEFINE r == [conn[c] EXCEPT !.pc = "handler", !.cred = {}, !.newJwt = {}, !.sets = conn[c].sets \union {"session"}]
  <2>1. /\ r.pc = "handler" /\ r.cred = {} /\ r.jwt = conn[c].jwt /\ r.newJwt = {}
        /\ r.out = conn[c].out /\ r.floor = conn[c].floor
    BY Requested DEF ConnType
  <2> HIDE DEF r
  <2>2. Vetted(r)
    BY <2>1, Requested DEF Vetted, AtMostOne, CurrentCreds, NotRevoked
  <2>3. QED
    BY <1>1, <1>4, <2>1, <2>2, Requested, ServedOnward DEF ServedInv, r
<1>5. QED
  BY <1>2, <1>3, <1>4 DEF CheckSession, Presented

LEMMA LoginReadServed ==
  ASSUME TypeOK, TypeOK', ServedInv, [Next]_vars,
         NEW c \in Conns, NEW b \in Browsers, NEW u \in Users, LoginRead(c, b, u)
  PROVE  ServedInv'
<1> DEFINE r == [IdleConn EXCEPT !.pc = "stamp", !.op = "login", !.from = {b}, !.cred = ReadAccount(u)]
<1>1. UNCHANGED jar /\ conn' = [conn EXCEPT ![c] = r]
  BY DEF LoginRead
<1>2. /\ r.pc = "stamp" /\ r.jwt = {} /\ r.newJwt = {} /\ r.out = {}
      /\ r.floor = [w \in Users |-> 0]
  BY DEF IdleConn
<1>3. conn' \in [Conns -> ConnType] /\ conn \in [Conns -> ConnType] /\ \A w \in Users : epoch[w] \in Nat
  BY DEF TypeOK
<1> HIDE DEF r
<1>4. Vetted(r)
  BY <1>2, VettedElsewhere DEF AtMostOne
<1>5. r \in ConnType /\ r.out \subseteq revoked /\ \A w \in Users : r.floor[w] <= epoch[w]
  BY <1>1, <1>2, <1>3
<1>6. QED
  BY <1>1, <1>4, <1>5, Requested, ServedStep DEF ServedInv

LEMMA LogoutRevokeServed ==
  ASSUME TypeOK, TypeOK', ServedInv, [Next]_vars, NEW c \in Conns, NEW b \in Browsers, LogoutRevoke(c, b)
  PROVE  ServedInv'
<1> DEFINE r == [IdleConn EXCEPT !.pc = "forget", !.op = "logout", !.from = {b}, !.rid = jar[b].rid]
<1>1. UNCHANGED jar /\ conn' = [conn EXCEPT ![c] = r]
  BY DEF LogoutRevoke
<1>2. /\ r.pc = "forget" /\ r.jwt = {} /\ r.newJwt = {} /\ r.out = {}
      /\ r.floor = [w \in Users |-> 0]
  BY DEF IdleConn
<1>3. conn' \in [Conns -> ConnType] /\ conn \in [Conns -> ConnType] /\ \A w \in Users : epoch[w] \in Nat
  BY DEF TypeOK
<1> HIDE DEF r
<1>4. Vetted(r)
  BY <1>2, VettedElsewhere DEF AtMostOne
<1>5. r \in ConnType /\ r.out \subseteq revoked /\ \A w \in Users : r.floor[w] <= epoch[w]
  BY <1>1, <1>2, <1>3
<1>6. QED
  BY <1>1, <1>4, <1>5, Requested, ServedStep DEF ServedInv

(* A step of a merge, a login or a logout that leaves at most one of each  *)
(* token.                                                                  *)
LEMMA BusyServed ==
  ASSUME TypeOK, TypeOK', ServedInv, [Next]_vars, UNCHANGED jar,
         NEW c \in Conns, NEW r, conn' = [conn EXCEPT ![c] = r],
         r.pc \in {"target", "provider", "transfer", "stamp", "issue", "reply"},
         r.jwt = conn[c].jwt, AtMostOne(r.newJwt), r.out = conn[c].out, r.floor = conn[c].floor
  PROVE  ServedInv'
<1>1. Vetted(r)
  BY Requested, VettedElsewhere DEF Vetted
<1>2. QED
  BY <1>1, Requested, ServedOnward DEF ServedInv

LEMMA MergeChecksServed ==
  ASSUME TypeOK, TypeOK', ServedInv, [Next]_vars, NEW c \in Conns,
         MergeSource(c) \/ (\E u \in Users : MergeTarget(c, u)) \/ MergeProvider(c)
  PROVE  ServedInv'
<1>1. UNCHANGED jar
  BY DEF MergeSource, MergeTarget, MergeProvider
<1>2. ASSUME NEW p \in {"target", "transfer"}, conn' = [conn EXCEPT ![c] = [conn[c] EXCEPT !.pc = p]]
      PROVE  ServedInv'
  <2> DEFINE r == [conn[c] EXCEPT !.pc = p]
  <2>1. /\ r.pc = p /\ r.jwt = conn[c].jwt /\ r.newJwt = conn[c].newJwt
        /\ r.out = conn[c].out /\ r.floor = conn[c].floor
    BY Requested DEF ConnType
  <2>2. conn' = [conn EXCEPT ![c] = r]
    BY <1>2
  <2> HIDE DEF r
  <2>3. r.pc \in {"target", "provider", "transfer", "stamp", "issue", "reply"} /\ AtMostOne(r.newJwt)
    BY <2>1, Requested DEF Vetted
  <2>4. QED
    BY <1>1, <2>1, <2>2, <2>3, BusyServed
<1>3. ASSUME NEW u \in Users, MergeTarget(c, u) PROVE ServedInv'
  <2>0. PICK x \in conn[c].cred :
          conn' = [conn EXCEPT ![c] = [conn[c] EXCEPT !.pc = "provider", !.old = {x.user}, !.cred = ReadAccount(u)]]
    BY <1>3 DEF MergeTarget
  <2> DEFINE r == [conn[c] EXCEPT !.pc = "provider", !.old = {x.user}, !.cred = ReadAccount(u)]
  <2>1. /\ r.pc = "provider" /\ r.jwt = conn[c].jwt /\ r.newJwt = conn[c].newJwt
        /\ r.out = conn[c].out /\ r.floor = conn[c].floor
    BY Requested DEF ConnType
  <2> HIDE DEF r
  <2>2. QED
    BY <1>1, <2>0, <2>1, Requested, BusyServed DEF Vetted, r
<1>4. CASE conn' = [conn EXCEPT ![c] = [conn[c] EXCEPT !.pc = "reply", !.cred = {}, !.old = {}]]
  <2> DEFINE r == [conn[c] EXCEPT !.pc = "reply", !.cred = {}, !.old = {}]
  <2>1. /\ r.pc = "reply" /\ r.jwt = conn[c].jwt /\ r.newJwt = conn[c].newJwt
        /\ r.out = conn[c].out /\ r.floor = conn[c].floor
    BY Requested DEF ConnType
  <2> HIDE DEF r
  <2>2. QED
    BY <1>1, <1>4, <2>1, Requested, BusyServed DEF Vetted, r
<1>5. QED
  BY <1>2, <1>3, <1>4 DEF MergeSource, MergeProvider

LEMMA MergeTransferServed ==
  ASSUME TypeOK, TypeOK', ServedInv, [Next]_vars, NEW c \in Conns, MergeTransfer(c)
  PROVE  ServedInv'
<1>1. UNCHANGED jar
  BY DEF MergeTransfer
<1>2. CASE conn' = [conn EXCEPT ![c] = [conn[c] EXCEPT !.pc = "stamp", !.old = {}]]
  <2> DEFINE r == [conn[c] EXCEPT !.pc = "stamp", !.old = {}]
  <2>1. /\ r.pc = "stamp" /\ r.jwt = conn[c].jwt /\ r.newJwt = conn[c].newJwt
        /\ r.out = conn[c].out /\ r.floor = conn[c].floor
    BY Requested DEF ConnType
  <2>2. conn' = [conn EXCEPT ![c] = r]
    BY <1>2
  <2> HIDE DEF r
  <2>3. r.pc \in {"target", "provider", "transfer", "stamp", "issue", "reply"} /\ AtMostOne(r.newJwt)
    BY <2>1, Requested DEF Vetted
  <2>4. QED
    BY <1>1, <2>1, <2>2, <2>3, BusyServed
<1>3. CASE conn' = [conn EXCEPT ![c] = [conn[c] EXCEPT !.pc = "reply", !.cred = {}, !.old = {}]]
  <2> DEFINE r == [conn[c] EXCEPT !.pc = "reply", !.cred = {}, !.old = {}]
  <2>1. /\ r.pc = "reply" /\ r.jwt = conn[c].jwt /\ r.newJwt = conn[c].newJwt
        /\ r.out = conn[c].out /\ r.floor = conn[c].floor
    BY Requested DEF ConnType
  <2> HIDE DEF r
  <2>2. QED
    BY <1>1, <1>3, <2>1, Requested, BusyServed DEF Vetted, r
<1>4. QED
  BY <1>2, <1>3 DEF MergeTransfer

LEMMA StampServed ==
  ASSUME TypeOK, TypeOK', ServedInv, [Next]_vars, NEW c \in Conns, StampEpoch(c)
  PROVE  ServedInv'
<1>1. UNCHANGED jar
  BY DEF StampEpoch
<1>2. PICK x \in conn[c].cred :
        \E e \in {epoch[x.user]} \union (IF RedisMayFail THEN {0} ELSE {}) :
          conn' = [conn EXCEPT ![c] = [conn[c] EXCEPT !.pc = "issue",
                     !.cred = {[x EXCEPT !.sess = e, !.straddled = x.straddled \/ e > x.sess]}]]
  BY DEF StampEpoch
<1>3. PICK e : conn' = [conn EXCEPT ![c] = [conn[c] EXCEPT !.pc = "issue",
                     !.cred = {[x EXCEPT !.sess = e, !.straddled = x.straddled \/ e > x.sess]}]]
  BY <1>2
<1> DEFINE y == {[x EXCEPT !.sess = e, !.straddled = x.straddled \/ e > x.sess]}
           r == [conn[c] EXCEPT !.pc = "issue", !.cred = y]
<1> HIDE DEF y
<1>4. /\ r.pc = "issue" /\ r.jwt = conn[c].jwt /\ r.newJwt = conn[c].newJwt
      /\ r.out = conn[c].out /\ r.floor = conn[c].floor
  BY Requested DEF ConnType
<1>5. conn' = [conn EXCEPT ![c] = r]
  BY <1>3 DEF y
<1> HIDE DEF r
<1>6. QED
  BY <1>1, <1>4, <1>5, Requested, BusyServed DEF Vetted

LEMMA IssueServed ==
  ASSUME TypeOK, TypeOK', ServedInv, [Next]_vars, NEW c \in Conns, IssueCookies(c)
  PROVE  ServedInv'
<1>1. UNCHANGED jar
  BY DEF IssueCookies
<1>2. ASSUME NEW x \in conn[c].cred,
             conn' = [conn EXCEPT ![c] = [conn[c] EXCEPT !.pc = "reply",
                        !.newJwt = {[jti |-> serial + 1, cred |-> x]},
                        !.newRid = {serial + 1}, !.sets = conn[c].sets \union LoginCookies(c)]]
      PROVE  ServedInv'
  <2> DEFINE j == [jti |-> serial + 1, cred |-> x]
             s == conn[c].sets \union LoginCookies(c)
             r == [conn[c] EXCEPT !.pc = "reply", !.newJwt = {j}, !.newRid = {serial + 1}, !.sets = s]
  <2>0. conn' = [conn EXCEPT ![c] = r]
    BY <1>2
  <2> HIDE DEF j, s
  <2>1. /\ r.pc = "reply" /\ r.jwt = conn[c].jwt /\ r.newJwt = {j}
        /\ r.out = conn[c].out /\ r.floor = conn[c].floor
    BY Requested DEF ConnType
  <2> HIDE DEF r
  <2>2. AtMostOne(r.newJwt) /\ r.pc \in {"target", "provider", "transfer", "stamp", "issue", "reply"}
    BY <2>1 DEF AtMostOne
  <2>3. QED
    BY <1>1, <2>0, <2>1, <2>2, BusyServed
<1>3. ASSUME NEW x \in conn[c].cred,
             conn' = [conn EXCEPT ![c] = [conn[c] EXCEPT !.pc = "reply",
                        !.newJwt = {[jti |-> serial + 1, cred |-> x]}, !.rid = {},
                        !.sets = conn[c].sets \union {"session"}]]
      PROVE  ServedInv'
  <2> DEFINE j == [jti |-> serial + 1, cred |-> x]
             s == conn[c].sets \union {"session"}
             r == [conn[c] EXCEPT !.pc = "reply", !.newJwt = {j}, !.rid = {}, !.sets = s]
  <2>0. conn' = [conn EXCEPT ![c] = r]
    BY <1>3
  <2> HIDE DEF j, s
  <2>1. /\ r.pc = "reply" /\ r.jwt = conn[c].jwt /\ r.newJwt = {j}
        /\ r.out = conn[c].out /\ r.floor = conn[c].floor
    BY Requested DEF ConnType
  <2> HIDE DEF r
  <2>2. AtMostOne(r.newJwt) /\ r.pc \in {"target", "provider", "transfer", "stamp", "issue", "reply"}
    BY <2>1 DEF AtMostOne
  <2>3. QED
    BY <1>1, <2>0, <2>1, <2>2, BusyServed
<1>4. QED
  BY <1>2, <1>3 DEF IssueCookies

LEMMA LogoutForgetServed ==
  ASSUME TypeOK, TypeOK', ServedInv, [Next]_vars, NEW c \in Conns, LogoutForget(c)
  PROVE  ServedInv'
<1> DEFINE r == [conn[c] EXCEPT !.pc = "reply", !.sets = {"session", "refresh"}]
<1>1. UNCHANGED jar /\ conn' = [conn EXCEPT ![c] = r]
  BY DEF LogoutForget
<1>2. /\ r.pc = "reply" /\ r.jwt = conn[c].jwt /\ r.newJwt = conn[c].newJwt
      /\ r.out = conn[c].out /\ r.floor = conn[c].floor
  BY Requested DEF ConnType
<1> HIDE DEF r
<1>3. QED
  BY <1>1, <1>2, Requested, BusyServed DEF Vetted

LEMMA RespondServed ==
  ASSUME TypeOK, TypeOK', ServedInv, [Next]_vars, NEW c \in Conns, Respond(c)
  PROVE  ServedInv'
<1>1. conn' = [conn EXCEPT ![c] = IdleConn] /\ IdleConn \in ConnType
  BY IdleConnType DEF Respond
<1>2. \A b \in Browsers : AtMostOne(jar'[b].session)
  BY Requested DEF Respond, ServedInv, Vetted
<1>3. Vetted(IdleConn)
  BY VettedElsewhere DEF IdleConn, AtMostOne
<1>4. IdleConn.out \subseteq revoked /\ \A u \in Users : IdleConn.floor[u] <= epoch[u]
  BY DEF IdleConn, TypeOK
<1>5. QED
  BY <1>1, <1>2, <1>3, <1>4, Requested, ServedStep

(* Whatever leaves the requests alone and takes cookies at most.           *)
LEMMA OthersServed ==
  ASSUME TypeOK, TypeOK', ServedInv, [Next]_vars, UNCHANGED conn,
         \A b \in Browsers : jar'[b].session \subseteq jar[b].session
  PROVE  ServedInv'
<1>1. \A u \in Users : epoch[u] \in Nat /\ epoch'[u] \in Nat /\ epoch[u] <= epoch'[u]
  BY NothingIsUnrevoked DEF TypeOK
<1>2. \A c \in Conns, u \in Users : conn[c].floor[u] \in Nat
  BY DEF TypeOK, ConnType
<1>3. ASSUME NEW c \in Conns 
      PROVE  Vetted(conn'[c]) /\ conn'[c].out \subseteq revoked' /\ \A u \in Users : conn'[c].floor[u] <= epoch'[u]
  <2>1. conn'[c] = conn[c] /\ Vetted(conn[c]) /\ Since(conn[c])
    BY DEF ServedInv
  <2>2. conn'[c].out \subseteq revoked'
    BY <2>1, NothingIsUnrevoked DEF Since
  <2>3. \A u \in Users : conn'[c].floor[u] <= epoch'[u]
    BY <1>1, <1>2, <2>1 DEF Since
  <2>4. QED
    BY <2>1, <2>2, <2>3
<1>4. \A b \in Browsers : AtMostOne(jar'[b].session)
  BY DEF ServedInv, AtMostOne
<1>5. QED
  BY <1>3, <1>4 DEF ServedInv, Since

LEMMA DroppedCookies ==
  ASSUME TypeOK, NEW b \in Browsers, DropCookies(b)
  PROVE  \A d \in Browsers : jar'[d].session \subseteq jar[d].session /\ jar'[d].rid \subseteq jar[d].rid
<1>1. jar \in [Browsers -> [session : SUBSET Jwt, rid : SUBSET Nat]]
  BY DEF TypeOK
<1>2. CASE jar' = [jar EXCEPT ![b].session = {}]
  BY <1>1, <1>2
<1>3. CASE jar' = [jar EXCEPT ![b] = [session |-> {}, rid |-> {}]]
  BY <1>1, <1>3
<1>4. QED
  BY <1>2, <1>3 DEF DropCookies

LEMMA ServedInductive == TypeOK /\ ServedInv /\ [Next]_vars => ServedInv'
<1> SUFFICES ASSUME TypeOK, ServedInv, [Next]_vars PROVE ServedInv'
  OBVIOUS
<1>0. TypeOK'
  BY TypeStep
<1>1. ASSUME NEW c \in Conns, NEW b \in Browsers, NEW op \in {"get", "merge"}, Arrive(c, b, op) PROVE ServedInv'
  BY <1>0, <1>1, ArriveServed
<1>2. ASSUME NEW c \in Conns, ConnStep(c) PROVE ServedInv'
  BY <1>0, <1>2, LookupServed, CheckLockedServed, RenewServed, DropServed, CheckServed, MergeChecksServed, MergeTransferServed,
     StampServed, IssueServed, LogoutForgetServed, RespondServed DEF ConnStep
<1>3. ASSUME NEW c \in Conns, NEW b \in Browsers, NEW u \in Users, LoginRead(c, b, u) PROVE ServedInv'
  BY <1>0, <1>3, LoginReadServed
<1>4. ASSUME NEW c \in Conns, NEW b \in Browsers, LogoutRevoke(c, b) PROVE ServedInv'
  BY <1>0, <1>4, LogoutRevokeServed
<1>5. ASSUME NEW b \in Browsers, DropCookies(b) PROVE ServedInv'
  <2>1. UNCHANGED conn
    BY <1>5 DEF DropCookies
  <2>2. QED
    BY <1>0, <1>5, <2>1, DroppedCookies, OthersServed
<1>6. CASE UNCHANGED <<conn, jar>>
  BY <1>0, <1>6, OthersServed
<1>7. QED
  BY <1>1, <1>2, <1>3, <1>4, <1>5, <1>6
     DEF Next, AdminStep, vars, AdminWrite, AdminMirror, AdminBump, ExpireJwt, ExpireRefresh

(* No request is served on a credential that was superseded or revoked     *)
(* before it arrived, unless Redis failed at its session check.            *)
THEOREM ServedIsAlwaysCurrent == Spec => []ServedIsCurrent
<1>1. Init => TypeOK /\ ServedInv
  <2> SUFFICES ASSUME Init PROVE ServedInv
    BY InitTypeOK
  <2>1. \A b \in Browsers : AtMostOne(jar[b].session)
    BY DEF Init, AtMostOne
  <2>2. Vetted(IdleConn)
    BY VettedElsewhere DEF IdleConn, AtMostOne
  <2>3. \A c \in Conns : Vetted(conn[c]) /\ Since(conn[c])
    BY <2>2 DEF Init, Since, IdleConn
  <2>4. QED
    BY <2>1, <2>3 DEF ServedInv
<1>2. TypeOK /\ ServedInv /\ [Next]_vars => (TypeOK /\ ServedInv)'
  BY TypeStep, ServedInductive
<1>3. ServedInv => ServedIsCurrent
  BY DEF ServedInv, Vetted, CurrentCreds, NotRevoked, ServedIsCurrent
<1>4. QED
  BY <1>1, <1>2, <1>3, PTL DEF Spec

-----------------------------------------------------------------------------
(* The lock and its sentinel.                                              *)

(* The last toggle of u has been mirrored, or failed to be.                *)
Settled(u) == MirrorsOf(u) \subseteq late

(* SentinelMirrorsLock, made inductive: the lock of an account is what its *)
(* last toggle will make the sentinel, or has made it.                     *)
SentinelInv ==
  /\ \A a \in late : adm[a].pc = "mirror"
  /\ \A u \in Users \ torn : status[u] # "deleted" /\ Settled(u) => (status[u] = "locked" <=> u \in lockMark)
  /\ \A u \in Users : status[u] # "deleted" =>
       \A a \in MirrorsOf(u) \ late : status[u] = "locked" <=> adm[a].op = "lock"

(* An operation is on one account.                                         *)
OneUser == \A a \in Admins : AtMostOne(adm[a].user)

LEMMA OneUserStep == TypeOK /\ OneUser /\ [Next]_vars => OneUser'
<1> SUFFICES ASSUME TypeOK, OneUser, [Next]_vars PROVE OneUser'
  OBVIOUS
<1>1. ASSUME NEW a \in Admins, AtMostOne(adm'[a].user), \A b \in Admins : b # a => adm'[b] = adm[b]
      PROVE  OneUser'
  BY <1>1 DEF OneUser, AtMostOne
<1>2. ASSUME NEW a \in Admins, NEW op \in AdminOps, NEW u \in Users, NEW r \in Roles, AdminWrite(a, op, u, r)
      PROVE  OneUser'
  <2>1. CASE AfterWrite(op) = "idle"
    BY <1>2, <2>1 DEF AdminWrite, OneUser
  <2>2. CASE AfterWrite(op) # "idle"
    <3>1. adm' = [adm EXCEPT ![a] = [pc |-> AfterWrite(op), op |-> op, user |-> {u}]]
      BY <1>2, <2>2 DEF AdminWrite
    <3>2. adm'[a].user = {u} /\ \A b \in Admins : b # a => adm'[b] = adm[b]
      BY <3>1 DEF TypeOK
    <3>3. QED
      BY <1>1, <3>2 DEF AtMostOne
  <2>3. QED
    BY <2>1, <2>2
<1>3. ASSUME NEW a \in Admins, AdminMirror(a) PROVE OneUser'
  <2>1. (adm'[a].user = adm[a].user \/ adm'[a].user = {}) /\ \A b \in Admins : b # a => adm'[b] = adm[b]
    BY <1>3 DEF AdminMirror, IdleAdm, TypeOK
  <2>2. QED
    BY <1>1, <2>1 DEF OneUser, AtMostOne
<1>4. ASSUME NEW a \in Admins, AdminBump(a) PROVE OneUser'
  <2>1. adm'[a].user = {} /\ \A b \in Admins : b # a => adm'[b] = adm[b]
    BY <1>4 DEF AdminBump, IdleAdm, TypeOK
  <2>2. QED
    BY <1>1, <2>1 DEF AtMostOne
<1>5. CASE UNCHANGED adm
  BY <1>5 DEF OneUser
<1>6. ASSUME NEW c \in Conns, ConnStep(c) PROVE UNCHANGED adm
  BY <1>6 DEF ConnStep, LookupRefresh, CheckLocked, RenewJwt, DropRefresh, CheckSession, MergeSource, MergeTarget,
       MergeProvider, MergeTransfer, StampEpoch, IssueCookies, LogoutForget, Respond
<1>7. ASSUME NEW c \in Conns, NEW b \in Browsers,
             (\E op \in {"get", "merge"} : Arrive(c, b, op)) \/ (\E u \in Users : LoginRead(c, b, u)) \/ LogoutRevoke(c, b)
      PROVE  UNCHANGED adm
  BY <1>7 DEF Arrive, LoginRead, LogoutRevoke
<1>8. ASSUME NEW b \in Browsers, ExpireJwt(b) \/ DropCookies(b) PROVE UNCHANGED adm
  BY <1>8 DEF ExpireJwt, DropCookies
<1>9. ASSUME NEW r \in refresh, ExpireRefresh(r) PROVE UNCHANGED adm
  BY <1>9 DEF ExpireRefresh
<1>10. QED
  BY <1>2, <1>3, <1>4, <1>5, <1>6, <1>7, <1>8, <1>9 DEF Next, AdminStep, vars

LEMMA WriteSentinel ==
  ASSUME TypeOK, OneUser, SentinelInv,
         NEW a \in Admins, NEW op \in AdminOps, NEW u \in Users, NEW r \in Roles, AdminWrite(a, op, u, r)
  PROVE  SentinelInv'
<1>1. /\ adm[a].pc = "idle" /\ a \notin late /\ UNCHANGED <<lockMark, torn>> /\ late \subseteq Admins
      /\ status \in [Users -> {"active", "locked", "deleted"}]
  BY DEF AdminWrite, redis, TypeOK, SentinelInv
<1>2. CASE op \in {"lock", "unlock"}
  <2>1. adm' = [adm EXCEPT ![a] = [pc |-> "mirror", op |-> op, user |-> {u}]] /\ late' = late \union MirrorsOf(u)
    BY <1>2 DEF AdminWrite, AfterWrite
  <2>2. /\ adm'[a] = [pc |-> "mirror", op |-> op, user |-> {u}]
        /\ \A b \in Admins : b # a => adm'[b] = adm[b]
    BY <2>1 DEF TypeOK
  <2>3. status' = IF status[u] = "deleted" THEN status
                  ELSE [status EXCEPT ![u] = IF op = "lock" THEN "locked" ELSE "active"]
    <3>0. status' = IF status[u] = "deleted" THEN status
                    ELSE CASE op = "lock"   -> [status EXCEPT ![u] = "locked"]
                           [] op = "unlock" -> [status EXCEPT ![u] = "active"]
                           [] op = "delete" -> [status EXCEPT ![u] = "deleted"]
                           [] OTHER         -> status
      BY DEF AdminWrite
    <3>1. CASE status[u] = "deleted"
      BY <3>0, <3>1
    <3>2. CASE status[u] # "deleted" /\ op = "lock"
      BY <3>0, <3>2
    <3>3. CASE status[u] # "deleted" /\ op = "unlock"
      BY <3>0, <3>3
    <3>4. QED
      BY <1>2, <3>1, <3>2, <3>3
  <2>4. MirrorsOf(u)' = MirrorsOf(u) \union {a} /\ \A v \in Users \ {u} : MirrorsOf(v)' = MirrorsOf(v)
    BY <1>1, <2>2 DEF MirrorsOf
  <2>5. a \notin late' /\ (MirrorsOf(u) \subseteq late') /\ \A b \in late' : adm'[b].pc = "mirror"
    BY <1>1, <2>1, <2>2 DEF MirrorsOf, SentinelInv
  <2>6. ASSUME NEW v \in Users \ torn, status'[v] # "deleted", Settled(v)'
        PROVE  status'[v] = "locked" <=> v \in lockMark
    <3>1. v # u
      BY <2>4, <2>5, <2>6 DEF Settled
    <3>2. Settled(v)
      <4>1. ASSUME NEW b \in MirrorsOf(v) PROVE b \in late
        <5>1. b \in late'
          BY <2>4, <2>6, <3>1 DEF Settled
        <5>2. b \notin MirrorsOf(u)
          BY <3>1 DEF MirrorsOf, OneUser, AtMostOne
        <5>3. QED
          BY <2>1, <5>1, <5>2
      <4>2. QED
        BY <4>1 DEF Settled
    <3>3. status'[v] = status[v]
      BY <1>1, <2>3, <3>1
    <3>4. QED
      BY <2>6, <3>2, <3>3 DEF SentinelInv
  <2>7. ASSUME NEW v \in Users, status'[v] # "deleted", NEW b \in MirrorsOf(v)' \ late'
        PROVE  status'[v] = "locked" <=> adm'[b].op = "lock"
    <3>1. CASE v = u
      BY <1>1, <1>2, <2>2, <2>3, <2>4, <2>5, <2>7, <3>1
    <3>2. CASE v # u
      BY <1>1, <2>1, <2>2, <2>3, <2>4, <2>7, <3>2 DEF SentinelInv, MirrorsOf
    <3>3. QED
      BY <3>1, <3>2
  <2>8. QED
    BY <1>1, <2>5, <2>6, <2>7 DEF SentinelInv
<1>3. CASE op \notin {"lock", "unlock"}
  <2>1. \A v \in Users : status'[v] # "deleted" => status'[v] = status[v]
    BY <1>1, <1>3 DEF AdminWrite
  <2>2. adm'[a].pc # "mirror" /\ (\A b \in Admins : b # a => adm'[b] = adm[b]) /\ late' = late
    BY <1>1, <1>3 DEF AdminWrite, AfterWrite, TypeOK
  <2>3. \A v \in Users : MirrorsOf(v)' = MirrorsOf(v)
    BY <1>1, <2>2 DEF MirrorsOf
  <2>4. QED
    BY <1>1, <2>1, <2>2, <2>3 DEF SentinelInv, Settled, MirrorsOf
<1>4. QED
  BY <1>2, <1>3

LEMMA MirrorSentinel ==
  ASSUME TypeOK, SentinelInv, NEW a \in Admins, AdminMirror(a)
  PROVE  SentinelInv'
<1>1. /\ adm[a].pc = "mirror" /\ UNCHANGED status /\ late' = late \ {a} /\ adm[a].user \subseteq Users
      /\ adm'[a].pc # "mirror" /\ \A b \in Admins : b # a => adm'[b] = adm[b]
  BY DEF AdminMirror, IdleAdm, postgres, TypeOK
<1>2. \A u \in Users : MirrorsOf(u)' = MirrorsOf(u) \ {a}
  BY <1>1 DEF MirrorsOf
<1>3. \A b \in late' : adm'[b].pc = "mirror"
  BY <1>1 DEF SentinelInv, TypeOK
<1>4. \A u \in Users : status'[u] # "deleted" => \A b \in MirrorsOf(u)' \ late' : status'[u] = "locked" <=> adm'[b].op = "lock"
  BY <1>1, <1>2 DEF SentinelInv, MirrorsOf
<1>5. ASSUME NEW u \in Users \ torn', status[u] # "deleted", Settled(u)'
      PROVE  status[u] = "locked" <=> u \in lockMark'
  <2>1. CASE u \notin adm[a].user
    <3>1. u \notin torn /\ (u \in lockMark' <=> u \in lockMark) /\ a \notin MirrorsOf(u)
      BY <1>5, <2>1 DEF AdminMirror, Mirrored, MirrorsOf
    <3>2. Settled(u)
      BY <1>1, <1>2, <1>5, <3>1 DEF Settled
    <3>3. QED
      BY <1>5, <3>1, <3>2 DEF SentinelInv
  <2>2. CASE u \in adm[a].user /\ a \notin late
    <3>1. lockMark' = Mirrored(a) /\ a \in MirrorsOf(u)
      BY <1>1, <1>5, <2>2 DEF AdminMirror, MirrorsOf
    <3>2. QED
      BY <1>5, <2>2, <3>1 DEF SentinelInv, Mirrored
  <2>3. CASE u \in adm[a].user /\ a \in late
    <3>1. UNCHANGED <<lockMark, torn>>
      BY <1>5, <2>3 DEF AdminMirror
    <3>2. Settled(u)
      BY <1>1, <1>2, <1>5, <2>3 DEF Settled
    <3>3. QED
      BY <1>5, <3>1, <3>2 DEF SentinelInv
  <2>4. QED
    BY <2>1, <2>2, <2>3
<1>6. QED
  BY <1>1, <1>3, <1>4, <1>5 DEF SentinelInv

LEMMA SentinelInductive == TypeOK /\ OneUser /\ SentinelInv /\ [Next]_vars => SentinelInv'
<1> SUFFICES ASSUME TypeOK, OneUser, SentinelInv, [Next]_vars PROVE SentinelInv'
  OBVIOUS
<1>1. ASSUME NEW a \in Admins, NEW op \in AdminOps, NEW u \in Users, NEW r \in Roles, AdminWrite(a, op, u, r)
      PROVE  SentinelInv'
  BY <1>1, WriteSentinel
<1>2. ASSUME NEW a \in Admins, AdminMirror(a) PROVE SentinelInv'
  BY <1>2, MirrorSentinel
<1>3. ASSUME NEW a \in Admins, AdminBump(a) PROVE SentinelInv'
  <2>1. /\ UNCHANGED <<status, lockMark, late, torn>> /\ adm[a].pc = "bump" /\ adm'[a].pc = "idle"
        /\ \A b \in Admins : b # a => adm'[b] = adm[b]
    BY <1>3 DEF AdminBump, postgres, toggles, IdleAdm, TypeOK
  <2>2. \A u \in Users : MirrorsOf(u)' = MirrorsOf(u)
    BY <2>1 DEF MirrorsOf
  <2>3. a \notin late /\ \A u \in Users : a \notin MirrorsOf(u)
    BY <2>1 DEF SentinelInv, MirrorsOf
  <2>4. \A b \in late : b \in Admins /\ b # a
    BY <2>3 DEF TypeOK
  <2>5. \A u \in Users : \A b \in MirrorsOf(u) : b \in Admins /\ b # a
    BY <2>3 DEF MirrorsOf
  <2>6. QED
    BY <2>1, <2>2, <2>4, <2>5 DEF SentinelInv, Settled
<1>4. ASSUME NEW c \in Conns, MergeTransfer(c) PROVE SentinelInv'
  <2>1. UNCHANGED <<lockMark, adm, late, torn>>
    BY <1>4 DEF MergeTransfer, redis, toggles
  <2>2. \A v \in Users : status'[v] # "deleted" => status'[v] = status[v]
    BY <1>4 DEF MergeTransfer, TypeOK
  <2>3. \A v \in Users : MirrorsOf(v)' = MirrorsOf(v)
    BY <2>1 DEF MirrorsOf
  <2>4. QED
    BY <2>1, <2>2, <2>3 DEF SentinelInv, Settled
<1>5. CASE UNCHANGED <<status, lockMark, adm, late, torn>>
  <2>1. \A v \in Users : MirrorsOf(v)' = MirrorsOf(v)
    BY <1>5 DEF MirrorsOf
  <2>2. QED
    BY <1>5, <2>1 DEF SentinelInv, Settled
<1>6. ASSUME NEW c \in Conns, RenewJwt(c) \/ DropRefresh(c) \/ IssueCookies(c) \/ LogoutForget(c)
      PROVE  UNCHANGED <<status, lockMark, adm, late, torn>>
  BY <1>6 DEF postgres, redis, toggles, RenewJwt, DropRefresh, IssueCookies, LogoutForget
<1>7. ASSUME NEW c \in Conns, NEW b \in Browsers, LogoutRevoke(c, b) PROVE UNCHANGED <<status, lockMark, adm, late, torn>>
  BY <1>7 DEF LogoutRevoke, postgres, toggles
<1>8. ASSUME NEW r \in refresh, ExpireRefresh(r) PROVE UNCHANGED <<status, lockMark, adm, late, torn>>
  BY <1>8 DEF ExpireRefresh, postgres, toggles
<1>9. QED
  BY <1>1, <1>2, <1>3, <1>4, <1>5, <1>6, <1>7, <1>8, Footprints DEF Quiet

(* However many administrators toggle an account, and whatever Redis does, *)
(* the sentinel agrees with the lock once no mirroring of it is under way, *)
(* unless the last toggle's failed or an earlier one's came after it.      *)
THEOREM SentinelAlwaysMirrorsLock == Spec => []SentinelMirrorsLock
<1>1. Init => OneUser /\ SentinelInv
  BY DEF Init, OneUser, AtMostOne, SentinelInv, MirrorsOf, IdleAdm
<1>2. TypeOK /\ OneUser /\ SentinelInv /\ [Next]_vars => (TypeOK /\ OneUser /\ SentinelInv)'
  BY TypeStep, OneUserStep, SentinelInductive
<1>3. SentinelInv => SentinelMirrorsLock
  BY DEF SentinelInv, Settled, SentinelMirrorsLock
<1>4. QED
  BY <1>1, <1>2, <1>3, InitTypeOK, PTL DEF Spec

-----------------------------------------------------------------------------
(* The two cookies of a browser.                                           *)

HeldIn(rs, ref) == {q \in ref : q.rid \in rs}
SameUser(js, rs, ref) == \A j \in js, q \in HeldIn(rs, ref) : q.cred.user = j.cred.user

Unique(ref) == \A q, s \in ref : q.rid = s.rid => q = s

(* What a request will set: the record it was renewed from, or the one it  *)
(* was issued, is of the account its new token is of.                      *)
Answers(r, ref, ser) ==
  /\ AtMostOne(r.rid) /\ AtMostOne(r.newRid) /\ \A n \in r.rid \union r.newRid : n <= ser
  /\ r.op = "login" => r.pc \in {"stamp", "issue", "reply"}
  /\ r.pc # "reply" => r.newRid = {}
  /\ r.pc \in {"lookup", "locked", "epoch", "drop", "forget"} => r.newJwt = {}
  /\ r.pc \in {"locked", "epoch"} => \A x \in r.cred, q \in HeldIn(r.rid, ref) : q.cred.user = x.user
  /\ "refresh" \in r.sets => SameUser(r.newJwt, r.newRid, ref) /\ ("session" \notin r.sets => r.newRid = {})
  /\ "refresh" \notin r.sets /\ "session" \in r.sets => SameUser(r.newJwt, r.rid, ref)

(* JarIdentity, made inductive; records have numbers of their own.         *)
JarInv ==
  /\ \A q \in refresh : q.rid <= serial
  /\ Unique(refresh)
  /\ \A b \in Browsers : AtMostOne(jar[b].rid) /\ \A n \in jar[b].rid : n <= serial
  /\ \A b \in Browsers \ mixed : SameUser(jar[b].session, jar[b].rid, refresh)
  /\ \A c \in Conns : Answers(conn[c], refresh, serial)

(* Records are only removed, or added under fresh numbers.                 *)
Growing ==
  /\ serial' \in Nat /\ serial <= serial'
  /\ \A q \in refresh' : q \in refresh \/ (q.rid > serial /\ q.rid <= serial')
  /\ Unique(refresh')

LEMMA SerialTyped == ASSUME TypeOK PROVE serial \in Nat /\ \A q \in refresh : q.rid \in Nat
BY DEF TypeOK, Refresh

LEMMA RecordsGrow ==
  ASSUME TypeOK, JarInv, [Next]_vars
  PROVE  Growing
<1>1. serial \in Nat /\ \A q \in refresh : q.rid \in Nat /\ q.rid <= serial
  BY SerialTyped DEF JarInv
<1>2. CASE refresh' \subseteq refresh /\ (serial' = serial \/ serial' = serial + 1)
  BY <1>1, <1>2 DEF JarInv, Unique, Growing
<1>3. ASSUME NEW c \in Conns, IssueCookies(c) PROVE Growing
  <2>1. serial' = serial + 1
    BY <1>3 DEF IssueCookies
  <2>2. CASE UNCHANGED refresh
    BY <1>2, <2>1, <2>2
  <2>3. ASSUME NEW x \in conn[c].cred, refresh' = refresh \union {[rid |-> serial + 1, cred |-> x]}
        PROVE  Growing
    BY <1>1, <2>1, <2>3 DEF JarInv, Unique, Growing
  <2>4. QED
    BY <1>3, <2>2, <2>3 DEF IssueCookies
<1>4. ASSUME NEW c \in Conns, RenewJwt(c) PROVE Growing
  <2>1. UNCHANGED refresh
    BY <1>4 DEF RenewJwt, redis
  <2>2. serial' = serial + 1 \/ serial' = serial
    BY <1>4, Zenon DEF RenewJwt
  <2>3. QED
    BY <1>2, <2>1, <2>2
<1>5. CASE refresh' \subseteq refresh /\ serial' = serial
  BY <1>2, <1>5
<1>6. ASSUME NEW c \in Conns, DropRefresh(c) \/ MergeTransfer(c) \/ LogoutForget(c)
      PROVE  refresh' \subseteq refresh /\ serial' = serial
  BY <1>6 DEF redis, clock, DropRefresh, MergeTransfer, LogoutForget
<1>7. ASSUME NEW c \in Conns, NEW b \in Browsers, LogoutRevoke(c, b)
      PROVE  refresh' \subseteq refresh /\ serial' = serial
  BY <1>7 DEF LogoutRevoke, clock
<1>8. ASSUME NEW a \in Admins, AdminMirror(a) \/ AdminBump(a)
      PROVE  refresh' \subseteq refresh /\ serial' = serial
  BY <1>8 DEF AdminMirror, AdminBump, clock
<1>9. ASSUME NEW a \in Admins, NEW op \in AdminOps, NEW u \in Users, NEW r \in Roles, AdminWrite(a, op, u, r)
      PROVE  refresh' \subseteq refresh /\ serial' = serial
  BY <1>9 DEF AdminWrite, redis, clock
<1>10. ASSUME NEW r \in refresh, ExpireRefresh(r) PROVE refresh' \subseteq refresh /\ serial' = serial
  BY <1>10 DEF ExpireRefresh, clock
<1>11. QED
  BY <1>3, <1>4, <1>5, <1>6, <1>7, <1>8, <1>9, <1>10, Footprints DEF Quiet

LEMMA HeldKept ==
  ASSUME TypeOK, Growing, NEW rs \in SUBSET Nat, \A n \in rs : n <= serial
  PROVE  HeldIn(rs, refresh') \subseteq HeldIn(rs, refresh)
<1>1. serial \in Nat /\ \A n \in rs : n \in Nat /\ ~(n > serial)
  BY SerialTyped
<1>2. \A q \in refresh' : q.rid \in rs => q \in refresh
  BY <1>1 DEF Growing
<1>3. QED
  BY <1>2 DEF HeldIn

LEMMA AnswersKept ==
  ASSUME TypeOK, Growing, NEW r, r.rid \subseteq Nat, r.newRid \subseteq Nat, r.from \subseteq Browsers,
         Answers(r, refresh, serial)
  PROVE  Answers(r, refresh', serial')
<1>1. /\ HeldIn(r.rid, refresh') \subseteq HeldIn(r.rid, refresh)
      /\ HeldIn(r.newRid, refresh') \subseteq HeldIn(r.newRid, refresh)
  BY HeldKept DEF Answers
<1>2. \A n \in r.rid \union r.newRid : n <= serial'
  BY SerialTyped DEF Answers, Growing
<1>3. QED
  BY <1>1, <1>2 DEF Answers, SameUser

LEMMA JarStep ==
  ASSUME TypeOK, TypeOK', JarInv, Growing, NEW c \in Conns, NEW r, conn' = [conn EXCEPT ![c] = r],
         UNCHANGED <<jar, mixed>>, Answers(r, refresh', serial')
  PROVE  JarInv'
<1>1. ASSUME NEW d \in Conns PROVE Answers(conn'[d], refresh', serial')
  <2>1. CASE d = c
    BY <2>1 DEF TypeOK
  <2>2. CASE d # c
    <3>1. conn'[d] = conn[d] /\ conn[d].rid \subseteq Nat /\ conn[d].newRid \subseteq Nat /\ conn[d].from \subseteq Browsers
      BY <2>2 DEF TypeOK, ConnType
    <3>2. QED
      BY <3>1, AnswersKept DEF JarInv
  <2>3. QED
    BY <2>1, <2>2
<1>2. ASSUME NEW b \in Browsers
      PROVE  /\ AtMostOne(jar'[b].rid) /\ \A n \in jar'[b].rid : n <= serial'
             /\ b \notin mixed => SameUser(jar'[b].session, jar'[b].rid, refresh')
  <2>1. jar[b].rid \subseteq Nat /\ \A n \in jar[b].rid : n <= serial
    BY DEF TypeOK, JarInv
  <2>2. HeldIn(jar[b].rid, refresh') \subseteq HeldIn(jar[b].rid, refresh)
    BY <2>1, HeldKept
  <2>3. \A n \in jar[b].rid : n <= serial'
    BY <2>1, SerialTyped DEF Growing
  <2>4. QED
    BY <2>2, <2>3 DEF JarInv, SameUser
<1>3. \A q \in refresh' : q.rid <= serial'
  BY SerialTyped DEF Growing, JarInv
<1>4. QED
  BY <1>1, <1>2, <1>3 DEF JarInv, Growing

(* The same for a request whose cookies are all of records issued before.  *)
LEMMA JarOnward ==
  ASSUME TypeOK, TypeOK', JarInv, [Next]_vars, NEW c \in Conns, NEW r, conn' = [conn EXCEPT ![c] = r],
         UNCHANGED <<jar, mixed>>, Answers(r, refresh, serial)
  PROVE  JarInv'
<1>1. conn' \in [Conns -> ConnType] /\ conn'[c] = r
  BY DEF TypeOK
<1>2. r.rid \subseteq Nat /\ r.newRid \subseteq Nat /\ r.from \subseteq Browsers
  BY <1>1 DEF ConnType
<1>3. QED
  BY <1>2, RecordsGrow, AnswersKept, JarStep

LEMMA AnswersOf ==
  ASSUME TypeOK, JarInv, NEW c \in Conns
  PROVE  conn[c] \in ConnType /\ Answers(conn[c], refresh, serial)
BY DEF TypeOK, JarInv

(* A request that has cookies to set and no account in hand any more, or   *)
(* none yet, goes on to a later point.                                     *)
LEMMA OnwardJar ==
  ASSUME TypeOK, TypeOK', JarInv, [Next]_vars, NEW c \in Conns, NEW r, conn' = [conn EXCEPT ![c] = r],
         UNCHANGED <<jar, mixed>>, r.op = conn[c].op, r.from = conn[c].from, r.rid = conn[c].rid,
         r.newRid = conn[c].newRid, r.newJwt = conn[c].newJwt, r.sets = conn[c].sets,
         conn[c].pc # "reply",
         r.pc \in {"drop", "check", "handler", "target", "provider", "transfer", "stamp", "issue", "reply"},
         r.pc = "drop" => r.newJwt = {},
         r.op = "login" => r.pc \in {"stamp", "issue", "reply"}
  PROVE  JarInv'
<1>1. Answers(r, refresh, serial)
  BY AnswersOf DEF Answers
<1>2. QED
  BY <1>1, JarOnward

LEMMA ArriveJar ==
  ASSUME TypeOK, TypeOK', JarInv, [Next]_vars,
         NEW c \in Conns, NEW b \in Browsers, NEW op \in {"get", "merge"}, Arrive(c, b, op)
  PROVE  JarInv'
<1> DEFINE js == jar[b].session
           p == IF Live(js) # {} THEN "check" ELSE IF jar[b].rid # {} THEN "lookup"
                ELSE IF js # {} THEN "drop" ELSE "handler"
           r == [IdleConn EXCEPT !.pc = p, !.op = op, !.from = {b}, !.jwt = js, !.rid = jar[b].rid,
                   !.cred = {j.cred : j \in Live(js)}, !.floor = epoch,
                   !.out = revoked \intersect {j.jti : j \in js}]
<1>1. conn' = [conn EXCEPT ![c] = r] /\ UNCHANGED <<jar, mixed>>
  BY DEF Arrive
<1>2. p \notin {"locked", "epoch", "reply"}
  OBVIOUS
<1> HIDE DEF p, js
<1>3. /\ r.pc = p /\ r.op = op /\ r.from = {b} /\ r.rid = jar[b].rid /\ r.newRid = {} /\ r.newJwt = {} /\ r.sets = {}
  BY DEF IdleConn
<1> HIDE DEF r
<1>4. Answers(r, refresh, serial)
  BY <1>2, <1>3 DEF Answers, AtMostOne, JarInv
<1>5. QED
  BY <1>1, <1>4, JarOnward

LEMMA LookupJar ==
  ASSUME TypeOK, TypeOK', JarInv, [Next]_vars, NEW c \in Conns, LookupRefresh(c)
  PROVE  JarInv'
<1>1. conn[c].pc = "lookup" /\ UNCHANGED <<jar, mixed>>
  BY DEF LookupRefresh
<1>2. ASSUME NEW q \in Held(conn[c].rid), conn' = [conn EXCEPT ![c] = [conn[c] EXCEPT !.pc = "locked", !.cred = {q.cred}]]
      PROVE  JarInv'
  <2> DEFINE r == [conn[c] EXCEPT !.pc = "locked", !.cred = {q.cred}]
  <2>1. /\ r.pc = "locked" /\ r.cred = {q.cred} /\ r.op = conn[c].op /\ r.from = conn[c].from /\ r.rid = conn[c].rid
        /\ r.newRid = conn[c].newRid /\ r.newJwt = conn[c].newJwt /\ r.sets = conn[c].sets
    BY AnswersOf DEF ConnType
  <2>2. \A s \in HeldIn(conn[c].rid, refresh) : s = q
    BY AnswersOf DEF HeldIn, Held, Answers, AtMostOne, JarInv, Unique
  <2>3. conn' = [conn EXCEPT ![c] = r]
    BY <1>2
  <2> HIDE DEF r
  <2>4. Answers(r, refresh, serial)
    BY <1>1, <2>1, <2>2, AnswersOf DEF Answers
  <2>5. QED
    BY <1>1, <2>3, <2>4, JarOnward
<1>3. ASSUME conn' = [conn EXCEPT ![c] = [conn[c] EXCEPT !.pc = "drop"]] PROVE JarInv'
  <2> DEFINE r == [conn[c] EXCEPT !.pc = "drop"]
  <2>1. /\ r.pc = "drop" /\ r.op = conn[c].op /\ r.from = conn[c].from /\ r.rid = conn[c].rid
        /\ r.newRid = conn[c].newRid /\ r.newJwt = conn[c].newJwt /\ r.sets = conn[c].sets
    BY AnswersOf DEF ConnType
  <2>2. conn' = [conn EXCEPT ![c] = r]
    BY <1>3
  <2> HIDE DEF r
  <2>3. conn[c].newJwt = {} /\ conn[c].op # "login"
    BY <1>1, AnswersOf DEF Answers
  <2>4. QED
    BY <1>1, <2>1, <2>2, <2>3, OnwardJar
<1>4. QED
  BY <1>2, <1>3 DEF LookupRefresh

LEMMA CheckLockedJar ==
  ASSUME TypeOK, TypeOK', JarInv, [Next]_vars, NEW c \in Conns, CheckLocked(c)
  PROVE  JarInv'
<1>1. conn[c].pc = "locked" /\ UNCHANGED <<jar, mixed>>
  BY DEF CheckLocked
<1>2. PICK p \in {"drop", "epoch"} : conn' = [conn EXCEPT ![c] = [conn[c] EXCEPT !.pc = p]]
  BY DEF CheckLocked
<1> DEFINE r == [conn[c] EXCEPT !.pc = p]
<1>3. /\ r.pc = p /\ r.op = conn[c].op /\ r.from = conn[c].from /\ r.rid = conn[c].rid /\ r.cred = conn[c].cred
      /\ r.newRid = conn[c].newRid /\ r.newJwt = conn[c].newJwt /\ r.sets = conn[c].sets
  BY AnswersOf DEF ConnType
<1>4. conn' = [conn EXCEPT ![c] = r]
  BY <1>2
<1> HIDE DEF r
<1>5. Answers(r, refresh, serial)
  BY <1>1, <1>3, AnswersOf DEF Answers
<1>6. QED
  BY <1>1, <1>4, <1>5, JarOnward

LEMMA RenewJar ==
  ASSUME TypeOK, TypeOK', JarInv, [Next]_vars, NEW c \in Conns, RenewJwt(c)
  PROVE  JarInv'
<1>1. conn[c].pc = "epoch" /\ UNCHANGED <<jar, mixed, refresh>>
  BY DEF RenewJwt, redis
<1>2. ASSUME NEW x \in conn[c].cred,
             conn' = [conn EXCEPT ![c] =
                        [conn[c] EXCEPT !.pc = IF conn[c].jwt = {} THEN "handler" ELSE "check",
                            !.newJwt = {[jti |-> serial + 1, cred |-> [x EXCEPT !.sess = epoch[x.user]]]},
                            !.sets = {"session"}]]
      PROVE  JarInv'
  <2> DEFINE p == IF conn[c].jwt = {} THEN "handler" ELSE "check"
             j == [jti |-> serial + 1, cred |-> [x EXCEPT !.sess = epoch[x.user]]]
             r == [conn[c] EXCEPT !.pc = p, !.newJwt = {j}, !.sets = {"session"}]
  <2>1. conn' = [conn EXCEPT ![c] = r]
    BY <1>2
  <2>2. p \in {"handler", "check"} /\ j.cred.user = x.user
    BY AnswersOf DEF ConnType, Cred
  <2> HIDE DEF p, j
  <2>3. /\ r.pc = p /\ r.op = conn[c].op /\ r.from = conn[c].from /\ r.rid = conn[c].rid
        /\ r.newRid = conn[c].newRid /\ r.newJwt = {j} /\ r.sets = {"session"}
    BY AnswersOf DEF ConnType
  <2> HIDE DEF r
  <2>4. SameUser(r.newJwt, r.rid, refresh)
    BY <1>1, <2>2, <2>3, AnswersOf DEF Answers, SameUser
  <2>5. Answers(r, refresh, serial)
    BY <1>1, <2>2, <2>3, <2>4, AnswersOf DEF Answers
  <2>6. QED
    BY <1>1, <2>1, <2>5, JarOnward
<1>3. ASSUME conn' = [conn EXCEPT ![c] = [conn[c] EXCEPT !.pc = "drop"]] PROVE JarInv'
  <2> DEFINE r == [conn[c] EXCEPT !.pc = "drop"]
  <2>1. /\ r.pc = "drop" /\ r.op = conn[c].op /\ r.from = conn[c].from /\ r.rid = conn[c].rid
        /\ r.newRid = conn[c].newRid /\ r.newJwt = conn[c].newJwt /\ r.sets = conn[c].sets
    BY AnswersOf DEF ConnType
  <2>2. conn' = [conn EXCEPT ![c] = r]
    BY <1>3
  <2> HIDE DEF r
  <2>3. conn[c].newJwt = {} /\ conn[c].op # "login"
    BY <1>1, AnswersOf DEF Answers
  <2>4. QED
    BY <1>1, <2>1, <2>2, <2>3, OnwardJar
<1>4. QED
  BY <1>2, <1>3 DEF RenewJwt

LEMMA DropJar ==
  ASSUME TypeOK, TypeOK', JarInv, [Next]_vars, NEW c \in Conns, DropRefresh(c)
  PROVE  JarInv'
<1> DEFINE s == {"refresh"} \union (IF conn[c].jwt = {} THEN {} ELSE {"session"})
           r == [conn[c] EXCEPT !.pc = "handler", !.cred = {}, !.sets = s]
<1>1. conn[c].pc = "drop" /\ UNCHANGED <<jar, mixed>> /\ conn' = [conn EXCEPT ![c] = r]
  BY DEF DropRefresh
<1>2. "refresh" \in s
  OBVIOUS
<1> HIDE DEF s
<1>3. /\ r.pc = "handler" /\ r.op = conn[c].op /\ r.from = conn[c].from /\ r.rid = conn[c].rid
      /\ r.newRid = conn[c].newRid /\ r.newJwt = conn[c].newJwt /\ r.sets = s
  BY AnswersOf DEF ConnType
<1> HIDE DEF r
<1>4. conn[c].newJwt = {} /\ conn[c].newRid = {} /\ conn[c].op # "login"
  BY <1>1, AnswersOf DEF Answers
<1>5. Answers(r, refresh, serial)
  BY <1>2, <1>3, <1>4, AnswersOf DEF Answers, SameUser
<1>6. QED
  BY <1>1, <1>5, JarOnward

LEMMA CheckJar ==
  ASSUME TypeOK, TypeOK', JarInv, [Next]_vars, NEW c \in Conns, CheckSession(c)
  PROVE  JarInv'
<1>1. conn[c].pc = "check" /\ UNCHANGED <<jar, mixed>>
  BY DEF CheckSession
<1>2. ASSUME NEW r, r.pc = "handler", r.op = conn[c].op, r.from = conn[c].from, r.rid = conn[c].rid,
             r.newRid = conn[c].newRid, r.newJwt = conn[c].newJwt, r.sets = conn[c].sets,
             conn' = [conn EXCEPT ![c] = r]
      PROVE  JarInv'
  <2>1. conn[c].op # "login"
    BY <1>1, AnswersOf DEF Answers
  <2>2. QED
    BY <1>1, <1>2, <2>1, OnwardJar
<1>3. ASSUME conn' = [conn EXCEPT ![c] = [conn[c] EXCEPT !.pc = "handler"]] PROVE JarInv'
  BY <1>2, <1>3, AnswersOf DEF ConnType
<1>4. ASSUME conn' = [conn EXCEPT ![c] = [conn[c] EXCEPT !.pc = "handler", !.failOpen = TRUE]] PROVE JarInv'
  BY <1>2, <1>4, AnswersOf DEF ConnType
<1>5. ASSUME conn' = [conn EXCEPT ![c] = [conn[c] EXCEPT !.pc = "handler", !.cred = {}, !.newJwt = {},
                                                        !.sets = conn[c].sets \union {"session"}]]
      PROVE  JarInv'
  <2> DEFINE s == conn[c].sets \union {"session"}
             r == [conn[c] EXCEPT !.pc = "handler", !.cred = {}, !.newJwt = {}, !.sets = s]
  <2>1. conn' = [conn EXCEPT ![c] = r] /\ "session" \in s
    BY <1>5
  <2> HIDE DEF s
  <2>2. /\ r.pc = "handler" /\ r.op = conn[c].op /\ r.from = conn[c].from /\ r.rid = conn[c].rid
        /\ r.newRid = conn[c].newRid /\ r.newJwt = {} /\ r.sets = s
    BY AnswersOf DEF ConnType
  <2> HIDE DEF r
  <2>3. conn[c].op # "login"
    BY <1>1, AnswersOf DEF Answers
  <2>4. Answers(r, refresh, serial)
    BY <1>1, <2>1, <2>2, <2>3, AnswersOf DEF Answers, SameUser
  <2>5. QED
    BY <1>1, <2>1, <2>4, JarOnward
<1>6. QED
  BY <1>3, <1>4, <1>5 DEF CheckSession

LEMMA LoginReadJar ==
  ASSUME TypeOK, TypeOK', JarInv, [Next]_vars, NEW c \in Conns, NEW b \in Browsers, NEW u \in Users, LoginRead(c, b, u)
  PROVE  JarInv'
<1> DEFINE x == ReadAccount(u)
           r == [IdleConn EXCEPT !.pc = "stamp", !.op = "login", !.from = {b}, !.cred = x]
<1>1. conn' = [conn EXCEPT ![c] = r] /\ UNCHANGED <<jar, mixed>>
  BY DEF LoginRead
<1> HIDE DEF x
<1>2. /\ r.pc = "stamp" /\ r.op = "login" /\ r.rid = {} /\ r.newRid = {} /\ r.newJwt = {} /\ r.sets = {}
  BY DEF IdleConn
<1> HIDE DEF r
<1>3. Answers(r, refresh, serial)
  BY <1>2 DEF Answers, AtMostOne
<1>4. QED
  BY <1>1, <1>3, JarOnward

LEMMA MergeChecksJar ==
  ASSUME TypeOK, TypeOK', JarInv, [Next]_vars, NEW c \in Conns,
         MergeSource(c) \/ (\E u \in Users : MergeTarget(c, u)) \/ MergeProvider(c)
  PROVE  JarInv'
<1>1. conn[c].pc \in {"handler", "target", "provider"} /\ UNCHANGED <<jar, mixed>>
  BY DEF MergeSource, MergeTarget, MergeProvider
<1>2. conn[c].op # "login"
  BY <1>1, AnswersOf DEF Answers
<1>3. ASSUME NEW r, conn' = [conn EXCEPT ![c] = r], r.pc \in {"target", "provider", "transfer", "reply"},
             r.op = conn[c].op, r.from = conn[c].from, r.rid = conn[c].rid,
             r.newRid = conn[c].newRid, r.newJwt = conn[c].newJwt, r.sets = conn[c].sets
      PROVE  JarInv'
  BY <1>1, <1>2, <1>3, OnwardJar
<1>4. ASSUME NEW p \in {"target", "transfer"}, conn' = [conn EXCEPT ![c] = [conn[c] EXCEPT !.pc = p]]
      PROVE  JarInv'
  BY <1>3, <1>4, AnswersOf DEF ConnType
<1>5. ASSUME NEW u \in Users, MergeTarget(c, u) PROVE JarInv'
  <2>1. PICK y \in conn[c].cred :
          conn' = [conn EXCEPT ![c] = [conn[c] EXCEPT !.pc = "provider", !.old = {y.user}, !.cred = ReadAccount(u)]]
    BY <1>5 DEF MergeTarget
  <2> DEFINE r == [conn[c] EXCEPT !.pc = "provider", !.old = {y.user}, !.cred = ReadAccount(u)]
  <2>2. /\ r.pc = "provider" /\ r.op = conn[c].op /\ r.from = conn[c].from /\ r.rid = conn[c].rid
        /\ r.newRid = conn[c].newRid /\ r.newJwt = conn[c].newJwt /\ r.sets = conn[c].sets
    BY AnswersOf DEF ConnType
  <2>3. conn' = [conn EXCEPT ![c] = r]
    BY <2>1
  <2> HIDE DEF r
  <2>4. QED
    BY <1>3, <2>2, <2>3
<1>6. ASSUME conn' = [conn EXCEPT ![c] = [conn[c] EXCEPT !.pc = "reply", !.cred = {}, !.old = {}]] PROVE JarInv'
  BY <1>3, <1>6, AnswersOf DEF ConnType
<1>7. QED
  BY <1>4, <1>5, <1>6 DEF MergeSource, MergeProvider

LEMMA MergeTransferJar ==
  ASSUME TypeOK, TypeOK', JarInv, [Next]_vars, NEW c \in Conns, MergeTransfer(c)
  PROVE  JarInv'
<1>1. conn[c].pc = "transfer" /\ UNCHANGED <<jar, mixed>>
  BY DEF MergeTransfer
<1>2. conn[c].op # "login"
  BY <1>1, AnswersOf DEF Answers
<1>3. ASSUME conn' = [conn EXCEPT ![c] = [conn[c] EXCEPT !.pc = "stamp", !.old = {}]] PROVE JarInv'
  <2> DEFINE r == [conn[c] EXCEPT !.pc = "stamp", !.old = {}]
  <2>1. /\ r.pc = "stamp" /\ r.op = conn[c].op /\ r.from = conn[c].from /\ r.rid = conn[c].rid
        /\ r.newRid = conn[c].newRid /\ r.newJwt = conn[c].newJwt /\ r.sets = conn[c].sets
    BY AnswersOf DEF ConnType
  <2>2. conn' = [conn EXCEPT ![c] = r]
    BY <1>3
  <2> HIDE DEF r
  <2>3. QED
    BY <1>1, <1>2, <2>1, <2>2, OnwardJar
<1>4. ASSUME conn' = [conn EXCEPT ![c] = [conn[c] EXCEPT !.pc = "reply", !.cred = {}, !.old = {}]] PROVE JarInv'
  <2> DEFINE r == [conn[c] EXCEPT !.pc = "reply", !.cred = {}, !.old = {}]
  <2>1. /\ r.pc = "reply" /\ r.op = conn[c].op /\ r.from = conn[c].from /\ r.rid = conn[c].rid
        /\ r.newRid = conn[c].newRid /\ r.newJwt = conn[c].newJwt /\ r.sets = conn[c].sets
    BY AnswersOf DEF ConnType
  <2>2. conn' = [conn EXCEPT ![c] = r]
    BY <1>4
  <2> HIDE DEF r
  <2>3. QED
    BY <1>1, <1>2, <2>1, <2>2, OnwardJar
<1>5. QED
  BY <1>3, <1>4 DEF MergeTransfer

LEMMA StampJar ==
  ASSUME TypeOK, TypeOK', JarInv, [Next]_vars, NEW c \in Conns, StampEpoch(c)
  PROVE  JarInv'
<1>1. conn[c].pc = "stamp" /\ UNCHANGED <<jar, mixed>>
  BY DEF StampEpoch
<1>2. PICK x \in conn[c].cred :
        \E e \in {epoch[x.user]} \union (IF RedisMayFail THEN {0} ELSE {}) :
          conn' = [conn EXCEPT ![c] = [conn[c] EXCEPT !.pc = "issue",
                     !.cred = {[x EXCEPT !.sess = e, !.straddled = x.straddled \/ e > x.sess]}]]
  BY DEF StampEpoch
<1>3. PICK e : conn' = [conn EXCEPT ![c] = [conn[c] EXCEPT !.pc = "issue",
                     !.cred = {[x EXCEPT !.sess = e, !.straddled = x.straddled \/ e > x.sess]}]]
  BY <1>2
<1> DEFINE y == {[x EXCEPT !.sess = e, !.straddled = x.straddled \/ e > x.sess]}
           r == [conn[c] EXCEPT !.pc = "issue", !.cred = y]
<1> HIDE DEF y
<1>4. /\ r.pc = "issue" /\ r.op = conn[c].op /\ r.from = conn[c].from /\ r.rid = conn[c].rid
      /\ r.newRid = conn[c].newRid /\ r.newJwt = conn[c].newJwt /\ r.sets = conn[c].sets
  BY AnswersOf DEF ConnType
<1>5. conn' = [conn EXCEPT ![c] = r]
  BY <1>3 DEF y
<1> HIDE DEF r
<1>6. QED
  BY <1>1, <1>4, <1>5, OnwardJar

LEMMA IssueJar ==
  ASSUME TypeOK, TypeOK', JarInv, [Next]_vars, NEW c \in Conns, IssueCookies(c)
  PROVE  JarInv'
<1>1. conn[c].pc = "issue" /\ UNCHANGED <<jar, mixed>> /\ serial' = serial + 1
  BY DEF IssueCookies
<1>2. ASSUME NEW x \in conn[c].cred, refresh' = refresh \union {[rid |-> serial + 1, cred |-> x]},
             conn' = [conn EXCEPT ![c] = [conn[c] EXCEPT !.pc = "reply",
                        !.newJwt = {[jti |-> serial + 1, cred |-> x]},
                        !.newRid = {serial + 1}, !.sets = conn[c].sets \union LoginCookies(c)]]
      PROVE  JarInv'
  <2> DEFINE q == [rid |-> serial + 1, cred |-> x]
             j == [jti |-> serial + 1, cred |-> x]
             s == conn[c].sets \union LoginCookies(c)
             n == {serial + 1}
             r == [conn[c] EXCEPT !.pc = "reply", !.newJwt = {j}, !.newRid = n, !.sets = s]
  <2>1. /\ conn' = [conn EXCEPT ![c] = r] /\ refresh' = refresh \union {q} /\ q.rid = serial + 1
        /\ j.cred = x /\ q.cred = x /\ s = {"session", "refresh"}
    BY <1>2, AnswersOf DEF LoginCookies, ConnType
  <2> HIDE DEF q, j, s, n
  <2>2. /\ r.pc = "reply" /\ r.op = conn[c].op /\ r.from = conn[c].from /\ r.rid = conn[c].rid
        /\ r.newRid = n /\ r.newJwt = {j} /\ r.sets = s
    BY AnswersOf DEF ConnType
  <2> HIDE DEF r
  <2>3. HeldIn(n, refresh') \subseteq {q}
    BY <2>1, SerialTyped DEF HeldIn, n, JarInv
  <2>4. SameUser(r.newJwt, r.newRid, refresh')
    BY <2>1, <2>2, <2>3 DEF SameUser
  <2>5. /\ AtMostOne(r.rid) /\ AtMostOne(r.newRid) /\ \A i \in r.rid \union r.newRid : i <= serial'
    <3>1. \A i \in r.rid : i \in Nat /\ i <= serial
      BY <2>2, AnswersOf DEF ConnType, Answers
    <3>2. AtMostOne(r.rid)
      BY <2>2, AnswersOf DEF Answers
    <3>3. QED
      BY <1>1, <2>2, <3>1, <3>2, SerialTyped DEF n, AtMostOne
  <2>6. Answers(r, refresh', serial')
    BY <2>1, <2>2, <2>4, <2>5 DEF Answers
  <2>7. QED
    BY <1>1, <2>1, <2>6, RecordsGrow, JarStep
<1>3. ASSUME NEW x \in conn[c].cred, UNCHANGED refresh,
             conn' = [conn EXCEPT ![c] = [conn[c] EXCEPT !.pc = "reply",
                        !.newJwt = {[jti |-> serial + 1, cred |-> x]}, !.rid = {},
                        !.sets = conn[c].sets \union {"session"}]]
      PROVE  JarInv'
  <2> DEFINE j == [jti |-> serial + 1, cred |-> x]
             s == conn[c].sets \union {"session"}
             r == [conn[c] EXCEPT !.pc = "reply", !.newJwt = {j}, !.rid = {}, !.sets = s]
  <2>1. conn' = [conn EXCEPT ![c] = r] /\ "session" \in s
    BY <1>3
  <2>2. "refresh" \in s => "refresh" \in conn[c].sets
    OBVIOUS
  <2> HIDE DEF j, s
  <2>3. /\ r.pc = "reply" /\ r.op = conn[c].op /\ r.rid = {} /\ r.newRid = conn[c].newRid /\ r.newJwt = {j} /\ r.sets = s
    BY AnswersOf DEF ConnType
  <2> HIDE DEF r
  <2>4. conn[c].newRid = {}
    BY <1>1, AnswersOf DEF Answers
  <2>5. SameUser(r.newJwt, {}, refresh)
    BY DEF SameUser, HeldIn
  <2>6. Answers(r, refresh, serial)
    BY <2>1, <2>3, <2>4, <2>5 DEF Answers, AtMostOne
  <2>7. QED
    BY <1>1, <2>1, <2>6, JarOnward
<1>4. QED
  BY <1>2, <1>3 DEF IssueCookies

LEMMA LogoutRevokeJar ==
  ASSUME TypeOK, TypeOK', JarInv, [Next]_vars, NEW c \in Conns, NEW b \in Browsers, LogoutRevoke(c, b)
  PROVE  JarInv'
<1> DEFINE n == jar[b].rid
           r == [IdleConn EXCEPT !.pc = "forget", !.op = "logout", !.from = {b}, !.rid = n]
<1>1. conn' = [conn EXCEPT ![c] = r] /\ UNCHANGED <<jar, mixed>>
  BY DEF LogoutRevoke
<1> HIDE DEF n
<1>2. /\ r.pc = "forget" /\ r.op = "logout" /\ r.from = {b} /\ r.rid = n
      /\ r.newRid = {} /\ r.newJwt = {} /\ r.sets = {}
  BY DEF IdleConn
<1> HIDE DEF r
<1>3. Answers(r, refresh, serial)
  BY <1>2 DEF Answers, AtMostOne, JarInv, n
<1>4. QED
  BY <1>1, <1>3, JarOnward

LEMMA LogoutForgetJar ==
  ASSUME TypeOK, TypeOK', JarInv, [Next]_vars, NEW c \in Conns, LogoutForget(c)
  PROVE  JarInv'
<1> DEFINE s == {"session", "refresh"}
           r == [conn[c] EXCEPT !.pc = "reply", !.sets = s]
<1>1. conn[c].pc = "forget" /\ UNCHANGED <<jar, mixed>> /\ conn' = [conn EXCEPT ![c] = r]
  BY DEF LogoutForget
<1> HIDE DEF s
<1>2. /\ r.pc = "reply" /\ r.op = conn[c].op /\ r.from = conn[c].from /\ r.rid = conn[c].rid
      /\ r.newRid = conn[c].newRid /\ r.newJwt = conn[c].newJwt /\ r.sets = s
  BY AnswersOf DEF ConnType
<1> HIDE DEF r
<1>3. conn[c].newJwt = {} /\ conn[c].newRid = {} /\ conn[c].op # "login"
  BY <1>1, AnswersOf DEF Answers
<1>4. Answers(r, refresh, serial)
  BY <1>2, <1>3, AnswersOf DEF Answers, SameUser, s
<1>5. QED
  BY <1>1, <1>4, JarOnward

(* An answer that does not mix brings an access token of the account of    *)
(* the refresh token it leaves, or of the one it brings.                   *)
LEMMA RespondJar ==
  ASSUME TypeOK, TypeOK', JarInv, [Next]_vars, NEW c \in Conns, Respond(c)
  PROVE  JarInv'
<1>1. /\ conn' = [conn EXCEPT ![c] = IdleConn] /\ UNCHANGED <<refresh, serial>>
      /\ conn \in [Conns -> ConnType]
  BY DEF Respond, redis, clock, TypeOK
<1>2. Answers(conn[c], refresh, serial)
  BY AnswersOf
<1>3. ASSUME NEW b \in Browsers
      PROVE  /\ jar'[b].session = IF b \in conn[c].from /\ "session" \in conn[c].sets THEN conn[c].newJwt ELSE jar[b].session
             /\ jar'[b].rid = IF b \in conn[c].from /\ "refresh" \in conn[c].sets THEN conn[c].newRid ELSE jar[b].rid
  BY <1>3 DEF Respond
<1>4. ASSUME NEW b \in Browsers
      PROVE  AtMostOne(jar'[b].rid) /\ \A n \in jar'[b].rid : n <= serial
  BY <1>2, <1>3 DEF Answers, JarInv
<1>5. ASSUME NEW b \in Browsers, b \notin mixed'
      PROVE  SameUser(jar'[b].session, jar'[b].rid, refresh)
  <2>1. CASE b \in conn[c].from /\ "session" \in conn[c].sets
    <3>1. ~Mixes(c, b)
      BY <1>5, <2>1 DEF Respond
    <3>2. CASE "refresh" \in conn[c].sets
      BY <1>2, <1>3, <2>1, <3>2 DEF Answers
    <3>3. CASE "refresh" \notin conn[c].sets /\ conn[c].newJwt = {}
      BY <1>3, <2>1, <3>3 DEF SameUser
    <3>4. CASE "refresh" \notin conn[c].sets /\ jar[b].rid = conn[c].rid
      BY <1>2, <1>3, <2>1, <3>4 DEF Answers
    <3>5. QED
      BY <3>1, <3>2, <3>3, <3>4 DEF Mixes
  <2>2. CASE ~(b \in conn[c].from /\ "session" \in conn[c].sets)
    <3>1. b \notin mixed
      BY <1>5, <2>2 DEF Respond
    <3>2. SameUser(jar[b].session, jar[b].rid, refresh)
      BY <3>1 DEF JarInv
    <3>3. CASE b \in conn[c].from /\ "refresh" \in conn[c].sets
      BY <1>2, <1>3, <2>2, <3>3 DEF Answers, SameUser, HeldIn
    <3>4. CASE ~(b \in conn[c].from /\ "refresh" \in conn[c].sets)
      BY <1>3, <2>2, <3>2, <3>4
    <3>5. QED
      BY <3>3, <3>4
  <2>3. QED
    BY <2>1, <2>2
<1>6. ASSUME NEW d \in Conns PROVE Answers(conn'[d], refresh, serial)
  <2>1. CASE d = c
    BY <1>1, <2>1 DEF Answers, IdleConn, AtMostOne
  <2>2. CASE d # c
    BY <1>1, <2>2 DEF JarInv
  <2>3. QED
    BY <2>1, <2>2
<1>7. QED
  BY <1>1, <1>4, <1>5, <1>6 DEF JarInv

(* Whatever leaves the requests alone and takes cookies at most.           *)
LEMMA OthersJar ==
  ASSUME TypeOK, TypeOK', JarInv, [Next]_vars, UNCHANGED <<conn, mixed>>,
         \A b \in Browsers : jar'[b].session \subseteq jar[b].session /\ jar'[b].rid \subseteq jar[b].rid
  PROVE  JarInv'
<1>1. Growing
  BY RecordsGrow
<1>2. ASSUME NEW c \in Conns PROVE Answers(conn'[c], refresh', serial')
  <2>1. conn'[c] = conn[c] /\ conn[c].rid \subseteq Nat /\ conn[c].newRid \subseteq Nat /\ conn[c].from \subseteq Browsers
    BY DEF TypeOK, ConnType
  <2>2. QED
    BY <1>1, <2>1, AnswersKept DEF JarInv
<1>3. ASSUME NEW b \in Browsers
      PROVE  /\ AtMostOne(jar'[b].rid) /\ \A n \in jar'[b].rid : n <= serial'
             /\ b \notin mixed => SameUser(jar'[b].session, jar'[b].rid, refresh')
  <2>1. jar[b].rid \subseteq Nat /\ (\A n \in jar[b].rid : n <= serial) /\ AtMostOne(jar[b].rid)
    BY DEF TypeOK, JarInv
  <2>2. HeldIn(jar[b].rid, refresh') \subseteq HeldIn(jar[b].rid, refresh)
    BY <1>1, <2>1, HeldKept
  <2>3. HeldIn(jar'[b].rid, refresh') \subseteq HeldIn(jar[b].rid, refresh)
    BY <2>2 DEF HeldIn
  <2>4. \A n \in jar[b].rid : n <= serial'
    BY <1>1, <2>1, SerialTyped DEF Growing
  <2>5. QED
    BY <2>1, <2>3, <2>4 DEF JarInv, SameUser, AtMostOne
<1>4. \A q \in refresh' : q.rid <= serial'
  BY <1>1, SerialTyped DEF Growing, JarInv
<1>5. QED
  BY <1>1, <1>2, <1>3, <1>4 DEF JarInv, Growing

LEMMA JarInductive == TypeOK /\ JarInv /\ [Next]_vars => JarInv'
<1> SUFFICES ASSUME TypeOK, JarInv, [Next]_vars PROVE JarInv'
  OBVIOUS
<1>0. TypeOK'
  BY TypeStep
<1>1. ASSUME NEW c \in Conns, NEW b \in Browsers, NEW op \in {"get", "merge"}, Arrive(c, b, op) PROVE JarInv'
  BY <1>0, <1>1, ArriveJar
<1>2. ASSUME NEW c \in Conns, ConnStep(c) PROVE JarInv'
  BY <1>0, <1>2, LookupJar, CheckLockedJar, RenewJar, DropJar, CheckJar, MergeChecksJar, MergeTransferJar,
     StampJar, IssueJar, LogoutForgetJar, RespondJar DEF ConnStep
<1>3. ASSUME NEW c \in Conns, NEW b \in Browsers, NEW u \in Users, LoginRead(c, b, u) PROVE JarInv'
  BY <1>0, <1>3, LoginReadJar
<1>4. ASSUME NEW c \in Conns, NEW b \in Browsers, LogoutRevoke(c, b) PROVE JarInv'
  BY <1>0, <1>4, LogoutRevokeJar
<1>5. ASSUME NEW b \in Browsers, DropCookies(b) PROVE JarInv'
  <2>1. UNCHANGED <<conn, mixed>>
    BY <1>5 DEF DropCookies
  <2>2. QED
    BY <1>0, <1>5, <2>1, DroppedCookies, OthersJar
<1>6. CASE UNCHANGED <<conn, jar, mixed>>
  BY <1>0, <1>6, OthersJar
<1>7. QED
  BY <1>1, <1>2, <1>3, <1>4, <1>5, <1>6
     DEF Next, AdminStep, vars, AdminWrite, AdminMirror, AdminBump, ExpireJwt, ExpireRefresh

(* Whatever requests overlap and whatever Redis does, a browser's two      *)
(* cookies are of one account unless its last access token came in an      *)
(* answer without the refresh token it holds.                              *)
THEOREM JarsHoldOneAccount == Spec => []JarIdentity
<1>1. Init => JarInv
  BY DEF Init, JarInv, Unique, AtMostOne, SameUser, Answers, IdleConn
<1>2. TypeOK /\ JarInv /\ [Next]_vars => (TypeOK /\ JarInv)'
  BY TypeStep, JarInductive
<1>3. JarInv => JarIdentity
  BY DEF JarInv, SameUser, HeldIn, Held, JarIdentity
<1>4. QED
  BY <1>1, <1>2, <1>3, InitTypeOK, PTL DEF Spec
=============================================================================
