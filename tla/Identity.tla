------------------------------ MODULE Identity ------------------------------
(***************************************************************************)
(* How an account is entered and what is known of its e-mail address:      *)
(* signup, sign-in through an OAuth provider, linking and unlinking a      *)
(* provider, manual e-mail verification, merging two accounts, passwords   *)
(* and deletion (server/json_auth_handlers.go, auth_handlers.go,           *)
(* email_verify_handlers.go, account_handlers.go, repository/postgres.go). *)
(*                                                                         *)
(* A handler reads the users table in one statement and writes it in a     *)
(* later one; between the two any other handler may run.  One action per   *)
(* statement, or per group of statements that nothing can come between     *)
(* without being caught by a unique index.                                 *)
(***************************************************************************)
EXTENDS Naturals, Sequences, FiniteSets

CONSTANTS
  Accounts,     \* serial ids, never used twice
  Names,        \* usernames in their canonical lowercase form
  Emails,
  Idents,       \* identities at the providers (provider, provider_id)
  EmailOf,      \* the verified address the provider reports for an identity
  ProviderOf,   \* the provider that knows an identity
  HandlesOf,    \* the usernames the callback's retry loop tries, in order
  Tokens,       \* e-mail verification tokens
  Procs,        \* handler goroutines
  Founder,      \* the account that exists at the start, and its name
  FounderName,
  MaxOps,       \* bound: requests in a behaviour
  None

ASSUME IdentityAssumption ==
  /\ EmailOf \in [Idents -> Emails]
  /\ HandlesOf \in [Idents -> Seq(Names) \ {<<>>}]
  /\ Founder \in Accounts /\ FounderName \in Names
  /\ MaxOps \in Nat
  /\ None \notin Accounts \cup Names \cup Emails \cup Idents \cup Tokens

VARIABLES
  row,          \* the users table
  token,        \* email_verification_tokens
  inbox,        \* tokens whose mail was sent
  proc,         \* the handlers in progress
  ops,          \* requests so far
  proven,       \* history: (account, address) pairs with a followed link or a provider's word
  stale         \* history: accounts written by a handler that was wrong about what they held, because
                \* another request came between its statements or because its lookup had failed

vars == <<row, token, inbox, proc, ops, proven, stale>>

Stages == {"idle", "signupInsert", "oauthAutoLink", "oauthHandle", "oauthInsert", "linkWrite",
           "unlinkWrite", "verifyStart", "verifyMail", "consumeCompare", "consumeFlip",
           "emailUnlinkWrite", "mergeTarget", "mergeProvider", "mergeTransfer"}

Row == [state : {"new", "live", "gone"}, name : Names \cup {None}, password : BOOLEAN,
        ident : Idents \cup {None}, email : Emails \cup {None}, verified : BOOLEAN]

Token == [state : {"unborn", "open", "used", "expired"}, user : Accounts \cup {None},
          email : Emails \cup {None}]

Proc == [at : Stages, user : Accounts \cup {None}, target : Accounts \cup {None},
         what : Names \cup Emails \cup Idents \cup Tokens \cup {None},
         seen : Names \cup Emails \cup Idents \cup {None}]   \* what an earlier statement read

NoRow == [state |-> "new", name |-> None, password |-> FALSE, ident |-> None, email |-> None,
          verified |-> FALSE]
Gone == [NoRow EXCEPT !.state = "gone"]
Idle == [at |-> "idle", user |-> None, target |-> None, what |-> None, seen |-> None]
Unborn == [state |-> "unborn", user |-> None, email |-> None]

\* Usernames, addresses and identities are unique, and a row that is gone holds none.
IndexesHold ==
  /\ \A a \in Accounts : row[a].state # "live" => row[a] \in {NoRow, Gone}
  /\ \A a, b \in Accounts :
       a # b => /\ row[a].name # None => row[a].name # row[b].name
                /\ row[a].email # None => row[a].email # row[b].email
                /\ row[a].ident # None => row[a].ident # row[b].ident

TypeOK ==
  /\ row \in [Accounts -> Row] /\ IndexesHold
  /\ token \in [Tokens -> Token]
  /\ inbox \subseteq Tokens
  /\ proc \in [Procs -> Proc]
  /\ ops \in Nat
  /\ proven \subseteq Accounts \X Emails
  /\ stale \subseteq Accounts

Init ==
  /\ row = [a \in Accounts |->
              IF a = Founder THEN [NoRow EXCEPT !.state = "live", !.name = FounderName, !.password = TRUE]
              ELSE NoRow]
  /\ token = [t \in Tokens |-> Unborn]
  /\ inbox = {}
  /\ proc = [p \in Procs |-> Idle]
  /\ ops = 0
  /\ proven = {}
  /\ stale = {}

-----------------------------------------------------------------------------
(* The table and its unique indexes.                                       *)

Live(a) == row[a].state = "live"
NameTaken(n) == \E a \in Accounts : row[a].name = n
NoOwner(e) == {}
EmailOwner(e) == {a \in Accounts : row[a].email = e}
IdentOwner(i) == {a \in Accounts : row[a].ident = i}

\* A request starts, within the bound, and waits at its next statement.
Begin(p, at, u, v, what, seen) ==
  /\ proc[p].at = "idle" /\ ops < MaxOps
  /\ ops' = ops + 1
  /\ proc' = [proc EXCEPT ![p] = [at |-> at, user |-> u, target |-> v, what |-> what, seen |-> seen]]
  /\ UNCHANGED <<row, token, inbox, proven, stale>>

\* A request that is answered after its first statement.
Once(p) == /\ proc[p].at = "idle" /\ ops < MaxOps
           /\ ops' = ops + 1 /\ UNCHANGED proc

Goto(p, at) == proc' = [proc EXCEPT ![p] = [proc[p] EXCEPT !.at = at]]
Return(p) == proc' = [proc EXCEPT ![p] = Idle]

\* The row is deleted; its tokens go with it (ON DELETE CASCADE).
SpentFor(us) == [t \in Tokens |->
  IF token[t].user \in us /\ token[t].state = "open" THEN [token[t] EXCEPT !.state = "used"] ELSE token[t]]

\* Any statement may fail: the handler answers with an error and its transaction rolls back.
Fails(p) ==
  /\ proc[p].at # "idle"
  /\ Return(p)
  /\ UNCHANGED <<row, token, inbox, ops, proven, stale>>

-----------------------------------------------------------------------------
(* createAccount: the name is looked up, then inserted under the index.    *)

SignupCheck(p, n) == ~NameTaken(n) /\ Begin(p, "signupInsert", None, None, n, None)

SignupInsert(p) ==
  /\ proc[p].at = "signupInsert"
  /\ IF NameTaken(proc[p].what) THEN UNCHANGED row
     ELSE \E a \in Accounts :
            /\ row[a].state = "new"
            /\ row' = [row EXCEPT ![a] = [NoRow EXCEPT !.state = "live", !.name = proc[p].what,
                                                       !.password = TRUE]]
  /\ Return(p)
  /\ UNCHANGED <<token, inbox, ops, proven, stale>>

-----------------------------------------------------------------------------
(* HandleOAuthCallback, without a link state: find, link by address, or    *)
(* create.  A failed lookup is taken for "no such row", as the code does.  *)

OAuthLookup(p, i) == IdentOwner(i) = {} /\ Begin(p, "oauthAutoLink", None, None, i, None)
OAuthLookupFails(p, i) == IdentOwner(i) # {} /\ Begin(p, "oauthAutoLink", None, None, i, None)

\* LinkProviderByEmailIfEligible: one transaction with the row locked.
Eligible(a) == ~row[a].password /\ row[a].ident = None /\ row[a].verified

OAuthAutoLink(p) ==
  LET i == proc[p].what
      owners == EmailOwner(EmailOf[i])
      linked == {a \in owners : Eligible(a) /\ IdentOwner(i) = {}}
  IN /\ proc[p].at = "oauthAutoLink"
     /\ row' = [a \in Accounts |->
                  IF a \in linked THEN [row[a] EXCEPT !.ident = i, !.verified = TRUE] ELSE row[a]]
     /\ proven' = proven \cup (linked \X {EmailOf[i]})
     /\ IF owners = {} THEN Goto(p, "oauthHandle") ELSE Return(p)
     /\ UNCHANGED <<token, inbox, ops, stale>>

OAuthAutoLinkFails(p) ==
  /\ proc[p].at = "oauthAutoLink"
  /\ Goto(p, "oauthHandle")
  /\ UNCHANGED <<row, token, inbox, ops, proven, stale>>

\* The first free username of the list; the last one, free or not, when none is.
PickHandle(hs) ==
  LET free == {k \in 1 .. Len(hs) : ~NameTaken(hs[k])}
  IN hs[IF free = {} THEN Len(hs) ELSE CHOOSE k \in free : \A j \in free : k <= j]

OAuthHandle(p) ==
  /\ proc[p].at = "oauthHandle"
  /\ proc' = [proc EXCEPT ![p] = [proc[p] EXCEPT !.at = "oauthInsert",
                                                !.seen = PickHandle(HandlesOf[proc[p].what])]]
  /\ UNCHANGED <<row, token, inbox, ops, proven, stale>>

\* CreateOAuthUser: three unique indexes stand in its way.
OAuthInsert(p) ==
  LET i == proc[p].what
      n == proc[p].seen
  IN /\ proc[p].at = "oauthInsert"
     /\ IF NameTaken(n) \/ EmailOwner(EmailOf[i]) # {} \/ IdentOwner(i) # {}
        THEN UNCHANGED <<row, proven>>
        ELSE \E a \in Accounts :
               /\ row[a].state = "new"
               /\ row' = [row EXCEPT ![a] = [state |-> "live", name |-> n, password |-> FALSE, ident |-> i,
                                             email |-> EmailOf[i], verified |-> TRUE]]
               /\ proven' = proven \cup {<<a, EmailOf[i]>>}
     /\ Return(p)
     /\ UNCHANGED <<token, inbox, ops, stale>>

-----------------------------------------------------------------------------
(* Linking a provider to the signed-in account, and unlinking it.          *)

SameProvider(u, i) == row[u].ident # None /\ ProviderOf[row[u].ident] = ProviderOf[i]

\* Three lookups, each of which refuses nothing when it fails.  An identity of another provider does not
\* stand in the way either: it is written over.
LinkCheck(p, u, i) ==
  /\ Live(u)
  /\ \E failed \in SUBSET {"identity", "address", "provider"} :
       /\ "identity" \in failed \/ IdentOwner(i) \subseteq {u}
       /\ "address" \in failed \/ EmailOwner(EmailOf[i]) \subseteq {u}
       /\ "provider" \in failed \/ ~SameProvider(u, i)
  /\ Begin(p, "linkWrite", u, None, i, None)

\* LinkProviderID, under the unique indexes.
LinkWrite(p) ==
  LET u == proc[p].user
      i == proc[p].what
  IN /\ proc[p].at = "linkWrite"
     /\ IF Live(u) /\ IdentOwner(i) \subseteq {u} /\ EmailOwner(EmailOf[i]) \subseteq {u}
        THEN /\ row' = [row EXCEPT ![u] = [row[u] EXCEPT !.ident = i, !.email = EmailOf[i], !.verified = TRUE]]
             /\ proven' = proven \cup {<<u, EmailOf[i]>>}
        ELSE UNCHANGED <<row, proven>>
     /\ Return(p)
     /\ UNCHANGED <<token, inbox, ops, stale>>

AnyAccount(u) == Live(u)
\* HasPassword, the guard of HandleUnlinkProvider.
HasPassword(u) == Live(u) /\ row[u].password

UnlinkCheck(p, u) == HasPassword(u) /\ Begin(p, "unlinkWrite", u, None, None, None)

UnlinkedAddress(u) == [row[u] EXCEPT !.email = None, !.verified = FALSE]
\* UnlinkProvider.
Unlinked(u) == [row[u] EXCEPT !.ident = None, !.email = None, !.verified = FALSE]

UnlinkWrite(p) ==
  LET u == proc[p].user
  IN /\ proc[p].at = "unlinkWrite"
     /\ row' = IF Live(u) THEN [row EXCEPT ![u] = Unlinked(u)] ELSE row
     /\ Return(p)
     /\ UNCHANGED <<token, inbox, ops, proven, stale>>

\* HandleSetPassword, and an administrator's reset: the same statement.
SetPassword(p, u) ==
  /\ Live(u) /\ Once(p)
  /\ row' = [row EXCEPT ![u] = [row[u] EXCEPT !.password = TRUE]]
  /\ UNCHANGED <<token, inbox, proven, stale>>

-----------------------------------------------------------------------------
(* Manual e-mail verification.                                             *)

VerifyCheck(p, u, e) ==
  /\ Live(u) /\ row[u].ident = None /\ EmailOwner(e) \subseteq {u}
  /\ Begin(p, "verifyStart", u, None, e, row[u].ident)

\* A failed lookup is taken for "no provider linked", or for "nobody has this address".
VerifyCheckFails(p, u, e) ==
  /\ Live(u) /\ (row[u].ident # None \/ ~(EmailOwner(e) \subseteq {u}))
  /\ Begin(p, "verifyStart", u, None, e, None)

ClaimingKeepsFlag(u, e) == [row[u] EXCEPT !.email = e]
\* The address is replaced and has to be proven again.
Claiming(u, e) == [row[u] EXCEPT !.email = e, !.verified = FALSE]

\* StartEmailVerification, one transaction: the address, the old tokens, the new one.
VerifyStart(p) ==
  LET u == proc[p].user
      e == proc[p].what
  IN /\ proc[p].at = "verifyStart"
     /\ IF Live(u) /\ EmailOwner(e) \subseteq {u}
        THEN \E t \in Tokens :
               /\ token[t].state = "unborn"
               /\ row' = [row EXCEPT ![u] = Claiming(u, e)]
               /\ token' = [SpentFor({u}) EXCEPT ![t] = [state |-> "open", user |-> u, email |-> e]]
               /\ stale' = stale \cup {x \in {u} : row[u].ident # proc[p].seen}
               /\ proc' = [proc EXCEPT ![p] = [proc[p] EXCEPT !.at = "verifyMail", !.what = t]]
        ELSE Return(p) /\ UNCHANGED <<row, token, stale>>
     /\ UNCHANGED <<inbox, ops, proven>>

\* The mail goes out in a goroutine of its own; a failure (Fails) is logged only.
VerifyMail(p) ==
  /\ proc[p].at = "verifyMail"
  /\ inbox' = inbox \cup {proc[p].what}
  /\ Return(p)
  /\ UNCHANGED <<row, token, ops, proven, stale>>

Expire(t) ==
  /\ token[t].state = "open"
  /\ token' = [token EXCEPT ![t] = [token[t] EXCEPT !.state = "expired"]]
  /\ UNCHANGED <<row, inbox, proc, ops, proven, stale>>

\* ConsumeEmailVerifyToken: READ COMMITTED, so each statement sees what was committed before it.
ConsumeRead(p, t) ==
  /\ t \in inbox /\ token[t].state = "open"
  /\ Begin(p, "consumeCompare", token[t].user, None, t, None)

AnyAddress(u, t) == Live(u)
\* The token's user exists and still has the token's address.
SameAddress(u, t) == Live(u) /\ row[u].email = token[t].email

ConsumeCompare(p) ==
  LET u == proc[p].user
  IN /\ proc[p].at = "consumeCompare"
     /\ IF SameAddress(u, proc[p].what)
        THEN proc' = [proc EXCEPT ![p] = [proc[p] EXCEPT !.at = "consumeFlip", !.seen = row[u].email]]
        ELSE Return(p)
     /\ UNCHANGED <<row, token, inbox, ops, proven, stale>>

ConsumeFlip(p) ==
  LET u == proc[p].user
      t == proc[p].what
  IN /\ proc[p].at = "consumeFlip"
     /\ token' = [token EXCEPT ![t] = [token[t] EXCEPT !.state = "used"]]
     /\ row' = IF Live(u) THEN [row EXCEPT ![u] = [row[u] EXCEPT !.verified = TRUE]] ELSE row
     /\ proven' = proven \cup {<<u, token[t].email>>}
     /\ stale' = stale \cup {x \in {u} : Live(u) /\ row[u].email # proc[p].seen}
     /\ Return(p)
     /\ UNCHANGED <<inbox, ops>>

\* UnlinkUserEmail: the provider is read without a lock, in the transaction of the write.
EmailUnlinkCheck(p, u) == Live(u) /\ row[u].ident = None /\ Begin(p, "emailUnlinkWrite", u, None, None, row[u].ident)

EmailUnlinkWrite(p) ==
  LET u == proc[p].user
  IN /\ proc[p].at = "emailUnlinkWrite"
     /\ row' = IF Live(u) THEN [row EXCEPT ![u] = [row[u] EXCEPT !.email = None, !.verified = FALSE]] ELSE row
     /\ token' = SpentFor({u})
     /\ stale' = stale \cup {x \in {u} : Live(u) /\ row[u].ident # proc[p].seen}
     /\ Return(p)
     /\ UNCHANGED <<inbox, ops, proven>>

-----------------------------------------------------------------------------
(* Merging the signed-in OAuth account into one whose password is known.   *)

MergeSource(p, u) ==
  /\ Live(u) /\ row[u].ident # None
  /\ Begin(p, "mergeTarget", u, None, None, row[u].ident)

\* The target's name and password; a target that is refused ends the request, like a failed lookup (Fails).
MergeTarget(p) ==
  /\ proc[p].at = "mergeTarget"
  /\ \E v \in Accounts \ {proc[p].user} :
       /\ Live(v) /\ row[v].password
       /\ proc' = [proc EXCEPT ![p] = [proc[p] EXCEPT !.at = "mergeProvider", !.target = v]]
  /\ UNCHANGED <<row, token, inbox, ops, proven, stale>>

MergeProvider(p) ==
  /\ proc[p].at = "mergeProvider" /\ row[proc[p].target].ident = None
  /\ Goto(p, "mergeTransfer")
  /\ UNCHANGED <<row, token, inbox, ops, proven, stale>>

\* The error of this lookup is ignored: a target that is linked passes for one that is not.
MergeProviderFails(p) ==
  /\ proc[p].at = "mergeProvider" /\ row[proc[p].target].ident # None
  /\ Goto(p, "mergeTransfer")
  /\ UNCHANGED <<row, token, inbox, ops, proven, stale>>

\* The address of account u is the word of the provider it is linked to.
Vouched(u) == row[u].ident # None /\ row[u].email = EmailOf[row[u].ident]

\* TransferProvider, one transaction: what the source holds now is the target's, and stamped verified
\* whether or not a provider vouches for it.  An UPDATE of a row that is gone changes nothing.
MergeTransfer(p) ==
  LET u == proc[p].user
      v == proc[p].target
  IN /\ proc[p].at = "mergeTransfer"
     /\ IF Live(u)
        THEN /\ row' = [a \in Accounts |->
                          CASE a = u -> Gone
                            [] a = v /\ Live(v) -> [row[v] EXCEPT !.ident = row[u].ident, !.email = row[u].email,
                                                                  !.verified = TRUE]
                            [] OTHER -> row[a]]
             /\ token' = SpentFor({u})
             /\ proven' = IF Vouched(u) THEN proven \cup {<<v, row[u].email>>} ELSE proven
             /\ stale' = stale \cup {x \in {v} : /\ Live(v)
                                                  /\ \/ row[u].ident = None /\ proc[p].seen # None
                                                     \/ u \in stale}
        ELSE UNCHANGED <<row, token, proven, stale>>
     /\ Return(p)
     /\ UNCHANGED <<inbox, ops>>

\* HandleAdminUserDelete.
Delete(p, u) ==
  /\ Live(u) /\ Once(p)
  /\ row' = [row EXCEPT ![u] = Gone]
  /\ token' = SpentFor({u})
  /\ UNCHANGED <<inbox, proven, stale>>

-----------------------------------------------------------------------------
Arrival(p) ==
  \/ \E n \in Names : SignupCheck(p, n)
  \/ \E i \in Idents : OAuthLookup(p, i) \/ OAuthLookupFails(p, i)
  \/ \E t \in Tokens : ConsumeRead(p, t)
  \/ \E u \in Accounts :
       \/ UnlinkCheck(p, u) \/ SetPassword(p, u) \/ EmailUnlinkCheck(p, u) \/ Delete(p, u)
       \/ \E i \in Idents : LinkCheck(p, u, i)
       \/ \E e \in Emails : VerifyCheck(p, u, e) \/ VerifyCheckFails(p, u, e)
       \/ MergeSource(p, u)

Step(p) ==
  \/ SignupInsert(p) \/ OAuthAutoLink(p) \/ OAuthAutoLinkFails(p) \/ OAuthHandle(p) \/ OAuthInsert(p)
  \/ LinkWrite(p) \/ UnlinkWrite(p) \/ VerifyStart(p) \/ VerifyMail(p)
  \/ ConsumeCompare(p) \/ ConsumeFlip(p) \/ EmailUnlinkWrite(p)
  \/ MergeTarget(p) \/ MergeProvider(p) \/ MergeProviderFails(p) \/ MergeTransfer(p) \/ Fails(p)

Next == \/ \E p \in Procs : Arrival(p) \/ Step(p)
        \/ \E t \in Tokens : Expire(t)

Spec == Init /\ [][Next]_vars

-----------------------------------------------------------------------------
(* Properties.                                                             *)

\* A verified address is one whose link was followed for this account, or for which the provider vouched
\* (the gate of alert mails relies on it); the accounts excepted were written by a handler that a concurrent
\* request, or its own failed lookup, had left wrong about what they held, or took such an account over.
VerifiedIsProven ==
  \A a \in Accounts \ stale :
    row[a].verified => row[a].email # None /\ <<a, row[a].email>> \in proven

\* "your email is managed by your linked provider": a linked account has the provider's address, verified,
\* with the same exception.
ProviderManagesEmail ==
  \A a \in Accounts \ stale :
    row[a].ident # None => row[a].email = EmailOf[row[a].ident] /\ row[a].verified

\* No order of unlinking, merging, deleting and password changes leaves an account without a way in.
\* (So no account is ever eligible for the automatic link by address: Eligible is false everywhere.)
EveryoneCanSignIn ==
  \A a \in Accounts : Live(a) => row[a].password \/ row[a].ident # None

\* The abstract specification of an account's address.  An excepted account is lost to it.
claimed == [a \in Accounts |->
  IF a \in stale THEN [kind |-> "lost", email |-> None]
  ELSE IF row[a].email = None THEN [kind |-> "none", email |-> None]
  ELSE [kind |-> IF row[a].ident # None THEN "vouched" ELSE IF row[a].verified THEN "proven" ELSE "claimed",
        email |-> row[a].email]]

Abstract == INSTANCE Claims WITH claim <- claimed
\* Identity implements Claims: an address is proven for the account that claimed it, one a provider vouches
\* for is replaced by hand only where the account is lost to it, and only a merge moves one, in every
\* interleaving of the handlers and whichever of their lookups fail.
ImplementsClaims == Abstract!Spec
=============================================================================
