--------------------------- MODULE IdentityProofs ---------------------------
(***************************************************************************)
(* Why every account keeps a way in, and what its address is worth.  The   *)
(* argument is about what a handler still knows at its second statement:   *)
(* serial ids are never reused and passwords are never removed, so the     *)
(* password that unlinking and merging looked up is still there; a token   *)
(* never changes its address; everything else may have changed, and is     *)
(* either compared again or leaves its account among the stale ones, and   *)
(* so does a provider that a failed lookup missed.                         *)
(***************************************************************************)
EXTENDS Identity, TLAPS, WellFoundedInduction

\* Account a exists, or did, and has a password while it lives: this lasts.
Secured(a) == row[a].state # "new" /\ (Live(a) => row[a].password)

(* What the record of a handler in progress holds at each stage.           *)
Knows(f) ==
  /\ f.at = "signupInsert" => f.what \in Names
  /\ f.at \in {"oauthAutoLink", "oauthHandle", "oauthInsert", "linkWrite"} => f.what \in Idents
  /\ f.at = "oauthInsert" => f.seen \in Names
  /\ f.at \in {"linkWrite", "unlinkWrite", "verifyStart", "consumeCompare", "consumeFlip",
               "emailUnlinkWrite", "mergeTarget", "mergeProvider", "mergeTransfer"} => f.user \in Accounts
  /\ f.at \in {"verifyStart", "emailUnlinkWrite"} => f.seen = None
  /\ f.at = "verifyStart" => f.what \in Emails
  /\ f.at \in {"verifyMail", "consumeCompare", "consumeFlip"} => f.what \in Tokens
  /\ f.at \in {"consumeCompare", "consumeFlip"} => token[f.what].state # "unborn"
  /\ f.at = "consumeFlip" => f.seen \in Emails /\ f.seen = token[f.what].email
  /\ f.at = "unlinkWrite" => Secured(f.user)
  /\ f.at \in {"mergeTarget", "mergeProvider", "mergeTransfer"} => f.seen \in Idents
  /\ f.at \in {"mergeProvider", "mergeTransfer"} => f.target \in Accounts \ {f.user} /\ Secured(f.target)

TokensAreAddressed ==
  \A t \in Tokens : token[t].state # "unborn" => token[t].user \in Accounts /\ token[t].email \in Emails

(* What the table promises of account a, given the history.                *)
RowHolds(r, a, known, lost) ==
  /\ r.state = "live" => r.password \/ r.ident # None
  /\ a \notin lost => /\ r.verified => r.email # None /\ <<a, r.email>> \in known
                      /\ r.ident # None => r.email = EmailOf[r.ident] /\ r.verified

IInv ==
  /\ TypeOK
  /\ TokensAreAddressed
  /\ \A p \in Procs : Knows(proc[p])
  /\ \A a \in Accounts : RowHolds(row[a], a, proven, stale)

(* A row that account a may have beside the others.                        *)
Fits(r, a) ==
  /\ r \in Row
  /\ r.state # "live" => r \in {NoRow, Gone}
  /\ \A b \in Accounts \ {a} :
       /\ r.name # None => r.name # row[b].name
       /\ r.email # None => r.email # row[b].email
       /\ r.ident # None => r.ident # row[b].ident

(* What no step takes back.                                                *)
RowsKeep == \A a \in Accounts : Secured(a) => Secured(a)'
TokensKeep ==
  \A t \in Tokens : token[t].state # "unborn" => token'[t].state # "unborn" /\ token'[t].email = token[t].email
HistoryGrows == /\ proven \subseteq proven' /\ proven' \subseteq Accounts \X Emails
                /\ stale \subseteq stale' /\ stale' \subseteq Accounts

TableHolds ==
  /\ row \in [Accounts -> Row] /\ IndexesHold
  /\ \A a \in Accounts : RowHolds(row[a], a, proven, stale)

-----------------------------------------------------------------------------
(* Rows.                                                                   *)

LEMMA NoneApart ==
  /\ None \notin Accounts /\ None \notin Names /\ None \notin Emails
  /\ None \notin Idents /\ None \notin Tokens
BY IdentityAssumption

LEMMA FounderNamed == Founder \in Accounts /\ FounderName \in Names
BY IdentityAssumption

LEMMA Renamed ==
  ASSUME NEW r \in Row, NEW n \in Names
  PROVE  LET d == [r EXCEPT !.state = "gone"]
             e == [r EXCEPT !.state = "live", !.name = n, !.password = TRUE]
         IN /\ d \in Row /\ d.state = "gone" /\ d.name = r.name /\ d.ident = r.ident
            /\ d.email = r.email /\ d.verified = r.verified
            /\ e \in Row /\ e.state = "live" /\ e.name = n /\ e.ident = r.ident
            /\ e.email = r.email /\ e.verified = r.verified /\ e.password
BY DEF Row

LEMMA EmptyRows ==
  /\ NoRow \in Row /\ Gone \in Row
  /\ \A r \in {NoRow, Gone} : r.state # "live" /\ r.name = None /\ r.email = None /\ r.ident = None
                              /\ ~r.verified
  /\ Gone.state = "gone"
<1>1. NoRow \in Row
  BY DEF Row, NoRow
<1>2. NoRow.state = "new" /\ NoRow.name = None /\ NoRow.email = None /\ NoRow.ident = None
      /\ ~NoRow.verified
  BY DEF NoRow
<1>3. Gone \in Row /\ Gone.state = "gone" /\ Gone.name = NoRow.name /\ Gone.ident = NoRow.ident
      /\ Gone.email = NoRow.email /\ Gone.verified = NoRow.verified
  BY <1>1, Renamed, FounderNamed DEF Gone
<1>4. QED
  BY <1>1, <1>2, <1>3

LEMMA InsertedRow ==
  ASSUME NEW n \in Names, NEW r, r = [NoRow EXCEPT !.state = "live", !.name = n, !.password = TRUE]
  PROVE  /\ r \in Row /\ r.state = "live" /\ r.name = n /\ r.ident = None /\ r.email = None
         /\ ~r.verified /\ r.password
<1>1. NoRow \in Row /\ NoRow.ident = None /\ NoRow.email = None /\ ~NoRow.verified
  BY EmptyRows
<1>2. r.state = "live" /\ r.name = n /\ r.password /\ r.ident = NoRow.ident
      /\ r.email = NoRow.email /\ r.verified = NoRow.verified
  BY <1>1 DEF Row
<1>3. r \in Row
  BY <1>1 DEF Row
<1>4. QED
  BY <1>1, <1>2, <1>3

\* An address, a name or an identity in the table belongs to a row that is live.
LEMMA OwnerLives ==
  ASSUME TypeOK, NEW a \in Accounts, ~Live(a)
  PROVE  row[a].name = None /\ row[a].email = None /\ row[a].ident = None /\ ~row[a].verified
BY EmptyRows DEF TypeOK, IndexesHold, Live

\* One row is replaced by one that fits.
LEMMA PutRow ==
  ASSUME IInv, HistoryGrows, NEW u \in Accounts, NEW r,
         row' = [row EXCEPT ![u] = r],
         Fits(r, u), Secured(u) => r.state # "new" /\ (r.state = "live" => r.password),
         RowHolds(r, u, proven', stale')
  PROVE  TableHolds' /\ RowsKeep
<1>1. row' \in [Accounts -> Row]
  BY DEF IInv, TypeOK, Fits
<1>2. row'[u] = r /\ \A a \in Accounts \ {u} : row'[a] = row[a]
  BY DEF IInv, TypeOK
<1>3. IndexesHold'
  <2>1. ASSUME NEW a \in Accounts, row'[a].state # "live" PROVE row'[a] \in {NoRow, Gone}
    BY <1>2, <2>1 DEF IInv, TypeOK, IndexesHold, Fits
  <2>2. ASSUME NEW a \in Accounts, NEW b \in Accounts, a # b
        PROVE  /\ row'[a].name # None => row'[a].name # row'[b].name
               /\ row'[a].email # None => row'[a].email # row'[b].email
               /\ row'[a].ident # None => row'[a].ident # row'[b].ident
    <3>1. CASE a = u
      BY <1>2, <2>2, <3>1 DEF Fits
    <3>2. CASE b = u
      <4>1. row'[a] = row[a] /\ row'[b] = r /\ a \in Accounts \ {u}
        BY <1>2, <2>2, <3>2
      <4>2. QED
        BY <4>1 DEF Fits
    <3>3. CASE a # u /\ b # u
      BY <1>2, <2>2, <3>3 DEF IInv, TypeOK, IndexesHold
    <3>4. QED
      BY <3>1, <3>2, <3>3
  <2>3. QED
    BY <2>1, <2>2 DEF IndexesHold
<1>4. ASSUME NEW a \in Accounts PROVE RowHolds(row'[a], a, proven', stale')
  <2>1. CASE a = u
    BY <1>2, <2>1 DEF RowHolds
  <2>2. CASE a # u
    BY <1>2, <2>2 DEF IInv, RowHolds, HistoryGrows
  <2>3. QED
    BY <2>1, <2>2
<1>5. RowsKeep
  BY <1>2 DEF RowsKeep, Secured, Live
<1>6. QED
  BY <1>1, <1>3, <1>4, <1>5 DEF TableHolds

\* No row changes.
LEMMA SameRows ==
  ASSUME IInv, HistoryGrows, UNCHANGED row
  PROVE  TableHolds' /\ RowsKeep
BY DEF IInv, TypeOK, IndexesHold, RowHolds, HistoryGrows, TableHolds, RowsKeep, Secured, Live
-----------------------------------------------------------------------------
(* Tokens and handlers.                                                    *)

HandlersHold == proc \in [Procs -> Proc] /\ \A p \in Procs : Knows(proc[p])

TokensHold == token \in [Tokens -> Token] /\ TokensAreAddressed

\* What a handler knows, it still knows when others have taken a step.
LEMMA StillKnows ==
  ASSUME IInv, RowsKeep, TokensKeep, NEW q \in Procs
  PROVE  Knows(proc[q])'  \/ proc'[q] # proc[q]
<1>1. SUFFICES ASSUME proc'[q] = proc[q] PROVE Knows(proc[q])'
  OBVIOUS
<1>2. Knows(proc[q])
  BY DEF IInv
<1>3. QED
  BY <1>1, <1>2 DEF Knows, RowsKeep, TokensKeep, Secured, Live

\* Handler p goes to a new record, of which it knows what it should.
LEMMA OneMoves ==
  ASSUME IInv, RowsKeep, TokensKeep, NEW p \in Procs, NEW f \in Proc,
         proc' = [proc EXCEPT ![p] = f], Knows(f)'
  PROVE  HandlersHold'
<1>1. proc' \in [Procs -> Proc]
  BY DEF IInv, TypeOK
<1>2. ASSUME NEW q \in Procs PROVE Knows(proc[q])'
  <2>1. CASE q = p
    <3>1. proc'[q] = f
      BY <2>1 DEF IInv, TypeOK
    <3>2. QED
      BY <3>1 DEF Knows
  <2>2. CASE q # p
    BY <2>2, StillKnows DEF IInv, TypeOK
  <2>3. QED
    BY <2>1, <2>2
<1>3. QED
  BY <1>1, <1>2 DEF HandlersHold

LEMMA Returned ==
  ASSUME IInv, RowsKeep, TokensKeep, NEW p \in Procs, Return(p)
  PROVE  HandlersHold'
<1>1. Idle \in Proc /\ Idle.at = "idle"
  BY DEF Idle, Proc, Stages
<1>2. Knows(Idle)'
  BY <1>1 DEF Knows
<1>3. QED
  BY <1>1, <1>2, OneMoves DEF Return

\* Nothing but a handler's own record changes.
LEMMA SameTokens ==
  ASSUME IInv, UNCHANGED token
  PROVE  TokensHold' /\ TokensKeep
BY DEF IInv, TypeOK, TokensAreAddressed, TokensHold, TokensKeep

\* Tokens are spent, and keep their addresses.
LEMMA Spent ==
  ASSUME IInv, NEW us
  PROVE  /\ SpentFor(us) \in [Tokens -> Token]
         /\ \A t \in Tokens : /\ SpentFor(us)[t].user = token[t].user
                             /\ SpentFor(us)[t].email = token[t].email
                             /\ (SpentFor(us)[t].state = "unborn") = (token[t].state = "unborn")
<1>1. ASSUME NEW t \in Tokens
      PROVE  /\ SpentFor(us)[t] \in Token
             /\ SpentFor(us)[t].user = token[t].user /\ SpentFor(us)[t].email = token[t].email
             /\ (SpentFor(us)[t].state = "unborn") = (token[t].state = "unborn")
  <2>1. token[t] \in Token
    BY DEF IInv, TypeOK
  <2>2. CASE token[t].user \in us /\ token[t].state = "open"
    BY <2>1, <2>2 DEF SpentFor, Token
  <2>3. CASE ~(token[t].user \in us /\ token[t].state = "open")
    BY <2>1, <2>3 DEF SpentFor, Token
  <2>4. QED
    BY <2>2, <2>3
<1>2. QED
  BY <1>1 DEF SpentFor

LEMMA SpentTokens ==
  ASSUME IInv, NEW us, token' = SpentFor(us)
  PROVE  TokensHold' /\ TokensKeep
BY Spent DEF IInv, TokensHold, TokensAreAddressed, TokensKeep

\* The parts of the invariant, put together again.
LEMMA Together ==
  ASSUME TableHolds', TokensHold', HandlersHold', HistoryGrows, inbox' \subseteq Tokens, ops' \in Nat
  PROVE  IInv'
BY DEF IInv, TypeOK, TableHolds, TokensHold, HandlersHold, HistoryGrows

\* A step that writes no row and no token, and leaves handler p at f.
LEMMA OnlyMoves ==
  ASSUME IInv, NEW p \in Procs, NEW f \in Proc, proc' = [proc EXCEPT ![p] = f], Knows(f),
         UNCHANGED <<row, token, proven, stale>>, inbox' \subseteq Tokens, ops' \in Nat
  PROVE  IInv'
<1>1. HistoryGrows
  BY DEF IInv, TypeOK, HistoryGrows
<1>2. TableHolds' /\ RowsKeep
  BY <1>1, SameRows
<1>3. TokensHold' /\ TokensKeep
  BY SameTokens
<1>4. Knows(f)'
  BY DEF Knows, Secured, Live
<1>5. HandlersHold'
  BY <1>2, <1>3, <1>4, OneMoves
<1>6. QED
  BY <1>1, <1>2, <1>3, <1>5, Together

-----------------------------------------------------------------------------
(* A request arrives.                                                      *)

LEMMA Begins ==
  ASSUME IInv, NEW p \in Procs, NEW f \in Proc, Knows(f),
         Begin(p, f.at, f.user, f.target, f.what, f.seen)
  PROVE  IInv'
<1>1. f = [at |-> f.at, user |-> f.user, target |-> f.target, what |-> f.what, seen |-> f.seen]
  BY DEF Proc
<1>2. proc' = [proc EXCEPT ![p] = [at |-> f.at, user |-> f.user, target |-> f.target,
                                   what |-> f.what, seen |-> f.seen]]
  BY DEF Begin
<1>3. proc' = [proc EXCEPT ![p] = f]
  BY <1>1, <1>2
<1>4. ops' \in Nat /\ inbox' \subseteq Tokens /\ UNCHANGED <<row, token, proven, stale>>
  BY DEF Begin, IInv, TypeOK
<1>5. QED
  BY <1>3, <1>4, OnlyMoves

LEMMA SignupCheckKeeps ==
  ASSUME IInv, NEW p \in Procs, NEW n \in Names, SignupCheck(p, n)
  PROVE  IInv'
<1> DEFINE f == [at |-> "signupInsert", user |-> None, target |-> None, what |-> n, seen |-> None]
<1>1. f \in Proc
  BY DEF Proc, Stages
<1>2. Knows(f)
  BY DEF Knows
<1>3. Begin(p, f.at, f.user, f.target, f.what, f.seen)
  BY DEF SignupCheck
<1> HIDE DEF f
<1>4. QED
  BY <1>1, <1>2, <1>3, Begins

LEMMA OAuthLookupKeeps ==
  ASSUME IInv, NEW p \in Procs, NEW i \in Idents, OAuthLookup(p, i) \/ OAuthLookupFails(p, i)
  PROVE  IInv'
<1> DEFINE f == [at |-> "oauthAutoLink", user |-> None, target |-> None, what |-> i, seen |-> None]
<1>1. f \in Proc
  BY DEF Proc, Stages
<1>2. Knows(f)
  BY DEF Knows
<1>3. Begin(p, f.at, f.user, f.target, f.what, f.seen)
  BY DEF OAuthLookup, OAuthLookupFails
<1> HIDE DEF f
<1>4. QED
  BY <1>1, <1>2, <1>3, Begins

LEMMA LinkCheckKeeps ==
  ASSUME IInv, NEW p \in Procs, NEW u \in Accounts, NEW i \in Idents, LinkCheck(p, u, i)
  PROVE  IInv'
<1> DEFINE f == [at |-> "linkWrite", user |-> u, target |-> None, what |-> i, seen |-> None]
<1>1. f \in Proc
  BY DEF Proc, Stages
<1>2. Knows(f)
  BY DEF Knows
<1>3. Begin(p, f.at, f.user, f.target, f.what, f.seen)
  BY DEF LinkCheck
<1> HIDE DEF f
<1>4. QED
  BY <1>1, <1>2, <1>3, Begins

LEMMA UnlinkCheckKeeps ==
  ASSUME IInv, NEW p \in Procs, NEW u \in Accounts, UnlinkCheck(p, u)
  PROVE  IInv'
<1> DEFINE f == [at |-> "unlinkWrite", user |-> u, target |-> None, what |-> None, seen |-> None]
<1>1. f \in Proc
  BY DEF Proc, Stages
<1>2. Secured(u)
  BY DEF UnlinkCheck, HasPassword, Live, Secured
<1>3. Knows(f)
  BY <1>2 DEF Knows
<1>4. Begin(p, f.at, f.user, f.target, f.what, f.seen)
  BY DEF UnlinkCheck
<1> HIDE DEF f
<1>5. QED
  BY <1>1, <1>3, <1>4, Begins

LEMMA VerifyCheckKeeps ==
  ASSUME IInv, NEW p \in Procs, NEW u \in Accounts, NEW e \in Emails,
         VerifyCheck(p, u, e) \/ VerifyCheckFails(p, u, e)
  PROVE  IInv'
<1> DEFINE f == [at |-> "verifyStart", user |-> u, target |-> None, what |-> e, seen |-> None]
<1>1. f \in Proc
  BY DEF Proc, Stages
<1>2. Knows(f)
  BY DEF Knows
<1>3. Begin(p, f.at, f.user, f.target, f.what, f.seen)
  BY DEF VerifyCheck, VerifyCheckFails
<1> HIDE DEF f
<1>4. QED
  BY <1>1, <1>2, <1>3, Begins

LEMMA EmailUnlinkCheckKeeps ==
  ASSUME IInv, NEW p \in Procs, NEW u \in Accounts, EmailUnlinkCheck(p, u)
  PROVE  IInv'
<1> DEFINE f == [at |-> "emailUnlinkWrite", user |-> u, target |-> None, what |-> None, seen |-> None]
<1>1. f \in Proc
  BY DEF Proc, Stages
<1>2. Knows(f)
  BY DEF Knows
<1>3. Begin(p, f.at, f.user, f.target, f.what, f.seen)
  BY DEF EmailUnlinkCheck
<1> HIDE DEF f
<1>4. QED
  BY <1>1, <1>2, <1>3, Begins

LEMMA ConsumeReadKeeps ==
  ASSUME IInv, NEW p \in Procs, NEW t \in Tokens, ConsumeRead(p, t)
  PROVE  IInv'
<1> DEFINE f == [at |-> "consumeCompare", user |-> token[t].user, target |-> None, what |-> t, seen |-> None]
<1>1. token[t].state # "unborn" /\ token[t].user \in Accounts
  BY DEF ConsumeRead, IInv, TokensAreAddressed
<1>2. f \in Proc
  BY <1>1 DEF Proc, Stages
<1>3. Knows(f)
  BY <1>1 DEF Knows
<1>4. Begin(p, f.at, f.user, f.target, f.what, f.seen)
  BY DEF ConsumeRead
<1> HIDE DEF f
<1>5. QED
  BY <1>2, <1>3, <1>4, Begins

LEMMA MergeSourceKeeps ==
  ASSUME IInv, NEW p \in Procs, NEW u \in Accounts, MergeSource(p, u)
  PROVE  IInv'
<1> DEFINE f == [at |-> "mergeTarget", user |-> u, target |-> None, what |-> None, seen |-> row[u].ident]
<1>1. row[u].ident \in Idents
  BY DEF MergeSource, IInv, TypeOK, Row
<1>2. f \in Proc
  BY <1>1 DEF Proc, Stages
<1>3. Knows(f)
  BY <1>1 DEF Knows
<1>4. Begin(p, f.at, f.user, f.target, f.what, f.seen)
  BY DEF MergeSource
<1> HIDE DEF f
<1>5. QED
  BY <1>2, <1>3, <1>4, Begins

\* A request that is done after its first statement leaves the other handlers as they are.
LEMMA NobodyMoves ==
  ASSUME IInv, RowsKeep, TokensKeep, UNCHANGED proc
  PROVE  HandlersHold'
BY StillKnows DEF IInv, TypeOK, HandlersHold

LEMMA SetPasswordKeeps ==
  ASSUME IInv, NEW p \in Procs, NEW u \in Accounts, SetPassword(p, u)
  PROVE  IInv'
<1> DEFINE r == [row[u] EXCEPT !.password = TRUE]
<1>1. HistoryGrows /\ inbox' \subseteq Tokens /\ ops' \in Nat
  BY DEF IInv, TypeOK, HistoryGrows, SetPassword, Once
<1>2. row[u] \in Row
  BY DEF IInv, TypeOK
<1>3. /\ r \in Row /\ r.state = row[u].state /\ r.name = row[u].name /\ r.ident = row[u].ident
      /\ r.email = row[u].email /\ r.verified = row[u].verified /\ r.password
  BY <1>2 DEF Row
<1>4. row' = [row EXCEPT ![u] = r]
  BY DEF SetPassword
<1> HIDE DEF r
<1>5. Fits(r, u)
  BY <1>3 DEF Fits, IInv, TypeOK, IndexesHold, SetPassword, Live
<1>6. RowHolds(r, u, proven', stale')
  <2>1. RowHolds(row[u], u, proven, stale)
    BY DEF IInv
  <2>2. QED
    BY <2>1, <1>3, <1>1 DEF RowHolds, HistoryGrows
<1>7. TableHolds' /\ RowsKeep
  BY <1>1, <1>3, <1>4, <1>5, <1>6, PutRow DEF Secured, Live
<1>8. TokensHold' /\ TokensKeep
  BY SameTokens DEF SetPassword
<1>9. HandlersHold'
  BY <1>7, <1>8, NobodyMoves DEF SetPassword, Once
<1>10. QED
  BY <1>1, <1>7, <1>8, <1>9, Together

LEMMA DeleteKeeps ==
  ASSUME IInv, NEW p \in Procs, NEW u \in Accounts, Delete(p, u)
  PROVE  IInv'
<1>1. HistoryGrows /\ inbox' \subseteq Tokens /\ ops' \in Nat
  BY DEF IInv, TypeOK, HistoryGrows, Delete, Once
<1>2. Fits(Gone, u)
  BY EmptyRows DEF Fits
<1>3. RowHolds(Gone, u, proven', stale')
  BY EmptyRows DEF RowHolds
<1>4. TableHolds' /\ RowsKeep
  BY <1>1, <1>2, <1>3, EmptyRows, PutRow DEF Delete
<1>5. TokensHold' /\ TokensKeep
  BY SpentTokens DEF Delete
<1>6. HandlersHold'
  BY <1>4, <1>5, NobodyMoves DEF Delete, Once
<1>7. QED
  BY <1>1, <1>4, <1>5, <1>6, Together

-----------------------------------------------------------------------------
(* A handler takes its next step.                                          *)

LEMMA FailsKeeps ==
  ASSUME IInv, NEW p \in Procs, Fails(p)
  PROVE  IInv'
<1>1. Idle \in Proc /\ Knows(Idle)
  BY DEF Idle, Proc, Stages, Knows
<1>2. inbox' \subseteq Tokens /\ ops' \in Nat
  BY DEF Fails, IInv, TypeOK
<1>3. QED
  BY <1>1, <1>2, OnlyMoves DEF Fails, Return

\* A handler that returns after writing rows, when no token changes.
LEMMA WrittenRows ==
  ASSUME IInv, NEW p \in Procs, Return(p), TableHolds', RowsKeep, HistoryGrows,
         UNCHANGED <<token, inbox, ops>>
  PROVE  IInv'
<1>1. TokensHold' /\ TokensKeep
  BY SameTokens
<1>2. HandlersHold'
  BY <1>1, Returned
<1>3. inbox' \subseteq Tokens /\ ops' \in Nat
  BY DEF IInv, TypeOK
<1>4. QED
  BY <1>1, <1>2, <1>3, Together

\* A row is inserted under a new id.
LEMMA SignupInsertKeeps ==
  ASSUME IInv, NEW p \in Procs, SignupInsert(p)
  PROVE  IInv'
<1> DEFINE n == proc[p].what
<1>1. HistoryGrows
  BY DEF IInv, TypeOK, HistoryGrows, SignupInsert
<1>2. CASE NameTaken(n)
  <2>1. TableHolds' /\ RowsKeep
    BY <1>1, <1>2, SameRows DEF SignupInsert
  <2>2. QED
    BY <1>1, <2>1, WrittenRows DEF SignupInsert
<1>3. CASE ~NameTaken(n)
  <2>1. PICK a \in Accounts :
          /\ row[a].state = "new"
          /\ row' = [row EXCEPT ![a] = [NoRow EXCEPT !.state = "live", !.name = n, !.password = TRUE]]
    BY <1>3 DEF SignupInsert
  <2>2. n \in Names
    BY DEF SignupInsert, IInv, Knows
  <2> DEFINE r == [NoRow EXCEPT !.state = "live", !.name = n, !.password = TRUE]
  <2>3. /\ r \in Row /\ r.state = "live" /\ r.name = n /\ r.ident = None /\ r.email = None
        /\ ~r.verified /\ r.password
    BY <2>2, InsertedRow
  <2> HIDE DEF r
  <2>4. Fits(r, a)
    BY <1>3, <2>3 DEF Fits, NameTaken
  <2>5. RowHolds(r, a, proven', stale')
    BY <2>3 DEF RowHolds
  <2>6. TableHolds' /\ RowsKeep
    BY <1>1, <2>1, <2>3, <2>4, <2>5, PutRow DEF r
  <2>7. QED
    BY <1>1, <2>6, WrittenRows DEF SignupInsert
<1>4. QED
  BY <1>2, <1>3

\* No account in the table can be linked by its address alone.
LEMMA NobodyEligible ==
  ASSUME IInv, NEW a \in Accounts, NEW e \in Emails, row[a].email = e
  PROVE  ~Eligible(a)
<1>1. Live(a)
  BY OwnerLives, NoneApart DEF IInv
<1>2. row[a].password \/ row[a].ident # None
  BY <1>1 DEF IInv, RowHolds, Live
<1>3. QED
  BY <1>2 DEF Eligible

LEMMA EmailOfTyped ==
  ASSUME NEW i \in Idents
  PROVE  EmailOf[i] \in Emails
BY IdentityAssumption

LEMMA OAuthAutoLinkKeeps ==
  ASSUME IInv, NEW p \in Procs, OAuthAutoLink(p)
  PROVE  IInv'
<1> DEFINE i == proc[p].what
           owners == EmailOwner(EmailOf[i])
           linked == {a \in owners : Eligible(a) /\ IdentOwner(i) = {}}
<1>1. i \in Idents
  BY DEF IInv, Knows, OAuthAutoLink
<1>2. linked = {}
  BY <1>1, EmailOfTyped, NobodyEligible DEF EmailOwner
<1>3. UNCHANGED <<row, token, proven, stale>> /\ inbox' \subseteq Tokens /\ ops' \in Nat
  <2>1. row' = [a \in Accounts |->
                  IF a \in linked THEN [row[a] EXCEPT !.ident = i, !.verified = TRUE] ELSE row[a]]
    BY DEF OAuthAutoLink
  <2>2. proven' = proven \cup (linked \X {EmailOf[i]})
    BY DEF OAuthAutoLink
  <2> HIDE DEF linked
  <2>3. row' = row
    BY <1>2, <2>1 DEF IInv, TypeOK
  <2>4. linked \X {EmailOf[i]} = {}
    BY <1>2
  <2>5. QED
    BY <2>2, <2>3, <2>4 DEF OAuthAutoLink, IInv, TypeOK
<1>4. CASE owners = {}
  <2> DEFINE f == [proc[p] EXCEPT !.at = "oauthHandle"]
  <2>1. f \in Proc /\ f.at = "oauthHandle" /\ f.what = i
    BY DEF IInv, TypeOK, Proc, Stages
  <2>2. proc' = [proc EXCEPT ![p] = f]
    BY <1>4 DEF OAuthAutoLink, Goto
  <2> HIDE DEF f
  <2>3. Knows(f)
    BY <1>1, <2>1 DEF Knows
  <2>4. QED
    BY <1>3, <2>1, <2>2, <2>3, OnlyMoves
<1>5. CASE owners # {}
  <2>1. Idle \in Proc /\ Knows(Idle)
    BY DEF Idle, Proc, Stages, Knows
  <2>2. proc' = [proc EXCEPT ![p] = Idle]
    BY <1>5 DEF OAuthAutoLink, Return
  <2>3. QED
    BY <1>3, <2>1, <2>2, OnlyMoves
<1>6. QED
  BY <1>4, <1>5

LEMMA OAuthAutoLinkFailsKeeps ==
  ASSUME IInv, NEW p \in Procs, OAuthAutoLinkFails(p)
  PROVE  IInv'
<1> DEFINE f == [proc[p] EXCEPT !.at = "oauthHandle"]
<1>1. f \in Proc /\ f.at = "oauthHandle" /\ f.what = proc[p].what
  BY DEF IInv, TypeOK, Proc, Stages
<1>2. proc' = [proc EXCEPT ![p] = f]
  BY DEF OAuthAutoLinkFails, Goto
<1>3. proc[p].what \in Idents
  BY DEF IInv, Knows, OAuthAutoLinkFails
<1> HIDE DEF f
<1>4. Knows(f)
  BY <1>1, <1>3 DEF Knows
<1>5. inbox' \subseteq Tokens /\ ops' \in Nat
  BY DEF OAuthAutoLinkFails, IInv, TypeOK
<1>6. QED
  BY <1>1, <1>2, <1>4, <1>5, OnlyMoves DEF OAuthAutoLinkFails

\* The retry loop ends with one of its usernames.
LEMMA HandlePicked ==
  ASSUME NEW i \in Idents
  PROVE  PickHandle(HandlesOf[i]) \in Names
<1> DEFINE hs == HandlesOf[i]
           free == {k \in 1 .. Len(hs) : ~NameTaken(hs[k])}
           least == CHOOSE k \in free : \A j \in free : k <= j
<1>1. hs \in Seq(Names) /\ hs # <<>>
  BY IdentityAssumption
<1>2. Len(hs) \in 1 .. Len(hs) /\ Len(hs) \in Nat
  BY <1>1
<1>3. \A k \in 1 .. Len(hs) : hs[k] \in Names
  BY <1>1
<1>4. ASSUME free # {} PROVE least \in 1 .. Len(hs)
  <2>1. free \subseteq Nat
    BY <1>2
  <2>2. \E k \in free : \A j \in free : ~(<<j, k>> \in OpToRel(<, Nat))
    BY <1>4, <2>1, NatLessThanWellFounded, WFMin
  <2>3. PICK k \in free : \A j \in free : ~(<<j, k>> \in OpToRel(<, Nat))
    BY <2>2
  <2>4. \A j \in free : ~(j < k)
    BY <2>1, <2>3 DEF OpToRel
  <2>5. \A j \in free : k <= j
    BY <2>1, <2>4
  <2>6. least \in free
    BY <2>5
  <2>7. QED
    BY <2>6
<1>5. CASE free = {}
  BY <1>2, <1>3, <1>5 DEF PickHandle
<1>6. CASE free # {}
  BY <1>3, <1>4, <1>6 DEF PickHandle
<1>7. QED
  BY <1>5, <1>6

LEMMA OAuthHandleKeeps ==
  ASSUME IInv, NEW p \in Procs, OAuthHandle(p)
  PROVE  IInv'
<1> DEFINE n == PickHandle(HandlesOf[proc[p].what])
           f == [proc[p] EXCEPT !.at = "oauthInsert", !.seen = n]
<1>1. proc[p].what \in Idents
  BY DEF IInv, Knows, OAuthHandle
<1>2. n \in Names
  BY <1>1, HandlePicked
<1>3. proc' = [proc EXCEPT ![p] = f]
  BY DEF OAuthHandle
<1> HIDE DEF n
<1>4. f \in Proc /\ f.at = "oauthInsert" /\ f.what = proc[p].what /\ f.seen = n
  BY <1>2 DEF IInv, TypeOK, Proc, Stages
<1> HIDE DEF f
<1>5. Knows(f)
  BY <1>1, <1>2, <1>4 DEF Knows
<1>6. inbox' \subseteq Tokens /\ ops' \in Nat
  BY DEF OAuthHandle, IInv, TypeOK
<1>7. QED
  BY <1>3, <1>4, <1>5, <1>6, OnlyMoves DEF OAuthHandle

LEMMA OAuthInsertKeeps ==
  ASSUME IInv, NEW p \in Procs, OAuthInsert(p)
  PROVE  IInv'
<1> DEFINE i == proc[p].what
           n == proc[p].seen
           refused == NameTaken(n) \/ EmailOwner(EmailOf[i]) # {} \/ IdentOwner(i) # {}
<1>1. i \in Idents /\ n \in Names
  BY DEF IInv, Knows, OAuthInsert
<1>2. EmailOf[i] \in Emails
  BY <1>1, EmailOfTyped
<1>3. CASE refused
  <2>1. HistoryGrows
    BY <1>3 DEF IInv, TypeOK, HistoryGrows, OAuthInsert
  <2>2. TableHolds' /\ RowsKeep
    BY <1>3, <2>1, SameRows DEF OAuthInsert
  <2>3. QED
    BY <2>1, <2>2, WrittenRows DEF OAuthInsert
<1>4. CASE ~refused
  <2> DEFINE r == [state |-> "live", name |-> n, password |-> FALSE, ident |-> i,
                   email |-> EmailOf[i], verified |-> TRUE]
  <2>1. PICK a \in Accounts : /\ row[a].state = "new"
                              /\ row' = [row EXCEPT ![a] = r]
                              /\ proven' = proven \cup {<<a, EmailOf[i]>>}
    BY <1>4 DEF OAuthInsert
  <2>2. r \in Row
    BY <1>1, <1>2 DEF Row
  <2>3. /\ r.state = "live" /\ r.name = n /\ r.ident = i /\ r.email = EmailOf[i] /\ r.verified
    OBVIOUS
  <2>4. HistoryGrows
    BY <1>2, <2>1 DEF IInv, TypeOK, HistoryGrows, OAuthInsert
  <2> HIDE DEF r
  <2>5. Fits(r, a)
    BY <1>4, <2>2, <2>3 DEF Fits, NameTaken, EmailOwner, IdentOwner
  <2>6. RowHolds(r, a, proven', stale')
    BY <1>1, <1>2, <2>1, <2>3, NoneApart DEF RowHolds
  <2>7. TableHolds' /\ RowsKeep
    BY <2>1, <2>4, <2>5, <2>6, PutRow DEF Secured
  <2>8. QED
    BY <2>4, <2>7, WrittenRows DEF OAuthInsert
<1>5. QED
  BY <1>3, <1>4

LEMMA LinkWriteKeeps ==
  ASSUME IInv, NEW p \in Procs, LinkWrite(p)
  PROVE  IInv'
<1> DEFINE u == proc[p].user
           i == proc[p].what
           still == Live(u) /\ IdentOwner(i) \subseteq {u} /\ EmailOwner(EmailOf[i]) \subseteq {u}
<1>1. u \in Accounts /\ i \in Idents
  BY DEF IInv, Knows, LinkWrite
<1>2. EmailOf[i] \in Emails
  BY <1>1, EmailOfTyped
<1>3. CASE ~still
  <2>1. HistoryGrows
    BY <1>3 DEF IInv, TypeOK, HistoryGrows, LinkWrite
  <2>2. TableHolds' /\ RowsKeep
    BY <1>3, <2>1, SameRows DEF LinkWrite
  <2>3. QED
    BY <2>1, <2>2, WrittenRows DEF LinkWrite
<1>4. CASE still
  <2> DEFINE r == [row[u] EXCEPT !.ident = i, !.email = EmailOf[i], !.verified = TRUE]
  <2>1. row' = [row EXCEPT ![u] = r] /\ proven' = proven \cup {<<u, EmailOf[i]>>}
    BY <1>4 DEF LinkWrite
  <2>2. row[u] \in Row
    BY <1>1 DEF IInv, TypeOK
  <2>3. /\ r \in Row /\ r.state = row[u].state /\ r.name = row[u].name /\ r.password = row[u].password
        /\ r.ident = i /\ r.email = EmailOf[i] /\ r.verified
    BY <1>1, <1>2, <2>2 DEF Row
  <2>4. HistoryGrows
    BY <1>1, <1>2, <2>1 DEF IInv, TypeOK, HistoryGrows, LinkWrite
  <2> HIDE DEF r
  <2>5. Fits(r, u)
    BY <1>1, <1>4, <2>3 DEF Fits, EmailOwner, IdentOwner, IInv, TypeOK, IndexesHold, Live
  <2>6. RowHolds(r, u, proven', stale')
    BY <1>1, <1>2, <2>1, <2>3, NoneApart DEF RowHolds
  <2>7. TableHolds' /\ RowsKeep
    BY <1>1, <1>4, <2>1, <2>3, <2>4, <2>5, <2>6, PutRow DEF Secured, Live
  <2>8. QED
    BY <2>4, <2>7, WrittenRows DEF LinkWrite
<1>5. QED
  BY <1>3, <1>4

\* Unlinking leaves the account its password, which the check saw and nobody takes away.
LEMMA UnlinkWriteKeeps ==
  ASSUME IInv, NEW p \in Procs, UnlinkWrite(p)
  PROVE  IInv'
<1> DEFINE u == proc[p].user
<1>1. u \in Accounts /\ Secured(u)
  BY DEF IInv, Knows, UnlinkWrite
<1>2. HistoryGrows
  BY DEF IInv, TypeOK, HistoryGrows, UnlinkWrite
<1>3. CASE ~Live(u)
  <2>1. TableHolds' /\ RowsKeep
    BY <1>2, <1>3, SameRows DEF UnlinkWrite
  <2>2. QED
    BY <1>2, <2>1, WrittenRows DEF UnlinkWrite
<1>4. CASE Live(u)
  <2> DEFINE r == [row[u] EXCEPT !.ident = None, !.email = None, !.verified = FALSE]
  <2>1. row' = [row EXCEPT ![u] = r]
    BY <1>4 DEF UnlinkWrite, Unlinked
  <2>2. row[u] \in Row
    BY <1>1 DEF IInv, TypeOK
  <2>3. /\ r \in Row /\ r.state = row[u].state /\ r.name = row[u].name /\ r.password = row[u].password
        /\ r.ident = None /\ r.email = None /\ ~r.verified
    BY <2>2 DEF Row
  <2> HIDE DEF r
  <2>4. Fits(r, u)
    BY <1>1, <1>4, <2>3 DEF Fits, IInv, TypeOK, IndexesHold, Live
  <2>5. RowHolds(r, u, proven', stale')
    BY <1>1, <1>4, <2>3 DEF RowHolds, Secured
  <2>6. TableHolds' /\ RowsKeep
    BY <1>1, <1>2, <1>4, <2>1, <2>3, <2>4, <2>5, PutRow DEF Secured, Live
  <2>7. QED
    BY <1>2, <2>6, WrittenRows DEF UnlinkWrite
<1>5. QED
  BY <1>3, <1>4

LEMMA VerifyMailKeeps ==
  ASSUME IInv, NEW p \in Procs, VerifyMail(p)
  PROVE  IInv'
<1>1. Idle \in Proc /\ Knows(Idle)
  BY DEF Idle, Proc, Stages, Knows
<1>2. proc[p].what \in Tokens
  BY DEF VerifyMail, IInv, Knows
<1>3. inbox' \subseteq Tokens /\ ops' \in Nat
  BY <1>2 DEF VerifyMail, IInv, TypeOK
<1>4. QED
  BY <1>1, <1>3, OnlyMoves DEF VerifyMail, Return

LEMMA ConsumeCompareKeeps ==
  ASSUME IInv, NEW p \in Procs, ConsumeCompare(p)
  PROVE  IInv'
<1> DEFINE u == proc[p].user
           t == proc[p].what
           f == [proc[p] EXCEPT !.at = "consumeFlip", !.seen = row[u].email]
<1>1. u \in Accounts /\ t \in Tokens /\ token[t].state # "unborn" /\ token[t].email \in Emails
  BY DEF IInv, Knows, ConsumeCompare, TokensAreAddressed
<1>2. inbox' \subseteq Tokens /\ ops' \in Nat
  BY DEF ConsumeCompare, IInv, TypeOK
<1>3. CASE SameAddress(u, t)
  <2>1. row[u].email = token[t].email
    BY <1>3 DEF SameAddress
  <2>2. proc' = [proc EXCEPT ![p] = f]
    BY <1>3 DEF ConsumeCompare
  <2>3. f \in Proc /\ f.at = "consumeFlip" /\ f.user = u /\ f.what = t /\ f.seen = row[u].email
    BY <1>1, <2>1 DEF IInv, TypeOK, Proc, Stages
  <2> HIDE DEF f
  <2>4. Knows(f)
    BY <1>1, <2>1, <2>3 DEF Knows
  <2>5. QED
    BY <1>2, <2>2, <2>3, <2>4, OnlyMoves DEF ConsumeCompare
<1>4. CASE ~SameAddress(u, t)
  <2>1. Idle \in Proc /\ Knows(Idle)
    BY DEF Idle, Proc, Stages, Knows
  <2>2. QED
    BY <1>2, <1>4, <2>1, OnlyMoves DEF ConsumeCompare, Return
<1>5. QED
  BY <1>3, <1>4

\* The address is written without a second look at the provider: if one was linked meanwhile, or was missed
\* by a failed lookup, the account is among the stale ones from here on.
LEMMA VerifyStartKeeps ==
  ASSUME IInv, NEW p \in Procs, VerifyStart(p)
  PROVE  IInv'
<1> DEFINE u == proc[p].user
           e == proc[p].what
           free == Live(u) /\ EmailOwner(e) \subseteq {u}
<1>1. u \in Accounts /\ e \in Emails /\ proc[p].seen = None
  BY DEF IInv, Knows, VerifyStart
<1>2. inbox' \subseteq Tokens /\ ops' \in Nat /\ UNCHANGED <<proven, inbox, ops>>
  BY DEF VerifyStart, IInv, TypeOK
<1>3. CASE ~free
  <2>1. UNCHANGED <<row, token, stale>> /\ Return(p)
    BY <1>3 DEF VerifyStart
  <2>2. HistoryGrows
    BY <1>2, <2>1 DEF IInv, TypeOK, HistoryGrows
  <2>3. TableHolds' /\ RowsKeep
    BY <2>1, <2>2, SameRows
  <2>4. QED
    BY <1>2, <2>1, <2>2, <2>3, WrittenRows
<1>4. CASE free
  <2> DEFINE r == [row[u] EXCEPT !.email = e, !.verified = FALSE]
  <2>1. PICK t \in Tokens :
          /\ token[t].state = "unborn"
          /\ row' = [row EXCEPT ![u] = r]
          /\ token' = [SpentFor({u}) EXCEPT ![t] = [state |-> "open", user |-> u, email |-> e]]
          /\ stale' = stale \cup {x \in {u} : row[u].ident # proc[p].seen}
          /\ proc' = [proc EXCEPT ![p] = [proc[p] EXCEPT !.at = "verifyMail", !.what = t]]
    BY <1>4 DEF VerifyStart, Claiming
  <2>2. HistoryGrows
    BY <1>1, <1>2, <2>1 DEF IInv, TypeOK, HistoryGrows
  <2>3. row[u] \in Row
    BY <1>1 DEF IInv, TypeOK
  <2>4. /\ r \in Row /\ r.state = row[u].state /\ r.name = row[u].name /\ r.password = row[u].password
        /\ r.ident = row[u].ident /\ r.email = e /\ ~r.verified
    BY <1>1, <2>3 DEF Row
  <2> HIDE DEF r
  <2>5. Fits(r, u)
    BY <1>1, <1>4, <2>4 DEF Fits, EmailOwner, IInv, TypeOK, IndexesHold, Live
  <2>6. RowHolds(r, u, proven', stale')
    <3>1. RowHolds(row[u], u, proven, stale)
      BY <1>1 DEF IInv
    <3>2. u \notin stale' => r.ident = None
      BY <1>1, <2>1, <2>4
    <3>3. QED
      BY <2>4, <3>1, <3>2 DEF RowHolds
  <2>7. TableHolds' /\ RowsKeep
    BY <1>1, <2>1, <2>2, <2>4, <2>5, <2>6, PutRow DEF Secured, Live
  <2>8. TokensHold' /\ TokensKeep
    <3>1. /\ token' \in [Tokens -> Token]
          /\ token'[t] = [state |-> "open", user |-> u, email |-> e]
          /\ \A x \in Tokens \ {t} : token'[x] = SpentFor({u})[x]
      BY <1>1, <2>1, Spent DEF Token
    <3>2. QED
      BY <1>1, <2>1, <3>1, Spent DEF IInv, TokensHold, TokensAreAddressed, TokensKeep
  <2> DEFINE f == [proc[p] EXCEPT !.at = "verifyMail", !.what = t]
  <2>9. f \in Proc /\ f.at = "verifyMail" /\ f.what = t
    BY DEF IInv, TypeOK, Proc, Stages
  <2>10. proc' = [proc EXCEPT ![p] = f]
    BY <2>1
  <2>11. HandlersHold'
    <3>1. \A q \in Procs : q # p => proc'[q] = proc[q]
      BY <2>10 DEF IInv, TypeOK
    <3>2. proc'[p] = f /\ proc' \in [Procs -> Proc]
      BY <2>9, <2>10 DEF IInv, TypeOK
    <3> HIDE DEF f
    <3>3. Knows(proc[p])'
      BY <2>9, <3>2 DEF Knows
    <3>4. \A q \in Procs : q # p => Knows(proc[q])'
      BY <2>7, <2>8, <3>1, StillKnows
    <3>5. QED
      BY <3>2, <3>3, <3>4 DEF HandlersHold
  <2>12. QED
    BY <1>2, <2>2, <2>7, <2>8, <2>11, Together
<1>5. QED
  BY <1>3, <1>4

\* A handler that returns after writing rows and tokens.
LEMMA WrittenBoth ==
  ASSUME IInv, NEW p \in Procs, Return(p), TableHolds', RowsKeep, TokensHold', TokensKeep, HistoryGrows,
         UNCHANGED <<inbox, ops>>
  PROVE  IInv'
<1>1. HandlersHold'
  BY Returned
<1>2. inbox' \subseteq Tokens /\ ops' \in Nat
  BY DEF IInv, TypeOK
<1>3. QED
  BY <1>1, <1>2, Together

LEMMA EmailUnlinkWriteKeeps ==
  ASSUME IInv, NEW p \in Procs, EmailUnlinkWrite(p)
  PROVE  IInv'
<1> DEFINE u == proc[p].user
<1>1. u \in Accounts /\ proc[p].seen = None
  BY DEF IInv, Knows, EmailUnlinkWrite
<1>2. stale' = stale \cup {x \in {u} : Live(u) /\ row[u].ident # proc[p].seen} /\ UNCHANGED proven
  BY DEF EmailUnlinkWrite
<1>3. HistoryGrows
  BY <1>1, <1>2 DEF IInv, TypeOK, HistoryGrows
<1>4. TokensHold' /\ TokensKeep
  BY SpentTokens DEF EmailUnlinkWrite
<1>5. TableHolds' /\ RowsKeep
  <2>1. CASE ~Live(u)
    BY <1>3, <2>1, SameRows DEF EmailUnlinkWrite
  <2>2. CASE Live(u)
    <3> DEFINE r == [row[u] EXCEPT !.email = None, !.verified = FALSE]
    <3>1. row' = [row EXCEPT ![u] = r]
      BY <2>2 DEF EmailUnlinkWrite
    <3>2. row[u] \in Row
      BY <1>1 DEF IInv, TypeOK
    <3>3. /\ r \in Row /\ r.state = row[u].state /\ r.name = row[u].name /\ r.password = row[u].password
          /\ r.ident = row[u].ident /\ r.email = None /\ ~r.verified
      BY <3>2 DEF Row
    <3> HIDE DEF r
    <3>4. Fits(r, u)
      BY <1>1, <2>2, <3>3 DEF Fits, IInv, TypeOK, IndexesHold, Live
    <3>5. u \notin stale' => r.ident = None
      BY <1>1, <1>2, <2>2, <3>3
    <3>6. RowHolds(row[u], u, proven, stale)
      BY <1>1 DEF IInv
    <3>7. RowHolds(r, u, proven', stale')
      BY <3>3, <3>5, <3>6 DEF RowHolds
    <3>8. QED
      BY <1>1, <1>3, <3>1, <3>3, <3>4, <3>7, PutRow DEF Secured, Live
  <2>3. QED
    BY <2>1, <2>2
<1>6. QED
  BY <1>3, <1>4, <1>5, WrittenBoth DEF EmailUnlinkWrite

\* The account may have another address by now: then it is among the stale ones.
LEMMA ConsumeFlipKeeps ==
  ASSUME IInv, NEW p \in Procs, ConsumeFlip(p)
  PROVE  IInv'
<1> DEFINE u == proc[p].user
           t == proc[p].what
<1>1. /\ u \in Accounts /\ t \in Tokens /\ token[t].state # "unborn"
      /\ proc[p].seen \in Emails /\ proc[p].seen = token[t].email
  BY DEF IInv, Knows, ConsumeFlip
<1>2. /\ proven' = proven \cup {<<u, token[t].email>>}
      /\ stale' = stale \cup {x \in {u} : Live(u) /\ row[u].email # proc[p].seen}
      /\ token' = [token EXCEPT ![t] = [token[t] EXCEPT !.state = "used"]]
  BY DEF ConsumeFlip
<1>3. HistoryGrows
  BY <1>1, <1>2 DEF IInv, TypeOK, HistoryGrows
<1>4. TokensHold' /\ TokensKeep
  <2> DEFINE k == [token[t] EXCEPT !.state = "used"]
  <2>1. token[t] \in Token
    BY <1>1 DEF IInv, TypeOK
  <2>2. k \in Token /\ k.state = "used" /\ k.user = token[t].user /\ k.email = token[t].email
    BY <2>1 DEF Token
  <2>3. token' = [token EXCEPT ![t] = k]
    BY <1>2
  <2> HIDE DEF k
  <2>4. QED
    BY <1>1, <2>2, <2>3 DEF IInv, TypeOK, TokensHold, TokensAreAddressed, TokensKeep
<1>5. TableHolds' /\ RowsKeep
  <2>1. CASE ~Live(u)
    BY <1>3, <2>1, SameRows DEF ConsumeFlip
  <2>2. CASE Live(u)
    <3> DEFINE r == [row[u] EXCEPT !.verified = TRUE]
    <3>1. row' = [row EXCEPT ![u] = r]
      BY <2>2 DEF ConsumeFlip
    <3>2. row[u] \in Row
      BY <1>1 DEF IInv, TypeOK
    <3>3. /\ r \in Row /\ r.state = row[u].state /\ r.name = row[u].name /\ r.password = row[u].password
          /\ r.ident = row[u].ident /\ r.email = row[u].email /\ r.verified
      BY <3>2 DEF Row
    <3> HIDE DEF r
    <3>4. Fits(r, u)
      BY <1>1, <2>2, <3>3 DEF Fits, IInv, TypeOK, IndexesHold, Live
    <3>5. u \notin stale' => r.email = token[t].email /\ r.email # None /\ <<u, r.email>> \in proven'
      BY <1>1, <1>2, <2>2, <3>3, NoneApart
    <3>6. RowHolds(row[u], u, proven, stale)
      BY <1>1 DEF IInv
    <3>7. u \notin stale' => u \notin stale
      BY <1>2
    <3>8. RowHolds(r, u, proven', stale')
      BY <3>3, <3>5, <3>6, <3>7 DEF RowHolds
    <3>9. QED
      BY <1>1, <1>3, <3>1, <3>3, <3>4, <3>8, PutRow DEF Secured, Live
  <2>3. QED
    BY <2>1, <2>2
<1>6. QED
  BY <1>3, <1>4, <1>5, WrittenBoth DEF ConsumeFlip

\* The target has a password when it is found, and keeps it.
LEMMA MergeTargetKeeps ==
  ASSUME IInv, NEW p \in Procs, MergeTarget(p)
  PROVE  IInv'
<1>1. PICK v \in Accounts \ {proc[p].user} :
        /\ Live(v) /\ row[v].password
        /\ proc' = [proc EXCEPT ![p] = [proc[p] EXCEPT !.at = "mergeProvider", !.target = v]]
  BY DEF MergeTarget
<1> DEFINE f == [proc[p] EXCEPT !.at = "mergeProvider", !.target = v]
<1>2. proc' = [proc EXCEPT ![p] = f]
  BY <1>1
<1>3. /\ f \in Proc /\ f.at = "mergeProvider" /\ f.target = v
      /\ f.user = proc[p].user /\ f.seen = proc[p].seen
  BY DEF IInv, TypeOK, Proc, Stages
<1> HIDE DEF f
<1>4. proc[p].user \in Accounts /\ proc[p].seen \in Idents
  BY DEF IInv, Knows, MergeTarget
<1>5. Secured(v)
  BY <1>1 DEF Secured, Live
<1>6. Knows(f)
  BY <1>3, <1>4, <1>5 DEF Knows
<1>7. inbox' \subseteq Tokens /\ ops' \in Nat
  BY DEF MergeTarget, IInv, TypeOK
<1>8. QED
  BY <1>2, <1>3, <1>6, <1>7, OnlyMoves DEF MergeTarget

LEMMA MergeProviderKeeps ==
  ASSUME IInv, NEW p \in Procs, MergeProvider(p) \/ MergeProviderFails(p)
  PROVE  IInv'
<1> DEFINE f == [proc[p] EXCEPT !.at = "mergeTransfer"]
<1>1. /\ f \in Proc /\ f.at = "mergeTransfer" /\ f.target = proc[p].target
      /\ f.user = proc[p].user /\ f.seen = proc[p].seen
  BY DEF IInv, TypeOK, Proc, Stages
<1>2. proc' = [proc EXCEPT ![p] = f]
  BY DEF MergeProvider, MergeProviderFails, Goto
<1> HIDE DEF f
<1>3. /\ proc[p].user \in Accounts /\ proc[p].seen \in Idents
      /\ proc[p].target \in Accounts \ {proc[p].user} /\ Secured(proc[p].target)
  BY DEF IInv, Knows, MergeProvider, MergeProviderFails
<1>4. Knows(f)
  BY <1>1, <1>3 DEF Knows
<1>5. inbox' \subseteq Tokens /\ ops' \in Nat
  BY DEF MergeProvider, MergeProviderFails, IInv, TypeOK
<1>6. QED
  BY <1>1, <1>2, <1>4, <1>5, OnlyMoves DEF MergeProvider, MergeProviderFails

\* The identity moves from an account that goes to one that keeps its password.
LEMMA MergedRows ==
  ASSUME IInv, HistoryGrows, NEW u \in Accounts, NEW v \in Accounts \ {u}, NEW r, Live(u), Secured(v),
         Live(v) => /\ r \in Row /\ r.state = "live" /\ r.name = row[v].name /\ r.password
                    /\ r.ident = row[u].ident /\ r.email = row[u].email
                    /\ RowHolds(r, v, proven', stale'),
         row' = [a \in Accounts |-> CASE a = u -> Gone [] a = v /\ Live(v) -> r [] OTHER -> row[a]]
  PROVE  TableHolds' /\ RowsKeep
<1>1. /\ row'[u] = Gone
      /\ Live(v) => row'[v] = r
      /\ \A a \in Accounts : a # u /\ ~(a = v /\ Live(v)) => row'[a] = row[a]
  OBVIOUS
<1>2. row' \in [Accounts -> Row]
  <2>1. \A a \in Accounts : row'[a] \in Row
    BY <1>1, EmptyRows DEF IInv, TypeOK
  <2>2. row' = [a \in Accounts |-> row'[a]]
    OBVIOUS
  <2>3. QED
    BY <2>1, <2>2
<1>3. ASSUME NEW a \in Accounts, row'[a].state # "live" PROVE row'[a] \in {NoRow, Gone}
  BY <1>1, <1>3 DEF IInv, TypeOK, IndexesHold
<1>4. ASSUME NEW a \in Accounts, NEW b \in Accounts, a # b
      PROVE  /\ row'[a].name # None => row'[a].name # row'[b].name
             /\ row'[a].email # None => row'[a].email # row'[b].email
             /\ row'[a].ident # None => row'[a].ident # row'[b].ident
  <2>1. /\ row[a].name # None => row[a].name # row[b].name
        /\ row[a].email # None => row[a].email # row[b].email
        /\ row[a].ident # None => row[a].ident # row[b].ident
    BY <1>4 DEF IInv, TypeOK, IndexesHold
  <2>2. CASE a = u \/ b = u
    BY <1>1, <2>2, EmptyRows
  <2>3. CASE a # u /\ b # u /\ a = v /\ Live(v)
    <3>1. row'[a] = r /\ row'[b] = row[b]
      BY <1>1, <1>4, <2>3
    <3>2. /\ row[u].email # None => row[u].email # row[b].email
          /\ row[u].ident # None => row[u].ident # row[b].ident
      BY <2>3 DEF IInv, TypeOK, IndexesHold
    <3>3. QED
      BY <2>1, <2>3, <3>1, <3>2
  <2>4. CASE a # u /\ b # u /\ b = v /\ Live(v)
    <3>1. row'[b] = r /\ row'[a] = row[a]
      BY <1>1, <1>4, <2>4
    <3>2. /\ row[a].email # None => row[a].email # row[u].email
          /\ row[a].ident # None => row[a].ident # row[u].ident
      BY <2>4 DEF IInv, TypeOK, IndexesHold
    <3>3. QED
      BY <2>1, <2>4, <3>1, <3>2
  <2>5. CASE a # u /\ b # u /\ ~(a = v /\ Live(v)) /\ ~(b = v /\ Live(v))
    BY <1>1, <2>1, <2>5
  <2>6. QED
    BY <2>2, <2>3, <2>4, <2>5
<1>5. ASSUME NEW a \in Accounts PROVE RowHolds(row'[a], a, proven', stale')
  <2>1. CASE a = u
    BY <1>1, <2>1, EmptyRows DEF RowHolds
  <2>2. CASE a = v /\ Live(v)
    BY <1>1, <2>2
  <2>3. CASE a # u /\ ~(a = v /\ Live(v))
    <3>1. row'[a] = row[a] /\ RowHolds(row[a], a, proven, stale)
      BY <1>1, <2>3 DEF IInv
    <3>2. QED
      BY <3>1 DEF RowHolds, HistoryGrows
  <2>4. QED
    BY <2>1, <2>2, <2>3
<1>6. RowsKeep
  <2>1. ASSUME NEW a \in Accounts, Secured(a) PROVE Secured(a)'
    <3>1. CASE a = u
      BY <1>1, <3>1, EmptyRows DEF Secured, Live
    <3>2. CASE a = v /\ Live(v)
      BY <1>1, <3>2 DEF Secured, Live
    <3>3. CASE a # u /\ ~(a = v /\ Live(v))
      BY <1>1, <2>1, <3>3 DEF Secured, Live
    <3>4. QED
      BY <3>1, <3>2, <3>3
  <2>2. QED
    BY <2>1 DEF RowsKeep
<1>7. QED
  BY <1>2, <1>3, <1>4, <1>5, <1>6 DEF TableHolds, IndexesHold

LEMMA MergeTransferKeeps ==
  ASSUME IInv, NEW p \in Procs, MergeTransfer(p)
  PROVE  IInv'
<1> DEFINE u == proc[p].user
           v == proc[p].target
<1>1. u \in Accounts /\ v \in Accounts \ {u} /\ Secured(v) /\ proc[p].seen \in Idents
  BY DEF IInv, Knows, MergeTransfer
<1>2. CASE ~Live(u)
  <2>1. UNCHANGED <<row, token, proven, stale>>
    BY <1>2 DEF MergeTransfer
  <2>2. HistoryGrows
    BY <2>1 DEF IInv, TypeOK, HistoryGrows
  <2>3. TableHolds' /\ RowsKeep
    BY <2>1, <2>2, SameRows
  <2>4. QED
    BY <2>1, <2>2, <2>3, WrittenRows DEF MergeTransfer
<1>3. CASE Live(u)
  <2> DEFINE r == [row[v] EXCEPT !.ident = row[u].ident, !.email = row[u].email, !.verified = TRUE]
  <2>1. row' = [a \in Accounts |-> CASE a = u -> Gone [] a = v /\ Live(v) -> r [] OTHER -> row[a]]
    BY <1>3 DEF MergeTransfer
  <2>2. /\ token' = SpentFor({u})
        /\ proven' = IF Vouched(u) THEN proven \cup {<<v, row[u].email>>} ELSE proven
        /\ stale' = stale \cup {x \in {v} : /\ Live(v)
                                             /\ \/ row[u].ident = None /\ proc[p].seen # None
                                                \/ u \in stale}
    BY <1>3 DEF MergeTransfer
  <2>3. row[u] \in Row /\ row[v] \in Row
    BY <1>1 DEF IInv, TypeOK
  <2>4. HistoryGrows
    <3>1. Vouched(u) => row[u].email \in Emails
      BY <2>3, NoneApart, EmailOfTyped DEF Row, Vouched
    <3>2. QED
      BY <1>1, <2>2, <3>1 DEF IInv, TypeOK, HistoryGrows
  <2>5. /\ r \in Row /\ r.state = row[v].state /\ r.name = row[v].name /\ r.password = row[v].password
        /\ r.ident = row[u].ident /\ r.email = row[u].email /\ r.verified
    BY <2>3 DEF Row
  <2> HIDE DEF r
  <2>6. ASSUME Live(v) PROVE RowHolds(r, v, proven', stale')
    <3>1. r.password
      BY <1>1, <2>5, <2>6 DEF Secured
    <3>2. ASSUME v \notin stale' PROVE r.email = EmailOf[r.ident] /\ r.email # None /\ <<v, r.email>> \in proven'
      <4>1. row[u].ident \in Idents /\ u \notin stale
        BY <1>1, <2>2, <2>3, <2>6, <3>2, NoneApart DEF Row
      <4>2. RowHolds(row[u], u, proven, stale)
        BY <1>1 DEF IInv
      <4>3. row[u].email = EmailOf[row[u].ident]
        BY <4>1, <4>2, NoneApart DEF RowHolds
      <4>4. row[u].email # None
        BY <4>1, <4>3, EmailOfTyped, NoneApart
      <4>5. QED
        BY <2>2, <2>5, <4>1, <4>3, <4>4, NoneApart DEF Vouched
    <3>3. QED
      BY <2>5, <3>1, <3>2 DEF RowHolds
  <2>7. TableHolds' /\ RowsKeep
    <3>1. Live(v) => r.state = "live" /\ r.password
      BY <1>1, <2>5 DEF Live, Secured
    <3>2. QED
      BY <1>1, <1>3, <2>1, <2>4, <2>5, <2>6, <3>1, MergedRows
  <2>8. TokensHold' /\ TokensKeep
    BY <2>2, SpentTokens
  <2>9. QED
    BY <2>4, <2>7, <2>8, WrittenBoth DEF MergeTransfer
<1>4. QED
  BY <1>2, <1>3

LEMMA ExpireKeeps ==
  ASSUME IInv, NEW t \in Tokens, Expire(t)
  PROVE  IInv'
<1> DEFINE k == [token[t] EXCEPT !.state = "expired"]
<1>1. token[t] \in Token
  BY DEF IInv, TypeOK
<1>2. k \in Token /\ k.state = "expired" /\ k.user = token[t].user /\ k.email = token[t].email
  BY <1>1 DEF Token
<1>3. token' = [token EXCEPT ![t] = k]
  BY DEF Expire
<1> HIDE DEF k
<1>4. TokensHold' /\ TokensKeep
  BY <1>2, <1>3 DEF IInv, TypeOK, TokensHold, TokensAreAddressed, TokensKeep, Expire
<1>5. HistoryGrows /\ inbox' \subseteq Tokens /\ ops' \in Nat
  BY DEF Expire, HistoryGrows, IInv, TypeOK
<1>6. TableHolds' /\ RowsKeep
  BY <1>5, SameRows DEF Expire
<1>7. HandlersHold'
  BY <1>4, <1>6, NobodyMoves DEF Expire
<1>8. QED
  BY <1>4, <1>5, <1>6, <1>7, Together

-----------------------------------------------------------------------------
(* The invariant.                                                          *)

LEMMA InitHolds == Init => IInv
<1> SUFFICES ASSUME Init PROVE IInv
  OBVIOUS
<1> DEFINE r == [NoRow EXCEPT !.state = "live", !.name = FounderName, !.password = TRUE]
<1>1. /\ r \in Row /\ r.state = "live" /\ r.name = FounderName /\ r.ident = None /\ r.email = None
      /\ ~r.verified /\ r.password
  BY FounderNamed, InsertedRow
<1>2. row = [a \in Accounts |-> IF a = Founder THEN r ELSE NoRow]
  BY DEF Init
<1> HIDE DEF r
<1>3. row \in [Accounts -> Row] /\ \A a \in Accounts : row[a] = r \/ row[a] = NoRow
  BY <1>1, <1>2, EmptyRows
<1>4. \A a \in Accounts : a # Founder => row[a] = NoRow
  BY <1>2
<1>5. IndexesHold
  <2>1. \A a \in Accounts : row[a].email = None /\ row[a].ident = None
    BY <1>1, <1>3, EmptyRows
  <2>2. \A a \in Accounts : a # Founder => row[a].name = None
    BY <1>4, EmptyRows
  <2>3. \A a \in Accounts : row[a].state # "live" => row[a] = NoRow
    BY <1>1, <1>3
  <2>4. QED
    BY <2>1, <2>2, <2>3 DEF IndexesHold
<1>6. \A a \in Accounts : RowHolds(row[a], a, proven, stale)
  BY <1>1, <1>3, EmptyRows DEF RowHolds
<1>7. Unborn \in Token /\ Unborn.state = "unborn"
  BY DEF Unborn, Token
<1>8. token \in [Tokens -> Token] /\ \A t \in Tokens : token[t].state = "unborn"
  BY <1>7 DEF Init
<1>9. Idle \in Proc /\ Idle.at = "idle"
  BY DEF Idle, Proc, Stages
<1>10. proc \in [Procs -> Proc] /\ \A p \in Procs : Knows(proc[p])
  BY <1>9 DEF Init, Knows
<1>11. TypeOK
  BY <1>3, <1>5, <1>8, <1>10 DEF TypeOK, Init
<1>12. QED
  BY <1>6, <1>8, <1>10, <1>11 DEF IInv, TokensAreAddressed

LEMMA ArrivalKeeps ==
  ASSUME IInv, NEW p \in Procs, Arrival(p)
  PROVE  IInv'
BY SignupCheckKeeps, OAuthLookupKeeps, ConsumeReadKeeps, UnlinkCheckKeeps, SetPasswordKeeps,
   EmailUnlinkCheckKeeps, DeleteKeeps, LinkCheckKeeps, VerifyCheckKeeps, MergeSourceKeeps DEF Arrival

LEMMA StepKeeps ==
  ASSUME IInv, NEW p \in Procs, Step(p)
  PROVE  IInv'
BY SignupInsertKeeps, OAuthAutoLinkKeeps, OAuthAutoLinkFailsKeeps, OAuthHandleKeeps, OAuthInsertKeeps,
   LinkWriteKeeps, UnlinkWriteKeeps, VerifyStartKeeps, VerifyMailKeeps, ConsumeCompareKeeps,
   ConsumeFlipKeeps, EmailUnlinkWriteKeeps, MergeTargetKeeps, MergeProviderKeeps, MergeTransferKeeps, FailsKeeps
   DEF Step

LEMMA NextKeeps == IInv /\ [Next]_vars => IInv'
<1> SUFFICES ASSUME IInv, [Next]_vars PROVE IInv'
  OBVIOUS
<1>1. CASE Next
  BY <1>1, ArrivalKeeps, StepKeeps, ExpireKeeps DEF Next
<1>2. CASE UNCHANGED vars
  BY <1>2 DEF vars, IInv, TypeOK, IndexesHold, TokensAreAddressed, Knows, Secured, Live
<1>3. QED
  BY <1>1, <1>2

THEOREM Invariance == Spec => []IInv
BY InitHolds, NextKeeps, PTL DEF Spec

\* Every variable keeps its type, and usernames, addresses and identities stay unique: what the handlers'
\* unlocked lookups leave open, the table's indexes close.
THEOREM TypeCorrect == Spec => []TypeOK
<1>1. IInv => TypeOK
  BY DEF IInv
<1>2. QED
  BY <1>1, Invariance, PTL

\* No interleaving of unlinking, merging, deleting and password changes locks an account out.
THEOREM EveryoneAlwaysCanSignIn == Spec => []EveryoneCanSignIn
<1>1. IInv => EveryoneCanSignIn
  BY DEF IInv, RowHolds, EveryoneCanSignIn, Live
<1>2. QED
  BY <1>1, Invariance, PTL

\* A verified address was proven for this account, or is a provider's word, unless a request overtook the
\* handler that wrote it or its lookup of the provider had failed.
THEOREM VerifiedIsAlwaysProven == Spec => []VerifiedIsProven
<1>1. IInv => VerifiedIsProven
  BY DEF IInv, RowHolds, VerifiedIsProven
<1>2. QED
  BY <1>1, Invariance, PTL

\* A linked account has its provider's address, verified, with the same exception.
THEOREM ProviderAlwaysManagesEmail == Spec => []ProviderManagesEmail
<1>1. IInv => ProviderManagesEmail
  BY DEF IInv, RowHolds, ProviderManagesEmail
<1>2. QED
  BY <1>1, Invariance, PTL

-----------------------------------------------------------------------------
(* Identity implements Claims: every step is a step of the claims, or none. *)

ClaimOf(r, lost) ==
  IF lost THEN [kind |-> "lost", email |-> None]
  ELSE IF r.email = None THEN [kind |-> "none", email |-> None]
  ELSE [kind |-> IF r.ident # None THEN "vouched" ELSE IF r.verified THEN "proven" ELSE "claimed",
        email |-> r.email]

Simulates == Abstract!Next \/ claimed' = claimed

LEMMA Claimed ==
  /\ claimed = [a \in Accounts |-> ClaimOf(row[a], a \in stale)]
  /\ claimed' = [a \in Accounts |-> ClaimOf(row'[a], a \in stale')]
BY DEF claimed, ClaimOf

\* What is done to a row's name or password is nothing to its claim.
LEMMA SameClaims ==
  ASSUME UNCHANGED stale,
         \A a \in Accounts : /\ row'[a].email = row[a].email /\ row'[a].ident = row[a].ident
                             /\ row'[a].verified = row[a].verified
  PROVE  claimed' = claimed
BY DEF claimed

LEMMA OneClaim ==
  ASSUME NEW u \in Accounts, \A a \in Accounts \ {u} : row'[a] = row[a] /\ (a \in stale' <=> a \in stale)
  PROVE  claimed' = [claimed EXCEPT ![u] = ClaimOf(row'[u], u \in stale')]
<1>1. \A a \in Accounts \ {u} : ClaimOf(row'[a], a \in stale') = ClaimOf(row[a], a \in stale)
  <2>1. ASSUME NEW a \in Accounts \ {u}
        PROVE  ClaimOf(row'[a], a \in stale') = ClaimOf(row[a], a \in stale)
    BY <2>1 DEF ClaimOf
  <2>2. QED
    BY <2>1
<1>2. QED
  BY <1>1, Claimed

LEMMA StaysLost ==
  ASSUME NEW u \in Accounts, \A a \in Accounts \ {u} : row'[a] = row[a], UNCHANGED stale, u \in stale
  PROVE  Simulates
<1>1. claimed' = [claimed EXCEPT ![u] = ClaimOf(row'[u], u \in stale')]
  BY OneClaim
<1>2. ClaimOf(row'[u], u \in stale') = claimed[u]
  BY Claimed DEF ClaimOf
<1>3. QED
  BY <1>1, <1>2, Claimed DEF Simulates

LEMMA NotLost ==
  ASSUME NEW u \in Accounts, u \notin stale
  PROVE  claimed[u].kind # "lost"
BY Claimed DEF ClaimOf

LEMMA IsDropped ==
  ASSUME NEW u \in Accounts, \A a \in Accounts \ {u} : row'[a] = row[a], UNCHANGED stale,
         row'[u].email = None
  PROVE  Simulates
<1>1. CASE u \in stale
  BY <1>1, StaysLost
<1>2. CASE u \notin stale
  <2>1. claimed' = [claimed EXCEPT ![u] = ClaimOf(row'[u], u \in stale')]
    BY OneClaim
  <2>2. ClaimOf(row'[u], u \in stale') = [kind |-> "none", email |-> None]
    BY <1>2 DEF ClaimOf
  <2>3. Abstract!Drop(u)
    BY <2>1, <2>2 DEF Abstract!Drop, Abstract!NoClaim
  <2>4. QED
    BY <1>2, <2>3, NotLost DEF Simulates, Abstract!Next, Abstract!Move
<1>3. QED
  BY <1>1, <1>2

LEMMA IsLost ==
  ASSUME NEW u \in Accounts, \A a \in Accounts \ {u} : row'[a] = row[a], stale' = stale \cup {u}
  PROVE  Simulates
<1>1. CASE u \in stale
  <2>1. stale' = stale
    BY <1>1
  <2>2. QED
    BY <1>1, <2>1, StaysLost
<1>2. CASE u \notin stale
  <2>1. claimed' = [claimed EXCEPT ![u] = ClaimOf(row'[u], u \in stale')]
    BY OneClaim
  <2>2. ClaimOf(row'[u], u \in stale') = [kind |-> "lost", email |-> None]
    BY DEF ClaimOf
  <2>3. Abstract!Lose(u)
    BY <2>1, <2>2 DEF Abstract!Lose
  <2>4. QED
    BY <1>2, <2>3, NotLost DEF Simulates, Abstract!Next, Abstract!Move
<1>3. QED
  BY <1>1, <1>2

LEMMA FreeToClaim ==
  ASSUME NEW u \in Accounts, NEW e \in Emails, EmailOwner(e) \subseteq {u}
  PROVE  Abstract!Free(u, e)
<1>1. ASSUME NEW b \in Accounts \ {u} PROVE claimed[b].email # e
  <2>1. claimed[b] = ClaimOf(row[b], b \in stale) /\ row[b].email # e
    BY Claimed DEF EmailOwner
  <2>2. QED
    BY <2>1, NoneApart DEF ClaimOf
<1>2. QED
  BY <1>1 DEF Abstract!Free

LEMMA IsVouched ==
  ASSUME NEW u \in Accounts, NEW e \in Emails, EmailOwner(e) \subseteq {u},
         \A a \in Accounts \ {u} : row'[a] = row[a], UNCHANGED stale,
         row'[u].email = e, row'[u].ident # None
  PROVE  Simulates
<1>1. CASE u \in stale
  BY <1>1, StaysLost
<1>2. CASE u \notin stale
  <2>1. claimed' = [claimed EXCEPT ![u] = ClaimOf(row'[u], u \in stale')]
    BY OneClaim
  <2>2. ClaimOf(row'[u], u \in stale') = [kind |-> "vouched", email |-> e]
    BY <1>2, NoneApart DEF ClaimOf
  <2>3. Abstract!Vouch(u, e)
    BY <2>1, <2>2, FreeToClaim DEF Abstract!Vouch
  <2>4. QED
    BY <1>2, <2>3, NotLost DEF Simulates, Abstract!Next, Abstract!Move
<1>3. QED
  BY <1>1, <1>2

LEMMA ArrivalSimulates ==
  ASSUME IInv, NEW p \in Procs, Arrival(p)
  PROVE  Simulates
<1>1. ASSUME NEW at, NEW u, NEW v, NEW what, NEW seen, Begin(p, at, u, v, what, seen) PROVE Simulates
  BY <1>1, SameClaims DEF Begin, Simulates
<1>2. ASSUME NEW u \in Accounts, SetPassword(p, u) PROVE Simulates
  <2> DEFINE r == [row[u] EXCEPT !.password = TRUE]
  <2>1. r.email = row[u].email /\ r.ident = row[u].ident /\ r.verified = row[u].verified
    BY DEF IInv, TypeOK, Row
  <2>2. row' = [row EXCEPT ![u] = r] /\ UNCHANGED stale
    BY <1>2 DEF SetPassword
  <2> HIDE DEF r
  <2>3. QED
    BY <2>1, <2>2, SameClaims DEF IInv, TypeOK, Simulates
<1>3. ASSUME NEW u \in Accounts, Delete(p, u) PROVE Simulates
  <2>1. row'[u].email = None /\ \A a \in Accounts \ {u} : row'[a] = row[a]
    BY <1>3, EmptyRows DEF Delete, IInv, TypeOK
  <2>2. QED
    BY <1>3, <2>1, IsDropped DEF Delete
<1>4. QED
  BY <1>1, <1>2, <1>3 DEF Arrival, SignupCheck, OAuthLookup, OAuthLookupFails, ConsumeRead, UnlinkCheck,
     EmailUnlinkCheck, LinkCheck, VerifyCheck, VerifyCheckFails, MergeSource

LEMMA SignupInsertSimulates ==
  ASSUME IInv, NEW p \in Procs, SignupInsert(p)
  PROVE  Simulates
<1> DEFINE n == proc[p].what
<1>1. CASE NameTaken(n)
  BY <1>1, SameClaims DEF SignupInsert, Simulates
<1>2. CASE ~NameTaken(n)
  <2> DEFINE r == [NoRow EXCEPT !.state = "live", !.name = n, !.password = TRUE]
  <2>1. PICK a \in Accounts : row[a].state = "new" /\ row' = [row EXCEPT ![a] = r]
    BY <1>2 DEF SignupInsert
  <2>2. r.email = None
    <3>1. n \in Names
      BY DEF SignupInsert, IInv, Knows
    <3>2. NoRow \in Row /\ NoRow.email = None
      BY EmptyRows
    <3> HIDE DEF n
    <3>3. QED
      BY <3>1, <3>2, Renamed
  <2> HIDE DEF r
  <2>3. row'[a].email = None /\ \A b \in Accounts \ {a} : row'[b] = row[b]
    BY <2>1, <2>2 DEF IInv, TypeOK
  <2>4. QED
    BY <2>3, IsDropped DEF SignupInsert
<1>3. QED
  BY <1>1, <1>2

LEMMA OAuthAutoLinkSimulates ==
  ASSUME IInv, NEW p \in Procs, OAuthAutoLink(p)
  PROVE  Simulates
<1> DEFINE i == proc[p].what
           linked == {a \in EmailOwner(EmailOf[i]) : Eligible(a) /\ IdentOwner(i) = {}}
<1>1. i \in Idents
  BY DEF IInv, Knows, OAuthAutoLink
<1>2. linked = {}
  BY <1>1, EmailOfTyped, NobodyEligible DEF EmailOwner
<1>3. row' = [a \in Accounts |->
                IF a \in linked THEN [row[a] EXCEPT !.ident = i, !.verified = TRUE] ELSE row[a]]
  BY DEF OAuthAutoLink
<1> HIDE DEF linked
<1>4. row' = row
  BY <1>2, <1>3 DEF IInv, TypeOK
<1>5. QED
  BY <1>4, SameClaims DEF OAuthAutoLink, Simulates

LEMMA OAuthInsertSimulates ==
  ASSUME IInv, NEW p \in Procs, OAuthInsert(p)
  PROVE  Simulates
<1> DEFINE i == proc[p].what
           n == proc[p].seen
           refused == NameTaken(n) \/ EmailOwner(EmailOf[i]) # {} \/ IdentOwner(i) # {}
<1>1. i \in Idents /\ EmailOf[i] \in Emails
  BY EmailOfTyped DEF IInv, Knows, OAuthInsert
<1>2. CASE refused
  BY <1>2, SameClaims DEF OAuthInsert, Simulates
<1>3. CASE ~refused
  <2> DEFINE r == [state |-> "live", name |-> n, password |-> FALSE, ident |-> i,
                   email |-> EmailOf[i], verified |-> TRUE]
  <2>1. PICK a \in Accounts : row[a].state = "new" /\ row' = [row EXCEPT ![a] = r]
    BY <1>3 DEF OAuthInsert
  <2>2. r.ident = i /\ r.email = EmailOf[i]
    OBVIOUS
  <2> HIDE DEF r
  <2>3. /\ row'[a].email = EmailOf[i] /\ row'[a].ident # None
        /\ \A b \in Accounts \ {a} : row'[b] = row[b]
    BY <1>1, <2>1, <2>2, NoneApart DEF IInv, TypeOK
  <2>4. EmailOwner(EmailOf[i]) \subseteq {a}
    BY <1>3
  <2>5. QED
    BY <1>1, <2>3, <2>4, IsVouched DEF OAuthInsert
<1>4. QED
  BY <1>2, <1>3

LEMMA LinkWriteSimulates ==
  ASSUME IInv, NEW p \in Procs, LinkWrite(p)
  PROVE  Simulates
<1> DEFINE u == proc[p].user
           i == proc[p].what
           still == Live(u) /\ IdentOwner(i) \subseteq {u} /\ EmailOwner(EmailOf[i]) \subseteq {u}
<1>1. u \in Accounts /\ i \in Idents /\ EmailOf[i] \in Emails
  BY EmailOfTyped DEF IInv, Knows, LinkWrite
<1>2. CASE ~still
  BY <1>2, SameClaims DEF LinkWrite, Simulates
<1>3. CASE still
  <2> DEFINE r == [row[u] EXCEPT !.ident = i, !.email = EmailOf[i], !.verified = TRUE]
  <2>1. row' = [row EXCEPT ![u] = r]
    BY <1>3 DEF LinkWrite
  <2>2. r.ident = i /\ r.email = EmailOf[i]
    BY <1>1 DEF IInv, TypeOK, Row
  <2> HIDE DEF r
  <2>3. /\ row'[u].email = EmailOf[i] /\ row'[u].ident # None
        /\ \A b \in Accounts \ {u} : row'[b] = row[b]
    BY <1>1, <2>1, <2>2, NoneApart DEF IInv, TypeOK
  <2>4. QED
    BY <1>1, <1>3, <2>3, IsVouched DEF LinkWrite
<1>4. QED
  BY <1>2, <1>3

LEMMA UnlinkWriteSimulates ==
  ASSUME IInv, NEW p \in Procs, UnlinkWrite(p)
  PROVE  Simulates
<1> DEFINE u == proc[p].user
<1>1. u \in Accounts
  BY DEF IInv, Knows, UnlinkWrite
<1>2. CASE ~Live(u)
  BY <1>2, SameClaims DEF UnlinkWrite, Simulates
<1>3. CASE Live(u)
  <2>1. row' = [row EXCEPT ![u] = Unlinked(u)]
    BY <1>3 DEF UnlinkWrite
  <2>2. Unlinked(u).email = None
    BY <1>1 DEF Unlinked, IInv, TypeOK, Row
  <2>3. row'[u].email = None /\ \A b \in Accounts \ {u} : row'[b] = row[b]
    BY <1>1, <2>1, <2>2 DEF IInv, TypeOK
  <2>4. QED
    BY <1>1, <2>3, IsDropped DEF UnlinkWrite
<1>4. QED
  BY <1>2, <1>3

\* An address named by hand is proposed, unless a provider was linked meanwhile: then the claim is lost.
LEMMA VerifyStartSimulates ==
  ASSUME IInv, NEW p \in Procs, VerifyStart(p)
  PROVE  Simulates
<1> DEFINE u == proc[p].user
           e == proc[p].what
           free == Live(u) /\ EmailOwner(e) \subseteq {u}
<1>1. u \in Accounts /\ e \in Emails /\ proc[p].seen = None
  BY DEF IInv, Knows, VerifyStart
<1>2. CASE ~free
  BY <1>2, SameClaims DEF VerifyStart, Simulates
<1>3. CASE free
  <2> DEFINE r == [row[u] EXCEPT !.email = e, !.verified = FALSE]
  <2>1. row' = [row EXCEPT ![u] = r] /\ stale' = stale \cup {x \in {u} : row[u].ident # proc[p].seen}
    BY <1>3 DEF VerifyStart, Claiming
  <2>2. r.ident = row[u].ident /\ r.email = e /\ ~r.verified
    BY <1>1 DEF IInv, TypeOK, Row
  <2> HIDE DEF r
  <2>3. row'[u] = r /\ \A b \in Accounts \ {u} : row'[b] = row[b]
    BY <1>1, <2>1 DEF IInv, TypeOK
  <2>4. CASE row[u].ident # None
    <3>1. stale' = stale \cup {u}
      BY <1>1, <2>1, <2>4
    <3>2. QED
      BY <1>1, <2>3, <3>1, IsLost
  <2>5. CASE row[u].ident = None /\ u \in stale
    <3>1. stale' = stale
      BY <1>1, <2>1, <2>5
    <3>2. QED
      BY <1>1, <2>3, <2>5, <3>1, StaysLost
  <2>6. CASE row[u].ident = None /\ u \notin stale
    <3>1. stale' = stale
      BY <1>1, <2>1, <2>6
    <3>2. claimed' = [claimed EXCEPT ![u] = ClaimOf(row'[u], u \in stale')]
      BY <1>1, <2>3, <3>1, OneClaim
    <3>3. ClaimOf(row'[u], u \in stale') = [kind |-> "claimed", email |-> e]
      BY <1>1, <2>2, <2>3, <2>6, <3>1, NoneApart DEF ClaimOf
    <3>4. claimed[u].kind # "vouched"
      BY <1>1, <2>6, Claimed DEF ClaimOf
    <3>5. Abstract!Propose(u, e)
      BY <1>1, <1>3, <3>2, <3>3, <3>4, FreeToClaim DEF Abstract!Propose
    <3>6. QED
      BY <1>1, <2>6, <3>5, NotLost DEF Simulates, Abstract!Next, Abstract!Move
  <2>7. QED
    BY <2>4, <2>5, <2>6
<1>4. QED
  BY <1>2, <1>3

\* The link proves the address that is claimed, unless another has taken its place.
LEMMA ConsumeFlipSimulates ==
  ASSUME IInv, NEW p \in Procs, ConsumeFlip(p)
  PROVE  Simulates
<1> DEFINE u == proc[p].user
<1>1. u \in Accounts /\ proc[p].seen \in Emails
  BY DEF IInv, Knows, ConsumeFlip
<1>2. stale' = stale \cup {x \in {u} : Live(u) /\ row[u].email # proc[p].seen}
  BY DEF ConsumeFlip
<1>3. CASE ~Live(u)
  <2>1. row' = row /\ stale' = stale
    BY <1>2, <1>3 DEF ConsumeFlip
  <2>2. QED
    BY <2>1, SameClaims DEF Simulates
<1>4. CASE Live(u)
  <2> DEFINE r == [row[u] EXCEPT !.verified = TRUE]
  <2>1. row' = [row EXCEPT ![u] = r]
    BY <1>4 DEF ConsumeFlip
  <2>2. r.ident = row[u].ident /\ r.email = row[u].email /\ r.verified
    BY <1>1 DEF IInv, TypeOK, Row
  <2> HIDE DEF r
  <2>3. row'[u] = r /\ \A b \in Accounts \ {u} : row'[b] = row[b]
    BY <1>1, <2>1 DEF IInv, TypeOK
  <2>4. CASE row[u].email # proc[p].seen
    <3>1. stale' = stale \cup {u}
      BY <1>2, <1>4, <2>4
    <3>2. QED
      BY <1>1, <2>3, <3>1, IsLost
  <2>5. CASE row[u].email = proc[p].seen /\ u \in stale
    <3>1. stale' = stale
      BY <1>2, <2>5
    <3>2. QED
      BY <1>1, <2>3, <2>5, <3>1, StaysLost
  <2>6. CASE row[u].email = proc[p].seen /\ u \notin stale
    <3> DEFINE e == row[u].email
    <3>1. stale' = stale
      BY <1>2, <2>6
    <3>2. claimed' = [claimed EXCEPT ![u] = ClaimOf(row'[u], u \in stale')]
      BY <1>1, <2>3, <3>1, OneClaim
    <3>3. e # None /\ e \in Emails
      BY <1>1, <2>6, NoneApart
    <3>4. claimed[u] = ClaimOf(row[u], FALSE) /\ u \notin stale'
      BY <1>1, <2>6, <3>1, Claimed DEF ClaimOf
    <3>5. CASE row[u].ident # None \/ row[u].verified
      <4>1. ClaimOf(row'[u], u \in stale') = claimed[u]
        BY <2>2, <2>3, <3>3, <3>4, <3>5 DEF ClaimOf
      <4>2. QED
        BY <1>1, <3>2, <4>1, Claimed DEF Simulates
    <3>6. CASE row[u].ident = None /\ ~row[u].verified
      <4>1. claimed[u] = [kind |-> "claimed", email |-> e]
        BY <3>3, <3>4, <3>6 DEF ClaimOf
      <4>2. ClaimOf(row'[u], u \in stale') = [kind |-> "proven", email |-> e]
        BY <2>2, <2>3, <3>3, <3>4, <3>6 DEF ClaimOf
      <4>3. Abstract!Prove(u, e)
        BY <3>2, <4>1, <4>2 DEF Abstract!Prove
      <4>4. QED
        BY <1>1, <2>6, <3>3, <4>3, NotLost DEF Simulates, Abstract!Next, Abstract!Move
    <3>7. QED
      BY <3>5, <3>6
  <2>7. QED
    BY <2>4, <2>5, <2>6
<1>5. QED
  BY <1>3, <1>4

LEMMA EmailUnlinkWriteSimulates ==
  ASSUME IInv, NEW p \in Procs, EmailUnlinkWrite(p)
  PROVE  Simulates
<1> DEFINE u == proc[p].user
<1>1. u \in Accounts
  BY DEF IInv, Knows, EmailUnlinkWrite
<1>2. stale' = stale \cup {x \in {u} : Live(u) /\ row[u].ident # proc[p].seen}
  BY DEF EmailUnlinkWrite
<1>3. CASE ~Live(u)
  <2>1. row' = row /\ stale' = stale
    BY <1>2, <1>3 DEF EmailUnlinkWrite
  <2>2. QED
    BY <2>1, SameClaims DEF Simulates
<1>4. CASE Live(u)
  <2> DEFINE r == [row[u] EXCEPT !.email = None, !.verified = FALSE]
  <2>1. row' = [row EXCEPT ![u] = r]
    BY <1>4 DEF EmailUnlinkWrite
  <2>2. r.email = None
    BY <1>1 DEF IInv, TypeOK, Row
  <2> HIDE DEF r
  <2>3. row'[u].email = None /\ \A b \in Accounts \ {u} : row'[b] = row[b]
    BY <1>1, <2>1, <2>2 DEF IInv, TypeOK
  <2>4. CASE stale' = stale
    BY <1>1, <2>3, <2>4, IsDropped
  <2>5. CASE stale' = stale \cup {u}
    BY <1>1, <2>3, <2>5, IsLost
  <2>6. QED
    BY <1>2, <2>4, <2>5
<1>5. QED
  BY <1>3, <1>4

\* The target of a merge takes the vouched address over; on a check that no longer holds, it is lost instead.
LEMMA MergeTransferSimulates ==
  ASSUME IInv, NEW p \in Procs, MergeTransfer(p)
  PROVE  Simulates
<1> DEFINE u == proc[p].user
           v == proc[p].target
<1>1. u \in Accounts /\ v \in Accounts \ {u} /\ proc[p].seen \in Idents
  BY DEF IInv, Knows, MergeTransfer
<1>2. CASE ~Live(u)
  BY <1>2, SameClaims DEF MergeTransfer, Simulates
<1>3. CASE Live(u)
  <2> DEFINE r == [row[v] EXCEPT !.ident = row[u].ident, !.email = row[u].email, !.verified = TRUE]
  <2>1. row' = [a \in Accounts |-> CASE a = u -> Gone [] a = v /\ Live(v) -> r [] OTHER -> row[a]]
    BY <1>3 DEF MergeTransfer
  <2>2. stale' = stale \cup {x \in {v} : /\ Live(v)
                                        /\ \/ row[u].ident = None /\ proc[p].seen # None
                                           \/ u \in stale}
    BY <1>3 DEF MergeTransfer
  <2>3. r.ident = row[u].ident /\ r.email = row[u].email
    BY <1>1 DEF IInv, TypeOK, Row
  <2> HIDE DEF r
  <2>4. /\ row'[u] = Gone /\ row'[u].email = None
        /\ Live(v) => row'[v] = r
        /\ ~Live(v) => row'[v] = row[v]
        /\ \A a \in Accounts \ {u, v} : row'[a] = row[a]
    BY <1>1, <2>1, EmptyRows
  <2>5. CASE ~Live(v)
    <3>1. stale' = stale /\ \A a \in Accounts \ {u} : row'[a] = row[a]
      BY <2>2, <2>4, <2>5
    <3>2. QED
      BY <1>1, <2>4, <3>1, IsDropped
  <2>6. CASE Live(v) /\ v \in stale
    <3>1. stale' = stale
      BY <2>2, <2>6
    <3> DEFINE c == [claimed EXCEPT ![u] = ClaimOf(row'[u], u \in stale')]
    <3>2. \A a \in Accounts \ {u} : ClaimOf(row'[a], a \in stale') = ClaimOf(row[a], a \in stale)
      <4>1. ASSUME NEW a \in Accounts \ {u}
            PROVE  ClaimOf(row'[a], a \in stale') = ClaimOf(row[a], a \in stale)
        <5>1. CASE a = v
          BY <2>6, <3>1, <5>1 DEF ClaimOf
        <5>2. CASE a # v
          BY <2>4, <3>1, <5>2 DEF ClaimOf
        <5>3. QED
          BY <5>1, <5>2
      <4>2. QED
        BY <4>1
    <3>3. claimed' = c
      BY <3>2, Claimed
    <3>4. CASE u \in stale
      <4>1. ClaimOf(row'[u], u \in stale') = claimed[u]
        BY <1>1, <3>1, <3>4, Claimed DEF ClaimOf
      <4>2. QED
        BY <3>3, <4>1, Claimed DEF Simulates
    <3>5. CASE u \notin stale
      <4>1. ClaimOf(row'[u], u \in stale') = [kind |-> "none", email |-> None]
        BY <2>4, <3>1, <3>5 DEF ClaimOf
      <4>2. Abstract!Drop(u)
        BY <3>3, <4>1 DEF Abstract!Drop, Abstract!NoClaim
      <4>3. QED
        BY <1>1, <3>5, <4>2, NotLost DEF Simulates, Abstract!Next, Abstract!Move
    <3>6. QED
      BY <3>4, <3>5
  <2>7. CASE Live(v) /\ v \notin stale
    <3>1. claimed' = [claimed EXCEPT ![u] = ClaimOf(row'[u], u \in stale'),
                                    ![v] = ClaimOf(row'[v], v \in stale')]
      <4>1. \A a \in Accounts \ {u, v} : ClaimOf(row'[a], a \in stale') = ClaimOf(row[a], a \in stale)
        <5>1. ASSUME NEW a \in Accounts \ {u, v}
              PROVE  ClaimOf(row'[a], a \in stale') = ClaimOf(row[a], a \in stale)
          BY <2>2, <2>4, <5>1 DEF ClaimOf
        <5>2. QED
          BY <5>1
      <4>2. QED
        BY <1>1, <4>1, Claimed
    <3>2. CASE u \in stale
      <4>1. v \in stale' /\ u \in stale'
        BY <2>2, <2>7, <3>2
      <4>2. ClaimOf(row'[u], u \in stale') = claimed[u]
        BY <1>1, <3>2, <4>1, Claimed DEF ClaimOf
      <4>3. ClaimOf(row'[v], v \in stale') = [kind |-> "lost", email |-> None]
        BY <4>1 DEF ClaimOf
      <4>4. claimed' = [claimed EXCEPT ![v] = [kind |-> "lost", email |-> None]]
        BY <1>1, <3>1, <4>2, <4>3, Claimed
      <4>5. Abstract!Lose(v)
        BY <4>4 DEF Abstract!Lose
      <4>6. QED
        BY <1>1, <2>7, <4>5, NotLost DEF Simulates, Abstract!Next, Abstract!Move
    <3>3. CASE u \notin stale /\ row[u].ident = None
      <4>1. v \in stale' /\ u \notin stale'
        BY <1>1, <2>2, <2>7, <3>3, NoneApart
      <4>2. ClaimOf(row'[u], u \in stale') = [kind |-> "none", email |-> None]
        BY <2>4, <4>1 DEF ClaimOf
      <4>3. ClaimOf(row'[v], v \in stale') = [kind |-> "lost", email |-> None]
        BY <4>1 DEF ClaimOf
      <4>4. Abstract!HandLost(u, v)
        BY <3>1, <4>2, <4>3 DEF Abstract!HandLost, Abstract!NoClaim
      <4>5. QED
        BY <1>1, <4>4 DEF Simulates, Abstract!Next
    <3>4. CASE u \notin stale /\ row[u].ident # None
      <4> DEFINE e == row[u].email
      <4>1. v \notin stale' /\ u \notin stale'
        BY <1>1, <2>2, <2>7, <3>4
      <4>2. row[u].ident \in Idents /\ row[u].ident # None
        BY <1>1, <3>4 DEF IInv, TypeOK, Row
      <4>3. e \in Emails /\ e # None
        <5>1. RowHolds(row[u], u, proven, stale)
          BY <1>1 DEF IInv
        <5>2. row[u].email = EmailOf[row[u].ident]
          BY <3>4, <4>2, <5>1 DEF RowHolds
        <5>3. QED
          BY <4>2, <5>2, EmailOfTyped, NoneApart
      <4>4. ClaimOf(row'[u], u \in stale') = [kind |-> "none", email |-> None]
        BY <2>4, <4>1 DEF ClaimOf
      <4>5. ClaimOf(row'[v], v \in stale') = [kind |-> "vouched", email |-> e]
        BY <2>3, <2>4, <2>7, <4>1, <4>2, <4>3 DEF ClaimOf
      <4>6. claimed[u] = [kind |-> "vouched", email |-> e]
        BY <1>1, <3>4, <4>2, <4>3, Claimed DEF ClaimOf
      <4>7. Abstract!Hand(u, v, e)
        BY <3>1, <4>4, <4>5, <4>6 DEF Abstract!Hand, Abstract!NoClaim
      <4>8. claimed[v].kind # "lost"
        BY <1>1, <2>7, NotLost
      <4>9. QED
        BY <1>1, <4>3, <4>7, <4>8 DEF Simulates, Abstract!Next
    <3>5. QED
      BY <3>2, <3>3, <3>4
  <2>8. QED
    BY <2>5, <2>6, <2>7
<1>4. QED
  BY <1>2, <1>3

LEMMA StepSimulates ==
  ASSUME IInv, NEW p \in Procs, Step(p)
  PROVE  Simulates
<1>1. CASE \/ OAuthAutoLinkFails(p) \/ OAuthHandle(p) \/ VerifyMail(p) \/ ConsumeCompare(p) \/ Fails(p)
             \/ MergeTarget(p) \/ MergeProvider(p) \/ MergeProviderFails(p)
  BY <1>1, SameClaims DEF OAuthAutoLinkFails, OAuthHandle, VerifyMail, ConsumeCompare, Fails, MergeTarget,
     MergeProvider, MergeProviderFails, Simulates
<1>2. QED
  BY <1>1, SignupInsertSimulates, OAuthAutoLinkSimulates, OAuthInsertSimulates, LinkWriteSimulates,
     UnlinkWriteSimulates, VerifyStartSimulates, ConsumeFlipSimulates, EmailUnlinkWriteSimulates,
     MergeTransferSimulates DEF Step

LEMMA NextSimulates == IInv /\ [Next]_vars => [Abstract!Next]_claimed
<1> SUFFICES ASSUME IInv, [Next]_vars PROVE Simulates
  BY DEF Simulates
<1>1. CASE Next
  <2>1. ASSUME NEW t \in Tokens, Expire(t) PROVE Simulates
    BY <2>1, SameClaims DEF Expire, Simulates
  <2>2. QED
    BY <1>1, <2>1, ArrivalSimulates, StepSimulates DEF Next
<1>2. CASE UNCHANGED vars
  BY <1>2, SameClaims DEF vars, Simulates
<1>3. QED
  BY <1>1, <1>2

LEMMA InitSimulates == Init => Abstract!Init
<1> SUFFICES ASSUME Init PROVE Abstract!Init
  OBVIOUS
<1>1. \A a \in Accounts : row[a].email = None /\ a \notin stale
  <2>1. LET r == [NoRow EXCEPT !.state = "live", !.name = FounderName, !.password = TRUE]
        IN r.email = None
    <3>1. NoRow \in Row /\ NoRow.email = None
      BY EmptyRows
    <3>2. QED
      BY <3>1, FounderNamed, Renamed
  <2>2. QED
    BY <2>1, EmptyRows DEF Init
<1>2. \A a \in Accounts : ClaimOf(row[a], a \in stale) = [kind |-> "none", email |-> None]
  BY <1>1 DEF ClaimOf
<1>3. QED
  BY <1>2, Claimed DEF Abstract!Init, Abstract!NoClaim

\* Every behaviour of the handlers is a behaviour of the claims: an address becomes proven only for the
\* account that claimed it, a provider's is not replaced by hand while the account counts, and only
\* a merge hands one over.
THEOREM IdentityImplementsClaims == Spec => ImplementsClaims
<1>1. Init => Abstract!Init
  BY InitSimulates
<1>2. IInv /\ [Next]_vars => [Abstract!Next]_claimed
  BY NextSimulates
<1>3. QED
  BY <1>1, <1>2, Invariance, PTL DEF Spec, ImplementsClaims, Abstract!Spec

=============================================================================
