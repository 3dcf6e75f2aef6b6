# gse-terminal: a TLA+ model of its core

gse-terminal is a Go server (`src/cmd/server`, `src/internal`) that serves prices of the Ghana Stock
Exchange to two browser front ends (`src/ui`, `src/web`). Accounts, alert rules and briefings are in
Postgres, prices in QuestDB, and sessions, refresh tokens and caches in Redis. A daily scrape and
administrators' CSV uploads bring prices in; readers are served through a Redis cache; a WebSocket
hub pushes frames to the open tabs.

Little of it is algorithmic. What is hard is that one handler makes several calls to three stores with
other goroutines in between, that nearly every call's failure is logged and passed over, and that the
process may restart between any two calls. The modules here take the parts where that matters most.

## Inventory

| Component | State | Operations | Interacts with |
|---|---|---|---|
| Sessions (`auth/auth.go`, `server/auth_handlers.go`, `json_auth_handlers.go`, `admin_handlers.go`, `repository/redis.go`) | `users` rows; in Redis the session epochs, lock sentinels, refresh records, revoked JWT ids; cookies | middleware with silent refresh, login, logout, account merge, role change, lock, unlock, delete, pro approval | every handler; browsers |
| Accounts and e-mail verification (`json_auth_handlers.go`, `auth_handlers.go`, `email_verify_handlers.go`, `account_handlers.go`, `postgres.go`) | `users`: name, password, provider, address and its flag; verification tokens | signup, OAuth sign-in, link, unlink, merge, verify, remove an address, delete | sessions; alert mails |
| Roles (`pro_request_handlers.go`, `admin_handlers.go`) | `users.role`, `pro_role_requests` | ask, decide, change a role, lock, delete | sessions, hub |
| Alert rules (`alerts/alerts.go`, `server/alert_handlers.go`) | `alert_rules`, `alert_events` | create under a cap, pause, re-arm, delete, evaluate | uploads, post-scrape hook, hub, mail, push |
| WebSocket hub (`server/hub.go`, `ws_handlers.go`) | client map, three channels, one channel per client | connect, disconnect, broadcast, push to a user or role | scrape, uploads, alerts, pro requests |
| Data cache and ingest paths (`server/cache.go`, `admin_handlers.go`, `collector/ticker.go`, `cmd/server/main.go`) | Redis keys `gse:data:*` and `gse:llm:*`, `equities`, `briefings`, `market_summaries` | read through, detached store, upload, scrape, invalidate, make a briefing | QuestDB, Postgres, language model |
| Collector and post-scrape hook (`collector/ticker.go`, `cmd/server/main.go`) | timers, the closure calendar | seed scrape, schedule, retry, watchdog, briefing, rule evaluation, digest | ingestor, alerts, cache, push |
| Ingestor (`ingestor/csv_parser.go`, `repository/questdb.go`) | the shared ILP sender's buffer | parse, insert, flush | scrape and uploads |
| Bars (`repository/questdb.go`) | `equities` | upsert, sample, resolve | every price reader |
| Digest push (`push/push.go`, `push_handlers.go`) | subscriptions, sent marks in Redis | subscribe, unsubscribe, digest, prune | uploads, post-scrape, push services |
| Portfolio (`portfolio_handlers.go`) | holdings, cached histories, reconstructions in flight | create, update, delete, read the history | bars, Redis |
| Language models (`analysis/llm_*.go`, `insight_handlers.go`) | the walk of a prompt, the cached insight | retry, fall back, share a walk, cache | providers, insight, queries, briefing |
| Browser clients (`ui/src/live/socket.js`, `web/src/lib/ws`) | per-tab caches | connect, suspend, bust | hub |
| Analysis, news, audit, configuration, MCP, deployment | none that several actors change | - | - |

What makes the main components correct, and the hard behaviour behind each:

- *Sessions*: a revocation reaches every credential already issued, although the role is cached in
  JWTs and refresh records for up to 90 days; a browser's two cookies belong to one account; the lock in
  Redis agrees with the one in Postgres.
- *Alert rules*: an arming fires once; one bad rule does not sink a batch; the cap holds.
- *Hub*: its single goroutine never blocks and never panics; dead peers leave the map.
- *Cache*: a changed table is followed by the deletion of what was derived from it; what escapes the
  deletion is known and goes away.
- *Accounts*: a verified address was proven by its owner or by a provider, no order of unlinking and
  merging locks anyone out, and an administrator remains. Handlers read a row in one statement and write
  in a later one.
- *Collector*: a session that is published in time is ingested and the alert rules see it, although the
  schedule, the retries, the date asked for and the hook each look at something else.
- *Ingestor*: what an ingest counts is stored, though all share one sender.
- *Push*: one digest a day, and it arrives, with a mark that is set before sending.
- *Portfolio*: a history lags an edit only when the two overlapped; a point's return is the market's.
- *Language models*: the heuristic stands in for a model's text only when it has to.

## Modules

Each component has a state module and the largest have a proof module. `MC` modules add what TLC needs.
The properties of a component read its own state only, so an effect on another
component is an action of each (an upload's evaluator run in `Alerts`, a scrape's frame in
`Hub`, an upload's briefing in `Collector`). `Records` and `Feed` put the smaller components side by side, with their
constants, their assumptions and their properties by name; in their `MC` modules each behaviour explores one part, so
that the states add up and do not multiply. `MCRequests`, `MCMerges` and `MCDataCache` do the same with lanes of one
module.

| Module | About | Run by | Proofs |
|---|---|---|---|
| `Sessions` | credentials and revocation | `MCSessions`, `MCRequests`, `MCMerges` | `SessionsProofs` |
| `Identity`, `Claims` | accounts and addresses; the abstract specification of an address | `MCRecords` | `IdentityProofs` |
| `Roles` | who administers | `MCRecords` | `RecordsProofs` |
| `Alerts`, `Arming` | alert rules; the abstract specification of a rule | `MCAlerts` | `AlertsProofs` |
| `Hub` | WebSocket hub | `MCHub` | `HubProofs` |
| `DataCache` | cache and invalidation | `MCDataCache` | `DataCacheProofs` |
| `Collector` | schedule, calendar, watchdog, hook | `MCFeed`, alone in `CollectorClosure` | `CollectorProofs` |
| `Push`, `Holdings` | digest; portfolio | `MCFeed` | `FeedProofs` |
| `Ingest`, `Bars`, `Curve`, `Oracle` | ingest; bars; equity curve; language models | `MCRecords` | `RecordsProofs` |
| `Records` | `Identity`, `Roles`, `Ingest`, `Bars`, `Curve` and `Oracle` side by side | `MCRecords` | `RecordsProofs` |
| `Feed` | `Collector`, `Push` and `Holdings` side by side | `MCFeed` | `FeedProofs` |

### Sessions.tla

`role`, `status`, `linked` are Postgres; `epoch`, `lockMark`, `refresh`, `revoked` are Redis; `jar` holds
each browser's cookies; `conn` the requests in progress, one record per goroutine, and `adm` the
administrator operations in progress. `Arrive` copies the cookies; `LookupRefresh`, `CheckLocked`,
`RenewJwt`, `DropRefresh` are the Redis calls of `silentRefresh`, in order; `CheckSession` is the
revocation-and-epoch round trip; `LoginRead`, `StampEpoch`, `IssueCookies` are a login;
`MergeSource`, `MergeTarget`, `MergeProvider`, `MergeTransfer` a merge, whose three reads others may come between and
whose last read is ignored when it fails; `LogoutRevoke`, `LogoutForget` a logout; `Respond` applies the
Set-Cookie headers. `AdminWrite`, `AdminMirror`, `AdminBump` are an administrator's Postgres write, lock
sentinel and epoch bump. With `RedisMayFail` each Redis call has its error branch as well, with the
fail-open or fail-closed outcome the code gives it. `missed`, `straddled`, `floor` and `out` are history; so are
`late` and `torn` (toggles of a lock whose mirroring a later toggle overtook, or failed) and `mixed` (browsers whose
access token came without the refresh token they hold).

### Alerts.tla and Arming.tla

One user's rules. `CreateCount` and `CreateInsert` are the two statements of the create handler;
`LoadSnapshot`, `ListRules`, `Evaluate`, `MarkFired`, `CreateEvent`, `Finish`, `Return`, `Cancel` are the
steps of `evaluateAlerts` and `Evaluator.Run`. A snapshot is the set of rules it satisfies. `Crash` ends
the goroutines and keeps the table. `arms`, `told` and `seen` are history.

`Arming` is a rule as its owner sees it, without runs, copies and failures: an arming gives it a `credit`, a firing spends one
and disarms the rule in the same step, and what is `due` is told once or lost. It lets a rule fire that its owner has just
paused, as the code does. `Alerts` implements it when runs are one at a time: `credit` is the armings less the fire
count, `due` the rule a run has marked and not yet told of, unless it was deleted.

### Hub.tla

`register` and `unregister` are sequences with the channels' buffers; of a channel of frames only its
length is kept. `handler` and `pump` are the two goroutines of each connection. `RunRegister`,
`RunUnregister` and `RunBroadcast` are the branches of Run's `select`, `Fanout` one client of a
broadcast; `PushSnapshot` copies clients under the read lock and `PushSend` sends without it. A panic
clears `alive`, and nothing happens afterwards. The model starts a connection's pump at its
registration, as the handler does, and not when Run accepts it.

### DataCache.tla

A table is represented by its version, a cached value by the version it was derived from. `snapshot`
stands for every key computed from QuestDB alone, `summary` for those computed from the cached snapshot,
`briefing` for the one from Postgres, and `insight` for the model's. `Miss`, `NestedHit`, `NestedMiss`,
`Fetch`, `Land` are `cachedJSONBytesTTL` with its detached store and `cachedMarketSummaryItems` nested in
it. `EmptyJSON` is what the code refuses to store: the list read from an empty table, but not the summary or the
briefing made of nothing, which are objects with fields. `Ingest`, `UploadFails`, `ScrapeFails` write the prices; `Scan`
deletes one key of a pattern, so a
reader can come between two; `CheckBriefing`, `SaveInsights`, `SaveSummary`, `Bust` are the two
functions that make a day's briefing, of which only the post-scrape hook busts the cache. `raced`,
`excused` and `skipped` are history: why an old value may be there.

### Identity.tla and Claims.tla

`row` is the users table, `token` the verification tokens, `inbox` those that were mailed, `proc` the
handlers in progress, one action per statement: `SignupCheck`, `SignupInsert`; `OAuthLookup`,
`OAuthAutoLink`, `OAuthHandle`, `OAuthInsert` with the retry over usernames; `LinkCheck`, `LinkWrite`;
`UnlinkCheck`, `UnlinkWrite`; `VerifyCheck`, `VerifyStart`, `VerifyMail`; `ConsumeRead`, `ConsumeCompare`,
`ConsumeFlip`; `EmailUnlinkCheck`, `EmailUnlinkWrite`; `MergeSource`, `MergeTarget`, `MergeProvider`, `MergeTransfer`;
`SetPassword`, `Delete`, `Expire`. The unique indexes are the conjunct `IndexesHold`.

Where a handler ignores a failed lookup, so does its action: `OAuthLookupFails`, `OAuthAutoLinkFails`,
`VerifyCheckFails` (the account looks unlinked, or the address free), `LinkCheck` (any of its three lookups), and
`MergeProviderFails`. `LinkCheck` refuses an identity of the provider that is linked (`SameProvider`) and writes over
one of another provider. `MergeTransfer` stamps the address verified whatever it is, as the code does, and counts it as
proven only when the source's provider vouches for it (`Vouched`).

`proven` and `stale` are history: who followed a link or was vouched for, and which accounts were written by a handler
that was wrong about what they held, because another request had overtaken it or because its lookup had failed, or
took such an account over in a merge.

`Claims` says what an address is to the rest of the program: claimed, then proven by the account that claimed it, or
vouched for by a provider, replaced only by what a provider says, and moved only by a merge. `Identity`
implements it under the mapping `claimed`;
an account in `stale` is mapped to `lost`.

### Roles.tla

Administrators' requests are authorised by the role in the token when they arrive (`AskRole`,
`AskDelete`, `AskLock`, `AskDecide`) and write later (`SetRole`, `DeleteAccount`, `ToggleLock`, `Decide`);
`Submit` meets the partial unique index. `AskMerge`, `MergeAccount` are the merge as this table sees it: the signed-in
account's row goes, whatever its role, and the browser is signed in with the role read of the target. `crossed` and
`merged` are history: a write landed after its author had lost the role; an administrator merged his account into one
that is no administrator's.

### Collector.tla

Time is in slots of one retry interval; a day has a slot until 16:30, `Window` for the attempts, and one
until midnight. `daemon` is the collector's goroutine: `Seed`, `Fire`, `Again` begin a scrape, which goes through
`Download`, `Ingest`, `Hook`, `Brief`, `Evaluate`, `Digest`. `LastTradingDate`, `NextRun` and
`TradingDaysBetween` are the calendar's three uses, which differ in the code. `Watch` is the watchdog's silent
outcome. Sessions are `held` or not, `published` at any moment after the close, and `rows` says what the
database has. `trouble` is history: the daemon failed, was down, or was late today; `early`: the session
was published in time for the last attempt; `preempted`: a briefing made outside the schedule stopped the hook before its
rules.

### Push.tla

`Subscribe`, `Unsubscribe`, `Choose` are the users, `Revoke` a push service. A fan-out is
`List`, then for each user `Take`, `Mark` (or `Skip`, or `FailOpen` when Redis fails), `ListDevices`, `Send`, `Sent`; an
endpoint that is gone is pruned; `Cut` is the time limit or the shutdown's context, `Restart` the process.
Marks, subscriptions and preferences survive it.

### Holdings.tla, Curve.tla, Bars.tla, Ingest.tla

`Holdings`: an edit commits, then deletes the cached histories one by one; readers join the reconstruction
of their window, which goes on when they leave and stores by a detached write. `Curve` computes such a history:
`Walk` is one day of the loop over `lot`s and closes, with the last close carried forward and lots at cost
before a first close. `Bars`: upserted rows, the six aggregates of `ohlcProjection` and `Resolve`. `Ingest`:
the read loop with every way out of it, and the sender's `pending` row, its `buffer` and who flushes what.

### Oracle.tla

`chain` is what the deployment has keys for. Requests of one prompt share a walk (`Ask`, `Waiting`); `Attempt` is one HTTP
call, whose answer each client classifies in its own way (`GeminiOnce`, `AnthropicOnce`, `CompatibleOnce`);
`GiveUp` is a walk whose context ended; `Land` answers all that wait, `Store` caches. `facts` is
history: what had failed, or refused, or left, when a text was chosen.

## Runs

Twelve runs; those that pass are complete searches of their instance.

| Run | Question | Bounds |
|---|---|---|
| `Sessions` | lane *race*: two requests of one browser against logins, logouts and an administrator, Redis sound; lane *failure*: one request at a time, any Redis call fails, credentials end | 1 account, 2 credentials, 2 bumps (lane *failure*: 1 bump) |
| `SessionsMerge` | two accounts and merges, and that every call returns; lane *delete*: deletions; lane *approve*: approvals and locks; lane *toggle*: two administrators lock and unlock at once, Redis may fail; lane *store*: logins and merges, Redis may fail; lane *overlap*: logins and logouts overtake a request of the same browser | 3 credentials (lanes *approve* and *store*: 2), 1 bump (lane *toggle*: 3) |
| `SessionsLoginRace` | *refutes* a comment: a revocation may miss a login in progress | 1 request |
| `AlertsCrash` | one evaluator, any failure, restarts anywhere, two creators under a cap of one; `Alerts` implements `Arming` | 2 rules, 2 armings |
| `AlertsTwoRuns` | two evaluator runs and the owner's edits | 2 rules, 2 armings |
| `AlertsRefire` | *refutes* a comment: two runs fire one arming twice | 1 rule |
| `HubRun` | one connection above the cap, one-slot channels, a pusher; safety and liveness | 2 connections |
| `HubPanic` | *refutes* a comment: a push may send on a closed channel | 2 connections |
| `Cache` | lane *prices*: snapshot and the summary made from it; lane *model*: briefing and insight; a scrape and an upload, every failure, restarts; freshness in the end | 3 versions, 2 for what a lane does not ask for |
| `Records` | parts *identity*, *roles*, *ingest*, *bars*, *curve*, *oracle* | below |
| `Feed` | parts *collector*, *push*, *holdings*, each with failures and restarts | below |
| `CollectorClosure` | *refutes* a comment: a session on a day listed by mistake is never asked for | 3 days |

The bounds keep what each question needs. A race in the sessions is between one stale credential and
one operation, so two credentials, two requests and two epochs hold every interleaving of it; merges need
a second account. For alerts, a second rule shows what a failure does to the others, and a second
arming what an old copy does to a new one. In the hub a cap of one and one-slot buffers make every full
channel reachable with two connections. For the cache, two changes let an old value survive a deletion of
its successor; a third version lets one writer save after another's briefing of the same day. Where a
bound is in a guard (`MaxSerial`, `MaxEpoch`, `MaxArms`, `MaxVersion`, `MaxOps`, `MaxUploads`, `MaxEdits`,
`MaxFaults`, midnight with no briefing in the making), it is named there.

The parts of `Records` and `Feed`:

- *identity*: two accounts (one to be created), two addresses, an identity at each of two providers, two tokens, two
  handlers at once and four requests in all: enough to create the second account, link it or claim an address for it,
  and merge it, with a race or a failed lookup on the way. *roles*: two
  accounts, two pro requests, two handlers, four requests, merges among them.
- *ingest*: three writers, since a third flushes what two have mixed, files of two rows, and a limit of one on
  consecutive unreadable lines. *bars*: three days in bars of two, prices up to two, so
  that every order of open, close and last occurs with zeros. *curve*: two lots, of the same symbol or
  of two (the first's name is fixed, symbols being interchangeable), over four days with a gap; every
  series of closes 0 to 2 of the symbols held, and every window.
- *oracle*: every deployment of three of the four clients, the two models of Gemini, ladders of two rungs,
  requests that share a walk.
- *collector*: four days with a listed closure and a Saturday; two attempts a day, which has a first, a
  retry and a cutoff; one upload. *push*: a user, two endpoints of which one is of an
  unknown service, a scrape's and an upload's fan-out, two days, one edit, one fault. *holdings*: two
  edits, two readers, one window (windows do not share anything but the edit's deletion loop).

### Fairness

- `Sessions`, `Alerts`: weak fairness of a goroutine's own next step. The code has no lock or channel on
  these paths. A request runs under a timeout of 30 s, a Redis operation under its socket deadlines, and an
  upload's evaluator run under 90 s; the post-scrape's run has no deadline of its own, and there the
  assumption is that Postgres answers. Nothing is assumed of users, administrators or arrivals.
- `Hub`: weak fairness of Run, strong fairness of its register and unregister branches (Go's `select`
  picks at random between ready channels) and of a sender blocked on a channel (channel senders queue in
  order). A read fails once its socket is closed. Nothing is assumed of a pump, which may hang on its
  peer; the property is about those that have stopped.
- `Push`, `Holdings`: weak fairness of a fan-out's and of a reconstruction's next step. Each has a timeout, or calls with
  one. Nothing is assumed of users, browsers and push services, nor of a detached store.
- `DataCache`: keys expire and detached stores end within five seconds. No writer is assumed to
  go on, and no reader to come.
- `Identity`, `Roles`, `Collector` and the other parts of `Records` have safety properties only and need none. The
  collector's promise of each day is an action property: it speaks of the step past midnight.

`CHECK_DEADLOCK FALSE` is set only where the instance really comes to an end: the process of the hub
has panicked or all connections were used, or a bound on ids or credentials is spent.

### What the runs refute

Four comments of the code say more than the code does; each has a run with a counterexample.

1. `SessionsLoginRace`: the role is read before the password check and the epoch after it. A demotion
   in between leaves a session with the old role under the *new* epoch, which no later check rejects.
2. `AlertsRefire`: an upload's evaluator run and the post-scrape's may both list a rule before one fires
   it; `MarkAlertFired` is unconditional, so both fire it.
3. `HubPanic`: `PushToUser` copies the clients under the lock, sends after releasing it, and Run may have
   closed the channel.
4. `CollectorClosure`: `ticker.go:561` says that the scheduler does not use the closure calendar, "because
   there being wrong loses a session silently". It does fire on a listed day, but the date it asks for
   comes from `getLastTradingDate`, which skips listed days; the session held on it is lost just so.

Seen while modelling, without a run of their own:

- A merge bumps no epoch, so sessions of the deleted account live on until they expire (`missed` in
  `Sessions`). An unlock does not give refresh tokens back. Two administrators' toggles at the same moment, or a
  mirroring that fails, leave sentinel and row disagreeing until the next toggle (`torn`). A failed `IssueRefresh`
  leaves the previous refresh cookie of the browser in place, which may be another account's, and so does a login that
  overtakes a refresh of the same browser (`mixed`).
- `email_verify_handlers.go:88` refuses a linked account only when the lookup of its provider succeeds; when it fails,
  the provider's address is replaced by one typed in. A merge of that account then marks it verified
  (`postgres.go:305`, "email is provider-verified"), though nobody proved it. The lookups at `auth_handlers.go:511`
  and `:639` are ignored in the same way, and a link replaces another provider's identity (`stale` in `Identity`).
- The user table refuses to demote or delete oneself because there is "no in-app recovery path"
  (`admin_handlers.go:404`). The merge has no such guard: an only administrator who has linked a provider and merges
  into another account leaves none (`merged` in `Roles`).
- An empty table's market summary and briefing are cached for six hours, since `isEmptyJSON` looks only at the outermost
  value (`cache.go:28`, which says so); an upload or a scrape deletes them like any other.
- When the lookup of today's briefing fails, the hook makes a second one (`main.go:917`).
- `regenerateBriefing` saves minutes after the upload's invalidation and busts nothing; the old briefing
  is served until its time to live ends (`skipped` in `DataCache`).
- Two checks in `Identity` are overtaken by what runs between them and the write (`stale`): consuming a
  link against a change of address, and removing an address against a link completed meanwhile. Two
  administrators who demote or delete each other at once leave none (`crossed` in `Roles`).
- `server.go:228` says that without a configured model the "AI Oracle will return errors", and `llm_fallback.go:43`
  that an empty chain fails fast; `insight.go` swallows that error and serves the heuristic with 200, cached for
  twelve hours. The same happens to requests that joined a walk whose first request left (`left` in `Oracle`).
- Two rows begun at once on the shared ILP sender spoil each other, and one writer may end another's row; a flush
  discards the row another has begun (`harmed` in `Ingest`).

## Proofs

Every safety property of the passing runs, invariant or action property, is a theorem. The theorems hold for every value
of the constants under the assumptions in each module (`SessionsAssumption`, `AlertsAssumption`, `HubAssumption`,
`DataCacheAssumption`, `CollectorAssumption`, and `RecordsAssumption` and `FeedAssumption`, from which the parts'
own follow), which say only that bounds are naturals, finite sets finite, and keys, days and operations are known ones.
Two theorems have a hypothesis more, `OneRun` of `AlertsProofs`, named in the statement. The larger
inductive invariants were checked by TLC before they were proved.

- **SessionsProofs**
  - `RevocationIsCovered`. A credential stays covered because the epoch only grows and Postgres is always
    written before the bump. `RevocationCovers` speaks of credentials that exist; the strengthening (`CredsGood`,
    `AdmOK`) says of every credential, including one a login has read and not yet stamped, that it is no newer than the
    epoch and that its excess over its account is owed, missed, or straddled, and of an administrator's operation in
    progress that it names its account.
  - `ServedIsAlwaysCurrent`. What a request was found to carry when its epoch was compared (`Vetted`) was
    current then, and an epoch and the set of revoked ids that a request saw on arrival can only have grown since (`Since`).
  - `SentinelAlwaysMirrorsLock`, for any number of administrators and whatever Redis does. At most one mirroring of an
    account is that of its last toggle, and it will make the sentinel what the row is; once it has, or there is none, the
    two agree unless `torn` (`SentinelInv`, with `OneUser`: an operation is on one account).
  - `JarsHoldOneAccount`, for any requests of one browser at once and whatever Redis does. Of each answer on its way it
    must be known that the token it sets is of the account of the record it was issued or renewed with (`Answers`), and
    that refresh records are told apart by their number (`Unique`). Where the answer leaves a refresh cookie that is
    still the one it came with, the two cookies stay one account's; where it is not, the browser is `mixed`.
- **AlertsProofs**
  - `OneRunNeverRefires`, under the assumption that runs are one at a time (`OneRun`), the very assumption `AlertsRefire`
    drops. It counts: `fireCount` is below `arms` while a rule is armed (`CountOK`), and a run that has marked a
    rule has not told its owner yet. `AlertsImplementArming`, from the same invariant: a run's step marks, tells
    or does neither, and the owner of a rule that is due has been told less often than it has fired (`DueRules`).
  - `EachRunFiresOnce`, for any number of runs: every arming gives each run the right to fire once (`Budget`), and what the
    runs have yet to do with the copies they hold (`Firing`, `Telling`) is charged in advance.
  - `BatchIsAlwaysComplete`: of each rule a run listed and found satisfied, it is either still to come, or off, or armed
    anew, or noted as failed (`Settled`). `CapPassedOnlyByRaces`.
- **HubProofs**: `RunIsSafe`, `GaugeCountsClients`, `EndedConnectionsAreForgotten`. The invariant adds that a connection
  is queued for registration or registered, not both and once (`RegisteredOnce`), and that a fan-out's
  clients are still in the map (`FanoutInMap`): Run cannot unregister anyone while it fans out.
- **DataCacheProofs**: `StaleIsAlwaysExplained`. What holds of cached values must hold of those still in flight to the
  cache, with the difference that one in flight may be known to come too late (`InFlightExplained`); and a writer has
  keys to delete only while it scans (`WriterShape`). One lemma, `StaleStep`, carries all writers' steps: a step
  that deletes some keys, changes some tables and keeps the requests is harmless if whatever may hold an old value of a
  changed table has its explanation.
- **IdentityProofs**: `EveryoneAlwaysCanSignIn`, `VerifiedIsAlwaysProven`, `ProviderAlwaysManagesEmail`, and the
  refinement `IdentityImplementsClaims`. The invariant says what a handler still knows at its second
  statement (`Knows`): an id is never reused and a password never removed, so what unlinking and merging
  looked up is still so (`Secured`); a token never changes its address, so a link proves the address it was
  sent to; anything else may have changed or was never seen, and the write either compares it again or puts its account in
  `stale`. For the refinement every action is shown to move the claims of its accounts as one action of
  `Claims` does, or not at all.
- **CollectorProofs**: `ContentAlwaysMeansFresh`; `PublishedIsAlwaysIngested`, for any calendar, any window
  and any number of days. Before the day's schedule a daemon without trouble has its timer set for it, or
  is about to set it (`Morning`); from then on it is on course (`Afternoon`, `OnCourse`): about to fire,
  trying, waiting for a retry before the cutoff, in the hook, finished, or too late for a session published
  late. At midnight only the last two are left. The watchdog's count agrees with the calendar because its
  set of days includes every unlisted session, and finite sets are ordered by their size.
- **RecordsProofs**
  - `AnAdministratorRemains`. The one who remains is the one who acts: a pending role change by an actor on himself keeps
    the role and a pending deletion is never of its actor (`Armed`), so whoever authorises a write survives it, or
    `crossed` says that he was no administrator by then. Of a merge, the target remains, or `merged` says that he is
    none. `DecisionsAreWhole` needs that a pending
    request has an author (`Signed`), and goes through the actions.
  - `CountedIsAlwaysStored`. A row counted by an ingest that nothing disturbed is stored or still in the buffer (`Kept`),
    and whoever flushes the buffer stores it, unless the ingest is told that a flush failed.
  - `BarsSpanTheirPrices`, from lemmas on the largest and the smallest of a finite set.
  - `ReturnIsAlwaysMarketMove`. The lots of a day's cashflow are exactly those by which the sums of
    two days differ (`SumsBalance`). That a sum over a finite set unfolds is not taken on trust: the community
    module's fold is defined by a CHOOSE of a function that satisfies a recursion, and `FoldExists` and `FoldsAgree` show that
    there is one and that it is unique. Since no induction scheme can be instantiated, each argues by
    a smallest counterexample (`MinimalSubset`).
  - `HeuristicIsAlwaysExplained`. Every rung before the one a walk is at has failed (`WalkInv`); at the end of the last
    ladder that is all of them.
- **FeedProofs**: `DigestOncePerDay`: the deliveries of a day and the sends under way together are no more than the mark
  and the failures that let a fan-out through (`WithinAdmitted`, which counts senders). `HistoryIsExplained`: of a
  reconstruction in flight and of a detached write it must be known which edits they lack (`OvertakenIsExcused`),
  as of what is cached (`CachedIsExcused`).
- Every component's type invariant (`TypeCorrect`, `RecordsTypeCorrect`, `FeedTypeCorrect`).

Only model-checked: what needs fairness (`EveryCallReturns`, `EveryRunReturns`, `RunReturns`, `HungPeerIsDropped`,
`EventuallyFresh`, `DigestArrives`, `ReaderIsAnswered`). The provers at hand do not reason about `ENABLED`, without which weak
and strong fairness cannot be used.

## Not modelled

- Analysis (indicators, backtests, anomaly scores, sentiment, query parsing, briefing texts): computations over
  floating-point series whose results no modelled decision depends on.
- The other handlers and reads (quotes, sectors, news, screeners, portfolio overview and risk, MCP, API
  keys): single statements, or readers through the same cache as those in `DataCache`.
- Migrations, configuration, audit, logs, metrics, OpenAPI: idempotent at the start, read once, or write-only.
- In the components that are modelled partly: the OAuth state cookie and password hashes; the move of the
  other tables' rows in a merge; the drawer's reads, the rendering of mails and the metrics of the alerts;
  QuestDB's delay between a commit and its visibility, the batch writes of the comparison page and the
  sector overrides' own invalidation; the hook when no language model is configured.
- The order of the shutdown. A restart at any point is an action of every module whose state it loses,
  and includes what a shutdown can lose.
- Views, charts, the service worker, the downloader script, deployment; browsers are the environment of
  `Hub` and the cookies of `Sessions`.

Three hazards have no property. A password change may overwrite an administrator's reset that came during its hashing
(`postgres.go:388`): `Identity` keeps only whether there is a password, and telling passwords apart would
multiply its states for one lost update. Digest marks are of the UTC day of the fan-out and not of the
trading date (`push.go:202`), which the code defines so. The daemon's context outlives the server's drain
(`main.go:835`); what that loses, a restart loses too.

## What remains

In order of worth: a tab client composed with `Hub` (missed `cache:bust` frames against suspended
sockets); an abstract session store (who is signed in as whom, and who was revoked) which `Sessions` implements up to
the gaps in `missed` and `straddled`.
