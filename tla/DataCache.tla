------------------------------ MODULE DataCache ------------------------------
(***************************************************************************)
(* The read-through cache of derived data in Redis, the requests that fill *)
(* it, and the two paths that change what it is derived from: the daily    *)
(* scrape with its post-scrape hook, and the administrator's CSV upload.   *)
(*                                                                         *)
(* A table is the number of times it has changed, and a cached value the   *)
(* number it was derived at.  One key stands for all those filled alike.   *)
(***************************************************************************)
EXTENDS Integers

CONSTANTS
  Keys,          \* the keys of the cache that are read
  Requests,      \* requests that may be reading through the cache at once
  Uploads,       \* uploads that may be in progress at once
  CallsMayFail,  \* whether calls to the stores may fail and the process may restart
  MaxVersion     \* bound: how often a table changes

ASSUME DataCacheAssumption ==
  /\ CallsMayFail \in BOOLEAN
  /\ MaxVersion \in Nat
  /\ Keys \subseteq {"snapshot", "summary", "briefing", "insight"}
  /\ "summary" \in Keys => "snapshot" \in Keys
  /\ "scrape" \notin Uploads

(* gse:data:market-snapshot is derived from QuestDB, market-summary from   *)
(* the cached snapshot, briefing from Postgres, and gse:llm:ai-insight     *)
(* from QuestDB by the language model.                                     *)
DataKeys == Keys \intersect {"snapshot", "summary", "briefing"}
LlmKeys  == Keys \intersect {"insight"}

Writers == Uploads \union {"scrape"}

None == -1   \* nothing cached

VARIABLES
  prices, uploaded,  \* versions of the equities table: now, and after the last upload
  briefing, today,   \* version of the briefings, and whether there is one for today
  cache,             \* the value of each key
  req,               \* the requests that missed
  writer,            \* the scrape and the uploads
  raced,             \* history: the keys each request's value is too old to be stored at
  excused,           \* history: keys whose invalidation failed, or was raced by a store
  skipped            \* history: keys that changed with no invalidation to follow

tables  == <<prices, uploaded, briefing, today>>
history == <<raced, excused, skipped>>
vars    == <<tables, cache, req, writer, history>>

Current(k) ==
  CASE k = "briefing" -> briefing
    [] k = "insight"  -> uploaded
    [] OTHER          -> prices

(* A value older than what it is derived from.  A scrape leaves the        *)
(* insights alone on purpose: the model's quota would not bear it.         *)
Stale(k) == cache[k] # None /\ cache[k] < Current(k)

(* A value of k is being stored.                                           *)
InFlight(k) == \E r \in Requests : k \in req[r].pend

(* The keys of ks that an old value may be left at.                        *)
Exposed(ks) == {k \in ks : cache[k] # None \/ InFlight(k)}

NoRequest == [pc |-> "idle", key |-> "none", val |-> None, pend |-> {}]

(* Where a writer is, the keys its scan has yet to delete, and where it    *)
(* goes from there: to the briefing, or nowhere when the ingest failed.    *)
NoWrite == [pc |-> "idle", todo |-> {}, then |-> "check"]

(* Version 0 of a table is empty: no prices, no briefing of any day.       *)
Init ==
  /\ prices = 0 /\ uploaded = 0 /\ briefing = 0 /\ today = FALSE
  /\ cache = [k \in Keys |-> None]
  /\ req = [r \in Requests |-> NoRequest]
  /\ writer = [w \in Writers |-> NoWrite]
  /\ raced = [r \in Requests |-> {}]
  /\ excused = {} /\ skipped = {}

-----------------------------------------------------------------------------
(* cachedJSONBytes.  A hit changes nothing and is not a step.              *)

(* A failed Get counts as a miss.                                          *)
Miss(r, k) ==
  /\ req[r].pc = "idle"
  /\ cache[k] = None \/ CallsMayFail
  /\ req' = [req EXCEPT ![r] = [pc |-> IF k = "summary" THEN "nested" ELSE "fetch", key |-> k,
                                val |-> None, pend |-> {}]]
  /\ UNCHANGED <<tables, cache, writer, history>>

(* What isEmptyJSON finds empty: the list of the prices of an empty table. *)
(* The summary and the briefing made of nothing are objects with fields.   *)
EmptyJSON(k, v) == v = 0 /\ k \notin {"summary", "briefing"}

StoreAnything(r, v, keys) ==
  req' = [req EXCEPT ![r] = IF keys = {} THEN NoRequest
                            ELSE [pc |-> "store", key |-> "none", val |-> v, pend |-> keys]]

(* Nothing is stored of an empty result; a store lands on its own.         *)
Answer(r, v, keys) ==
  LET stored == {k \in keys : ~EmptyJSON(k, v)}
  IN  req' = [req EXCEPT ![r] = IF stored = {} THEN NoRequest
                                ELSE [pc |-> "store", key |-> "none", val |-> v, pend |-> stored]]

(* market-summary is built from the cached snapshot, whatever its age ...  *)
NestedHit(r) ==
  /\ req[r].pc = "nested" /\ cache["snapshot"] # None
  /\ Answer(r, cache["snapshot"], {"summary"})
  /\ raced' = [raced EXCEPT ![r] = IF Stale("snapshot") THEN {"summary"} ELSE {}]
  /\ UNCHANGED <<tables, cache, writer, excused, skipped>>

(* ... or from a snapshot fetched for it, which is cached too.             *)
NestedMiss(r) ==
  /\ req[r].pc = "nested"
  /\ cache["snapshot"] = None \/ CallsMayFail
  /\ req' = [req EXCEPT ![r].pc = "fetch"]
  /\ UNCHANGED <<tables, cache, writer, history>>

Fetched(k) == IF k = "summary" THEN {"snapshot", "summary"} ELSE {k}

Source(k) == IF k = "briefing" THEN briefing ELSE prices

Fetch(r) ==
  /\ req[r].pc = "fetch"
  /\ Answer(r, Source(req[r].key), Fetched(req[r].key))
  /\ raced' = [raced EXCEPT ![r] = {}]
  /\ UNCHANGED <<tables, cache, writer, excused, skipped>>

FetchFails(r) ==
  /\ req[r].pc \in {"nested", "fetch"}
  /\ req' = [req EXCEPT ![r] = NoRequest]
  /\ UNCHANGED <<tables, cache, writer, history>>

(* The detached write, any time after the answer.                          *)
Land(r, k) ==
  /\ req[r].pc = "store" /\ k \in req[r].pend
  /\ cache' = [cache EXCEPT ![k] = req[r].val]
  /\ Answer(r, req[r].val, req[r].pend \ {k})
  /\ excused' = IF k \in raced[r] THEN excused \union {k} ELSE excused
  /\ UNCHANGED <<tables, writer, raced, skipped>>

LandFails(r, k) ==
  /\ CallsMayFail
  /\ req[r].pc = "store" /\ k \in req[r].pend
  /\ Answer(r, req[r].val, req[r].pend \ {k})
  /\ UNCHANGED <<tables, cache, writer, history>>

KeptForever(k) == cache[k] # None /\ UNCHANGED vars

(* Every value is stored with a time to live.                              *)
Expire(k) ==
  /\ cache[k] # None
  /\ cache' = [cache EXCEPT ![k] = None]
  /\ excused' = {x \in excused : x # k \/ InFlight(k)}
  /\ skipped' = {x \in skipped : x # k \/ InFlight(k)}
  /\ UNCHANGED <<tables, req, writer, raced>>

-----------------------------------------------------------------------------
(* HandleUpload and scrapeGSE: the rows go to QuestDB, then the keys go.   *)

ChangePrices(w) ==
  /\ prices < MaxVersion
  /\ prices' = prices + 1
  /\ uploaded' = IF w = "scrape" THEN uploaded ELSE prices'

Ingest(w) ==
  /\ writer[w].pc = "idle"
  /\ ChangePrices(w)
  /\ writer' = [writer EXCEPT ![w] = [pc |-> "data", todo |-> DataKeys, then |-> "check"]]
  /\ UNCHANGED <<briefing, today, cache, req, history>>

(* The rows before the failure are in QuestDB too.  A scrape returns at    *)
(* once ...                                                                *)
ScrapeFails ==
  /\ CallsMayFail
  /\ writer["scrape"].pc = "idle"
  /\ ChangePrices("scrape")
  /\ skipped' = skipped \union Exposed(Keys \intersect {"snapshot", "summary"})
  /\ UNCHANGED <<briefing, today, cache, req, writer, raced, excused>>

UploadReturns(w) ==
  /\ CallsMayFail
  /\ w # "scrape" /\ writer[w].pc = "idle"
  /\ ChangePrices(w)
  /\ UNCHANGED <<briefing, today, cache, req, writer, history>>

(* ... an upload invalidates all the same, and then answers 500.           *)
UploadFails(w) ==
  /\ CallsMayFail
  /\ w # "scrape" /\ writer[w].pc = "idle"
  /\ ChangePrices(w)
  /\ writer' = [writer EXCEPT ![w] = [pc |-> "data", todo |-> DataKeys, then |-> "idle"]]
  /\ UNCHANGED <<briefing, today, cache, req, history>>

(* The keys ks leave the cache.  A value in flight to one of them comes    *)
(* too late.                                                               *)
Invalidate(ks) ==
  /\ cache' = [k \in Keys |-> IF k \in ks THEN None ELSE cache[k]]
  /\ raced' = [r \in Requests |-> raced[r] \union (req[r].pend \intersect ks)]
  /\ excused' = excused \ ks /\ skipped' = skipped \ ks

(* One SCAN and DEL step of a pattern.                                     *)
Scan(w, k) ==
  /\ k \in writer[w].todo
  /\ Invalidate({k})
  /\ writer' = [writer EXCEPT ![w].todo = writer[w].todo \ {k}]
  /\ UNCHANGED <<tables, req>>

(* An error abandons the rest of the pattern, and is only logged.          *)
ScanFails(w) ==
  /\ CallsMayFail
  /\ writer[w].todo # {}
  /\ excused' = excused \union Exposed(writer[w].todo)
  /\ writer' = [writer EXCEPT ![w].todo = {}]
  /\ UNCHANGED <<tables, cache, req, raced, skipped>>

(* An upload goes on to gse:llm:*.                                         *)
DataScanned(w) ==
  /\ writer[w].pc = "data" /\ writer[w].todo = {}
  /\ writer' = [writer EXCEPT ![w] = [pc |-> IF w = "scrape" THEN "check" ELSE "llm",
                                      todo |-> IF w = "scrape" THEN {} ELSE LlmKeys,
                                      then |-> writer[w].then]]
  /\ UNCHANGED <<tables, cache, req, history>>

LlmScanned(w) ==
  /\ writer[w].pc = "llm" /\ writer[w].todo = {}
  /\ writer' = [writer EXCEPT ![w] = [NoWrite EXCEPT !.pc = writer[w].then]]
  /\ UNCHANGED <<tables, cache, req, history>>

-----------------------------------------------------------------------------
(* RunPostScrape and regenerateBriefing.                                   *)

(* A read that fails does not stop a second briefing of the day.           *)
CheckBriefing(w) ==
  /\ writer[w].pc = "check"
  /\ ~today \/ CallsMayFail
  /\ writer' = [writer EXCEPT ![w].pc = "insights"]
  /\ UNCHANGED <<tables, cache, req, history>>

(* Today's briefing exists, there is no symbol, or the model fails, at the *)
(* insights or at the summary of them.                                     *)
NoBriefing(w) ==
  /\ writer[w].pc \in {"check", "save"}
  /\ writer' = [writer EXCEPT ![w] = NoWrite]
  /\ UNCHANGED <<tables, cache, req, history>>

(* Insights show once their day has a summary: at once, when another       *)
(* writer has saved today's meanwhile.                                     *)
SaveInsights(w) ==
  /\ writer[w].pc = "insights"
  /\ \/ /\ today /\ briefing < MaxVersion
        /\ briefing' = briefing + 1 /\ skipped' = skipped \union Exposed(Keys \intersect {"briefing"})
     \/ /\ ~today
        /\ UNCHANGED <<briefing, skipped>>
  /\ writer' = [writer EXCEPT ![w].pc = "save"]
  /\ UNCHANGED <<prices, uploaded, today, cache, req, raced, excused>>

(* The keys w deletes once it has saved: only the post-scrape hook does.   *)
KeysBusted(w) == IF w = "scrape" THEN Keys \intersect {"briefing", "summary"} ELSE {}

SaveSummary(w) ==
  /\ writer[w].pc = "save"
  /\ briefing < MaxVersion
  /\ briefing' = briefing + 1 /\ today' = TRUE
  /\ skipped' = IF w = "scrape" THEN skipped ELSE skipped \union Exposed(Keys \intersect {"briefing"})
  /\ writer' = [writer EXCEPT ![w].pc = "bust"]
  /\ UNCHANGED <<prices, uploaded, cache, req, raced, excused>>

(* The post-scrape hook deletes the keys all the same.                     *)
SaveFails(w) ==
  /\ CallsMayFail
  /\ writer[w].pc = "save"
  /\ writer' = [writer EXCEPT ![w].pc = "bust"]
  /\ UNCHANGED <<tables, cache, req, history>>

Bust(w) ==
  /\ writer[w].pc = "bust"
  /\ Invalidate(KeysBusted(w))
  /\ writer' = [writer EXCEPT ![w] = NoWrite]
  /\ UNCHANGED <<tables, req>>

BustFails(w) ==
  /\ CallsMayFail
  /\ writer[w].pc = "bust"
  /\ excused' = excused \union Exposed(KeysBusted(w))
  /\ writer' = [writer EXCEPT ![w] = NoWrite]
  /\ UNCHANGED <<tables, cache, req, raced, skipped>>

-----------------------------------------------------------------------------
(* The keys that w will still delete for the changes it has made.          *)
Owed(w) ==
  writer[w].todo \union
  (CASE writer[w].pc = "data" /\ w # "scrape" -> LlmKeys
     [] writer[w].pc = "bust" -> KeysBusted(w)
     [] OTHER -> {})

(* What will come, or has gone wrong, for an old value of k.               *)
Explained(k) == (\E w \in Writers : k \in Owed(w)) \/ k \in excused \union skipped

(* Nothing of a request or of a writer survives a restart; Redis does.     *)
Restart ==
  /\ CallsMayFail
  /\ excused' = excused \union Exposed(UNION {Owed(w) : w \in Writers})
  /\ req' = [r \in Requests |-> NoRequest]
  /\ writer' = [w \in Writers |-> NoWrite]
  /\ UNCHANGED <<tables, cache, raced, skipped>>

(* Bound: no briefing is being made at midnight.                           *)
Midnight ==
  /\ today /\ \A w \in Writers : writer[w].pc \notin {"insights", "save"}
  /\ today' = FALSE
  /\ UNCHANGED <<prices, uploaded, briefing, cache, req, writer, history>>

Lands(r) == \E k \in Keys : Land(r, k) \/ LandFails(r, k)

Request(r) == \/ \E k \in Keys : Miss(r, k)
              \/ NestedHit(r) \/ NestedMiss(r) \/ Fetch(r) \/ FetchFails(r) \/ Lands(r)

Write(w) == \/ Ingest(w) \/ UploadFails(w)
            \/ (\E k \in Keys : Scan(w, k)) \/ ScanFails(w) \/ DataScanned(w) \/ LlmScanned(w)
            \/ CheckBriefing(w) \/ NoBriefing(w) \/ SaveInsights(w) \/ SaveSummary(w) \/ SaveFails(w)
            \/ Bust(w) \/ BustFails(w)

Next ==
  \/ \E r \in Requests : Request(r)
  \/ \E w \in Writers : Write(w)
  \/ ScrapeFails
  \/ \E k \in Keys : Expire(k)
  \/ Restart \/ Midnight

Spec == Init /\ [][Next]_vars

(* Redis expires what it holds, and a detached write ends within its five  *)
(* seconds.                                                                *)
FairSpec ==
  /\ Spec
  /\ \A k \in Keys : WF_vars(Expire(k))
  /\ \A r \in Requests : WF_vars(Lands(r))

-----------------------------------------------------------------------------
TablesOK == prices \in 0..MaxVersion /\ uploaded \in 0..prices /\ briefing \in Nat /\ today \in BOOLEAN

Versions == Nat \union {None}

CacheOK == cache \in [Keys -> Versions] /\ \A k \in Keys : cache[k] <= Source(k) /\ ~EmptyJSON(k, cache[k])

RequestsOK ==
  /\ req \in [Requests -> [pc : {"idle", "nested", "fetch", "store"}, key : Keys \union {"none"},
                           val : Versions, pend : SUBSET Keys]]
  /\ \A r \in Requests : req[r].pc = "store" => req[r].val # None
  /\ \A r \in Requests : \A k \in req[r].pend : req[r].val <= Source(k) /\ ~EmptyJSON(k, req[r].val)

WritersOK == writer \in [Writers -> [pc : {"idle", "data", "llm", "check", "insights", "save", "bust"},
                                     todo : SUBSET Keys, then : {"check", "idle"}]]

HistoryOK == raced \in [Requests -> SUBSET Keys] /\ excused \subseteq Keys /\ skipped \subseteq Keys

(* Every variable has its type; a value cached or to be stored is never of *)
(* a later version than its table, and never the list of an empty one; the *)
(* summary and the briefing of an empty table are cached like any other.   *)
TypeOK == TablesOK /\ CacheOK /\ RequestsOK /\ WritersOK /\ HistoryOK

(* A cached value older than its table is about to be deleted, or survived *)
(* one of the four ways the code leaves open: the deletion failed, or was  *)
(* cut short by a restart; the value was in flight when its key, or the    *)
(* snapshot it is built from, was deleted; an ingest failed half-way; a    *)
(* briefing was saved by an upload.                                        *)
StaleIsExplained == \A k \in Keys : Stale(k) => Explained(k)

(* Once the tables stop changing, the cache comes to agree with them and   *)
(* stays so: no store in flight, and no value built on a cached one, keeps *)
(* an old value alive ("the TTL is a safety net").                         *)
EventuallyFresh == <>[](\A k \in Keys : ~Stale(k))
=============================================================================
