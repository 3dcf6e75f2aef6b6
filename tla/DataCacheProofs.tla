--------------------------- MODULE DataCacheProofs ---------------------------
(***************************************************************************)
(* For any number of requests and uploads: a cached value older than its   *)
(* table is about to be deleted, or is there for one of the reasons the    *)
(* code leaves open.                                                       *)
(***************************************************************************)
EXTENDS DataCache, TLAPS

(* What a request holds at each of its steps.                              *)
RequestShape ==
  \A r \in Requests :
    /\ req[r].pc # "store" => req[r].pend = {}
    /\ req[r].pc \in {"nested", "fetch"} => req[r].key \in Keys
    /\ req[r].pc = "nested" => req[r].key = "summary"

(* Only a scan has keys to delete.                                         *)
WriterShape == \A w \in Writers : writer[w].pc \notin {"data", "llm"} => writer[w].todo = {}

(* What StaleIsExplained says of cached values, said of those still to be  *)
(* stored: an old one is known to come too late, or its key is explained.  *)
InFlightExplained ==
  \A r \in Requests : \A k \in req[r].pend :
    req[r].val < Current(k) => k \in raced[r] \/ Explained(k)

CacheInv == RequestShape /\ WriterShape /\ StaleIsExplained /\ InFlightExplained
-----------------------------------------------------------------------------
(* Types.                                                                  *)

RequestType == [pc : {"idle", "nested", "fetch", "store"}, key : Keys \union {"none"}, val : Versions, pend : SUBSET Keys]

WriterType == [pc : {"idle", "data", "llm", "check", "insights", "save", "bust"}, todo : SUBSET Keys,
               then : {"check", "idle"}]

LEMMA InitTypeOK == Init => TypeOK
<1> SUFFICES ASSUME Init PROVE TypeOK
  OBVIOUS
<1>1. TablesOK
  <2>1. today \in BOOLEAN
    BY DEF Init
  <2>2. prices \in 0..MaxVersion /\ uploaded \in 0..prices /\ briefing \in Nat
    BY DataCacheAssumption DEF Init
  <2>3. QED
    BY <2>1, <2>2 DEF TablesOK
<1>2. CacheOK
  BY DEF Init, CacheOK, None, Source, Versions, EmptyJSON
<1>3. RequestsOK
  BY DEF Init, RequestsOK, NoRequest, Versions
<1>4. WritersOK
  BY DEF Init, WritersOK, NoWrite
<1>5. HistoryOK
  BY DEF Init, HistoryOK
<1>6. QED
  BY <1>1, <1>2, <1>3, <1>4, <1>5 DEF TypeOK

LEMMA RequestUpdate ==
  ASSUME RequestsOK, NEW r \in Requests, NEW x \in RequestType, req' = [req EXCEPT ![r] = x]
  PROVE  /\ req' \in [Requests -> RequestType]
         /\ req'[r] = x /\ \A q \in Requests : q # r => req'[q] = req[q]
BY DEF RequestsOK, RequestType

LEMMA WriterUpdate ==
  ASSUME WritersOK, NEW w \in Writers, NEW x \in WriterType, writer' = [writer EXCEPT ![w] = x]
  PROVE  /\ WritersOK'
         /\ writer'[w] = x /\ \A v \in Writers : v # w => writer'[v] = writer[v]
BY DEF WritersOK, WriterType

LEMMA SourceType == TablesOK => \A k \in Keys : Source(k) \in Nat
BY DataCacheAssumption DEF TablesOK, Source

LEMMA FetchedType ==
  \A k \in Keys : Fetched(k) \in SUBSET Keys /\ \A x \in Fetched(k) : Source(x) = Source(k)
BY DataCacheAssumption DEF Fetched, Source

(* Of the keys ks, those that a value v is stored at.                      *)
Stored(ks, v) == {k \in ks : ~EmptyJSON(k, v)}

(* After an answer the request is over or holds v for the keys it is       *)
(* stored at.                                                              *)
LEMMA AnswerShape ==
  ASSUME RequestsOK, NEW r \in Requests, NEW v \in Nat, NEW ks \in SUBSET Keys, Answer(r, v, ks)
  PROVE  /\ req' \in [Requests -> RequestType]
         /\ \A q \in Requests : q # r => req'[q] = req[q]
         /\ \/ req'[r].pc = "idle" /\ req'[r].pend = {}
            \/ req'[r].pc = "store" /\ req'[r].val = v /\ v # None
               /\ req'[r].pend \subseteq ks /\ \A k \in req'[r].pend : ~EmptyJSON(k, v)
<1>1. CASE Stored(ks, v) = {}
  <2>1. NoRequest \in RequestType /\ NoRequest.pc = "idle" /\ NoRequest.pend = {}
    BY DEF NoRequest, RequestType, Versions
  <2>2. req' = [req EXCEPT ![r] = NoRequest]
    BY <1>1 DEF Answer, Stored
  <2>3. QED
    BY <2>1, <2>2, RequestUpdate
<1>2. CASE Stored(ks, v) # {}
  <2> DEFINE n == Stored(ks, v)
  <2> DEFINE x == [pc |-> "store", key |-> "none", val |-> v, pend |-> n]
  <2>0. n \in SUBSET Keys /\ n \subseteq ks /\ \A k \in n : ~EmptyJSON(k, v)
    BY DEF Stored
  <2>1. req' = [req EXCEPT ![r] = x]
    BY <1>2 DEF Answer, Stored
  <2> HIDE DEF n
  <2>2. x \in RequestType /\ x.pc = "store" /\ x.val = v /\ x.pend = n
    BY <2>0 DEF RequestType, Versions
  <2> HIDE DEF x
  <2>3. v # None
    BY DEF None
  <2>4. QED
    BY <2>0, <2>1, <2>2, <2>3, RequestUpdate
<1>3. QED
  BY <1>1, <1>2

(* An answer of a value no later than the tables keeps the requests right. *)
LEMMA AnswerType ==
  ASSUME RequestsOK, NEW r \in Requests, NEW v \in Nat, NEW ks \in SUBSET Keys, Answer(r, v, ks),
         \A k \in ks : v <= Source(k), UNCHANGED tables
  PROVE  RequestsOK'
<1>1. \A k \in Keys : Source(k)' = Source(k)
  BY DEF Source, tables
<1>2. \A q \in Requests : q # r => req'[q] = req[q]
  BY AnswerShape
<1>3. /\ req' \in [Requests -> RequestType]
      /\ \/ req'[r].pc = "idle" /\ req'[r].pend = {}
         \/ req'[r].pc = "store" /\ req'[r].val = v /\ v # None
            /\ req'[r].pend \subseteq ks /\ \A k \in req'[r].pend : ~EmptyJSON(k, v)
  BY AnswerShape
<1>4. \A q \in Requests : req[q].pend \subseteq Keys
  BY DEF RequestsOK
<1>5. QED
  BY <1>1, <1>2, <1>3, <1>4 DEF RequestsOK, RequestType

LEMMA CacheSame == ASSUME CacheOK, UNCHANGED <<tables, cache>> PROVE CacheOK'
BY DEF CacheOK, tables, Source

LEMMA TablesSame == ASSUME TablesOK, UNCHANGED tables PROVE TablesOK'
BY DEF TablesOK, tables

LEMMA RequestTypeStep ==
  ASSUME TypeOK, RequestShape, NEW r \in Requests, Request(r)
  PROVE  TypeOK'
<1>1. UNCHANGED <<tables, writer, skipped>>
  BY DEF Request, Lands, Miss, NestedHit, NestedMiss, Fetch, FetchFails, Land, LandFails, history
<1>2. TablesOK' /\ WritersOK'
  BY <1>1, TablesSame DEF TypeOK, WritersOK
<1>3. \A k \in Keys : Source(k)' = Source(k)
  BY <1>1 DEF Source, tables
<1>4. ASSUME NEW k \in Keys, Miss(r, k) PROVE TypeOK'
  <2> DEFINE x == [pc |-> IF k = "summary" THEN "nested" ELSE "fetch", key |-> k, val |-> None, pend |-> {}]
  <2>1. x \in RequestType /\ x.pc # "store" /\ x.pend = {}
    BY DEF RequestType, Versions
  <2>2. req' = [req EXCEPT ![r] = x] /\ UNCHANGED <<cache, history>>
    BY <1>4 DEF Miss
  <2> HIDE DEF x
  <2>3. RequestsOK'
    BY <1>3, <2>1, <2>2, RequestUpdate DEF TypeOK, RequestsOK, RequestType
  <2>4. QED
    BY <1>1, <1>2, <2>2, <2>3, CacheSame DEF TypeOK, HistoryOK, history
<1>5. CASE NestedHit(r)
  <2>1. /\ "snapshot" \in Keys /\ "summary" \in Keys /\ cache["snapshot"] \in Nat
        /\ cache["snapshot"] <= Source("summary")
    BY <1>5, DataCacheAssumption DEF NestedHit, RequestShape, TypeOK, CacheOK, Source, Versions
  <2>2. Answer(r, cache["snapshot"], {"summary"}) /\ UNCHANGED <<cache, excused, skipped>>
    BY <1>5 DEF NestedHit
  <2>3. RequestsOK'
    BY <1>1, <2>1, <2>2, AnswerType DEF TypeOK
  <2>4. HistoryOK'
    BY <1>5, <2>1 DEF NestedHit, TypeOK, HistoryOK
  <2>5. QED
    BY <1>1, <1>2, <2>2, <2>3, <2>4, CacheSame DEF TypeOK
<1>6. CASE NestedMiss(r)
  <2>1. req' = [req EXCEPT ![r].pc = "fetch"] /\ UNCHANGED <<cache, history>>
    BY <1>6 DEF NestedMiss
  <2>2. RequestsOK'
    BY <1>3, <2>1 DEF TypeOK, RequestsOK
  <2>3. QED
    BY <1>1, <1>2, <2>1, <2>2, CacheSame DEF TypeOK, HistoryOK, history
<1>7. CASE Fetch(r)
  <2>1. req[r].key \in Keys
    BY <1>7 DEF Fetch, RequestShape
  <2>2. Answer(r, Source(req[r].key), Fetched(req[r].key)) /\ UNCHANGED <<cache, excused, skipped>>
    BY <1>7 DEF Fetch
  <2>3. /\ Source(req[r].key) \in Nat /\ Fetched(req[r].key) \in SUBSET Keys
        /\ \A k \in Fetched(req[r].key) : Source(req[r].key) <= Source(k)
    BY <2>1, SourceType, FetchedType DEF TypeOK
  <2>4. RequestsOK'
    BY <1>1, <2>2, <2>3, AnswerType DEF TypeOK
  <2>5. HistoryOK'
    BY <1>7 DEF Fetch, TypeOK, HistoryOK
  <2>6. QED
    BY <1>1, <1>2, <2>2, <2>4, <2>5, CacheSame DEF TypeOK
<1>8. CASE FetchFails(r)
  <2>1. NoRequest \in RequestType /\ NoRequest.pc # "store" /\ NoRequest.pend = {}
    BY DEF NoRequest, RequestType, Versions
  <2>2. req' = [req EXCEPT ![r] = NoRequest] /\ UNCHANGED <<cache, history>>
    BY <1>8 DEF FetchFails
  <2>3. RequestsOK'
    BY <1>3, <2>1, <2>2, RequestUpdate DEF TypeOK, RequestsOK, RequestType
  <2>4. QED
    BY <1>1, <1>2, <2>2, <2>3, CacheSame DEF TypeOK, HistoryOK, history
<1>9. ASSUME NEW k \in Keys, Land(r, k) \/ LandFails(r, k) PROVE TypeOK'
  <2>1. /\ req[r].val \in Nat /\ req[r].pend \ {k} \in SUBSET Keys /\ k \in req[r].pend
        /\ \A x \in req[r].pend : req[r].val <= Source(x)
    BY <1>9 DEF TypeOK, RequestsOK, Land, LandFails, Versions
  <2>2. Answer(r, req[r].val, req[r].pend \ {k})
    BY <1>9 DEF Land, LandFails
  <2>3. RequestsOK'
    BY <1>1, <2>1, <2>2, AnswerType DEF TypeOK
  <2>4. cache' = cache \/ cache' = [cache EXCEPT ![k] = req[r].val]
    BY <1>9 DEF Land, LandFails
  <2>5. CacheOK'
    <3>1. req[r].val \in Versions /\ req[r].val <= Source(k) /\ ~EmptyJSON(k, req[r].val)
      BY <2>1 DEF TypeOK, RequestsOK
    <3>2. QED
      BY <1>3, <2>4, <3>1 DEF TypeOK, CacheOK
  <2>6. HistoryOK'
    BY <1>9 DEF Land, LandFails, TypeOK, HistoryOK, history
  <2>7. QED
    BY <1>2, <2>3, <2>5, <2>6 DEF TypeOK
<1>10. QED
  BY <1>4, <1>5, <1>6, <1>7, <1>8, <1>9 DEF Request, Lands

(* Tables only grow, and the values cached or in flight stay below them.   *)
LEMMA Grows ==
  ASSUME CacheOK, RequestsOK, UNCHANGED <<cache, req>>,
         \A k \in Keys : Source(k) \in Nat /\ Source(k)' \in Nat /\ Source(k) <= Source(k)'
  PROVE  CacheOK' /\ RequestsOK'
<1>1. \A v \in Versions, n, m \in Nat : v <= n /\ n <= m => v <= m
  BY DEF Versions, None
<1>2. CacheOK'
  BY <1>1 DEF CacheOK
<1>3. RequestsOK'
  <2>1. \A r \in Requests : req[r].val \in Versions /\ req[r].pend \subseteq Keys
    BY DEF RequestsOK
  <2>2. QED
    BY <1>1, <2>1 DEF RequestsOK
<1>4. QED
  BY <1>2, <1>3

LEMMA KeySets ==
  /\ DataKeys \subseteq Keys /\ LlmKeys \subseteq Keys
  /\ \A w : KeysBusted(w) \subseteq Keys
  /\ \A ks \in SUBSET Keys : Exposed(ks) \subseteq Keys
BY DEF DataKeys, LlmKeys, KeysBusted, Exposed

LEMMA OwedType == WritersOK => \A w \in Writers : Owed(w) \subseteq Keys
BY KeySets DEF WritersOK, Owed

LEMMA ChangePricesStep ==
  ASSUME TablesOK, NEW w, ChangePrices(w), UNCHANGED <<briefing, today>>
  PROVE  /\ TablesOK'
         /\ \A k \in Keys : Source(k) \in Nat /\ Source(k)' \in Nat /\ Source(k) <= Source(k)'
<1>1. prices' \in 0..MaxVersion /\ uploaded' \in 0..prices' /\ briefing' \in Nat /\ prices <= prices'
  BY DataCacheAssumption DEF TablesOK, ChangePrices
<1>2. today' \in BOOLEAN
  BY DEF TablesOK
<1>3. QED
  BY <1>1, <1>2, DataCacheAssumption DEF TablesOK, Source

LEMMA BriefingStep ==
  ASSUME TablesOK, UNCHANGED <<prices, uploaded>>, briefing' = briefing + 1, today' \in BOOLEAN
  PROVE  /\ TablesOK'
         /\ \A k \in Keys : Source(k) \in Nat /\ Source(k)' \in Nat /\ Source(k) <= Source(k)'
<1>1. /\ prices' \in 0..MaxVersion /\ uploaded' \in 0..prices' /\ briefing' \in Nat
      /\ briefing <= briefing' /\ prices <= prices'
  BY DataCacheAssumption DEF TablesOK
<1>2. QED
  BY <1>1, DataCacheAssumption DEF TablesOK, Source

LEMMA TablesStay ==
  ASSUME TablesOK, UNCHANGED tables
  PROVE  \A k \in Keys : Source(k) \in Nat /\ Source(k)' \in Nat /\ Source(k) <= Source(k)'
<1>1. \A k \in Keys : Source(k)' = Source(k)
  BY DEF Source, tables
<1>2. QED
  BY <1>1, SourceType

LEMMA InvalidateType ==
  ASSUME TypeOK, NEW ks \in SUBSET Keys, Invalidate(ks), UNCHANGED <<tables, req>>
  PROVE  CacheOK' /\ RequestsOK' /\ HistoryOK'
<1>1. \A k \in Keys : Source(k)' = Source(k) /\ Source(k) \in Nat
  BY SourceType DEF Source, tables, TypeOK
<1>2. CacheOK'
  BY <1>1 DEF Invalidate, TypeOK, CacheOK, None, Versions, EmptyJSON
<1>3. RequestsOK'
  BY <1>1 DEF TypeOK, RequestsOK
<1>4. HistoryOK'
  BY DEF Invalidate, TypeOK, HistoryOK, RequestsOK
<1>5. QED
  BY <1>2, <1>3, <1>4

(* A writer moves from one state of its type to another.                   *)
LEMMA WriterMoves ==
  ASSUME WritersOK, NEW w \in Writers, Write(w)
  PROVE  WritersOK' /\ \A v \in Writers : v # w => writer'[v] = writer[v]
<1>1. NoWrite \in WriterType
  BY DEF NoWrite, WriterType
<1>2. ASSUME NEW c \in {"idle", "data", "llm", "check", "insights", "save", "bust"},
             writer' = [writer EXCEPT ![w].pc = c]
      PROVE  WritersOK' /\ \A v \in Writers : v # w => writer'[v] = writer[v]
  BY <1>2 DEF WritersOK
<1>3. ASSUME NEW ks \in SUBSET Keys, writer' = [writer EXCEPT ![w].todo = ks]
      PROVE  WritersOK' /\ \A v \in Writers : v # w => writer'[v] = writer[v]
  BY <1>3 DEF WritersOK
<1>4. ASSUME NEW c \in {"idle", "data", "llm", "check", "insights", "save", "bust"}, NEW ks \in SUBSET Keys,
             NEW n \in {"check", "idle"}, writer' = [writer EXCEPT ![w] = [pc |-> c, todo |-> ks, then |-> n]]
      PROVE  WritersOK' /\ \A v \in Writers : v # w => writer'[v] = writer[v]
  <2> DEFINE x == [pc |-> c, todo |-> ks, then |-> n]
  <2>1. x \in WriterType
    BY DEF WriterType
  <2>2. writer' = [writer EXCEPT ![w] = x]
    BY <1>4
  <2> HIDE DEF x
  <2>3. QED
    BY <2>1, <2>2, WriterUpdate
<1>5. CASE Ingest(w) \/ UploadFails(w)
  BY <1>4, <1>5, KeySets DEF Ingest, UploadFails
<1>6. ASSUME NEW k \in Keys, Scan(w, k) PROVE WritersOK' /\ \A v \in Writers : v # w => writer'[v] = writer[v]
  <2>1. writer[w].todo \ {k} \in SUBSET Keys
    BY DEF WritersOK
  <2>2. QED
    BY <1>3, <1>6, <2>1 DEF Scan
<1>7. CASE ScanFails(w)
  <2>1. {} \in SUBSET Keys /\ writer' = [writer EXCEPT ![w].todo = {}]
    BY <1>7 DEF ScanFails
  <2>2. QED
    BY <1>3, <2>1
<1>8. CASE DataScanned(w)
  <2>1. writer[w].then \in {"check", "idle"}
    BY DEF WritersOK
  <2>2. CASE w = "scrape"
    <3>1. writer' = [writer EXCEPT ![w] = [pc |-> "check", todo |-> {}, then |-> writer[w].then]]
      BY <1>8, <2>2 DEF DataScanned
    <3>2. QED
      BY <1>4, <2>1, <3>1
  <2>3. CASE w # "scrape"
    <3>1. writer' = [writer EXCEPT ![w] = [pc |-> "llm", todo |-> LlmKeys, then |-> writer[w].then]]
      BY <1>8, <2>3 DEF DataScanned
    <3>2. QED
      BY <1>4, <2>1, <3>1, KeySets
  <2>4. QED
    BY <2>2, <2>3
<1>9. CASE LlmScanned(w)
  <2> DEFINE x == [NoWrite EXCEPT !.pc = writer[w].then]
  <2>1. x \in WriterType
    BY DEF WritersOK, NoWrite, WriterType
  <2>2. writer' = [writer EXCEPT ![w] = x]
    BY <1>9 DEF LlmScanned
  <2> HIDE DEF x
  <2>3. QED
    BY <2>1, <2>2, WriterUpdate
<1>10. CASE NoBriefing(w) \/ Bust(w) \/ BustFails(w)
  BY <1>1, <1>10, WriterUpdate DEF NoBriefing, Bust, BustFails
<1>11. CASE CheckBriefing(w) \/ SaveInsights(w) \/ SaveSummary(w) \/ SaveFails(w)
  BY <1>2, <1>11 DEF CheckBriefing, SaveInsights, SaveSummary, SaveFails
<1>12. QED
  BY <1>5, <1>6, <1>7, <1>8, <1>9, <1>10, <1>11 DEF Write

LEMMA WriteTypeStep ==
  ASSUME TypeOK, NEW w \in Writers, Write(w)
  PROVE  TypeOK'
<1>1. WritersOK'
  BY WriterMoves DEF TypeOK
<1>2. CASE Ingest(w) \/ UploadFails(w)
  <2>1. ChangePrices(w) /\ UNCHANGED <<briefing, today, cache, req, history>>
    BY <1>2 DEF Ingest, UploadFails
  <2>2. TablesOK' /\ CacheOK' /\ RequestsOK'
    BY <2>1, ChangePricesStep, Grows DEF TypeOK
  <2>3. HistoryOK'
    BY <2>1 DEF TypeOK, HistoryOK, history
  <2>4. QED
    BY <1>1, <2>2, <2>3 DEF TypeOK
<1>3. ASSUME NEW k \in Keys, Scan(w, k) PROVE TypeOK'
  BY <1>1, <1>3, InvalidateType, TablesSame DEF TypeOK, Scan
<1>4. CASE Bust(w)
  BY <1>1, <1>4, InvalidateType, TablesSame, KeySets DEF TypeOK, Bust
<1>5. CASE ScanFails(w) \/ BustFails(w)
  <2>1. UNCHANGED <<tables, cache, req, raced, skipped>>
    BY <1>5 DEF ScanFails, BustFails
  <2>2. writer[w].todo \subseteq Keys
    BY DEF TypeOK, WritersOK
  <2>3. excused' \subseteq Keys
    BY <1>5, <2>2, KeySets DEF ScanFails, BustFails, TypeOK, HistoryOK
  <2>4. TablesOK' /\ CacheOK' /\ RequestsOK'
    BY <2>1, TablesSame, TablesStay, Grows DEF TypeOK
  <2>5. QED
    BY <1>1, <2>1, <2>3, <2>4 DEF TypeOK, HistoryOK
<1>6. CASE DataScanned(w) \/ LlmScanned(w) \/ CheckBriefing(w) \/ NoBriefing(w) \/ SaveFails(w)
  <2>1. UNCHANGED <<tables, cache, req, history>>
    BY <1>6 DEF DataScanned, LlmScanned, CheckBriefing, NoBriefing, SaveFails
  <2>2. TablesOK' /\ CacheOK' /\ RequestsOK'
    BY <2>1, TablesSame, TablesStay, Grows DEF TypeOK
  <2>3. QED
    BY <1>1, <2>1, <2>2 DEF TypeOK, HistoryOK, history
<1>7. CASE SaveInsights(w) \/ SaveSummary(w)
  <2>1. UNCHANGED <<prices, uploaded, cache, req, raced, excused>>
    BY <1>7 DEF SaveInsights, SaveSummary
  <2>2. \/ briefing' = briefing /\ today' = today
        \/ briefing' = briefing + 1 /\ (today' = today \/ today' = TRUE)
    BY <1>7 DEF SaveInsights, SaveSummary
  <2>3. TablesOK' /\ CacheOK' /\ RequestsOK'
    <3>1. CASE briefing' = briefing /\ today' = today
      BY <2>1, <3>1, TablesSame, TablesStay, Grows DEF TypeOK, tables
    <3>2. CASE briefing' = briefing + 1 /\ (today' = today \/ today' = TRUE)
      <4>1. today' \in BOOLEAN
        BY <3>2 DEF TypeOK, TablesOK
      <4>2. QED
        BY <2>1, <3>2, <4>1, BriefingStep, Grows DEF TypeOK
    <3>3. QED
      BY <2>2, <3>1, <3>2
  <2>4. skipped' \subseteq Keys
    <3>1. \/ skipped' = skipped
          \/ skipped' = skipped \union Exposed(Keys \intersect {"briefing"})
      BY <1>7 DEF SaveInsights, SaveSummary
    <3>2. QED
      BY <3>1, KeySets DEF TypeOK, HistoryOK
  <2>5. QED
    BY <1>1, <2>1, <2>3, <2>4 DEF TypeOK, HistoryOK
<1>8. QED
  BY <1>2, <1>3, <1>4, <1>5, <1>6, <1>7 DEF Write

Others == ScrapeFails \/ (\E k \in Keys : Expire(k)) \/ Restart \/ Midnight

LEMMA OtherTypeStep ==
  ASSUME TypeOK, Others
  PROVE  TypeOK'
<1>1. CASE ScrapeFails
  <2>1. ChangePrices("scrape") /\ UNCHANGED <<briefing, today, cache, req, writer, raced, excused>>
    BY <1>1 DEF ScrapeFails
  <2>2. TablesOK' /\ CacheOK' /\ RequestsOK'
    BY <2>1, ChangePricesStep, Grows DEF TypeOK
  <2>3. skipped' \subseteq Keys
    BY <1>1, KeySets DEF ScrapeFails, TypeOK, HistoryOK
  <2>4. QED
    BY <2>1, <2>2, <2>3 DEF TypeOK, WritersOK, HistoryOK
<1>2. ASSUME NEW k \in Keys, Expire(k) PROVE TypeOK'
  <2>1. /\ cache' = [cache EXCEPT ![k] = None] /\ UNCHANGED <<tables, req, writer, raced>>
        /\ excused' \subseteq excused /\ skipped' \subseteq skipped
    BY <1>2 DEF Expire
  <2>2. \A x \in Keys : Source(x)' = Source(x) /\ Source(x) \in Nat
    BY <2>1, SourceType DEF TypeOK, Source, tables
  <2>3. CacheOK'
    BY <2>1, <2>2 DEF TypeOK, CacheOK, None, Versions, EmptyJSON
  <2>4. RequestsOK'
    BY <2>1, <2>2 DEF TypeOK, RequestsOK
  <2>5. QED
    BY <2>1, <2>3, <2>4, TablesSame DEF TypeOK, WritersOK, HistoryOK
<1>3. CASE Restart
  <2>1. UNCHANGED <<tables, cache, raced, skipped>>
    BY <1>3 DEF Restart
  <2>2. NoRequest \in RequestType /\ NoRequest.pc # "store" /\ NoRequest.pend = {} /\ NoWrite \in WriterType
    BY DEF NoRequest, RequestType, Versions, NoWrite, WriterType
  <2>3. RequestsOK'
    BY <1>3, <2>2 DEF Restart, RequestsOK, RequestType
  <2>4. WritersOK'
    BY <1>3, <2>2 DEF Restart, WritersOK, WriterType
  <2>5. UNION {Owed(w) : w \in Writers} \subseteq Keys
    BY OwedType DEF TypeOK
  <2>6. excused' \subseteq Keys
    BY <1>3, <2>5, KeySets DEF Restart, TypeOK, HistoryOK
  <2>7. QED
    BY <2>1, <2>3, <2>4, <2>6, TablesSame, CacheSame DEF TypeOK, HistoryOK
<1>4. CASE Midnight
  <2>1. today' \in BOOLEAN
    BY <1>4 DEF Midnight
  <2>2. UNCHANGED <<prices, uploaded, briefing, cache, req, writer, history>>
    BY <1>4 DEF Midnight
  <2>3. TablesOK'
    BY <2>1, <2>2 DEF TypeOK, TablesOK
  <2>4. CacheOK' /\ RequestsOK'
    BY <2>2 DEF TypeOK, CacheOK, RequestsOK, Source
  <2>5. QED
    BY <2>2, <2>3, <2>4 DEF TypeOK, WritersOK, HistoryOK, history
<1>5. QED
  BY <1>1, <1>2, <1>3, <1>4 DEF Others
-----------------------------------------------------------------------------
(* Shapes.                                                                 *)

LEMMA InitCacheInv == Init => CacheInv
<1> SUFFICES ASSUME Init PROVE CacheInv
  OBVIOUS
<1>1. RequestShape /\ InFlightExplained
  BY DEF Init, NoRequest, RequestShape, InFlightExplained
<1>2. WriterShape
  BY DEF Init, NoWrite, WriterShape
<1>3. StaleIsExplained
  BY DEF Init, StaleIsExplained, Stale
<1>4. QED
  BY <1>1, <1>2, <1>3 DEF CacheInv

LEMMA RequestShapeStep ==
  ASSUME TypeOK, RequestShape, NEW r \in Requests, Request(r)
  PROVE  RequestShape'
<1>1. ASSUME NEW k \in Keys, Miss(r, k) PROVE RequestShape'
  <2> DEFINE x == [pc |-> IF k = "summary" THEN "nested" ELSE "fetch", key |-> k, val |-> None, pend |-> {}]
  <2>1. /\ x \in RequestType /\ x.pc # "store" /\ x.pend = {} /\ x.key = k
        /\ x.pc = "nested" => k = "summary"
    BY DEF RequestType, Versions
  <2>2. req' = [req EXCEPT ![r] = x]
    BY <1>1 DEF Miss
  <2> HIDE DEF x
  <2>3. QED
    BY <2>1, <2>2, RequestUpdate DEF TypeOK, RequestShape
<1>2. ASSUME NEW v \in Nat, NEW ks \in SUBSET Keys, Answer(r, v, ks) PROVE RequestShape'
  BY <1>2, AnswerShape DEF TypeOK, RequestShape
<1>3. CASE NestedHit(r)
  BY <1>2, <1>3, DataCacheAssumption DEF NestedHit, RequestShape, TypeOK, CacheOK, Versions
<1>4. CASE NestedMiss(r)
  BY <1>4 DEF NestedMiss, TypeOK, RequestsOK, RequestShape
<1>5. CASE Fetch(r)
  <2>1. req[r].key \in Keys
    BY <1>5 DEF Fetch, RequestShape
  <2>2. Source(req[r].key) \in Nat /\ Fetched(req[r].key) \in SUBSET Keys
    BY <2>1, SourceType, FetchedType DEF TypeOK
  <2>3. QED
    BY <1>2, <1>5, <2>2 DEF Fetch
<1>6. CASE FetchFails(r)
  <2>1. NoRequest \in RequestType /\ NoRequest.pc = "idle" /\ NoRequest.pend = {}
    BY DEF NoRequest, RequestType, Versions
  <2>2. QED
    BY <1>6, <2>1, RequestUpdate DEF FetchFails, TypeOK, RequestShape
<1>7. ASSUME NEW k \in Keys, Land(r, k) \/ LandFails(r, k) PROVE RequestShape'
  <2>1. req[r].val \in Nat /\ req[r].pend \ {k} \in SUBSET Keys
    BY <1>7 DEF TypeOK, RequestsOK, Versions, Land, LandFails
  <2>2. QED
    BY <1>2, <1>7, <2>1 DEF Land, LandFails
<1>8. QED
  BY <1>1, <1>3, <1>4, <1>5, <1>6, <1>7 DEF Request, Lands

LEMMA WriterShapeStep ==
  ASSUME TypeOK, WriterShape, NEW w \in Writers, Write(w)
  PROVE  WriterShape'
<1>1. \A v \in Writers : v # w => writer'[v] = writer[v]
  BY WriterMoves DEF TypeOK
<1>2. SUFFICES writer'[w].pc \notin {"data", "llm"} => writer'[w].todo = {}
  BY <1>1 DEF WriterShape
<1>3. ASSUME writer' = [writer EXCEPT ![w] = NoWrite] PROVE writer'[w].todo = {}
  BY <1>3 DEF NoWrite, TypeOK, WritersOK
<1>4. CASE Ingest(w) \/ UploadFails(w)
  <2>1. writer'[w].pc = "data"
    BY <1>4 DEF Ingest, UploadFails, TypeOK, WritersOK
  <2>2. QED
    BY <2>1
<1>5. CASE (\E k \in Keys : Scan(w, k)) \/ ScanFails(w)
  <2>1. writer[w].pc \in {"data", "llm"}
    BY <1>5 DEF Scan, ScanFails, WriterShape
  <2>2. writer'[w].pc = writer[w].pc
    BY <1>5 DEF Scan, ScanFails, TypeOK, WritersOK
  <2>3. QED
    BY <2>1, <2>2
<1>6. CASE DataScanned(w)
  BY <1>6 DEF DataScanned, TypeOK, WritersOK
<1>7. CASE LlmScanned(w)
  BY <1>7 DEF LlmScanned, TypeOK, WritersOK, NoWrite
<1>8. CASE NoBriefing(w) \/ Bust(w) \/ BustFails(w)
  BY <1>3, <1>8 DEF NoBriefing, Bust, BustFails
<1>9. CASE CheckBriefing(w) \/ SaveInsights(w) \/ SaveSummary(w) \/ SaveFails(w)
  <2>1. writer[w].todo = {}
    BY <1>9 DEF CheckBriefing, SaveInsights, SaveSummary, SaveFails, WriterShape
  <2>2. writer'[w].todo = writer[w].todo
    BY <1>9 DEF CheckBriefing, SaveInsights, SaveSummary, SaveFails, TypeOK, WritersOK
  <2>3. QED
    BY <2>1, <2>2
<1>10. QED
  BY <1>4, <1>5, <1>6, <1>7, <1>8, <1>9 DEF Write
-----------------------------------------------------------------------------
(* Stale values.                                                           *)

(* Requests stay, the keys ks are invalidated, and whatever may hold an    *)
(* old value elsewhere has its explanation.                                *)
LEMMA StaleStep ==
  ASSUME StaleIsExplained, InFlightExplained, UNCHANGED req, NEW ks \in SUBSET Keys,
         \A k \in Keys : cache'[k] = None \/ (cache'[k] = cache[k] /\ k \notin ks),
         \A r \in Requests : (raced[r] \union (req[r].pend \intersect ks)) \subseteq raced'[r],
         \A k \in Keys \ ks : k \in Exposed(Keys)' =>
           \/ Explained(k)'
           \/ Current(k)' = Current(k) /\ ~Explained(k),
         RequestsOK
  PROVE  StaleIsExplained' /\ InFlightExplained'
<1>1. ASSUME NEW k \in Keys, Stale(k)' PROVE Explained(k)'
  BY <1>1 DEF Stale, StaleIsExplained, Exposed
<1>2. ASSUME NEW r \in Requests, NEW k \in req'[r].pend, req'[r].val < Current(k)'
      PROVE  k \in raced'[r] \/ Explained(k)'
  <2>1. k \in Keys /\ k \in req[r].pend /\ req'[r] = req[r]
    BY DEF RequestsOK
  <2>2. CASE k \in ks
    BY <2>1, <2>2
  <2>3. CASE k \notin ks
    <3>1. k \in Exposed(Keys)'
      BY <2>1 DEF Exposed, InFlight
    <3>2. QED
      BY <1>2, <2>1, <2>3, <3>1 DEF InFlightExplained
  <2>4. QED
    BY <2>2, <2>3
<1>3. QED
  BY <1>1, <1>2 DEF StaleIsExplained, InFlightExplained

(* What w owed it still owes, or it has gone wrong.                        *)
LEMMA ExplainedStays ==
  ASSUME NEW w \in Writers, NEW k \in Keys, Explained(k),
         \A v \in Writers : v # w => writer'[v] = writer[v],
         k \in Owed(w) => k \in Owed(w)' \/ k \in excused' \union skipped',
         k \in excused \union skipped => k \in excused' \union skipped'
  PROVE  Explained(k)'
BY DEF Explained, Owed

LEMMA OwesNothing ==
  ASSUME WriterShape, NEW w \in Writers, writer[w].pc \notin {"data", "llm", "bust"}
  PROVE  Owed(w) = {}
BY DEF WriterShape, Owed

LEMMA CurrentStays == UNCHANGED tables => \A k \in Keys : Current(k)' = Current(k)
BY DEF tables, Current

LEMMA WriteStaleStep ==
  ASSUME TypeOK, WriterShape, StaleIsExplained, InFlightExplained, NEW w \in Writers, Write(w)
  PROVE  StaleIsExplained' /\ InFlightExplained'
<1>1. /\ WritersOK'
      /\ \A v \in Writers : v # w => writer'[v] = writer[v]
  BY WriterMoves DEF TypeOK
<1>2. {} \in SUBSET Keys /\ RequestsOK
  BY DEF TypeOK
(* Steps that change neither the cache nor its invalidations.              *)
<1>3. ASSUME UNCHANGED <<cache, req, raced>>,
             \A k \in Keys : k \in Exposed(Keys) =>
               \/ Explained(k)'
               \/ Current(k)' = Current(k) /\ ~Explained(k)
      PROVE  StaleIsExplained' /\ InFlightExplained'
  <2>1. Exposed(Keys)' = Exposed(Keys)
    BY <1>3 DEF Exposed, InFlight
  <2>2. \A k \in Keys : cache'[k] = None \/ (cache'[k] = cache[k] /\ k \notin {})
    BY <1>3
  <2>3. \A r \in Requests : (raced[r] \union (req[r].pend \intersect {})) \subseteq raced'[r]
    BY <1>3
  <2>4. \A k \in Keys \ {} : k \in Exposed(Keys)' =>
           \/ Explained(k)'
           \/ Current(k)' = Current(k) /\ ~Explained(k)
    BY <1>3, <2>1
  <2>5. UNCHANGED req
    BY <1>3
  <2>6. QED
    BY <1>2, <2>2, <2>3, <2>4, <2>5, StaleStep
(* Steps that delete the keys ks.                                          *)
<1>4. ASSUME NEW ks \in SUBSET Keys, Invalidate(ks), UNCHANGED <<tables, req>>, Owed(w) \ ks \subseteq Owed(w)'
      PROVE  StaleIsExplained' /\ InFlightExplained'
  <2>1. \A k \in Keys : cache'[k] = None \/ (cache'[k] = cache[k] /\ k \notin ks)
    BY <1>4 DEF Invalidate
  <2>2. \A r \in Requests : (raced[r] \union (req[r].pend \intersect ks)) \subseteq raced'[r]
    BY <1>4 DEF Invalidate
  <2>3. ASSUME NEW k \in Keys \ ks, Explained(k) PROVE Explained(k)'
    BY <1>1, <1>4, <2>3, ExplainedStays DEF Invalidate
  <2>4. QED
    BY <1>2, <1>4, <2>1, <2>2, <2>3, CurrentStays, StaleStep
<1>5. CASE Ingest(w) \/ UploadFails(w)
  <2>1. writer[w].pc = "idle" /\ ChangePrices(w) /\ UNCHANGED <<briefing, today, cache, req, history>>
    BY <1>5 DEF Ingest, UploadFails
  <2>2. writer'[w].pc = "data" /\ writer'[w].todo = DataKeys
    BY <1>5 DEF Ingest, UploadFails, TypeOK, WritersOK
  <2>3. Owed(w) = {}
    BY <2>1, OwesNothing
  <2>4. Owed(w)' = DataKeys \union (IF w # "scrape" THEN LlmKeys ELSE {})
    BY <2>2 DEF Owed, DataKeys, LlmKeys
  <2>5. ASSUME NEW k \in Keys PROVE Current(k)' = Current(k) \/ k \in Owed(w)'
    <3>1. briefing' = briefing /\ (w = "scrape" => uploaded' = uploaded)
      BY <2>1 DEF ChangePrices
    <3>2. CASE k \in {"snapshot", "summary"}
      BY <2>4, <3>2 DEF DataKeys
    <3>3. CASE k = "briefing"
      BY <3>1, <3>3 DEF Current
    <3>4. CASE k = "insight"
      BY <2>4, <3>1, <3>4 DEF Current, LlmKeys
    <3>5. QED
      BY <3>2, <3>3, <3>4, DataCacheAssumption
  <2>6. ASSUME NEW k \in Keys, Explained(k) PROVE Explained(k)'
    BY <1>1, <2>1, <2>3, <2>6, ExplainedStays DEF history
  <2>7. \A k \in Owed(w)' : Explained(k)'
    BY DEF Explained
  <2>8. QED
    BY <1>3, <2>1, <2>5, <2>6, <2>7 DEF history
<1>6. ASSUME NEW k \in Keys, Scan(w, k) PROVE StaleIsExplained' /\ InFlightExplained'
  <2>1. writer'[w].pc = writer[w].pc /\ writer'[w].todo = writer[w].todo \ {k}
    BY <1>6 DEF Scan, TypeOK, WritersOK
  <2>2. Owed(w) \ {k} \subseteq Owed(w)'
    BY <2>1 DEF Owed, LlmKeys, KeysBusted
  <2>3. QED
    BY <1>4, <1>6, <2>2 DEF Scan
<1>7. CASE ScanFails(w)
  <2>1. /\ excused' = excused \union Exposed(writer[w].todo)
        /\ UNCHANGED <<tables, cache, req, raced, skipped>>
    BY <1>7 DEF ScanFails
  <2>2. writer'[w].pc = writer[w].pc /\ writer'[w].todo = {}
    BY <1>7 DEF ScanFails, TypeOK, WritersOK
  <2>3. Owed(w) \subseteq Owed(w)' \union writer[w].todo
    BY <2>2 DEF Owed, LlmKeys, KeysBusted
  <2>4. ASSUME NEW k \in Keys, k \in Exposed(Keys), Explained(k) PROVE Explained(k)'
    <3>1. k \in writer[w].todo => k \in excused'
      BY <2>1, <2>4 DEF Exposed
    <3>2. QED
      BY <1>1, <2>1, <2>3, <2>4, <3>1, ExplainedStays
  <2>5. QED
    BY <1>3, <2>1, <2>4, CurrentStays
<1>8. CASE DataScanned(w)
  <2>1. UNCHANGED <<tables, cache, req, history>> /\ writer[w].pc = "data" /\ writer[w].todo = {}
    BY <1>8 DEF DataScanned
  <2>2. w # "scrape" => writer'[w].todo = LlmKeys
    BY <1>8 DEF DataScanned, TypeOK, WritersOK
  <2>3. Owed(w) \subseteq Owed(w)'
    BY <2>1, <2>2 DEF Owed, LlmKeys
  <2>4. ASSUME NEW k \in Keys, Explained(k) PROVE Explained(k)'
    BY <1>1, <2>1, <2>3, <2>4, ExplainedStays DEF history
  <2>5. QED
    BY <1>3, <2>1, <2>4, CurrentStays DEF history
<1>9. CASE LlmScanned(w) \/ CheckBriefing(w) \/ NoBriefing(w) \/ SaveFails(w)
  <2>1. UNCHANGED <<tables, cache, req, history>>
    BY <1>9 DEF LlmScanned, CheckBriefing, NoBriefing, SaveFails
  <2>2. Owed(w) = {}
    BY <1>9 DEF LlmScanned, CheckBriefing, NoBriefing, SaveFails, WriterShape, Owed
  <2>3. ASSUME NEW k \in Keys, Explained(k) PROVE Explained(k)'
    BY <1>1, <2>1, <2>2, <2>3, ExplainedStays DEF history
  <2>4. QED
    BY <1>3, <2>1, <2>3, CurrentStays DEF history
<1>10. CASE SaveInsights(w) \/ SaveSummary(w)
  <2>1. UNCHANGED <<prices, uploaded, cache, req, raced, excused>>
    BY <1>10 DEF SaveInsights, SaveSummary
  <2>2. Owed(w) = {}
    BY <1>10, OwesNothing DEF SaveInsights, SaveSummary
  <2>3. skipped \subseteq skipped'
    BY <1>10 DEF SaveInsights, SaveSummary
  <2>4. ASSUME NEW k \in Keys, Explained(k) PROVE Explained(k)'
    BY <1>1, <2>1, <2>2, <2>3, <2>4, ExplainedStays
  <2>5. ASSUME NEW k \in Keys, k # "briefing" PROVE Current(k)' = Current(k)
    BY <2>1, <2>5 DEF Current
  <2>6. ASSUME "briefing" \in Exposed(Keys), briefing' # briefing PROVE Explained("briefing")'
    <3>1. "briefing" \in Exposed(Keys \intersect {"briefing"})
      BY <2>6 DEF Exposed
    <3>2. CASE SaveSummary(w) /\ w = "scrape"
      <4>1. writer'[w].pc = "bust"
        BY <3>2 DEF SaveSummary, TypeOK, WritersOK
      <4>2. "briefing" \in Owed(w)'
        BY <3>1, <3>2, <4>1 DEF Owed, KeysBusted, Exposed
      <4>3. QED
        BY <4>2 DEF Explained
    <3>3. CASE ~(SaveSummary(w) /\ w = "scrape")
      <4>1. skipped' = skipped \union Exposed(Keys \intersect {"briefing"})
        BY <1>10, <2>6, <3>3 DEF SaveInsights, SaveSummary
      <4>2. QED
        BY <3>1, <4>1 DEF Explained
    <3>4. QED
      BY <3>2, <3>3
  <2>7. briefing' = briefing => Current("briefing")' = Current("briefing")
    BY DEF Current
  <2>8. \A k \in Keys : k \in Exposed(Keys) =>
           \/ Explained(k)'
           \/ Current(k)' = Current(k) /\ ~Explained(k)
    BY <2>4, <2>5, <2>6, <2>7
  <2>9. QED
    BY <1>3, <2>1, <2>8
<1>11. CASE Bust(w)
  <2>1. Owed(w) \ KeysBusted(w) \subseteq Owed(w)'
    BY <1>11 DEF Bust, WriterShape, Owed
  <2>2. QED
    BY <1>4, <1>11, <2>1, KeySets DEF Bust
<1>12. CASE BustFails(w)
  <2>1. /\ excused' = excused \union Exposed(KeysBusted(w))
        /\ UNCHANGED <<tables, cache, req, raced, skipped>>
    BY <1>12 DEF BustFails
  <2>2. Owed(w) \subseteq KeysBusted(w)
    BY <1>12 DEF BustFails, WriterShape, Owed
  <2>3. ASSUME NEW k \in Keys, k \in Exposed(Keys), Explained(k) PROVE Explained(k)'
    <3>1. k \in KeysBusted(w) => k \in excused'
      BY <2>1, <2>3 DEF Exposed
    <3>2. QED
      BY <1>1, <2>1, <2>2, <2>3, <3>1, ExplainedStays
  <2>4. QED
    BY <1>3, <2>1, <2>3, CurrentStays
<1>13. QED
  BY <1>5, <1>6, <1>7, <1>8, <1>9, <1>10, <1>11, <1>12 DEF Write

(* The tables and the writers stay, and no explanation is withdrawn.       *)
LEMMA RequestKeeps ==
  ASSUME UNCHANGED <<tables, writer, skipped>>, excused \subseteq excused'
  PROVE  \A k \in Keys : Current(k)' = Current(k) /\ (Explained(k) => Explained(k)')
BY CurrentStays DEF Explained, Owed

LEMMA RequestStaleStep ==
  ASSUME TypeOK, RequestShape, StaleIsExplained, InFlightExplained, NEW r \in Requests, Request(r)
  PROVE  StaleIsExplained' /\ InFlightExplained'
<1>1. UNCHANGED <<tables, writer, skipped>> /\ excused \subseteq excused'
  BY DEF Request, Lands, Miss, NestedHit, NestedMiss, Fetch, FetchFails, Land, LandFails, history
<1>2. \A k \in Keys : Current(k)' = Current(k) /\ (Explained(k) => Explained(k)')
  BY <1>1, RequestKeeps
<1>3. \A q \in Requests : req[q].pend \subseteq Keys
  BY DEF TypeOK, RequestsOK
<1>4. UNCHANGED cache => StaleIsExplained'
  BY <1>2 DEF StaleIsExplained, Stale
(* The values in flight after the step were so before it, but for r's.     *)
<1>5. ASSUME \A q \in Requests : q # r => req'[q] = req[q] /\ raced'[q] = raced[q],
             \A k \in req'[r].pend : req'[r].val < Current(k) => k \in raced'[r] \/ Explained(k)',
             req'[r].pend \subseteq Keys
      PROVE  InFlightExplained'
  <2>1. ASSUME NEW q \in Requests, NEW k \in req'[q].pend, req'[q].val < Current(k)'
        PROVE  k \in raced'[q] \/ Explained(k)'
    <3>1. CASE q = r
      BY <1>2, <1>5, <2>1, <3>1
    <3>2. CASE q # r
      BY <1>2, <1>3, <1>5, <2>1, <3>2 DEF InFlightExplained
    <3>3. QED
      BY <3>1, <3>2
  <2>2. QED
    BY <2>1 DEF InFlightExplained
<1>6. ASSUME NEW k \in Keys, Miss(r, k) PROVE StaleIsExplained' /\ InFlightExplained'
  <2>1. UNCHANGED <<cache, raced>> /\ req'[r].pend = {} /\ \A q \in Requests : q # r => req'[q] = req[q]
    BY <1>6 DEF Miss, TypeOK, RequestsOK, history
  <2>2. QED
    BY <1>4, <1>5, <2>1
<1>7. CASE FetchFails(r)
  <2>1. UNCHANGED <<cache, raced>> /\ req'[r].pend = {} /\ \A q \in Requests : q # r => req'[q] = req[q]
    BY <1>7 DEF FetchFails, NoRequest, TypeOK, RequestsOK, history
  <2>2. QED
    BY <1>4, <1>5, <2>1
<1>8. CASE NestedMiss(r)
  <2>1. UNCHANGED <<cache, raced>> /\ \A q \in Requests : q # r => req'[q] = req[q]
    BY <1>8 DEF NestedMiss, TypeOK, RequestsOK, history
  <2>2. req'[r].pend = {}
    BY <1>8 DEF NestedMiss, RequestShape, TypeOK, RequestsOK
  <2>3. QED
    BY <1>4, <1>5, <2>1, <2>2
<1>9. CASE NestedHit(r)
  <2>1. UNCHANGED cache /\ Answer(r, cache["snapshot"], {"summary"})
    BY <1>9 DEF NestedHit
  <2>2. "snapshot" \in Keys /\ "summary" \in Keys /\ cache["snapshot"] \in Nat
    BY <1>9, DataCacheAssumption DEF NestedHit, RequestShape, TypeOK, CacheOK, Versions
  <2>3. /\ \A q \in Requests : q # r => req'[q] = req[q]
        /\ \/ req'[r].pend = {}
           \/ req'[r].val = cache["snapshot"] /\ req'[r].pend \subseteq {"summary"}
    BY <2>1, <2>2, AnswerShape DEF TypeOK
  <2>4. \A q \in Requests : q # r => raced'[q] = raced[q]
    BY <1>9 DEF NestedHit, TypeOK, HistoryOK
  <2>5. ASSUME cache["snapshot"] < Current("summary") PROVE "summary" \in raced'[r]
    <3>1. Stale("snapshot")
      BY <1>9, <2>5 DEF NestedHit, Stale, Current
    <3>2. QED
      BY <1>9, <3>1 DEF NestedHit, TypeOK, HistoryOK
  <2>6. QED
    BY <1>4, <1>5, <2>1, <2>2, <2>3, <2>4, <2>5
<1>10. CASE Fetch(r)
  <2>1. req[r].key \in Keys
    BY <1>10 DEF Fetch, RequestShape
  <2>2. UNCHANGED cache /\ Answer(r, Source(req[r].key), Fetched(req[r].key))
    BY <1>10 DEF Fetch
  <2>3. /\ Source(req[r].key) \in Nat /\ Fetched(req[r].key) \in SUBSET Keys
        /\ \A k \in Fetched(req[r].key) : Source(req[r].key) = Source(k)
    BY <2>1, SourceType, FetchedType DEF TypeOK
  <2>4. /\ \A q \in Requests : q # r => req'[q] = req[q]
        /\ \/ req'[r].pend = {}
           \/ req'[r].val = Source(req[r].key) /\ req'[r].pend \subseteq Fetched(req[r].key)
    BY <2>2, <2>3, AnswerShape DEF TypeOK
  <2>5. \A q \in Requests : q # r => raced'[q] = raced[q]
    BY <1>10 DEF Fetch, TypeOK, HistoryOK
  <2>6. \A k \in Keys : ~(Source(k) < Current(k))
    BY DataCacheAssumption DEF TypeOK, TablesOK, Source, Current
  <2>7. QED
    BY <1>4, <1>5, <2>2, <2>3, <2>4, <2>5, <2>6
<1>11. ASSUME NEW k \in Keys, Land(r, k) \/ LandFails(r, k) PROVE StaleIsExplained' /\ InFlightExplained'
  <2>1. Answer(r, req[r].val, req[r].pend \ {k}) /\ UNCHANGED raced /\ k \in req[r].pend
    BY <1>11 DEF Land, LandFails, history
  <2>2. req[r].val \in Nat /\ req[r].pend \ {k} \in SUBSET Keys
    BY <1>11 DEF TypeOK, RequestsOK, Versions, Land, LandFails
  <2>3. /\ \A q \in Requests : q # r => req'[q] = req[q]
        /\ \/ req'[r].pend = {}
           \/ req'[r].val = req[r].val /\ req'[r].pend \subseteq req[r].pend \ {k}
    BY <2>1, <2>2, AnswerShape DEF TypeOK
  <2>4. InFlightExplained'
    BY <1>2, <1>5, <2>1, <2>2, <2>3 DEF InFlightExplained
  <2>5. CASE Land(r, k)
    <3>1. cache' = [cache EXCEPT ![k] = req[r].val] /\ (k \in raced[r] => k \in excused')
      BY <2>5 DEF Land
    <3>2. req[r].val < Current(k) => Explained(k)'
      BY <1>2, <2>1, <3>1 DEF InFlightExplained, Explained
    <3>3. StaleIsExplained'
      BY <1>2, <3>1, <3>2 DEF StaleIsExplained, Stale, TypeOK, CacheOK
    <3>4. QED
      BY <2>4, <3>3
  <2>6. CASE LandFails(r, k)
    BY <1>4, <2>4, <2>6 DEF LandFails
  <2>7. QED
    BY <1>11, <2>5, <2>6
<1>12. QED
  BY <1>6, <1>7, <1>8, <1>9, <1>10, <1>11 DEF Request, Lands

LEMMA OtherStep ==
  ASSUME TypeOK, CacheInv, Others
  PROVE  CacheInv'
<1>1. {} \in SUBSET Keys /\ RequestsOK
  BY DEF TypeOK
<1>2. ASSUME UNCHANGED <<req, writer, raced>>,
             \A k \in Keys : cache'[k] = None \/ cache'[k] = cache[k],
             \A k \in Keys : k \in Exposed(Keys)' =>
               \/ Explained(k)'
               \/ Current(k)' = Current(k) /\ ~Explained(k)
      PROVE  CacheInv'
  <2>1. \A k \in Keys : cache'[k] = None \/ (cache'[k] = cache[k] /\ k \notin {})
    BY <1>2
  <2>2. \A r \in Requests : (raced[r] \union (req[r].pend \intersect {})) \subseteq raced'[r]
    BY <1>2
  <2>3. \A k \in Keys \ {} : k \in Exposed(Keys)' =>
           \/ Explained(k)'
           \/ Current(k)' = Current(k) /\ ~Explained(k)
    BY <1>2
  <2>4. StaleIsExplained' /\ InFlightExplained'
    BY <1>1, <1>2, <2>1, <2>2, <2>3, StaleStep DEF CacheInv
  <2>5. RequestShape' /\ WriterShape'
    BY <1>2 DEF CacheInv, RequestShape, WriterShape
  <2>6. QED
    BY <2>4, <2>5 DEF CacheInv
<1>3. CASE ScrapeFails
  <2>1. /\ ChangePrices("scrape") /\ UNCHANGED <<briefing, today, cache, req, writer, raced, excused>>
        /\ skipped' = skipped \union Exposed(Keys \intersect {"snapshot", "summary"})
    BY <1>3 DEF ScrapeFails
  <2>2. \A k \in Keys : Explained(k) => Explained(k)'
    BY <2>1 DEF Explained, Owed
  <2>3. ASSUME NEW k \in Keys, k \in Exposed(Keys)', k \in {"snapshot", "summary"} PROVE Explained(k)'
    BY <2>1, <2>3 DEF Explained, Exposed, InFlight
  <2>4. ASSUME NEW k \in Keys, k \notin {"snapshot", "summary"} PROVE Current(k)' = Current(k)
    BY <2>1, <2>4, DataCacheAssumption DEF ChangePrices, Current
  <2>5. QED
    BY <1>2, <2>1, <2>2, <2>3, <2>4
<1>4. ASSUME NEW x \in Keys, Expire(x) PROVE CacheInv'
  <2>1. /\ cache' = [cache EXCEPT ![x] = None] /\ UNCHANGED <<tables, req, writer, raced>>
        /\ \A k \in Keys : k # x \/ InFlight(x) => /\ k \in excused => k \in excused'
                                                   /\ k \in skipped => k \in skipped'
    BY <1>4 DEF Expire
  <2>2. \A k \in Keys : Current(k)' = Current(k)
    BY <2>1, CurrentStays
  <2>3. ASSUME NEW k \in Keys, k \in Exposed(Keys)', Explained(k) PROVE Explained(k)'
    <3>1. k # x \/ InFlight(x)
      BY <2>1, <2>3 DEF Exposed, InFlight, TypeOK, CacheOK
    <3>2. QED
      BY <2>1, <2>3, <3>1 DEF Explained, Owed
  <2>4. \A k \in Keys : cache'[k] = None \/ cache'[k] = cache[k]
    BY <2>1 DEF TypeOK, CacheOK
  <2>5. QED
    BY <1>2, <2>1, <2>2, <2>3, <2>4
<1>5. CASE Restart
  <2>1. /\ UNCHANGED <<tables, cache, raced, skipped>>
        /\ excused' = excused \union Exposed(UNION {Owed(w) : w \in Writers})
    BY <1>5 DEF Restart
  <2>2. RequestShape' /\ InFlightExplained'
    BY <1>5 DEF Restart, NoRequest, RequestShape, InFlightExplained
  <2>3. WriterShape'
    BY <1>5 DEF Restart, NoWrite, WriterShape
  <2>4. ASSUME NEW k \in Keys, Stale(k)' PROVE Explained(k)'
    <3>1. Stale(k) /\ cache[k] # None
      BY <2>1, <2>4, CurrentStays DEF Stale
    <3>2. CASE \E w \in Writers : k \in Owed(w)
      BY <2>1, <3>1, <3>2 DEF Exposed, Explained
    <3>3. CASE k \in excused \union skipped
      BY <2>1, <3>3 DEF Explained
    <3>4. QED
      BY <3>1, <3>2, <3>3 DEF CacheInv, StaleIsExplained, Explained
  <2>5. QED
    BY <2>2, <2>3, <2>4 DEF CacheInv, StaleIsExplained
<1>6. CASE Midnight
  <2>1. UNCHANGED <<prices, uploaded, briefing, cache, req, writer, history>>
    BY <1>6 DEF Midnight
  <2>2. \A k \in Keys : Current(k)' = Current(k) /\ (Explained(k) => Explained(k)')
    BY <2>1 DEF Current, Explained, Owed, history
  <2>3. QED
    BY <1>2, <2>1, <2>2 DEF history
<1>7. QED
  BY <1>3, <1>4, <1>5, <1>6 DEF Others
-----------------------------------------------------------------------------
LEMMA Step == TypeOK /\ CacheInv /\ [Next]_vars => (TypeOK /\ CacheInv)'
<1> SUFFICES ASSUME TypeOK, CacheInv, [Next]_vars PROVE (TypeOK /\ CacheInv)'
  OBVIOUS
<1>1. ASSUME NEW r \in Requests, Request(r) PROVE (TypeOK /\ CacheInv)'
  <2>1. UNCHANGED writer
    BY <1>1 DEF Request, Lands, Miss, NestedHit, NestedMiss, Fetch, FetchFails, Land, LandFails
  <2>2. WriterShape'
    BY <2>1 DEF CacheInv, WriterShape
  <2>3. QED
    BY <1>1, <2>2, RequestTypeStep, RequestShapeStep, RequestStaleStep DEF CacheInv
<1>2. ASSUME NEW w \in Writers, Write(w) PROVE (TypeOK /\ CacheInv)'
  <2>1. UNCHANGED req
    BY <1>2 DEF Write, Ingest, UploadFails, Scan, ScanFails, DataScanned, LlmScanned, CheckBriefing,
                NoBriefing, SaveInsights, SaveSummary, SaveFails, Bust, BustFails
  <2>2. RequestShape'
    BY <2>1 DEF CacheInv, RequestShape
  <2>3. QED
    BY <1>2, <2>2, WriteTypeStep, WriterShapeStep, WriteStaleStep DEF CacheInv
<1>3. CASE Others
  BY <1>3, OtherTypeStep, OtherStep
<1>4. CASE UNCHANGED vars
  <2>1. TypeOK'
    BY <1>4 DEF vars, tables, history, TypeOK, TablesOK, CacheOK, RequestsOK, WritersOK, HistoryOK, Source
  <2>2. RequestShape' /\ WriterShape'
    BY <1>4 DEF vars, CacheInv, RequestShape, WriterShape
  <2>3. \A k \in Keys : Current(k)' = Current(k) /\ Explained(k)' = Explained(k)
    BY <1>4, CurrentStays DEF vars, history, Explained, Owed
  <2>4. StaleIsExplained' /\ InFlightExplained'
    <3>1. StaleIsExplained'
      BY <1>4, <2>3 DEF vars, CacheInv, StaleIsExplained, Stale
    <3>2. \A r \in Requests : req[r].pend \subseteq Keys
      BY DEF TypeOK, RequestsOK
    <3>3. UNCHANGED <<req, raced>>
      BY <1>4 DEF vars, history
    <3>4. InFlightExplained'
      BY <2>3, <3>2, <3>3 DEF CacheInv, InFlightExplained
    <3>5. QED
      BY <3>1, <3>4
  <2>5. QED
    BY <2>1, <2>2, <2>4 DEF CacheInv
<1>5. QED
  BY <1>1, <1>2, <1>3, <1>4 DEF Next, Others

LEMMA Invariant == Spec => [](TypeOK /\ CacheInv)
<1>1. Init => TypeOK /\ CacheInv
  BY InitTypeOK, InitCacheInv
<1>2. QED
  BY <1>1, Step, PTL DEF Spec

(* Every variable keeps its type, and no cached value, nor one about to be *)
(* stored, is of a later version than its table.                           *)
THEOREM TypeCorrect == Spec => []TypeOK
BY Invariant, PTL

(* Whatever the requests, uploads, failures and restarts, an old value in  *)
(* the cache is about to be deleted, or is one the code leaves behind in   *)
(* one of the ways StaleIsExplained names.                                 *)
THEOREM StaleIsAlwaysExplained == Spec => []StaleIsExplained
<1>1. TypeOK /\ CacheInv => StaleIsExplained
  BY DEF CacheInv
<1>2. QED
  BY <1>1, Invariant, PTL
=============================================================================
