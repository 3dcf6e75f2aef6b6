------------------------------ MODULE Holdings ------------------------------
(***************************************************************************)
(* A user's portfolio (portfolio_handlers.go): edits of the holdings, each  *)
(* followed by the invalidation of the cached history of every window, and  *)
(* reads of the history, of which one reconstruction serves all that wait   *)
(* for a window, and is stored after they are answered.                     *)
(*                                                                         *)
(* The holdings are the number of edits committed, and a history the number *)
(* it was reconstructed from.                                               *)
(***************************************************************************)
EXTENDS Integers

CONSTANTS
  Windows,      \* 30d, 90d, ytd, 1y, all
  Editors,      \* requests that edit
  Readers,      \* requests that read
  MaxVersion,   \* bound: edits
  CallsMayFail  \* may a call fail, or the process restart?

Versions == 0 .. MaxVersion
None == -1

VARIABLES
  version,      \* portfolio_holdings
  owns,         \* is there a holding?
  edit,         \* the edits: "idle" or "invalidate", and the windows yet to be deleted
  answered,     \* the latest edit whose request was answered
  cache,        \* portfolio:history:<user>:<window> in Redis
  flight,       \* the reconstruction of each window
  stores,       \* detached writes to the cache, as <<window, history>>
  read,         \* the reads: where, the window, what was answered before it began, what it was answered
  excused       \* history: <<window, history>> an edit overtook in flight, or whose invalidation failed

vars == <<version, owns, edit, answered, cache, flight, stores, read, excused>>

Copies == Windows \X Versions

TypeOK ==
  /\ version \in Versions /\ owns \in BOOLEAN /\ answered \in 0 .. version
  /\ edit \in [Editors -> [at : {"idle", "invalidate"}, as : Versions, todo : SUBSET Windows]]
  /\ cache \in [Windows -> Versions \cup {None}]
  /\ flight \in [Windows -> [at : {"none", "list", "bars"}, val : Versions \cup {None}]]
  /\ stores \subseteq Copies /\ excused \subseteq Copies
  /\ read \in [Readers -> [at : {"idle", "wait"}, window : Windows, seen : Versions, val : Versions \cup {None}]]

NoEdit == [at |-> "idle", as |-> 0, todo |-> {}]
NoFlight == [at |-> "none", val |-> None]
Resting(w) == [at |-> "idle", window |-> w, seen |-> 0, val |-> None]

Init ==
  /\ version = 0 /\ owns \in BOOLEAN /\ answered = 0
  /\ edit = [e \in Editors |-> NoEdit]
  /\ cache = [w \in Windows |-> None] /\ flight = [w \in Windows |-> NoFlight] /\ stores = {}
  /\ \E w \in Windows : read = [r \in Readers |-> Resting(w)]
  /\ excused = {}

-----------------------------------------------------------------------------
(* Edits.                                                                  *)

\* What is on its way to the cache of w.
InFlight(w) == {v \in Versions : <<w, v>> \in stores \/ (flight[w].at = "bars" /\ flight[w].val = v)}

\* HandleCreate-, HandleUpdate- and HandleDeletePortfolioHolding: one statement.  The last two need a holding.
Commit(e, left) ==
  /\ edit[e].at = "idle" /\ version < MaxVersion
  /\ owns \/ left
  /\ version' = version + 1
  /\ owns' = left
  /\ edit' = [edit EXCEPT ![e] = [at |-> "invalidate", as |-> version + 1, todo |-> Windows]]
  /\ excused' = excused \cup UNION {{w} \X InFlight(w) : w \in Windows}
  /\ UNCHANGED <<answered, cache, flight, stores, read>>

Spared(w) == cache
Forget(w) == [cache EXCEPT ![w] = None]

\* invalidatePortfolioHistoryCache: SCAN finds the keys and deletes one after another.
Invalidate(e, w) ==
  /\ edit[e].at = "invalidate" /\ w \in edit[e].todo
  /\ cache' = Forget(w)
  /\ edit' = [edit EXCEPT ![e].todo = edit[e].todo \ {w}]
  /\ UNCHANGED <<version, owns, answered, flight, stores, read, excused>>

Left(es) == {<<w, cache[w]>> : w \in {x \in Windows : cache[x] # None /\ \E e \in es : x \in edit[e].todo}}

\* The rest of the keys stay when a call fails; the edit is answered all the same.
Reply(e) ==
  /\ edit[e].at = "invalidate" /\ (edit[e].todo = {} \/ CallsMayFail)
  /\ excused' = excused \cup Left({e})
  /\ answered' = IF edit[e].as > answered THEN edit[e].as ELSE answered
  /\ edit' = [edit EXCEPT ![e] = NoEdit]
  /\ UNCHANGED <<version, owns, cache, flight, stores, read>>

-----------------------------------------------------------------------------
(* Reads.                                                                  *)

\* HandleGetPortfolioHistory with the cached bytes.
Hit(r, w) ==
  /\ read[r].at = "idle" /\ cache[w] # None
  /\ read' = [read EXCEPT ![r] = [at |-> "idle", window |-> w, seen |-> answered, val |-> cache[w]]]
  /\ UNCHANGED <<version, owns, edit, answered, cache, flight, stores, excused>>

\* A miss, or a failed Get: wait for the reconstruction, and begin one if there is none.
Miss(r, w) ==
  /\ read[r].at = "idle" /\ (cache[w] = None \/ CallsMayFail)
  /\ read' = [read EXCEPT ![r] = [at |-> "wait", window |-> w, seen |-> answered, val |-> None]]
  /\ flight' = [flight EXCEPT ![w] = IF @.at = "none" THEN [at |-> "list", val |-> None] ELSE @]
  /\ UNCHANGED <<version, owns, edit, answered, cache, stores, excused>>

LeaveAndCancel(r) ==
  /\ read[r].at = "wait"
  /\ read' = [read EXCEPT ![r] = Resting(read[r].window)]
  /\ flight' = [flight EXCEPT ![read[r].window] = NoFlight]
  /\ UNCHANGED <<version, owns, edit, answered, cache, stores, excused>>

\* The caller leaves; the reconstruction goes on under the server's context.
Leave(r) ==
  /\ read[r].at = "wait"
  /\ read' = [read EXCEPT ![r] = Resting(read[r].window)]
  /\ UNCHANGED <<version, owns, edit, answered, cache, flight, stores, excused>>

\* The result goes to all that wait for it; None is an error.
Deliver(w, v) ==
  /\ read' = [r \in Readers |-> IF read[r].at = "wait" /\ read[r].window = w
                                THEN [read[r] EXCEPT !.at = "idle", !.val = v] ELSE read[r]]
  /\ flight' = [flight EXCEPT ![w] = NoFlight]

\* ListPortfolioHoldings.  Without holdings the curve is empty, and not stored.
List(w) ==
  /\ flight[w].at = "list"
  /\ IF owns THEN flight' = [flight EXCEPT ![w] = [at |-> "bars", val |-> version]] /\ UNCHANGED read
             ELSE Deliver(w, version)
  /\ UNCHANGED <<version, owns, edit, answered, cache, stores, excused>>

\* GetOHLCBatch and the curve; the bytes are stored by a goroutine of their own.
Bars(w) ==
  /\ flight[w].at = "bars"
  /\ Deliver(w, flight[w].val)
  /\ stores' = stores \cup {<<w, flight[w].val>>}
  /\ UNCHANGED <<version, owns, edit, answered, cache, excused>>

Broken(w) ==
  /\ CallsMayFail /\ flight[w].at # "none"
  /\ Deliver(w, None)
  /\ UNCHANGED <<version, owns, edit, answered, cache, stores, excused>>

\* SetWithTTL, which may fail.
Store(w, v) ==
  /\ <<w, v>> \in stores
  /\ stores' = stores \ {<<w, v>>}
  /\ \/ cache' = [cache EXCEPT ![w] = v]
     \/ CallsMayFail /\ UNCHANGED cache
  /\ UNCHANGED <<version, owns, edit, answered, flight, read, excused>>

\* After 15 minutes.
Expire(w) ==
  /\ cache[w] # None
  /\ cache' = Forget(w)
  /\ UNCHANGED <<version, owns, edit, answered, flight, stores, read, excused>>

Restart ==
  /\ CallsMayFail
  /\ excused' = excused \cup Left(Editors)
  /\ edit' = [e \in Editors |-> NoEdit]
  /\ flight' = [w \in Windows |-> NoFlight] /\ stores' = {}
  /\ read' = [r \in Readers |-> Resting(read[r].window)]
  /\ UNCHANGED <<version, owns, answered, cache>>

Work(w) == List(w) \/ Bars(w) \/ Broken(w)

Next ==
  \/ \E e \in Editors : (\E left \in BOOLEAN : Commit(e, left)) \/ (\E w \in Windows : Invalidate(e, w)) \/ Reply(e)
  \/ \E r \in Readers : (\E w \in Windows : Hit(r, w) \/ Miss(r, w)) \/ Leave(r)
  \/ \E w \in Windows : Work(w) \/ Expire(w) \/ \E v \in Versions : Store(w, v)
  \/ Restart

Spec == Init /\ [][Next]_vars

\* A reconstruction's calls have timeouts.
FairSpec == Spec /\ \A w \in Windows : WF_vars(Work(w))

-----------------------------------------------------------------------------
(* Properties.                                                             *)

\* A history that lacks an edit answered before its request began was on its way to the cache when the edit was
\* committed, or outlived an invalidation that failed: an edit that nothing overlaps is in every later history.
StaleHistoryIsExplained ==
  \A r \in Readers : read[r].val # None /\ read[r].val < read[r].seen => <<read[r].window, read[r].val>> \in excused

\* Whoever waits is answered, or leaves, though it joined another's reconstruction and that other has left.
ReaderIsAnswered == \A r \in Readers : read[r].at = "wait" ~> read[r].at = "idle"
=============================================================================
