------------------------------ MODULE Collector ------------------------------
(***************************************************************************)
(* The scrape daemon (collector/ticker.go) with the post-scrape hook it     *)
(* calls (cmd/server/main.go): the daily schedule, the retries, the closure *)
(* calendar, the seed scrape of a start, the freshness watchdog, and a      *)
(* process that may stop anywhere.                                          *)
(*                                                                         *)
(* Time is counted in slots.  A day has slot 0 (until 16:30), slots         *)
(* 1 .. Window of one retry interval each, and a last one until midnight.   *)
(***************************************************************************)
EXTENDS Integers, FiniteSets

CONSTANTS
  LastDay,      \* bound: days 1 .. LastDay are explored, day 0 is the past
  Window,       \* attempts between the schedule and the cutoff (9 in the code)
  Weekends,     \* days that are a Saturday or a Sunday
  Listed,       \* marketClosures
  MayFail,      \* may a download, an ingest or a call of the hook fail?
  MayCrash,     \* may the process stop?
  MaxUploads    \* bound: administrators' uploads

Days == 0 .. LastDay

ASSUME CollectorAssumption ==
  /\ LastDay \in Nat \ {0} /\ Window \in Nat \ {0} /\ MaxUploads \in Nat
  /\ Weekends \subseteq Days \ {0} /\ Listed \subseteq Days \ {0}
  /\ MayFail \in BOOLEAN /\ MayCrash \in BOOLEAN

VARIABLES
  now,          \* the clock, in slots
  held,         \* the days on which the market held a session
  published,    \* the sessions whose export has appeared
  rows,         \* equities, by trading date: "none", "partial", "full"
  daemon,       \* the daemon's goroutine
  briefed,      \* today's briefing is in Postgres
  uploads,      \* uploads so far
  unseen,       \* history: unlisted sessions missing when the watchdog last found nothing to report
  early,        \* history: today's export appeared before the day's last attempt
  evaluated,    \* history: the alert rules have been evaluated with today's session
  preempted,    \* history: today's briefing is not the scheduled scrape's
  trouble       \* history: today the daemon was down, delayed, or met a failure

history == <<unseen, early, evaluated, preempted, trouble>>
vars == <<now, held, published, rows, daemon, briefed, uploads, history>>

SlotsPerDay == Window + 2
DayOf(t) == t \div SlotsPerDay
SlotOf(t) == t % SlotsPerDay
Schedule(d) == d * SlotsPerDay + 1
Today == DayOf(now)

Places == {"down", "boot", "download", "ingest", "hook", "brief", "evaluate", "digest",
           "skipped", "wait", "retry"}

TypeOK ==
  /\ now \in Nat /\ Today \in Days
  /\ held \subseteq Days \ Weekends
  /\ published \subseteq held
  /\ rows \in [Days -> {"none", "partial", "full"}]
  /\ daemon \in [at : Places, target : Days, wake : Nat, deadline : Nat, daily : BOOLEAN]
  /\ briefed \in BOOLEAN
  /\ uploads \in 0 .. MaxUploads
  /\ unseen \in Nat /\ early \in BOOLEAN /\ evaluated \in BOOLEAN /\ preempted \in BOOLEAN /\ trouble \in BOOLEAN
  /\ \A d \in Days : rows[d] # "none" => d \in published

Init ==
  /\ now = SlotsPerDay
  /\ held \in {{0} \cup h : h \in SUBSET (1 .. LastDay \ Weekends)}
  /\ published = {0}
  /\ rows = [d \in Days |-> IF d = 0 THEN "full" ELSE "none"]
  /\ daemon = [at |-> "boot", target |-> 0, wake |-> 0, deadline |-> 0, daily |-> FALSE]
  /\ briefed = FALSE
  /\ uploads = 0
  /\ unseen = 0 /\ early = FALSE /\ evaluated = FALSE /\ preempted = FALSE /\ trouble = FALSE

-----------------------------------------------------------------------------
(* The calendar.                                                           *)

LatestOf(s) == CHOOSE d \in s : \A e \in s : e <= d

\* getLastTradingDate: neither a weekend nor a listed closure.
LastTradingDate(d) == LatestOf({e \in 0 .. d : e \notin Weekends \cup Listed})

\* GetLastIngestionTime.
NewestHeld == LatestOf({d \in Days : rows[d] # "none"})

\* tradingDaysBetween: unlisted weekdays after from, up to to.
TradingDaysBetween(from, to) == Cardinality({d \in from + 1 .. to : d \notin Weekends \cup Listed})

\* The scheduler advances over weekends only.
SkippedBySchedule(d) == d \in Weekends

\* The next schedule strictly after t, on a day that is not skipped.  The horizon ends with a day of its own.
NextRun(t) ==
  Schedule(CHOOSE d \in 0 .. LastDay + 1 :
             /\ Schedule(d) > t /\ ~SkippedBySchedule(d)
             /\ \A e \in 0 .. d - 1 : Schedule(e) > t => SkippedBySchedule(e))

-----------------------------------------------------------------------------
(* The environment.                                                        *)

\* The daemon does not wait for a timer: the clock runs away from a scrape, or nothing runs at all.
Late == daemon.at \notin {"wait", "retry"}

\* A timer that is due has fired before the clock moves on.
Due == daemon.at \in {"wait", "retry"} /\ now >= daemon.wake

Tick ==
  LET midnight == DayOf(now + 1) # Today
  IN /\ ~Due
     /\ DayOf(now + 1) <= LastDay
     /\ now' = now + 1
     /\ briefed' = (briefed /\ ~midnight)
     /\ early' = (early /\ ~midnight)
     /\ evaluated' = (evaluated /\ ~midnight)
     /\ preempted' = (preempted /\ ~midnight)
     /\ trouble' = (Late \/ (trouble /\ ~midnight))
     /\ UNCHANGED <<held, published, rows, daemon, uploads, unseen>>

\* The exchange publishes a session after its close, at no fixed minute, or not at all.
Publish(d) ==
  /\ d \in held \ published /\ now >= Schedule(d)
  /\ published' = published \cup {d}
  /\ early' = (early \/ (d = Today /\ now < Schedule(d) + Window - 1))
  /\ UNCHANGED <<now, held, rows, daemon, briefed, uploads, unseen, evaluated, preempted, trouble>>

\* HandleUpload of a published session, and the briefing it starts.
Upload(d) ==
  /\ uploads < MaxUploads /\ d \in published
  /\ uploads' = uploads + 1
  /\ rows' = [rows EXCEPT ![d] = "full"]
  /\ briefed' \in {briefed, TRUE}
  /\ preempted' = (preempted \/ briefed')
  /\ UNCHANGED <<now, held, published, daemon, unseen, early, evaluated, trouble>>

Crash ==
  /\ MayCrash /\ daemon.at # "down"
  /\ daemon' = [at |-> "down", target |-> 0, wake |-> 0, deadline |-> 0, daily |-> FALSE]
  /\ trouble' = TRUE
  /\ UNCHANGED <<now, held, published, rows, briefed, uploads, unseen, early, evaluated, preempted>>

Start ==
  /\ daemon.at = "down"
  /\ daemon' = [daemon EXCEPT !.at = "boot"]
  /\ UNCHANGED <<now, held, published, rows, briefed, uploads, history>>

-----------------------------------------------------------------------------
(* The daemon.                                                             *)

\* scrapeGSE asks for the last trading date as of now.
Scrape(daily, deadline) ==
  daemon' = [at |-> "download", target |-> LastTradingDate(Today), wake |-> 0,
             deadline |-> deadline, daily |-> daily]

WaitForSchedule ==
  daemon' = [at |-> "wait", target |-> 0, wake |-> NextRun(now), deadline |-> 0, daily |-> FALSE]

\* needsScrape; a failed lookup answers yes.
Seed ==
  /\ daemon.at = "boot"
  /\ \/ (NewestHeld < LastTradingDate(Today) \/ MayFail) /\ Scrape(FALSE, 0)
     \/ NewestHeld >= LastTradingDate(Today) /\ WaitForSchedule
  /\ UNCHANGED <<now, held, published, rows, briefed, uploads, history>>

\* scrapeWithRetry, from the schedule's timer.
Fire ==
  /\ daemon.at = "wait" /\ Due
  /\ Scrape(TRUE, now + Window)
  /\ UNCHANGED <<now, held, published, rows, briefed, uploads, history>>

Again ==
  /\ daemon.at = "retry" /\ Due
  /\ Scrape(TRUE, daemon.deadline)
  /\ UNCHANGED <<now, held, published, rows, briefed, uploads, history>>

NeverAgain == FALSE
\* Another attempt must start before the cutoff.
BeforeCutoff == now + 1 < daemon.deadline

\* The scrape brought nothing: a scheduled one may be tried again, a seed is not.
NothingIngested ==
  IF daemon.daily /\ BeforeCutoff
  THEN daemon' = [daemon EXCEPT !.at = "retry", !.wake = now + 1]
  ELSE WaitForSchedule

Goto(at) == daemon' = [daemon EXCEPT !.at = at]

Download ==
  /\ daemon.at = "download"
  /\ \/ Goto("ingest") /\ UNCHANGED trouble
     \/ MayFail /\ NothingIngested /\ trouble' = TRUE
  /\ UNCHANGED <<now, held, published, rows, briefed, uploads, unseen, early, evaluated, preempted>>

\* The export of a date without a published session is empty.  A failed ingest keeps the rows before it.
Ingest ==
  LET t == daemon.target
  IN /\ daemon.at = "ingest"
     /\ \/ t \notin published /\ NothingIngested /\ UNCHANGED <<rows, trouble>>
        \/ /\ t \in published
           /\ rows' = [rows EXCEPT ![t] = "full"]
           /\ Goto("hook")
           /\ UNCHANGED trouble
        \/ /\ t \in published /\ MayFail
           /\ rows' = [rows EXCEPT ![t] = IF rows[t] = "full" THEN "full" ELSE "partial"]
           /\ NothingIngested
           /\ trouble' = TRUE
     /\ UNCHANGED <<now, held, published, briefed, uploads, unseen, early, evaluated, preempted>>

\* RunPostScrape, with a language model configured: anomalies, then nothing more if today's briefing exists.  A lookup
\* that fails is no trouble: a second briefing is made.
Hook ==
  /\ daemon.at = "hook"
  /\ \/ briefed /\ Goto("skipped")
     \/ (~briefed \/ MayFail) /\ Goto("brief")
  /\ UNCHANGED <<now, held, published, rows, briefed, uploads, history>>

\* The model's answers are saved; a failed answer ends the hook, a failed save does not.
Brief ==
  /\ daemon.at = "brief"
  /\ \/ /\ briefed' = TRUE /\ Goto("evaluate")
        /\ preempted' = (preempted \/ ~daemon.daily)
        /\ UNCHANGED trouble
     \/ /\ MayFail /\ (Goto("evaluate") \/ Goto("skipped"))
        /\ trouble' = TRUE
        /\ UNCHANGED <<briefed, preempted>>
  /\ UNCHANGED <<now, held, published, rows, uploads, unseen, early, evaluated>>

\* The alert rules are evaluated on the latest prices, unless those cannot be read.
Evaluate ==
  /\ daemon.at = "evaluate"
  /\ Goto("digest")
  /\ \/ evaluated' = (evaluated \/ rows[Today] = "full") /\ UNCHANGED trouble
     \/ MayFail /\ UNCHANGED evaluated /\ trouble' = TRUE
  /\ UNCHANGED <<now, held, published, rows, briefed, uploads, unseen, early, preempted>>

\* DispatchWatchListDigest, whatever the hook did; then the daemon waits for the next schedule.
Digest ==
  /\ daemon.at \in {"digest", "skipped"}
  /\ WaitForSchedule
  /\ UNCHANGED <<now, held, published, rows, briefed, uploads, history>>

Tolerated == 3
\* staleTradingDays.
StaleTradingDays == 2

\* watchDataFreshness, in a goroutine of its own, finds nothing to report; otherwise it only logs.
Watch ==
  /\ daemon.at # "down"
  /\ TradingDaysBetween(NewestHeld, LastTradingDate(Today)) < StaleTradingDays
  /\ unseen' = Cardinality({d \in held \ Listed : NewestHeld < d /\ d <= Today})
  /\ UNCHANGED <<now, held, published, rows, daemon, briefed, uploads, early, evaluated, preempted, trouble>>

Work == Seed \/ Fire \/ Again \/ Download \/ Ingest \/ Hook \/ Brief \/ Evaluate \/ Digest

Next == \/ Work \/ Watch \/ Tick \/ Crash \/ Start
        \/ \E d \in Days : Publish(d) \/ Upload(d)

Spec == Init /\ [][Next]_vars

-----------------------------------------------------------------------------
(* Properties.                                                             *)

\* A session published before the last attempt of its day is in the database when the day is over, and the alert
\* rules have been evaluated with it: the schedule, the retries, the date that is asked for and the hook lose none,
\* unless the daemon was down, delayed or met a failure that day, or the calendar wrongly lists the day as a closure.
\* A briefing that an upload or a seed scrape had made before it costs the evaluation, not the rows.
PublishedIsIngested ==
  [][Today' # Today /\ Today \in held \ Listed /\ early /\ ~trouble =>
       rows[Today] = "full" /\ (evaluated \/ preempted)]_vars

\* The watchdog is content only when at most one unlisted session after the newest date held is missing.
ContentMeansFresh == unseen < 2

\* What the comments say of the calendar ("The scheduler deliberately does not use it, because there being wrong loses
\* a session silently"), checked in a run that refutes it: a session on a day listed by mistake is ingested like any
\* other, since the scheduler runs on that day too.
ListedDayIsNoException ==
  [][Today' # Today /\ Today \in held /\ early /\ ~trouble => rows[Today] = "full"]_vars
=============================================================================
