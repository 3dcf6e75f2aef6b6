--------------------------- MODULE CollectorProofs ---------------------------
(***************************************************************************)
(* Why the daemon ingests what is published in time.  Before the day's      *)
(* schedule its timer is set for that schedule; from then on it is either   *)
(* still on course (an attempt, or a retry before the cutoff), or done, or  *)
(* the session had not been published by the last attempt.                  *)
(***************************************************************************)
EXTENDS Collector, TLAPS, FiniteSetTheorems, WellFoundedInduction

-----------------------------------------------------------------------------
(* The clock.                                                              *)

Midnight(d) == d * SlotsPerDay

LEMMA SlotsTyped == SlotsPerDay \in Nat /\ SlotsPerDay >= 3 /\ Window \in Nat /\ SlotsPerDay = Window + 2
BY CollectorAssumption DEF SlotsPerDay

LEMMA Midnights ==
  ASSUME NEW d \in Nat
  PROVE  /\ Midnight(d) \in Nat
         /\ Midnight(d + 1) = Midnight(d) + SlotsPerDay
         /\ Schedule(d) = Midnight(d) + 1 /\ Schedule(d) \in Nat
BY SlotsTyped DEF Midnight, Schedule

LEMMA LaterMidnight ==
  ASSUME NEW d \in Nat, NEW e \in Nat, d < e
  PROVE  Midnight(d) + SlotsPerDay <= Midnight(e)
<1>1. \A s \in Nat, k \in Nat : (d + 1 + k) * s = d * s + s + k * s /\ k * s >= 0
  OBVIOUS
<1>2. PICK k \in Nat : e = d + 1 + k
  <2>1. e - d - 1 \in Nat /\ e = d + 1 + (e - d - 1)
    OBVIOUS
  <2>2. QED
    BY <2>1
<1>3. QED
  BY <1>1, <1>2, SlotsTyped DEF Midnight

LEMMA DayBounds ==
  ASSUME NEW t \in Nat
  PROVE  DayOf(t) \in Nat /\ Midnight(DayOf(t)) <= t /\ t < Midnight(DayOf(t)) + SlotsPerDay
<1> DEFINE q == t \div SlotsPerDay
           r == t % SlotsPerDay
<1>1. SlotsPerDay \in Nat /\ SlotsPerDay > 0
  BY SlotsTyped
<1>2. t = SlotsPerDay * q + r /\ r \in 0 .. SlotsPerDay - 1 /\ q \in Int
  BY <1>1
<1>3. q >= 0
  BY <1>1
<1> HIDE DEF q, r
<1>4. SlotsPerDay * q = q * SlotsPerDay /\ q * SlotsPerDay \in Int
  BY <1>1, <1>2
<1>5. QED
  BY <1>1, <1>2, <1>3, <1>4 DEF DayOf, Midnight, q

LEMMA DayFound ==
  ASSUME NEW t \in Nat, NEW d \in Nat, Midnight(d) <= t, t < Midnight(d) + SlotsPerDay
  PROVE  DayOf(t) = d
<1>1. DayOf(t) \in Nat /\ Midnight(DayOf(t)) <= t /\ t < Midnight(DayOf(t)) + SlotsPerDay
  BY DayBounds
<1>2. ~(DayOf(t) < d)
  BY <1>1, LaterMidnight, Midnights, SlotsTyped
<1>3. ~(d < DayOf(t))
  BY <1>1, LaterMidnight, Midnights, SlotsTyped
<1>4. QED
  BY <1>1, <1>2, <1>3

\* A tick stays in its day or begins the next one.
LEMMA NextSlot ==
  ASSUME NEW t \in Nat
  PROVE  \/ DayOf(t + 1) = DayOf(t) /\ t + 1 < Midnight(DayOf(t)) + SlotsPerDay
         \/ DayOf(t + 1) = DayOf(t) + 1 /\ t + 1 = Midnight(DayOf(t)) + SlotsPerDay
                                        /\ t + 1 = Midnight(DayOf(t) + 1)
<1> DEFINE d == DayOf(t)
<1>1. d \in Nat /\ Midnight(d) <= t /\ t < Midnight(d) + SlotsPerDay
  BY DayBounds
<1> HIDE DEF d
<1>2. Midnight(d) \in Nat /\ Midnight(d + 1) = Midnight(d) + SlotsPerDay /\ d + 1 \in Nat
  BY <1>1, Midnights
<1>3. CASE t + 1 < Midnight(d) + SlotsPerDay
  <2>1. DayOf(t + 1) = d
    BY <1>1, <1>2, <1>3, DayFound
  <2>2. QED
    BY <1>3, <2>1 DEF d
<1>4. CASE t + 1 = Midnight(d) + SlotsPerDay
  <2>1. DayOf(t + 1) = d + 1
    BY <1>1, <1>2, <1>4, DayFound, SlotsTyped
  <2>2. QED
    BY <1>2, <1>4, <2>1 DEF d
<1>5. QED
  BY <1>1, <1>2, <1>3, <1>4, SlotsTyped

-----------------------------------------------------------------------------
(* First and last days.                                                    *)

LEMMA FirstOf ==
  ASSUME NEW s \in SUBSET Nat, s # {}
  PROVE  \E d \in s : \A e \in s : d <= e
<1>1. \E d \in s : \A e \in s : ~(<<e, d>> \in OpToRel(<, Nat))
  BY NatLessThanWellFounded, WFMin
<1>2. PICK d \in s : \A e \in s : ~(<<e, d>> \in OpToRel(<, Nat))
  BY <1>1
<1>3. \A e \in s : ~(e < d)
  BY <1>2 DEF OpToRel
<1>4. QED
  BY <1>3

LEMMA LatestOfTyped ==
  ASSUME NEW n \in Nat, NEW s \in SUBSET (0 .. n), s # {}
  PROVE  LatestOf(s) \in s /\ \A e \in s : e <= LatestOf(s)
<1> DEFINE gaps == {n - e : e \in s}
<1>1. gaps \in SUBSET Nat /\ gaps # {}
  <2>1. \A e \in s : n - e \in Nat
    OBVIOUS
  <2>2. QED
    BY <2>1
<1>2. PICK g \in gaps : \A h \in gaps : g <= h
  BY <1>1, FirstOf
<1>3. PICK d \in s : g = n - d
  BY <1>2
<1>4. \A e \in s : e <= d
  <2>1. ASSUME NEW e \in s PROVE e <= d
    <3>1. n - d <= n - e
      BY <1>2, <1>3
    <3>2. QED
      BY <3>1
  <2>2. QED
    BY <2>1
<1>5. QED
  BY <1>4 DEF LatestOf

\* Day 0 is no weekend and no closure, so there is always a last trading date.
LEMMA LastTradingDateTyped ==
  ASSUME NEW d \in Days
  PROVE  /\ LastTradingDate(d) \in 0 .. d /\ LastTradingDate(d) \in Days
         /\ LastTradingDate(d) \notin Weekends \cup Listed
         /\ \A e \in 0 .. d : e \notin Weekends \cup Listed => e <= LastTradingDate(d)
<1> DEFINE s == {e \in 0 .. d : e \notin Weekends \cup Listed}
<1>1. d \in Nat /\ d <= LastDay /\ LastDay \in Nat /\ 0 \notin Weekends \cup Listed
  BY CollectorAssumption DEF Days
<1>2. 0 \in s /\ s \in SUBSET (0 .. d)
  BY <1>1
<1>3. LatestOf(s) \in s /\ \A e \in s : e <= LatestOf(s)
  BY <1>1, <1>2, LatestOfTyped
<1>4. LastTradingDate(d) = LatestOf(s)
  BY DEF LastTradingDate
<1> HIDE DEF LatestOf
<1>5. QED
  BY <1>1, <1>3, <1>4 DEF Days

LEMMA TradedToday ==
  ASSUME NEW d \in Days, d \notin Weekends \cup Listed
  PROVE  LastTradingDate(d) = d
<1>1. d \in Nat /\ d \in 0 .. d
  BY CollectorAssumption DEF Days
<1>2. QED
  BY <1>1, LastTradingDateTyped

\* A timer set for w, at t: no schedule that is not on a weekend comes before it.
Timer(w, t) ==
  \E d \in 0 .. LastDay + 1 :
    /\ w = Schedule(d) /\ t <= w /\ d \notin Weekends
    /\ \A e \in 0 .. d - 1 : Schedule(e) > t => e \in Weekends

LEMMA NextRunTyped ==
  ASSUME NEW t \in Nat, DayOf(t) \in Days
  PROVE  Timer(NextRun(t), t) /\ NextRun(t) \in Nat /\ NextRun(t) > t
<1> DEFINE later == {d \in 0 .. LastDay + 1 : Schedule(d) > t /\ d \notin Weekends}
<1>1. LastDay \in Nat /\ Weekends \subseteq 1 .. LastDay
  BY CollectorAssumption DEF Days
<1>2. LastDay + 1 \in later
  <2>1. DayOf(t) \in Nat /\ DayOf(t) < LastDay + 1
    BY <1>1 DEF Days
  <2>2. t < Midnight(DayOf(t)) + SlotsPerDay
    BY DayBounds
  <2>3. Midnight(DayOf(t)) + SlotsPerDay <= Midnight(LastDay + 1)
    BY <1>1, <2>1, LaterMidnight
  <2>4. Schedule(LastDay + 1) = Midnight(LastDay + 1) + 1 /\ Midnight(LastDay + 1) \in Nat /\ Midnight(DayOf(t)) \in Nat
    BY <1>1, <2>1, Midnights
  <2>5. Schedule(LastDay + 1) > t
    BY <2>2, <2>3, <2>4, SlotsTyped
  <2>6. QED
    BY <1>1, <2>5
<1>3. later \in SUBSET Nat
  BY <1>1
<1>4. PICK d \in later : \A e \in later : d <= e
  BY <1>2, <1>3, FirstOf
<1> DEFINE Q(x) == /\ Schedule(x) > t /\ ~SkippedBySchedule(x)
                   /\ \A e \in 0 .. x - 1 : Schedule(e) > t => SkippedBySchedule(e)
<1>5. d \in 0 .. LastDay + 1 /\ Q(d)
  <2>1. \A e \in 0 .. d - 1 : e \in 0 .. LastDay + 1 /\ ~(d <= e)
    BY <1>1
  <2>2. QED
    BY <1>4, <2>1 DEF SkippedBySchedule
<1>6. PICK c \in 0 .. LastDay + 1 : c = (CHOOSE x \in 0 .. LastDay + 1 : Q(x)) /\ Q(c)
  BY <1>5
<1>7. NextRun(t) = Schedule(c)
  BY <1>6 DEF NextRun
<1>8. QED
  <2>1. c \in Nat /\ Schedule(c) \in Nat
    BY <1>1, Midnights
  <2>2. Schedule(c) > t /\ c \notin Weekends /\ \A e \in 0 .. c - 1 : Schedule(e) > t => e \in Weekends
    BY <1>6 DEF SkippedBySchedule
  <2>3. QED
    BY <1>7, <2>1, <2>2 DEF Timer
-----------------------------------------------------------------------------
(* The inductive invariant.                                                *)

Cutoff(d) == Schedule(d) + Window

\* The briefing is not yet the scheduled scrape's own.
Unbriefed == preempted \/ ~briefed

TimersHold ==
  /\ daemon.at = "wait" => Timer(daemon.wake, now) /\ ~daemon.daily
  /\ daemon.at \in {"download", "ingest"} /\ daemon.daily /\ now + 1 < daemon.deadline =>
       daemon.deadline = Cutoff(Today) /\ Schedule(Today) <= now
  /\ daemon.at = "retry" => /\ daemon.daily /\ daemon.deadline = Cutoff(Today) /\ Schedule(Today) <= now
                            /\ now <= daemon.wake /\ daemon.wake < daemon.deadline

HistoryHolds ==
  /\ \A d \in published : Schedule(d) <= now
  /\ early => Today \in published
  /\ daemon.at = "down" => trouble
  /\ rows[0] # "none"

Morning == ~trouble /\ now < Schedule(Today) => ~daemon.daily /\ Unbriefed

Done == rows[Today] = "full" /\ (evaluated \/ preempted)

OnTime == daemon.at = "wait" /\ daemon.wake = now /\ now = Schedule(Today) /\ Unbriefed
Trying == /\ daemon.at \in {"download", "ingest"} /\ daemon.daily /\ daemon.target = Today
          /\ daemon.deadline = Cutoff(Today) /\ now < Cutoff(Today) /\ Unbriefed
Waiting == daemon.at = "retry" /\ Unbriefed
Hooked == /\ daemon.at \in {"hook", "brief", "evaluate"} /\ daemon.daily /\ rows[Today] = "full"
          /\ now < Cutoff(Today) /\ (daemon.at = "hook" => Unbriefed)
Finished == Done /\ (daemon.at \in {"digest", "skipped"} \/ (daemon.at = "wait" /\ daemon.wake > now))
Missed == daemon.at = "wait" /\ daemon.wake > now /\ ~early /\ now + 1 >= Cutoff(Today)

OnCourse == OnTime \/ Trying \/ Waiting \/ Hooked \/ Finished \/ Missed

Afternoon == ~trouble /\ Schedule(Today) <= now /\ Today \in held \ Listed => OnCourse

IInv == TypeOK /\ TimersHold /\ HistoryHolds /\ Morning /\ Afternoon /\ ContentMeansFresh

-----------------------------------------------------------------------------
(* Facts of a state.                                                       *)

Daemons == [at : Places, target : Days, wake : Nat, deadline : Nat, daily : BOOLEAN]

LEMMA TodayTyped ==
  ASSUME TypeOK
  PROVE  /\ now \in Nat /\ Today \in Days /\ Today \in Nat /\ Today <= LastDay /\ LastDay \in Nat
         /\ Schedule(Today) \in Nat /\ Cutoff(Today) \in Nat
         /\ Midnight(Today) \in Nat /\ Schedule(Today) = Midnight(Today) + 1
         /\ Midnight(Today) <= now /\ now < Midnight(Today) + SlotsPerDay
         /\ Cutoff(Today) + 1 = Midnight(Today) + SlotsPerDay
         /\ Schedule(Today) < Cutoff(Today)
<1>1. now \in Nat /\ Today \in Days /\ LastDay \in Nat
  BY CollectorAssumption DEF TypeOK
<1>2. Today \in Nat /\ Today <= LastDay
  BY <1>1 DEF Days
<1>3. Midnight(Today) \in Nat /\ Schedule(Today) = Midnight(Today) + 1 /\ Schedule(Today) \in Nat
  BY <1>2, Midnights
<1>4. Midnight(Today) <= now /\ now < Midnight(Today) + SlotsPerDay
  BY <1>1, DayBounds DEF Today
<1>5. Window > 0 /\ Window \in Nat /\ SlotsPerDay = Window + 2
  BY SlotsTyped
<1>6. QED
  BY <1>1, <1>2, <1>3, <1>4, <1>5 DEF Cutoff

LEMMA Moved ==
  ASSUME NEW f \in Daemons, NEW x \in Places
  PROVE  /\ [f EXCEPT !.at = x] \in Daemons
         /\ [f EXCEPT !.at = x].at = x /\ [f EXCEPT !.at = x].target = f.target
         /\ [f EXCEPT !.at = x].wake = f.wake /\ [f EXCEPT !.at = x].deadline = f.deadline
         /\ [f EXCEPT !.at = x].daily = f.daily
BY DEF Daemons

LEMMA GoneTo ==
  ASSUME TypeOK, NEW x \in Places, Goto(x)
  PROVE  /\ daemon' \in Daemons /\ daemon'.at = x /\ daemon'.target = daemon.target
         /\ daemon'.wake = daemon.wake /\ daemon'.deadline = daemon.deadline /\ daemon'.daily = daemon.daily
<1>1. daemon \in Daemons /\ 0 \in Nat
  BY DEF TypeOK, Daemons
<1>2. QED
  BY <1>1, Moved DEF Goto

LEMMA Rested ==
  ASSUME TypeOK, WaitForSchedule
  PROVE  /\ daemon' \in Daemons /\ daemon'.at = "wait" /\ daemon'.daily = FALSE
         /\ daemon'.wake > now /\ Timer(daemon'.wake, now)
<1>1. NextRun(now) \in Nat /\ NextRun(now) > now /\ Timer(NextRun(now), now)
  BY NextRunTyped DEF TypeOK, Today
<1>2. 0 \in Days
  BY CollectorAssumption DEF Days
<1>3. QED
  BY <1>1, <1>2 DEF WaitForSchedule, Daemons, Places

LEMMA Scraped ==
  ASSUME TypeOK, NEW b \in BOOLEAN, NEW t \in Nat, Scrape(b, t)
  PROVE  /\ daemon' \in Daemons /\ daemon'.at = "download" /\ daemon'.target = LastTradingDate(Today)
         /\ daemon'.deadline = t /\ daemon'.daily = b
<1>1. LastTradingDate(Today) \in Days
  BY LastTradingDateTyped DEF TypeOK
<1>2. QED
  BY <1>1 DEF Scrape, Daemons, Places

\* What does not move the clock keeps what is said of it.
LEMMA SameDay ==
  ASSUME IInv, now' = now,
         daemon' \in Daemons, published \subseteq published', published' \subseteq held, held' = held,
         rows' \in [Days -> {"none", "partial", "full"}], rows'[0] # "none",
         \A d \in Days : rows'[d] # "none" => d \in published',
         briefed' \in BOOLEAN, uploads' \in 0 .. MaxUploads, unseen' \in Nat, unseen' < 2,
         early' \in BOOLEAN, evaluated' \in BOOLEAN, preempted' \in BOOLEAN, trouble' \in BOOLEAN,
         \A d \in published' : Schedule(d) <= now,
         early' => Today \in published',
         daemon'.at = "down" => trouble',
         TimersHold', Morning', Afternoon'
  PROVE  IInv'
<1>1. Today' = Today
  BY DEF Today
<1>2. TypeOK'
  BY <1>1 DEF IInv, TypeOK, Daemons
<1>3. HistoryHolds'
  BY <1>1 DEF HistoryHolds
<1>4. QED
  BY <1>2, <1>3 DEF IInv, ContentMeansFresh

LEMMA CrashKeeps ==
  ASSUME IInv, Crash
  PROVE  IInv'
<1>1. daemon' \in Daemons /\ daemon'.at = "down" /\ trouble' = TRUE
  BY CollectorAssumption DEF Crash, Daemons, Places, Days
<1>2. TimersHold' /\ Morning' /\ Afternoon'
  BY <1>1 DEF TimersHold, Morning, Afternoon
<1>3. QED
  BY <1>1, <1>2, SameDay DEF Crash, IInv, TypeOK, HistoryHolds, ContentMeansFresh

LEMMA StartKeeps ==
  ASSUME IInv, Start
  PROVE  IInv'
<1>1. daemon' \in Daemons /\ daemon'.at = "boot" /\ trouble' = TRUE
  <2>1. daemon' = [daemon EXCEPT !.at = "boot"] /\ "boot" \in Places /\ daemon \in Daemons /\ 0 \in Nat
    BY DEF Start, Places, IInv, TypeOK, Daemons
  <2>2. trouble = TRUE /\ trouble' = trouble
    BY DEF Start, IInv, HistoryHolds, TypeOK, history
  <2>3. QED
    BY <2>1, <2>2, Moved
<1>2. TimersHold' /\ Morning' /\ Afternoon'
  BY <1>1 DEF TimersHold, Morning, Afternoon
<1>3. QED
  BY <1>1, <1>2, SameDay DEF Start, history, IInv, TypeOK, HistoryHolds, ContentMeansFresh

LEMMA PublishKeeps ==
  ASSUME IInv, NEW d \in Days, Publish(d)
  PROVE  IInv'
<1>1. now' = now /\ Today' = Today /\ UNCHANGED <<held, rows, daemon, briefed, uploads, unseen, evaluated, preempted, trouble>>
      /\ published' = published \cup {d} /\ d \in held /\ now >= Schedule(d)
      /\ early' = (early \/ (d = Today /\ now < Schedule(d) + Window - 1))
  BY DEF Publish, Today
<1>2. TimersHold'
  BY <1>1 DEF IInv, TimersHold
<1>3. Morning'
  BY <1>1 DEF IInv, Morning, Unbriefed
<1>4. Afternoon'
  <2>1. SUFFICES ASSUME OnCourse PROVE OnCourse'
    BY <1>1 DEF IInv, Afternoon
  <2>2. CASE Missed
    <3>1. ~(d = Today /\ now < Schedule(d) + Window - 1)
      BY <2>2, TodayTyped, SlotsTyped DEF Missed, Cutoff, IInv
    <3>2. Missed'
      BY <1>1, <2>2, <3>1 DEF Missed
    <3>3. QED
      BY <3>2 DEF OnCourse
  <2>3. CASE OnTime \/ Trying \/ Waiting \/ Hooked \/ Finished
    BY <1>1, <2>3 DEF OnCourse, OnTime, Trying, Waiting, Hooked, Finished, Done, Unbriefed
  <2>4. QED
    BY <2>1, <2>2, <2>3 DEF OnCourse
<1>5. \A e \in published' : Schedule(e) <= now
  <2>1. Schedule(d) \in Nat /\ now \in Nat
    BY CollectorAssumption, Midnights DEF IInv, TypeOK, Days
  <2>2. QED
    BY <1>1, <2>1 DEF IInv, HistoryHolds
<1>6. daemon' \in Daemons
  BY <1>1 DEF IInv, TypeOK, Daemons
<1>7. early' => Today \in published'
  BY <1>1 DEF IInv, HistoryHolds
<1>8. QED
  BY <1>1, <1>2, <1>3, <1>4, <1>5, <1>6, <1>7, SameDay DEF IInv, TypeOK, HistoryHolds, ContentMeansFresh

LEMMA UploadKeeps ==
  ASSUME IInv, NEW d \in Days, Upload(d)
  PROVE  IInv'
<1>1. now' = now /\ Today' = Today /\ UNCHANGED <<held, published, daemon, unseen, early, evaluated, trouble>>
      /\ d \in published /\ rows' = [rows EXCEPT ![d] = "full"]
      /\ briefed' \in {briefed, TRUE} /\ preempted' = (preempted \/ briefed')
      /\ uploads < MaxUploads /\ uploads' = uploads + 1
  BY DEF Upload, Today
<1>2. briefed' \in BOOLEAN /\ preempted' \in BOOLEAN /\ Unbriefed' /\ (preempted => preempted')
  BY <1>1 DEF Unbriefed, IInv, TypeOK
<1>3. TimersHold'
  BY <1>1 DEF IInv, TimersHold
<1>4. Morning'
  BY <1>1, <1>2 DEF IInv, Morning
<1>5. rows[Today] = "full" => rows'[Today] = "full"
  BY <1>1 DEF IInv, TypeOK
<1>6. Afternoon'
  <2>1. SUFFICES ASSUME OnCourse PROVE OnCourse'
    BY <1>1 DEF IInv, Afternoon
  <2>2. CASE OnTime \/ Trying \/ Waiting \/ Missed
    BY <1>1, <1>2, <2>2 DEF OnCourse, OnTime, Trying, Waiting, Missed
  <2>3. CASE Hooked \/ Finished
    BY <1>1, <1>2, <1>5, <2>3 DEF OnCourse, Hooked, Finished, Done
  <2>4. QED
    BY <2>1, <2>2, <2>3 DEF OnCourse
<1>7. uploads' \in 0 .. MaxUploads
  BY <1>1, CollectorAssumption DEF IInv, TypeOK
<1>8. /\ rows' \in [Days -> {"none", "partial", "full"}] /\ rows'[0] # "none"
      /\ \A e \in Days : rows'[e] # "none" => e \in published'
  BY <1>1 DEF IInv, TypeOK, HistoryHolds
<1>9. daemon' \in Daemons
  BY <1>1 DEF IInv, TypeOK, Daemons
<1>10. QED
  BY <1>1, <1>2, <1>3, <1>4, <1>6, <1>7, <1>8, <1>9, SameDay DEF IInv, TypeOK, HistoryHolds, ContentMeansFresh

-----------------------------------------------------------------------------
(* The daemon's steps.                                                     *)

\* An attempt that brought nothing is repeated before the cutoff, or not at all.
LEMMA TriedInVain ==
  ASSUME IInv, daemon.at \in {"download", "ingest"}, NothingIngested, now' = now
  PROVE  /\ daemon' \in Daemons /\ TimersHold'
         /\ \/ daemon'.at = "retry" /\ daemon.daily
            \/ /\ daemon'.at = "wait" /\ daemon'.daily = FALSE /\ daemon'.wake > now
               /\ daemon.daily => now + 1 >= daemon.deadline
<1>1. Today' = Today /\ now \in Nat /\ now + 1 \in Nat /\ daemon \in Daemons
  BY DEF Today, IInv, TypeOK, Daemons
<1>2. CASE daemon.daily /\ BeforeCutoff
  <2>1. daemon' = [daemon EXCEPT !.at = "retry", !.wake = now + 1] /\ "retry" \in Places
    BY <1>2 DEF NothingIngested, Places
  <2>2. /\ daemon' \in Daemons /\ daemon'.at = "retry" /\ daemon'.wake = now + 1
        /\ daemon'.deadline = daemon.deadline /\ daemon'.daily = daemon.daily
    BY <1>1, <2>1 DEF Daemons
  <2>3. daemon.deadline = Cutoff(Today) /\ Schedule(Today) <= now /\ now + 1 < daemon.deadline
    BY <1>2 DEF BeforeCutoff, IInv, TimersHold
  <2>4. TimersHold'
    BY <1>1, <1>2, <2>2, <2>3 DEF TimersHold
  <2>5. QED
    BY <1>2, <2>2, <2>4
<1>3. CASE ~(daemon.daily /\ BeforeCutoff)
  <2>1. WaitForSchedule
    BY <1>3 DEF NothingIngested
  <2>2. /\ daemon' \in Daemons /\ daemon'.at = "wait" /\ daemon'.daily = FALSE
        /\ daemon'.wake > now /\ Timer(daemon'.wake, now)
    BY <2>1, Rested DEF IInv
  <2>3. TimersHold'
    BY <1>1, <2>2 DEF TimersHold
  <2>4. daemon.daily => now + 1 >= daemon.deadline
    BY <1>1, <1>3 DEF BeforeCutoff, Daemons
  <2>5. QED
    BY <2>2, <2>3, <2>4
<1>4. QED
  BY <1>2, <1>3

\* The daemon goes to rest.
LEMMA Resting ==
  ASSUME IInv, WaitForSchedule, now' = now
  PROVE  daemon' \in Daemons /\ TimersHold' /\ daemon'.at = "wait" /\ daemon'.daily = FALSE /\ daemon'.wake > now
<1>1. /\ daemon' \in Daemons /\ daemon'.at = "wait" /\ daemon'.daily = FALSE
      /\ daemon'.wake > now /\ Timer(daemon'.wake, now)
  BY Rested DEF IInv
<1>2. TimersHold'
  BY <1>1 DEF TimersHold
<1>3. QED
  BY <1>1, <1>2

LEMMA SeedKeeps ==
  ASSUME IInv, Seed
  PROVE  IInv'
<1>1. now' = now /\ Today' = Today /\ UNCHANGED <<held, published, rows, briefed, uploads, unseen, early, evaluated, preempted, trouble>>
  BY DEF Seed, Today, history
<1>2. daemon' \in Daemons /\ TimersHold' /\ daemon'.at # "down" /\ daemon'.daily = FALSE
  <2>1. CASE Scrape(FALSE, 0)
    <3>1. daemon' \in Daemons /\ daemon'.at = "download" /\ daemon'.daily = FALSE
      BY <2>1, Scraped DEF IInv
    <3>2. QED
      BY <3>1 DEF TimersHold
  <2>2. CASE WaitForSchedule
    BY <1>1, <2>2, Resting
  <2>3. QED
    BY <2>1, <2>2 DEF Seed
<1>3. Morning'
  BY <1>1, <1>2 DEF IInv, Morning, Unbriefed
<1>4. Afternoon'
  BY <1>1 DEF IInv, Afternoon, OnCourse, OnTime, Trying, Waiting, Hooked, Finished, Missed, Seed
<1>5. QED
  BY <1>1, <1>2, <1>3, <1>4, SameDay DEF IInv, TypeOK, HistoryHolds, ContentMeansFresh

\* The schedule's timer fires on the minute, since the clock waits for a timer that is due.
LEMMA FireKeeps ==
  ASSUME IInv, Fire
  PROVE  IInv'
<1>1. now' = now /\ Today' = Today /\ UNCHANGED <<held, published, rows, briefed, uploads, unseen, early, evaluated, preempted, trouble>>
  BY DEF Fire, Today, history
<1>2. PICK d \in 0 .. LastDay + 1 : daemon.wake = Schedule(d) /\ now <= Schedule(d)
  BY DEF Fire, IInv, TimersHold, Timer
<1>3. now = Schedule(d) /\ daemon.wake = now
  <2>1. now >= daemon.wake /\ now \in Nat /\ daemon.wake \in Nat
    BY DEF Fire, Due, IInv, TypeOK
  <2>2. QED
    BY <1>2, <2>1
<1>4. Today = d
  <2>1. d \in Nat
    BY CollectorAssumption
  <2>2. Midnight(d) <= now /\ now < Midnight(d) + SlotsPerDay /\ now \in Nat
    BY <1>3, <2>1, Midnights, SlotsTyped
  <2>3. QED
    BY <2>1, <2>2, DayFound DEF Today
<1>5. now = Schedule(Today) /\ now < Cutoff(Today) /\ now + Window = Cutoff(Today) /\ Cutoff(Today) \in Nat
  BY <1>3, <1>4, TodayTyped DEF Cutoff, IInv
<1>6. /\ daemon' \in Daemons /\ daemon'.at = "download" /\ daemon'.target = LastTradingDate(Today)
      /\ daemon'.deadline = Cutoff(Today) /\ daemon'.daily = TRUE
  BY <1>5, Scraped DEF Fire, IInv
<1>7. TimersHold'
  BY <1>1, <1>5, <1>6, TodayTyped DEF TimersHold, IInv
<1>8. Morning'
  BY <1>1, <1>5, TodayTyped DEF Morning, IInv
<1>9. Afternoon'
  <2>1. SUFFICES ASSUME OnCourse, Today \in held \ Listed PROVE OnCourse'
    BY <1>1 DEF IInv, Afternoon
  <2>2. ~(daemon.wake > now)
    BY <1>3, TodayTyped DEF IInv
  <2>3. OnTime
    BY <2>1, <2>2 DEF OnCourse, Trying, Waiting, Hooked, Finished, Missed, Fire
  <2>4. LastTradingDate(Today) = Today
    BY <2>1, TradedToday DEF IInv, TypeOK
  <2>5. Trying'
    BY <1>1, <1>5, <1>6, <2>3, <2>4 DEF Trying, OnTime, Unbriefed, IInv
  <2>6. QED
    BY <2>5 DEF OnCourse
<1>10. QED
  BY <1>1, <1>6, <1>7, <1>8, <1>9, SameDay DEF IInv, TypeOK, HistoryHolds, ContentMeansFresh

LEMMA AgainKeeps ==
  ASSUME IInv, Again
  PROVE  IInv'
<1>1. now' = now /\ Today' = Today /\ UNCHANGED <<held, published, rows, briefed, uploads, unseen, early, evaluated, preempted, trouble>>
  BY DEF Again, Today, history
<1>2. /\ daemon.daily /\ daemon.deadline = Cutoff(Today) /\ Schedule(Today) <= now
      /\ now < Cutoff(Today) /\ daemon.deadline \in Nat
  <2>1. /\ daemon.daily /\ daemon.deadline = Cutoff(Today) /\ Schedule(Today) <= now
        /\ now <= daemon.wake /\ daemon.wake < daemon.deadline /\ daemon.wake \in Nat /\ daemon.deadline \in Nat
    BY DEF Again, IInv, TypeOK, TimersHold
  <2>2. QED
    BY <2>1, TodayTyped DEF IInv
<1>3. /\ daemon' \in Daemons /\ daemon'.at = "download" /\ daemon'.target = LastTradingDate(Today)
      /\ daemon'.deadline = Cutoff(Today) /\ daemon'.daily = TRUE
  BY <1>2, Scraped DEF Again, IInv
<1>4. TimersHold'
  BY <1>1, <1>2, <1>3 DEF TimersHold
<1>5. Morning'
  BY <1>1, <1>2, TodayTyped DEF Morning, IInv
<1>6. Afternoon'
  <2>1. SUFFICES ASSUME OnCourse, Today \in held \ Listed PROVE OnCourse'
    BY <1>1 DEF IInv, Afternoon
  <2>2. Unbriefed
    BY <2>1 DEF OnCourse, OnTime, Trying, Waiting, Hooked, Finished, Missed, Again
  <2>3. LastTradingDate(Today) = Today
    BY <2>1, TradedToday DEF IInv, TypeOK
  <2>4. Trying'
    BY <1>1, <1>2, <1>3, <2>2, <2>3 DEF Trying, Unbriefed
  <2>5. QED
    BY <2>4 DEF OnCourse
<1>7. QED
  BY <1>1, <1>3, <1>4, <1>5, <1>6, SameDay DEF IInv, TypeOK, HistoryHolds, ContentMeansFresh

LEMMA DownloadKeeps ==
  ASSUME IInv, Download
  PROVE  IInv'
<1>1. now' = now /\ Today' = Today /\ UNCHANGED <<held, published, rows, briefed, uploads, unseen, early, evaluated, preempted>>
      /\ daemon.at = "download"
  BY DEF Download, Today
<1>2. CASE Goto("ingest") /\ UNCHANGED trouble
  <2>1. /\ daemon' \in Daemons /\ daemon'.at = "ingest" /\ daemon'.target = daemon.target
        /\ daemon'.deadline = daemon.deadline /\ daemon'.daily = daemon.daily
    BY <1>2, GoneTo DEF Places, IInv
  <2>2. TimersHold'
    BY <1>1, <2>1 DEF TimersHold, IInv
  <2>3. Morning'
    BY <1>1, <1>2, <2>1 DEF Morning, Unbriefed, IInv
  <2>4. Afternoon'
    <3>1. SUFFICES ASSUME OnCourse PROVE OnCourse'
      BY <1>1, <1>2 DEF IInv, Afternoon
    <3>2. Trying
      BY <1>1, <3>1 DEF OnCourse, OnTime, Waiting, Hooked, Finished, Missed
    <3>3. Trying'
      BY <1>1, <2>1, <3>2 DEF Trying, Unbriefed
    <3>4. QED
      BY <3>3 DEF OnCourse
  <2>5. QED
    BY <1>1, <1>2, <2>1, <2>2, <2>3, <2>4, SameDay DEF IInv, TypeOK, HistoryHolds, ContentMeansFresh
<1>3. CASE NothingIngested /\ trouble' = TRUE
  <2>1. daemon' \in Daemons /\ TimersHold' /\ daemon'.at # "down"
    BY <1>1, <1>3, TriedInVain
  <2>2. Morning' /\ Afternoon'
    BY <1>3 DEF Morning, Afternoon
  <2>3. QED
    BY <1>1, <1>3, <2>1, <2>2, SameDay DEF IInv, TypeOK, HistoryHolds, ContentMeansFresh
<1>4. QED
  BY <1>2, <1>3 DEF Download

LEMMA IngestKeeps ==
  ASSUME IInv, Ingest
  PROVE  IInv'
<1> DEFINE t == daemon.target
<1>1. now' = now /\ Today' = Today /\ UNCHANGED <<held, published, briefed, uploads, unseen, early, evaluated, preempted>>
      /\ daemon.at = "ingest" /\ t \in Days
  BY DEF Ingest, Today, IInv, TypeOK
<1>2. CASE t \notin published /\ NothingIngested /\ UNCHANGED <<rows, trouble>>
  <2>1. /\ daemon' \in Daemons /\ TimersHold'
        /\ \/ daemon'.at = "retry" /\ daemon.daily
           \/ /\ daemon'.at = "wait" /\ daemon'.daily = FALSE /\ daemon'.wake > now
              /\ daemon.daily => now + 1 >= daemon.deadline
    BY <1>1, <1>2, TriedInVain
  <2>2. Morning'
    <3>1. ASSUME ~trouble, now < Schedule(Today) PROVE ~daemon'.daily /\ Unbriefed
      <4>1. ~daemon.daily /\ Unbriefed
        BY <3>1 DEF IInv, Morning
      <4>2. QED
        BY <2>1, <4>1
    <3>2. QED
      BY <1>1, <1>2, <3>1 DEF Morning, Unbriefed
  <2>3. Afternoon'
    <3>1. SUFFICES ASSUME OnCourse PROVE OnCourse'
      BY <1>1, <1>2 DEF IInv, Afternoon
    <3>2. Trying
      BY <1>1, <3>1 DEF OnCourse, OnTime, Waiting, Hooked, Finished, Missed
    <3>3. CASE daemon'.at = "retry"
      <4>1. Waiting'
        BY <1>1, <3>2, <3>3 DEF Trying, Waiting, Unbriefed
      <4>2. QED
        BY <4>1 DEF OnCourse
    <3>4. CASE daemon'.at = "wait"
      <4>1. daemon'.wake > now /\ now + 1 >= Cutoff(Today)
        BY <2>1, <3>2, <3>4 DEF Trying
      <4>2. ~early
        BY <1>2, <3>2 DEF Trying, IInv, HistoryHolds
      <4>3. Missed'
        BY <1>1, <3>4, <4>1, <4>2 DEF Missed
      <4>4. QED
        BY <4>3 DEF OnCourse
    <3>5. QED
      BY <2>1, <3>3, <3>4
  <2>4. QED
    BY <1>1, <1>2, <2>1, <2>2, <2>3, SameDay DEF IInv, TypeOK, HistoryHolds, ContentMeansFresh
<1>3. CASE t \in published /\ rows' = [rows EXCEPT ![t] = "full"] /\ Goto("hook") /\ UNCHANGED trouble
  <2>1. /\ daemon' \in Daemons /\ daemon'.at = "hook" /\ daemon'.target = daemon.target
        /\ daemon'.deadline = daemon.deadline /\ daemon'.daily = daemon.daily
    BY <1>3, GoneTo DEF Places, IInv
  <2>2. TimersHold'
    BY <2>1 DEF TimersHold
  <2>3. Morning'
    BY <1>1, <1>3, <2>1 DEF Morning, Unbriefed, IInv
  <2>4. Afternoon'
    <3>1. SUFFICES ASSUME OnCourse PROVE OnCourse'
      BY <1>1, <1>3 DEF IInv, Afternoon
    <3>2. Trying
      BY <1>1, <3>1 DEF OnCourse, OnTime, Waiting, Hooked, Finished, Missed
    <3>3. rows'[Today] = "full"
      BY <1>1, <1>3, <3>2 DEF Trying, IInv, TypeOK
    <3>4. Hooked'
      BY <1>1, <2>1, <3>2, <3>3 DEF Trying, Hooked, Unbriefed
    <3>5. QED
      BY <3>4 DEF OnCourse
  <2>5. /\ rows' \in [Days -> {"none", "partial", "full"}] /\ rows'[0] # "none"
        /\ \A e \in Days : rows'[e] # "none" => e \in published'
    BY <1>1, <1>3 DEF IInv, TypeOK, HistoryHolds
  <2>6. QED
    BY <1>1, <1>3, <2>1, <2>2, <2>3, <2>4, <2>5, SameDay DEF IInv, TypeOK, HistoryHolds, ContentMeansFresh
<1>4. CASE /\ t \in published /\ NothingIngested /\ trouble' = TRUE
           /\ rows' = [rows EXCEPT ![t] = IF rows[t] = "full" THEN "full" ELSE "partial"]
  <2>1. daemon' \in Daemons /\ TimersHold' /\ daemon'.at # "down"
    BY <1>1, <1>4, TriedInVain
  <2>2. Morning' /\ Afternoon'
    BY <1>4 DEF Morning, Afternoon
  <2>3. /\ rows' \in [Days -> {"none", "partial", "full"}] /\ rows'[0] # "none"
        /\ \A e \in Days : rows'[e] # "none" => e \in published'
    BY <1>1, <1>4 DEF IInv, TypeOK, HistoryHolds
  <2>4. QED
    BY <1>1, <1>4, <2>1, <2>2, <2>3, SameDay DEF IInv, TypeOK, HistoryHolds, ContentMeansFresh
<1>5. QED
  BY <1>2, <1>3, <1>4 DEF Ingest

LEMMA HookKeeps ==
  ASSUME IInv, Hook
  PROVE  IInv'
<1>1. now' = now /\ Today' = Today /\ UNCHANGED <<held, published, rows, briefed, uploads, unseen, early, evaluated, preempted, trouble>>
      /\ daemon.at = "hook"
  BY DEF Hook, Today, history
<1>2. /\ daemon' \in Daemons /\ (daemon'.at = "brief" \/ (briefed /\ daemon'.at = "skipped"))
      /\ daemon'.daily = daemon.daily
  BY GoneTo DEF Hook, Places, IInv
<1>3. TimersHold'
  BY <1>2 DEF TimersHold
<1>4. Morning'
  BY <1>1, <1>2 DEF Morning, Unbriefed, IInv
<1>5. Afternoon'
  <2>1. SUFFICES ASSUME OnCourse PROVE OnCourse'
    BY <1>1 DEF IInv, Afternoon
  <2>2. Hooked
    BY <1>1, <2>1 DEF OnCourse, OnTime, Trying, Waiting, Finished, Missed
  <2>3. CASE briefed /\ daemon'.at = "skipped"
    <3>1. preempted
      BY <1>1, <2>2, <2>3 DEF Hooked, Unbriefed
    <3>2. Finished'
      BY <1>1, <1>2, <2>2, <2>3, <3>1 DEF Hooked, Finished, Done
    <3>3. QED
      BY <3>2 DEF OnCourse
  <2>4. CASE daemon'.at = "brief"
    <3>1. Hooked'
      BY <1>1, <1>2, <2>2, <2>4 DEF Hooked
    <3>2. QED
      BY <3>1 DEF OnCourse
  <2>5. QED
    BY <1>2, <2>3, <2>4
<1>6. daemon'.at # "down"
  BY <1>2
<1>7. QED
  BY <1>1, <1>2, <1>3, <1>4, <1>5, <1>6, SameDay DEF IInv, TypeOK, HistoryHolds, ContentMeansFresh

LEMMA BriefKeeps ==
  ASSUME IInv, Brief
  PROVE  IInv'
<1>1. now' = now /\ Today' = Today /\ UNCHANGED <<held, published, rows, uploads, unseen, early, evaluated>>
      /\ daemon.at = "brief"
  BY DEF Brief, Today
<1>2. CASE briefed' = TRUE /\ Goto("evaluate") /\ preempted' = (preempted \/ ~daemon.daily) /\ UNCHANGED trouble
  <2>1. daemon' \in Daemons /\ daemon'.at = "evaluate" /\ daemon'.daily = daemon.daily
    BY <1>2, GoneTo DEF Places, IInv
  <2>2. TimersHold'
    BY <2>1 DEF TimersHold
  <2>3. daemon.daily \in BOOLEAN /\ preempted \in BOOLEAN
    BY DEF IInv, TypeOK
  <2>4. Morning'
    <3>1. ASSUME ~trouble, now < Schedule(Today) PROVE ~daemon'.daily /\ preempted'
      BY <1>2, <2>1, <3>1 DEF IInv, Morning
    <3>2. QED
      BY <1>1, <1>2, <3>1 DEF Morning, Unbriefed
  <2>5. Afternoon'
    <3>1. SUFFICES ASSUME OnCourse PROVE OnCourse'
      BY <1>1, <1>2 DEF IInv, Afternoon
    <3>2. Hooked
      BY <1>1, <3>1 DEF OnCourse, OnTime, Trying, Waiting, Finished, Missed
    <3>3. Hooked'
      BY <1>1, <2>1, <3>2 DEF Hooked
    <3>4. QED
      BY <3>3 DEF OnCourse
  <2>6. preempted' \in BOOLEAN
    BY <1>2, <2>3
  <2>7. QED
    BY <1>1, <1>2, <2>1, <2>2, <2>4, <2>5, <2>6, SameDay DEF IInv, TypeOK, HistoryHolds, ContentMeansFresh
<1>3. CASE (Goto("evaluate") \/ Goto("skipped")) /\ trouble' = TRUE /\ UNCHANGED <<briefed, preempted>>
  <2>1. daemon' \in Daemons /\ daemon'.at \in {"evaluate", "skipped"}
    BY <1>3, GoneTo DEF Places, IInv
  <2>2. TimersHold' /\ Morning' /\ Afternoon'
    BY <1>3, <2>1 DEF TimersHold, Morning, Afternoon
  <2>3. QED
    BY <1>1, <1>3, <2>1, <2>2, SameDay DEF IInv, TypeOK, HistoryHolds, ContentMeansFresh
<1>4. QED
  BY <1>2, <1>3 DEF Brief

LEMMA EvaluateKeeps ==
  ASSUME IInv, Evaluate
  PROVE  IInv'
<1>1. now' = now /\ Today' = Today /\ UNCHANGED <<held, published, rows, briefed, uploads, unseen, early, preempted>>
      /\ daemon.at = "evaluate"
  BY DEF Evaluate, Today
<1>2. daemon' \in Daemons /\ daemon'.at = "digest" /\ daemon'.daily = daemon.daily
  BY GoneTo DEF Evaluate, Places, IInv
<1>3. TimersHold'
  BY <1>2 DEF TimersHold
<1>4. CASE evaluated' = (evaluated \/ rows[Today] = "full") /\ UNCHANGED trouble
  <2>1. Morning'
    BY <1>1, <1>2, <1>4 DEF Morning, Unbriefed, IInv
  <2>2. Afternoon'
    <3>1. SUFFICES ASSUME OnCourse PROVE OnCourse'
      BY <1>1, <1>4 DEF IInv, Afternoon
    <3>2. Hooked
      BY <1>1, <3>1 DEF OnCourse, OnTime, Trying, Waiting, Finished, Missed
    <3>3. Finished'
      BY <1>1, <1>2, <1>4, <3>2 DEF Hooked, Finished, Done
    <3>4. QED
      BY <3>3 DEF OnCourse
  <2>3. evaluated' \in BOOLEAN
    BY <1>4 DEF IInv, TypeOK
  <2>4. QED
    BY <1>1, <1>2, <1>3, <1>4, <2>1, <2>2, <2>3, SameDay DEF IInv, TypeOK, HistoryHolds, ContentMeansFresh
<1>5. CASE UNCHANGED evaluated /\ trouble' = TRUE
  <2>1. Morning' /\ Afternoon'
    BY <1>5 DEF Morning, Afternoon
  <2>2. QED
    BY <1>1, <1>2, <1>3, <1>5, <2>1, SameDay DEF IInv, TypeOK, HistoryHolds, ContentMeansFresh
<1>6. QED
  BY <1>4, <1>5 DEF Evaluate

LEMMA DigestKeeps ==
  ASSUME IInv, Digest
  PROVE  IInv'
<1>1. now' = now /\ Today' = Today /\ UNCHANGED <<held, published, rows, briefed, uploads, unseen, early, evaluated, preempted, trouble>>
      /\ daemon.at \in {"digest", "skipped"}
  BY DEF Digest, Today, history
<1>2. daemon' \in Daemons /\ TimersHold' /\ daemon'.at = "wait" /\ daemon'.daily = FALSE /\ daemon'.wake > now
  BY <1>1, Resting DEF Digest
<1>3. Morning'
  BY <1>1, <1>2 DEF Morning, Unbriefed, IInv
<1>4. Afternoon'
  <2>1. SUFFICES ASSUME OnCourse PROVE OnCourse'
    BY <1>1 DEF IInv, Afternoon
  <2>2. Finished
    BY <1>1, <2>1 DEF OnCourse, OnTime, Trying, Waiting, Hooked, Missed
  <2>3. Finished'
    BY <1>1, <1>2, <2>2 DEF Finished, Done
  <2>4. QED
    BY <2>3 DEF OnCourse
<1>5. QED
  BY <1>1, <1>2, <1>3, <1>4, SameDay DEF IInv, TypeOK, HistoryHolds, ContentMeansFresh

\* The watchdog counts every unlisted session between the newest date held and the last trading date.
LEMMA WatchKeeps ==
  ASSUME IInv, Watch
  PROVE  IInv'
<1> DEFINE A == {d \in held \ Listed : NewestHeld < d /\ d <= Today}
           last == LastTradingDate(Today)
           B == {d \in NewestHeld + 1 .. last : d \notin Weekends \cup Listed}
<1>1. now' = now /\ Today' = Today /\ UNCHANGED <<held, published, rows, daemon, briefed, uploads, early, evaluated, preempted, trouble>>
      /\ unseen' = Cardinality(A) /\ Cardinality(B) < 2
  BY DEF Watch, Today, TradingDaysBetween, StaleTradingDays
<1>2. NewestHeld \in Days
  <2> DEFINE s == {d \in Days : rows[d] # "none"}
  <2>1. 0 \in s /\ s \in SUBSET (0 .. LastDay) /\ LastDay \in Nat
    BY CollectorAssumption DEF Days, IInv, HistoryHolds
  <2>2. LatestOf(s) \in s
    BY <2>1, LatestOfTyped
  <2>3. QED
    BY <2>2 DEF NewestHeld
<1>3. /\ NewestHeld \in Nat /\ Today \in Nat /\ last \in Nat
      /\ \A e \in 0 .. Today : e \notin Weekends \cup Listed => e <= last
  BY <1>2, LastTradingDateTyped, TodayTyped, CollectorAssumption DEF Days, IInv
<1>4. A \subseteq B
  <2>1. ASSUME NEW d \in A PROVE d \in B
    <3>1. d \in held /\ d \notin Listed /\ NewestHeld < d /\ d <= Today
      OBVIOUS
    <3>2. d \in Nat /\ d \notin Weekends
      BY <3>1, CollectorAssumption DEF IInv, TypeOK, Days
    <3>3. d <= last
      BY <1>3, <3>1, <3>2
    <3>4. QED
      BY <1>3, <3>1, <3>2, <3>3
  <2>2. QED
    BY <2>1
<1>5. IsFiniteSet(B)
  <2>1. IsFiniteSet(NewestHeld + 1 .. last)
    BY <1>3, FS_Interval
  <2>2. B \subseteq NewestHeld + 1 .. last
    OBVIOUS
  <2>3. QED
    BY <2>1, <2>2, FS_Subset
<1> HIDE DEF A, B
<1>6. IsFiniteSet(A) /\ Cardinality(A) <= Cardinality(B)
  BY <1>4, <1>5, FS_Subset
<1>7. Cardinality(A) \in Nat /\ Cardinality(B) \in Nat
  BY <1>5, <1>6, FS_CardinalityType
<1>8. unseen' \in Nat /\ unseen' < 2
  BY <1>1, <1>6, <1>7
<1>9. TimersHold' /\ Morning'
  BY <1>1 DEF IInv, TimersHold, Morning, Unbriefed
<1>10. Afternoon'
  BY <1>1 DEF IInv, Afternoon, OnCourse, OnTime, Trying, Waiting, Hooked, Finished, Missed, Done, Unbriefed
<1>11. daemon' \in Daemons
  BY <1>1 DEF IInv, TypeOK, Daemons
<1>12. QED
  BY <1>1, <1>8, <1>9, <1>10, <1>11, SameDay DEF IInv, TypeOK, HistoryHolds

-----------------------------------------------------------------------------
(* The clock's step.                                                       *)

\* A timer is set for a schedule, and a schedule belongs to its own day.
LEMMA ScheduleOfDay ==
  ASSUME NEW t \in Nat, NEW d \in Nat, t = Schedule(d)
  PROVE  DayOf(t) = d
<1>1. Midnight(d) <= t /\ t < Midnight(d) + SlotsPerDay
  BY Midnights, SlotsTyped
<1>2. QED
  BY <1>1, DayFound

LEMMA TickTimers ==
  ASSUME IInv, Tick
  PROVE  TimersHold'
<1>1. now \in Nat /\ now' = now + 1 /\ daemon' = daemon /\ ~Due /\ daemon \in Daemons
  BY DEF Tick, IInv, TypeOK, Daemons
<1>2. daemon.wake \in Nat /\ daemon.deadline \in Nat
  BY <1>1 DEF Daemons
<1>3. ASSUME daemon.at = "wait" PROVE Timer(daemon.wake, now + 1) /\ ~daemon.daily
  <2>1. PICK d \in 0 .. LastDay + 1 :
          /\ daemon.wake = Schedule(d) /\ d \notin Weekends
          /\ \A e \in 0 .. d - 1 : Schedule(e) > now => e \in Weekends
    BY <1>3 DEF IInv, TimersHold, Timer
  <2>2. now < daemon.wake
    BY <1>1, <1>2, <1>3 DEF Due
  <2>3. \A e \in 0 .. d - 1 : Schedule(e) > now + 1 => e \in Weekends
    <3>1. ASSUME NEW e \in 0 .. d - 1, Schedule(e) > now + 1 PROVE e \in Weekends
      <4>1. Schedule(e) \in Nat
        BY Midnights
      <4>2. QED
        BY <1>1, <2>1, <3>1, <4>1
    <3>2. QED
      BY <3>1
  <2>4. QED
    BY <1>1, <1>2, <1>3, <2>1, <2>2, <2>3 DEF Timer, IInv, TimersHold
<1>4. ASSUME NEW t \in Nat, t <= now, t + 1 < Cutoff(Today), Schedule(Today) <= now, now + 1 < Cutoff(Today)
      PROVE  Today' = Today
  BY <1>1, <1>4, NextSlot, TodayTyped DEF IInv, Today
<1>5. ASSUME daemon.at \in {"download", "ingest"}, daemon.daily, now + 1 + 1 < daemon.deadline
      PROVE  Today' = Today /\ daemon.deadline = Cutoff(Today) /\ Schedule(Today) <= now + 1
  <2>1. now + 1 < daemon.deadline
    BY <1>1, <1>2, <1>5
  <2>2. daemon.deadline = Cutoff(Today) /\ Schedule(Today) <= now
    BY <1>5, <2>1 DEF IInv, TimersHold
  <2>3. QED
    BY <1>1, <1>4, <2>1, <2>2, TodayTyped DEF IInv
<1>6. ASSUME daemon.at = "retry"
      PROVE  /\ daemon.daily /\ Today' = Today /\ daemon.deadline = Cutoff(Today) /\ Schedule(Today) <= now + 1
             /\ now + 1 <= daemon.wake /\ daemon.wake < daemon.deadline
  <2>1. /\ daemon.daily /\ daemon.deadline = Cutoff(Today) /\ Schedule(Today) <= now
        /\ now <= daemon.wake /\ daemon.wake < daemon.deadline
    BY <1>6 DEF IInv, TimersHold
  <2>2. now + 1 <= daemon.wake
    BY <1>1, <1>2, <1>6, <2>1 DEF Due
  <2>3. now + 1 < Cutoff(Today)
    BY <1>1, <1>2, <2>1, <2>2
  <2>4. Today' = Today
    BY <1>1, <1>4, <2>1, <2>3
  <2>5. QED
    BY <1>1, <2>1, <2>2, <2>4, TodayTyped DEF IInv
<1>7. QED
  BY <1>1, <1>3, <1>5, <1>6 DEF TimersHold, Cutoff

\* In the morning of a weekday, the timer stands at that day's schedule.
LEMMA TimerStands ==
  ASSUME IInv, daemon.at = "wait", ~Due, now < Schedule(Today), Today \notin Weekends
  PROVE  daemon.wake = Schedule(Today)
<1>1. PICK d \in 0 .. LastDay + 1 :
        /\ daemon.wake = Schedule(d)
        /\ \A e \in 0 .. d - 1 : Schedule(e) > now => e \in Weekends
  BY DEF IInv, TimersHold, Timer
<1>2. daemon.wake \in Nat /\ now \in Nat /\ d \in Nat /\ Today \in Nat
  BY TodayTyped, CollectorAssumption DEF IInv, TypeOK
<1>3. now < Schedule(d)
  BY <1>1, <1>2 DEF Due
<1>4. ~(Today < d)
  <2>1. Schedule(Today) \in Nat
    BY TodayTyped DEF IInv
  <2>2. Today < d => Today \in 0 .. d - 1
    BY <1>2
  <2>3. QED
    BY <1>1, <1>2, <2>1, <2>2
<1>5. ~(d < Today)
  <2>1. SUFFICES ASSUME d < Today PROVE FALSE
    OBVIOUS
  <2>2. Midnight(d) + SlotsPerDay <= Midnight(Today)
    BY <1>2, <2>1, LaterMidnight
  <2>3. Schedule(d) = Midnight(d) + 1 /\ Midnight(d) \in Nat
    BY <1>2, Midnights
  <2>4. Midnight(Today) <= now /\ Midnight(Today) \in Nat
    BY TodayTyped DEF IInv
  <2>5. QED
    BY <1>2, <1>3, <2>2, <2>3, <2>4, SlotsTyped
<1>6. QED
  BY <1>1, <1>2, <1>4, <1>5

LEMMA TickKeeps ==
  ASSUME IInv, Tick
  PROVE  IInv'
<1> DEFINE midnight == DayOf(now + 1) # Today
<1>1. /\ ~Due /\ now' = now + 1 /\ DayOf(now + 1) <= LastDay
      /\ UNCHANGED <<held, published, rows, daemon, uploads, unseen>>
      /\ briefed' = (briefed /\ ~midnight) /\ early' = (early /\ ~midnight)
      /\ evaluated' = (evaluated /\ ~midnight) /\ preempted' = (preempted /\ ~midnight)
      /\ trouble' = (Late \/ (trouble /\ ~midnight))
  BY DEF Tick
<1>2. now \in Nat /\ now + 1 \in Nat /\ Today' = DayOf(now + 1) /\ DayOf(now + 1) \in Nat
  BY <1>1, DayBounds DEF IInv, TypeOK, Today
<1>3. Today' \in Days
  BY <1>1, <1>2, CollectorAssumption DEF Days
<1>4. TypeOK'
  BY <1>1, <1>2, <1>3 DEF IInv, TypeOK, Late
<1>5. TimersHold'
  BY TickTimers
<1>6. HistoryHolds'
  <2>1. \A d \in published' : Schedule(d) <= now'
    <3>1. ASSUME NEW d \in published' PROVE Schedule(d) <= now'
      <4>1. Schedule(d) <= now /\ d \in Nat
        BY <1>1, CollectorAssumption DEF IInv, TypeOK, HistoryHolds, Days
      <4>2. Schedule(d) \in Nat
        BY <4>1, Midnights
      <4>3. QED
        BY <1>1, <1>2, <4>1, <4>2
    <3>2. QED
      BY <3>1
  <2>2. early' => Today' \in published'
    BY <1>1, <1>2 DEF IInv, HistoryHolds
  <2>3. daemon'.at = "down" => trouble'
    BY <1>1 DEF Late
  <2>4. QED
    BY <1>1, <2>1, <2>2, <2>3 DEF IInv, HistoryHolds
<1>7. ASSUME ~trouble' PROVE daemon.at \in {"wait", "retry"} /\ (~midnight => ~trouble)
  BY <1>1, <1>7 DEF Late
<1>8. CASE midnight
  <2>1. now + 1 = Midnight(Today') /\ Midnight(Today') \in Nat /\ Schedule(Today') = Midnight(Today') + 1
        /\ Schedule(Today') \in Nat
    BY <1>2, <1>8, NextSlot, Midnights DEF Today
  <2>2. Morning'
    <3>1. ASSUME ~trouble' PROVE ~daemon.daily
      <4>1. daemon.at # "retry"
        <5>1. ~(Schedule(Today)' <= now')
          BY <1>1, <2>1 DEF Schedule
        <5>2. QED
          BY <1>1, <1>5, <5>1 DEF TimersHold
      <4>2. daemon.at = "wait"
        BY <1>7, <3>1, <4>1
      <4>3. QED
        BY <4>2 DEF IInv, TimersHold
    <3>2. ~briefed'
      BY <1>1, <1>8
    <3>3. QED
      BY <1>1, <3>1, <3>2 DEF Morning, Unbriefed
  <2>3. Afternoon'
    <3>1. ~(Schedule(Today') <= now')
      BY <1>1, <2>1
    <3>2. QED
      BY <3>1 DEF Afternoon, Schedule
  <2>4. QED
    BY <1>1, <1>4, <1>5, <1>6, <2>2, <2>3 DEF IInv, ContentMeansFresh
<1>9. CASE ~midnight
  <2>1. Today' = Today /\ (briefed' <=> briefed) /\ (early' <=> early) /\ (evaluated' <=> evaluated)
        /\ (preempted' <=> preempted)
    BY <1>1, <1>2, <1>9
  <2>2. Schedule(Today) \in Nat /\ Schedule(Today)' = Schedule(Today) /\ Cutoff(Today)' = Cutoff(Today)
        /\ Cutoff(Today) \in Nat
    BY <2>1, TodayTyped DEF IInv, Schedule, Cutoff
  <2>3. Morning'
    <3>1. ASSUME ~trouble', now' < Schedule(Today)' PROVE ~daemon'.daily /\ Unbriefed'
      <4>1. ~trouble /\ now < Schedule(Today)
        BY <1>1, <1>2, <1>7, <1>9, <2>2, <3>1
      <4>2. QED
        BY <1>1, <2>1, <4>1 DEF IInv, Morning, Unbriefed
    <3>2. QED
      BY <3>1 DEF Morning
  <2>4. Afternoon'
    <3>1. SUFFICES ASSUME ~trouble', Schedule(Today) <= now + 1, Today \in held \ Listed PROVE OnCourse'
      BY <1>1, <2>1, <2>2 DEF Afternoon
    <3>2. ~trouble /\ daemon.at \in {"wait", "retry"}
      BY <1>7, <1>9, <3>1
    <3>3. CASE now < Schedule(Today)
      <4>1. Unbriefed
        BY <3>2, <3>3 DEF IInv, Morning
      <4>2. daemon.at = "wait"
        BY <1>2, <2>2, <3>2, <3>3 DEF IInv, TimersHold
      <4>3. daemon.wake = Schedule(Today)
        BY <1>1, <3>1, <3>3, <4>2, TimerStands DEF IInv, TypeOK
      <4>4. now + 1 = Schedule(Today)
        BY <1>2, <2>2, <3>1, <3>3
      <4>5. OnTime'
        BY <1>1, <2>1, <2>2, <4>1, <4>2, <4>3, <4>4 DEF OnTime, Unbriefed
      <4>6. QED
        BY <4>5 DEF OnCourse
    <3>4. CASE Schedule(Today) <= now
      <4>1. OnCourse
        BY <3>1, <3>2, <3>4 DEF IInv, Afternoon
      <4>2. CASE daemon.at = "retry"
        <5>1. Waiting
          BY <4>1, <4>2 DEF OnCourse, OnTime, Trying, Hooked, Finished, Missed
        <5>2. Waiting'
          BY <1>1, <2>1, <5>1 DEF Waiting, Unbriefed
        <5>3. QED
          BY <5>2 DEF OnCourse
      <4>3. CASE daemon.at = "wait"
        <5>1. now < daemon.wake /\ daemon.wake \in Nat
          BY <1>1, <1>2, <4>3 DEF Due, IInv, TypeOK
        <5>2. daemon.wake # now + 1
          <6>1. SUFFICES ASSUME daemon.wake = now + 1 PROVE FALSE
            OBVIOUS
          <6>2. PICK d \in 0 .. LastDay + 1 : daemon.wake = Schedule(d)
            BY <4>3 DEF IInv, TimersHold, Timer
          <6>3. d \in Nat
            BY CollectorAssumption
          <6>4. d = Today
            BY <1>2, <2>1, <6>1, <6>2, <6>3, ScheduleOfDay
          <6>5. QED
            BY <1>2, <2>2, <3>4, <6>1, <6>2, <6>4
        <5>3. daemon.wake > now + 1
          BY <1>2, <5>1, <5>2
        <5>4. CASE Finished
          <6>1. Finished'
            BY <1>1, <2>1, <4>3, <5>3, <5>4 DEF Finished, Done
          <6>2. QED
            BY <6>1 DEF OnCourse
        <5>5. CASE Missed
          <6>1. Missed'
            BY <1>1, <1>2, <2>1, <2>2, <4>3, <5>3, <5>5 DEF Missed
          <6>2. QED
            BY <6>1 DEF OnCourse
        <5>6. QED
          BY <1>2, <4>1, <4>3, <5>1, <5>4, <5>5 DEF OnCourse, OnTime, Trying, Waiting, Hooked
      <4>4. QED
        BY <3>2, <4>2, <4>3
    <3>5. QED
      BY <1>2, <2>2, <3>3, <3>4
  <2>5. QED
    BY <1>1, <1>4, <1>5, <1>6, <2>3, <2>4 DEF IInv, ContentMeansFresh
<1>10. QED
  BY <1>8, <1>9

-----------------------------------------------------------------------------
(* The invariant, and what follows.                                        *)

LEMMA InitHolds == Init => IInv
<1> SUFFICES ASSUME Init PROVE IInv
  OBVIOUS
<1>1. LastDay \in Nat /\ LastDay >= 1 /\ 0 \in Days /\ 1 \in Days
  BY CollectorAssumption DEF Days
<1>2. now \in Nat /\ now = Midnight(1) /\ now < Midnight(1) + SlotsPerDay /\ now >= 3
  BY SlotsTyped DEF Init, Midnight
<1>3. Today = 1
  BY <1>2, DayFound, SlotsTyped DEF Today
<1>4. held \subseteq Days \ Weekends /\ 0 \in held
  <2>1. PICK h \in SUBSET (1 .. LastDay \ Weekends) : held = {0} \cup h
    BY DEF Init
  <2>2. h \subseteq Days \ Weekends
    BY <2>1, CollectorAssumption DEF Days
  <2>3. 0 \notin Weekends
    BY CollectorAssumption
  <2>4. QED
    BY <1>1, <2>1, <2>2, <2>3
<1>5. daemon \in Daemons /\ daemon.at = "boot" /\ daemon.daily = FALSE
  BY <1>1 DEF Init, Daemons, Places
<1>6. rows \in [Days -> {"none", "partial", "full"}] /\ rows[0] # "none"
      /\ \A d \in Days : rows[d] # "none" => d \in published
  BY <1>1 DEF Init
<1>7. TypeOK
  <2>1. Today \in Days /\ Today \in Nat
    BY <1>1, <1>3
  <2>2. daemon \in [at : Places, target : Days, wake : Nat, deadline : Nat, daily : BOOLEAN]
    BY <1>5 DEF Daemons
  <2>3. published \subseteq held
    BY <1>4 DEF Init
  <2>4. uploads \in 0 .. MaxUploads
    BY CollectorAssumption DEF Init
  <2>5. briefed \in BOOLEAN /\ unseen \in Nat /\ early \in BOOLEAN /\ evaluated \in BOOLEAN
        /\ preempted \in BOOLEAN /\ trouble \in BOOLEAN
    BY DEF Init
  <2>6. QED
    BY <1>2, <1>4, <1>6, <2>1, <2>2, <2>3, <2>4, <2>5 DEF TypeOK
<1>8. TimersHold
  BY <1>5 DEF TimersHold
<1>9. HistoryHolds
  <2>1. Schedule(0) = 1
    BY SlotsTyped DEF Schedule
  <2>2. QED
    BY <1>2, <1>5, <1>6, <2>1 DEF Init, HistoryHolds
<1>10. now < Schedule(Today)
  BY <1>2, <1>3, Midnights
<1>11. Morning
  BY <1>5 DEF Init, Morning, Unbriefed
<1>12. Afternoon
  BY <1>7, <1>10, TodayTyped DEF Afternoon
<1>13. QED
  BY <1>7, <1>8, <1>9, <1>11, <1>12 DEF IInv, ContentMeansFresh, Init

LEMMA NextKeeps == IInv /\ [Next]_vars => IInv'
<1> SUFFICES ASSUME IInv, [Next]_vars PROVE IInv'
  OBVIOUS
<1>1. CASE Next
  BY <1>1, SeedKeeps, FireKeeps, AgainKeeps, DownloadKeeps, IngestKeeps, HookKeeps, BriefKeeps, EvaluateKeeps,
     DigestKeeps, WatchKeeps, TickKeeps, CrashKeeps, StartKeeps, PublishKeeps, UploadKeeps DEF Next, Work
<1>2. CASE UNCHANGED vars
  <2>1. TypeOK' /\ TimersHold' /\ HistoryHolds' /\ Morning' /\ ContentMeansFresh'
    BY <1>2 DEF vars, history, IInv, TypeOK, Today, TimersHold, HistoryHolds, Morning, Unbriefed, ContentMeansFresh
  <2>2. Afternoon'
    BY <1>2 DEF vars, history, IInv, Today, Afternoon, OnCourse, OnTime, Trying, Waiting, Hooked, Finished, Missed,
       Done, Unbriefed
  <2>3. QED
    BY <2>1, <2>2 DEF IInv
<1>3. QED
  BY <1>1, <1>2

THEOREM Invariance == Spec => []IInv
BY InitHolds, NextKeeps, PTL DEF Spec

\* Every variable keeps its type, and only published sessions are in the database.
THEOREM TypeCorrect == Spec => []TypeOK
<1>1. IInv => TypeOK
  BY DEF IInv
<1>2. QED
  BY <1>1, Invariance, PTL

\* When the watchdog is content, at most one unlisted session is missing behind the newest date held.
THEOREM ContentAlwaysMeansFresh == Spec => []ContentMeansFresh
<1>1. IInv => ContentMeansFresh
  BY DEF IInv
<1>2. QED
  BY <1>1, Invariance, PTL

\* The last slot of a day without trouble is passed only with the work of the day done.
LEMMA DayEnds ==
  ASSUME IInv, [Next]_vars
  PROVE  Today' # Today /\ Today \in held \ Listed /\ early /\ ~trouble =>
           rows[Today] = "full" /\ (evaluated \/ preempted)
<1> SUFFICES ASSUME Today' # Today, Today \in held \ Listed, early, ~trouble PROVE Done
  BY DEF Done
<1>1. Tick
  BY DEF Next, Work, Publish, Upload, Crash, Start, Seed, Fire, Again, Download, Ingest, Hook, Brief, Evaluate,
     Digest, Watch, vars, history, Today
<1>2. now' = now + 1 /\ ~Due /\ now \in Nat
  BY <1>1 DEF Tick, IInv, TypeOK
<1>3. now + 1 = Midnight(Today) + SlotsPerDay
  BY <1>2, NextSlot DEF Today
<1>4. now = Cutoff(Today) /\ Schedule(Today) <= now
  BY <1>2, <1>3, TodayTyped DEF IInv
<1>5. OnCourse
  BY <1>4 DEF IInv, Afternoon
<1>6. ~Trying /\ ~Hooked
  BY <1>2, <1>4 DEF Trying, Hooked
<1>7. ~OnTime
  BY <1>2 DEF OnTime, Due
<1>8. ~Waiting
  <2>1. SUFFICES ASSUME daemon.at = "retry" PROVE FALSE
    BY DEF Waiting
  <2>2. now <= daemon.wake /\ daemon.wake < Cutoff(Today) /\ daemon.wake \in Nat
    BY <2>1 DEF IInv, TimersHold, TypeOK
  <2>3. QED
    BY <1>2, <1>4, <2>2
<1>9. QED
  BY <1>5, <1>6, <1>7, <1>8 DEF OnCourse, Finished, Missed

\* A day that ends without trouble ends with its session ingested and its alert rules evaluated (or with the
\* evaluation preempted by an upload), for any calendar and any length of the retry window.
THEOREM PublishedIsAlwaysIngested == Spec => PublishedIsIngested
<1>1. IInv /\ [Next]_vars =>
        (Today' # Today /\ Today \in held \ Listed /\ early /\ ~trouble =>
           rows[Today] = "full" /\ (evaluated \/ preempted))
  BY DayEnds
<1>2. QED
  BY <1>1, Invariance, PTL DEF Spec, PublishedIsIngested

=============================================================================
