-------------------------------- MODULE Push --------------------------------
(***************************************************************************)
(* Web push: the subscriptions of the users' browsers, and the fan-outs of  *)
(* the daily watch-list digest.  A scrape starts one from the daemon, every *)
(* upload and an administrator's test another; a mark per user and UTC day  *)
(* in Redis keeps them from sending twice.  Alerts send to one user only.   *)
(***************************************************************************)
EXTENDS Integers

CONSTANTS
  Users,
  Devices,      \* push endpoints
  Allowed,      \* the endpoints of a known push service
  Fans,         \* goroutines that send; "scrape" is the daemon's
  LastDay,      \* bound: UTC days 1 .. LastDay
  MaxEdits,     \* bound: requests of the users
  MaxFaults     \* bound: failed calls, fan-outs cut short and restarts

Days == 1 .. LastDay

VARIABLES
  day,          \* the UTC day
  wants,        \* users with the digest on and a listed symbol on their watch list
  subs,         \* push_subscriptions
  alive,        \* endpoints their push service still accepts
  marks,        \* digest:sent:<day>:<user> in Redis
  fan,          \* the sending goroutines
  edits,
  faults,
  got,          \* history: digests of today's fan-outs that reached a user's device
  unmarked,     \* history: how often today a failed Redis call let a digest through without a mark
  trouble       \* history: users a call failed for, or whose fan-out was cut short, who changed their mind, or whose digest midnight met

vars == <<day, wants, subs, alive, marks, fan, edits, faults, got, unmarked, trouble>>

\* A goroutine at rest.
Idle == [at |-> "idle", daily |-> FALSE, day |-> 1, todo |-> {}, user |-> {}, devs |-> {}, cut |-> FALSE]

TypeOK ==
  /\ day \in Days /\ wants \subseteq Users /\ subs \subseteq Users \X Devices /\ alive \subseteq Devices
  /\ marks \subseteq Users \X Days
  /\ fan \in [Fans -> [at : {"idle", "list", "next", "mark", "devices", "send"}, daily : BOOLEAN, day : Days,
                       todo : SUBSET Users, user : SUBSET Users, devs : SUBSET Devices, cut : BOOLEAN]]
  /\ \A f \in Fans : fan[f].at \in {"mark", "devices", "send"} <=> \E u \in Users : fan[f].user = {u}
  /\ edits \in 0 .. MaxEdits /\ faults \in 0 .. MaxFaults
  /\ got \in [Users \X Devices -> Nat] /\ unmarked \in [Users -> Nat] /\ trouble \subseteq Users

\* Rows older than the endpoint check may name an endpoint it would refuse.
Init ==
  /\ day = 1 /\ wants = Users /\ subs = Users \X Devices /\ alive = Devices
  /\ marks = {} /\ fan = [f \in Fans |-> Idle] /\ edits = 0 /\ faults = 0
  /\ got = [x \in Users \X Devices |-> 0] /\ unmarked = [u \in Users |-> 0] /\ trouble = {}

-----------------------------------------------------------------------------
(* The users and the push services.                                        *)

Edit == edits < MaxEdits /\ edits' = edits + 1

\* EndpointValidator.ValidateEndpoint.
ValidateEndpoint(d) == d \in Allowed

\* HandleSubscribePush: one row for each user and endpoint.
Subscribe(u, d) ==
  /\ Edit
  /\ ValidateEndpoint(d) /\ d \in alive
  /\ subs' = subs \cup {<<u, d>>}
  /\ UNCHANGED <<day, wants, alive, marks, fan, faults, got, unmarked, trouble>>

\* HandleUnsubscribePush.
Unsubscribe(u, d) ==
  /\ Edit
  /\ subs' = subs \ {<<u, d>>}
  /\ trouble' = trouble \cup {u}
  /\ UNCHANGED <<day, wants, alive, marks, fan, faults, got, unmarked>>

\* HandleSetDigestPreference, or a toggle of the watch list.
Choose(u) ==
  /\ Edit
  /\ wants' = IF u \in wants THEN wants \ {u} ELSE wants \cup {u}
  /\ trouble' = trouble \cup {u}
  /\ UNCHANGED <<day, subs, alive, marks, fan, faults, got, unmarked>>

\* A browser forgets its subscription.  Its endpoint does not come back.
Revoke(d) ==
  /\ d \in alive
  /\ alive' = alive \ {d}
  /\ UNCHANGED <<day, wants, subs, marks, fan, edits, faults, got, unmarked, trouble>>

\* Marks live for 30 hours: those of the day before last are gone.
Midnight ==
  /\ day < LastDay
  /\ day' = day + 1
  /\ marks' = {m \in marks : m[2] >= day}
  /\ got' = [x \in Users \X Devices |-> 0]
  /\ unmarked' = [u \in Users |-> 0]
  /\ trouble' = UNION {fan[f].todo \cup fan[f].user : f \in Fans}
  /\ UNCHANGED <<wants, subs, alive, fan, edits, faults>>

-----------------------------------------------------------------------------
(* The fan-outs.                                                           *)

Set(f, rec) == fan' = [fan EXCEPT ![f] = rec]
Quiet == UNCHANGED <<day, wants, subs, alive, marks, edits, faults, got, unmarked, trouble>>

Fault == faults < MaxFaults /\ faults' = faults + 1

\* A call succeeds only under a live context, and fails always under one that has ended.
Succeeds(f) == ~fan[f].cut /\ UNCHANGED faults
Fails(f) == IF fan[f].cut THEN UNCHANGED faults ELSE Fault

\* SendWatchListDigest: from the post-scrape hook, an upload or the broadcast of a test.
StartDigest(f) ==
  /\ fan[f].at = "idle"
  /\ Set(f, [Idle EXCEPT !.at = "list", !.daily = TRUE])
  /\ Quiet

\* SendAlertPush and SendDigestToUser: one user, and no mark.
StartPush(f, u) ==
  /\ f # "scrape" /\ fan[f].at = "idle"
  /\ Set(f, [Idle EXCEPT !.at = "devices", !.user = {u}])
  /\ Quiet

\* ListWatchListsForPushSubscribers.
Subscribers == {u \in wants : \E d \in Devices : <<u, d>> \in subs}

\* The day is read after the list.
List(f) ==
  /\ fan[f].at = "list"
  /\ \/ /\ Succeeds(f)
        /\ Set(f, [fan[f] EXCEPT !.at = "next", !.todo = Subscribers, !.day = day])
        /\ UNCHANGED trouble
     \/ Fails(f) /\ Set(f, Idle) /\ trouble' = Users
  /\ UNCHANGED <<day, wants, subs, alive, marks, edits, got, unmarked>>

\* The next user, or the end; a context that has ended stops the loop.
Take(f) ==
  /\ fan[f].at = "next" /\ fan[f].daily
  /\ IF fan[f].cut \/ fan[f].todo = {}
     THEN Set(f, Idle) /\ trouble' = trouble \cup fan[f].todo
     ELSE /\ \E u \in fan[f].todo :
               Set(f, [fan[f] EXCEPT !.at = "mark", !.user = {u}, !.todo = fan[f].todo \ {u}])
          /\ UNCHANGED trouble
  /\ UNCHANGED <<day, wants, subs, alive, marks, edits, faults, got, unmarked>>

\* A push outside the fan-out ends with its one user.
Leave(f) == fan[f].at = "next" /\ ~fan[f].daily /\ Set(f, Idle) /\ Quiet

EveryoneIsNew(u, d) == TRUE
\* SETNX: was the key new?
NewlyMarked(u, d) == <<u, d>> \notin marks

SkipKeepingUser(f) == Set(f, [fan[f] EXCEPT !.at = "next", !.devs = {}])
Skip(f) == Set(f, [fan[f] EXCEPT !.at = "next", !.user = {}, !.devs = {}])

\* Without an answer from Redis the digest is sent.
FailOpen(f) == Set(f, [fan[f] EXCEPT !.at = "devices"])

\* MarkDigestSent.  A failed call, which may have left the mark all the same, lets the digest through.
Mark(f) ==
  LET d == fan[f].day
  IN /\ fan[f].at = "mark"
     /\ \E u \in fan[f].user :
          \/ /\ Succeeds(f)
             /\ IF NewlyMarked(u, d) THEN Set(f, [fan[f] EXCEPT !.at = "devices"]) ELSE Skip(f)
             /\ marks' = marks \cup {<<u, d>>}
             /\ UNCHANGED unmarked
          \/ /\ Fails(f)
             /\ FailOpen(f)
             /\ marks' \in {marks, marks \cup {<<u, d>>}}
             /\ unmarked' = IF d = day /\ ~fan[f].cut THEN [unmarked EXCEPT ![u] = unmarked[u] + 1] ELSE unmarked
     /\ UNCHANGED <<day, wants, subs, alive, edits, got, trouble>>

\* sendToUser lists the user's endpoints, and refuses those that are not a push service's.
ListDevices(f) ==
  /\ fan[f].at = "devices"
  /\ \E u \in fan[f].user :
       \/ /\ Succeeds(f)
          /\ Set(f, [fan[f] EXCEPT !.at = "send",
                                   !.devs = {d \in Devices : <<u, d>> \in subs /\ ValidateEndpoint(d)}])
          /\ UNCHANGED trouble
       \/ Fails(f) /\ Skip(f) /\ trouble' = trouble \cup {u}
  /\ UNCHANGED <<day, wants, subs, alive, marks, edits, got, unmarked>>

\* A dead endpoint is deleted for all its users.
Pruned(d) == {s \in subs : s[2] # d}

Delivered(u, d, f) ==
  IF fan[f].daily /\ fan[f].day = day THEN [got EXCEPT ![<<u, d>>] = got[<<u, d>>] + 1] ELSE got

\* One request to a push service: accepted, 404 or 410, or failed, perhaps after it was accepted.
Send(f, d) ==
  /\ fan[f].at = "send" /\ d \in fan[f].devs
  /\ Set(f, [fan[f] EXCEPT !.devs = fan[f].devs \ {d}])
  /\ \E u \in fan[f].user :
       \/ /\ d \in alive /\ Succeeds(f)
          /\ got' = Delivered(u, d, f)
          /\ UNCHANGED <<subs, trouble>>
       \/ /\ d \notin alive /\ Succeeds(f)
          /\ subs' = Pruned(d)
          /\ UNCHANGED <<got, trouble>>
       \/ /\ Fails(f)
          /\ got' \in IF d \in alive THEN {got, Delivered(u, d, f)} ELSE {got}
          /\ trouble' = trouble \cup {u}
          /\ UNCHANGED subs
  /\ UNCHANGED <<day, wants, alive, marks, edits, unmarked>>

Sent(f) == fan[f].at = "send" /\ fan[f].devs = {} /\ Skip(f) /\ Quiet

\* 90 seconds are over, or Shutdown cancels what goBackground started.
Cut(f) ==
  /\ Fault /\ f # "scrape" /\ fan[f].at # "idle" /\ ~fan[f].cut
  /\ Set(f, [fan[f] EXCEPT !.cut = TRUE])
  /\ UNCHANGED <<day, wants, subs, alive, marks, edits, got, unmarked, trouble>>

\* The process stops wherever its goroutines are, and starts again.
Restart ==
  /\ Fault
  /\ fan' = [f \in Fans |-> Idle]
  /\ trouble' = IF \E f \in Fans : fan[f].daily THEN Users ELSE trouble
  /\ UNCHANGED <<day, wants, subs, alive, marks, edits, got, unmarked>>

Work(f) ==
  \/ List(f) \/ Take(f) \/ Leave(f) \/ Mark(f) \/ ListDevices(f) \/ Sent(f)
  \/ \E d \in Devices : Send(f, d)

Next ==
  \/ \E f \in Fans : StartDigest(f) \/ Work(f) \/ Cut(f) \/ \E u \in Users : StartPush(f, u)
  \/ \E u \in Users : Choose(u) \/ \E d \in Devices : Subscribe(u, d) \/ Unsubscribe(u, d)
  \/ \E d \in Devices : Revoke(d)
  \/ Midnight \/ Restart

Spec == Init /\ [][Next]_vars

\* A sending goroutine goes on: every call it makes has a timeout.
FairSpec == Spec /\ \A f \in Fans : WF_vars(Work(f))

-----------------------------------------------------------------------------
(* Properties.                                                             *)

\* However the fan-outs of a day overlap, one digest of the day reaches a user's device, and one more for each
\* time a failing Redis let a fan-out through.
OneDigestADay == \A u \in Users, d \in Devices : got[<<u, d>>] <= 1 + unmarked[u]

\* The mark is made before the digest is sent, and another fan-out skips a marked user; still the digest of a
\* fan-out that has listed a subscribed user arrives, unless a call failed, it was cut short or the process
\* restarted, the user or the browser left, or midnight came.
Expected(f, u, d) == /\ fan[f].daily /\ fan[f].day = day /\ u \in fan[f].todo
                     /\ d \in alive /\ <<u, d>> \in subs
DigestArrives ==
  \A f \in Fans, u \in Users, d \in Devices \cap Allowed :
    Expected(f, u, d) ~> got[<<u, d>>] > 0 \/ u \in trouble \/ d \notin alive
=============================================================================
