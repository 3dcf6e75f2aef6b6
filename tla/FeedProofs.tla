----------------------------- MODULE FeedProofs -----------------------------
(***************************************************************************)
(* What the daemon and the handlers promise a user, for every value of the  *)
(* constants.                                                               *)
(*                                                                         *)
(* Push: the digests of today that a device has got, and the goroutines     *)
(* that may still send it one, are together no more than the mark and the   *)
(* failures of Redis admit (WithinAdmitted).                                *)
(*                                                                         *)
(* Holdings: a history on its way to the cache has every edit committed, or *)
(* is excused (OvertakenIsExcused); a cached one has every edit answered    *)
(* and every edit that has deleted its key, or is excused                   *)
(* (CachedIsExcused).                                                       *)
(***************************************************************************)
EXTENDS Feed, CollectorProofs, FiniteSetTheorems

-----------------------------------------------------------------------------
(* Push: the invariant.                                                    *)

FanRec == [at : {"idle", "list", "next", "mark", "devices", "send"}, daily : BOOLEAN, day : P!Days,
           todo : SUBSET Users, user : SUBSET Users, devs : SUBSET Devices, cut : BOOLEAN]

\* A sending goroutine is at a user when it marks, lists his devices or sends, and at no other time.
AtOneUser(g) ==
  \/ g.at \in {"mark", "devices", "send"} /\ \E u \in Users : g.user = {u}
  \/ g.at \in {"idle", "list", "next"} /\ g.user = {}

\* The fan-outs of today that may yet send the digest to device d of user u.
MaySend(g, today, u, d) ==
  /\ g.daily /\ g.day = today /\ g.user = {u}
  /\ \/ g.at = "devices" /\ ~g.cut
     \/ g.at = "send" /\ d \in g.devs
Senders(table, today, u, d) == {f \in Fans : MaySend(table[f], today, u, d)}
Count(table, today, u, d) == Cardinality(Senders(table, today, u, d))

\* Today's mark admits one digest, and each failure of Redis one more.
Admitted(u) == (IF <<u, day>> \in marks THEN 1 ELSE 0) + unmarked[u]
WithinAdmitted ==
  \A u \in Users, d \in Devices : got[<<u, d>>] + Count(fan, day, u, d) <= Admitted(u)

\* The variables other than fan.
RestTyped ==
  /\ day \in P!Days /\ wants \subseteq Users /\ subs \subseteq Users \X Devices /\ alive \subseteq Devices
  /\ marks \subseteq Users \X P!Days /\ edits \in 0 .. MaxEdits /\ faults \in 0 .. MaxFaults
  /\ got \in [Users \X Devices -> Nat] /\ unmarked \in [Users -> Nat] /\ let \subseteq Users

PushInv ==
  /\ RestTyped /\ fan \in [Fans -> FanRec]
  /\ \A f \in Fans : AtOneUser(fan[f]) /\ fan[f].day <= day
  /\ WithinAdmitted

LEMMA PushTyped == PushInv => P!TypeOK
<1> SUFFICES ASSUME PushInv PROVE P!TypeOK
  OBVIOUS
<1>1. \A f \in Fans : fan[f].at \in {"mark", "devices", "send"} <=> \E u \in Users : fan[f].user = {u}
  BY DEF PushInv, AtOneUser
<1>2. fan \in [Fans -> FanRec] /\ RestTyped
  BY DEF PushInv
<1>3. QED
  BY <1>1, <1>2 DEF RestTyped, FanRec, P!TypeOK

-----------------------------------------------------------------------------
(* Push: counting the senders.                                             *)

\* A move of one goroutine changes the number of senders by one at most, and as it changes itself.
LEMMA SendersMove ==
  ASSUME NEW f \in Fans, NEW g \in FanRec, fan \in [Fans -> FanRec], NEW u \in Users, NEW d \in Devices
  PROVE  /\ Count(fan, day, u, d) \in Nat /\ Count([fan EXCEPT ![f] = g], day, u, d) \in Nat
         /\ Count([fan EXCEPT ![f] = g], day, u, d) <= Count(fan, day, u, d) + 1
         /\ (MaySend(g, day, u, d) => MaySend(fan[f], day, u, d))
              => Count([fan EXCEPT ![f] = g], day, u, d) <= Count(fan, day, u, d)
         /\ MaySend(fan[f], day, u, d) /\ ~MaySend(g, day, u, d)
              => Count([fan EXCEPT ![f] = g], day, u, d) = Count(fan, day, u, d) - 1
<1> DEFINE old == Senders(fan, day, u, d)
           new == Senders([fan EXCEPT ![f] = g], day, u, d)
           rest == old \ {f}
<1>1. /\ old = IF MaySend(fan[f], day, u, d) THEN rest \cup {f} ELSE rest
      /\ new = IF MaySend(g, day, u, d) THEN rest \cup {f} ELSE rest
      /\ f \notin rest /\ rest \subseteq Fans
  BY DEF Senders
<1> HIDE DEF old, new, rest
<1>2. IsFiniteSet(rest) /\ Cardinality(rest) \in Nat
  BY <1>1, FeedAssumption, FS_Subset, FS_CardinalityType
<1>3. Cardinality(rest \cup {f}) = Cardinality(rest) + 1
  BY <1>1, <1>2, FS_AddElement
<1>4. /\ Cardinality(old) = IF MaySend(fan[f], day, u, d) THEN Cardinality(rest) + 1 ELSE Cardinality(rest)
      /\ Cardinality(new) = IF MaySend(g, day, u, d) THEN Cardinality(rest) + 1 ELSE Cardinality(rest)
  BY <1>1, <1>3
<1>5. /\ Cardinality(old) \in Nat /\ Cardinality(new) \in Nat
      /\ Cardinality(new) <= Cardinality(old) + 1
      /\ (MaySend(g, day, u, d) => MaySend(fan[f], day, u, d)) => Cardinality(new) <= Cardinality(old)
      /\ MaySend(fan[f], day, u, d) /\ ~MaySend(g, day, u, d) => Cardinality(new) = Cardinality(old) - 1
  BY <1>2, <1>4
<1>6. QED
  BY <1>5 DEF old, new, Count

\* What a step of one goroutine may do to the digest of u on d: nothing that helps it, one more admission, or a
\* delivery that it was a sender of.
Accounted(g, f, u, d) ==
  \/ /\ got'[<<u, d>>] = got[<<u, d>>] /\ unmarked'[u] = unmarked[u]
     /\ MaySend(g, day, u, d) => MaySend(fan[f], day, u, d)
  \/ /\ got'[<<u, d>>] = got[<<u, d>>]
     /\ \/ <<u, day>> \notin marks /\ <<u, day>> \in marks' /\ unmarked'[u] = unmarked[u]
        \/ unmarked'[u] = unmarked[u] + 1
  \/ /\ got'[<<u, d>>] = got[<<u, d>>] + 1 /\ unmarked'[u] = unmarked[u]
     /\ MaySend(fan[f], day, u, d) /\ ~MaySend(g, day, u, d)

LEMMA FanMoves ==
  ASSUME PushInv, NEW f \in Fans, NEW g \in FanRec, fan' = [fan EXCEPT ![f] = g], AtOneUser(g), g.day <= day,
         RestTyped', day' = day, marks \subseteq marks',
         \A u \in Users, d \in Devices : Accounted(g, f, u, d)
  PROVE  PushInv'
<1>1. fan' \in [Fans -> FanRec] /\ \A h \in Fans : AtOneUser(fan'[h]) /\ fan'[h].day <= day'
  BY DEF PushInv
<1>2. ASSUME NEW u \in Users, NEW d \in Devices
      PROVE  got'[<<u, d>>] + Count(fan', day', u, d)
               <= (IF <<u, day'>> \in marks' THEN 1 ELSE 0) + unmarked'[u]
  <2> DEFINE old == Count(fan, day, u, d)
             new == Count(fan', day', u, d)
  <2>1. /\ old \in Nat /\ new \in Nat /\ new <= old + 1
        /\ (MaySend(g, day, u, d) => MaySend(fan[f], day, u, d)) => new <= old
        /\ MaySend(fan[f], day, u, d) /\ ~MaySend(g, day, u, d) => new = old - 1
    <3>1. fan \in [Fans -> FanRec] /\ new = Count([fan EXCEPT ![f] = g], day, u, d)
      BY DEF PushInv
    <3>2. /\ old \in Nat /\ Count([fan EXCEPT ![f] = g], day, u, d) \in Nat
          /\ Count([fan EXCEPT ![f] = g], day, u, d) <= old + 1
          /\ (MaySend(g, day, u, d) => MaySend(fan[f], day, u, d)) => Count([fan EXCEPT ![f] = g], day, u, d) <= old
          /\ MaySend(fan[f], day, u, d) /\ ~MaySend(g, day, u, d)
               => Count([fan EXCEPT ![f] = g], day, u, d) = old - 1
      BY <3>1, SendersMove
    <3> HIDE DEF new, old
    <3>3. QED
      BY <3>1, <3>2
  <2>2. got[<<u, d>>] + old <= (IF <<u, day>> \in marks THEN 1 ELSE 0) + unmarked[u]
    BY DEF PushInv, WithinAdmitted, Admitted
  <2>3. /\ got[<<u, d>>] \in Nat /\ got'[<<u, d>>] \in Nat /\ unmarked[u] \in Nat /\ unmarked'[u] \in Nat
        /\ <<u, day>> \in marks => <<u, day'>> \in marks'
    BY DEF PushInv, RestTyped
  <2>4. Accounted(g, f, u, d)
    OBVIOUS
  <2> HIDE DEF old, new
  <2>5. got'[<<u, d>>] + new <= (IF <<u, day'>> \in marks' THEN 1 ELSE 0) + unmarked'[u]
    BY <2>1, <2>2, <2>3, <2>4 DEF Accounted
  <2>6. QED
    BY <2>5 DEF new
<1>3. QED
  BY <1>1, <1>2 DEF PushInv, WithinAdmitted, Admitted

\* A step that sends nothing and does not make its goroutine a sender.
LEMMA FanRests ==
  ASSUME PushInv, NEW f \in Fans, NEW g \in FanRec, fan' = [fan EXCEPT ![f] = g], AtOneUser(g), g.day <= day,
         RestTyped', UNCHANGED <<day, marks, got, unmarked>>,
         \A u \in Users, d \in Devices : MaySend(g, day, u, d) => MaySend(fan[f], day, u, d)
  PROVE  PushInv'
BY FanMoves DEF Accounted

-----------------------------------------------------------------------------
(* Push: the steps.                                                        *)

LEMMA IdleFan ==
  /\ P!Idle \in FanRec /\ P!Idle.at = "idle" /\ ~P!Idle.daily /\ P!Idle.day = 1
  /\ P!Idle.user = {} /\ P!Idle.todo = {} /\ P!Idle.devs = {}
<1>1. 1 \in P!Days
  BY FeedAssumption DEF P!Days
<1>2. QED
  BY <1>1 DEF P!Idle, FanRec

\* What is known of a goroutine at any place.
LEMMA FanAt ==
  ASSUME PushInv, NEW f \in Fans
  PROVE  /\ fan[f] \in FanRec /\ AtOneUser(fan[f]) /\ fan[f].day <= day /\ 1 <= day
         /\ day \in Nat /\ fan[f].day \in Nat
         /\ fan[f].at \in {"mark", "devices", "send"} =>
              \A u \in fan[f].user : u \in Users /\ fan[f].user = {u}
BY FeedAssumption DEF PushInv, RestTyped, FanRec, AtOneUser, P!Days

LEMMA QuietTyped == PushInv /\ P!Quiet => RestTyped' /\ UNCHANGED <<day, marks, got, unmarked>>
BY DEF PushInv, P!Quiet, RestTyped

LEMMA FaultsTyped ==
  ASSUME PushInv, NEW f \in Fans, P!Succeeds(f) \/ P!Fails(f)
  PROVE  faults' \in 0 .. MaxFaults
BY FeedAssumption DEF PushInv, RestTyped, P!Succeeds, P!Fails, P!Fault

\* The end of a fan-out, and of a user's turn.
LEMMA ToIdle ==
  ASSUME PushInv, NEW f \in Fans, P!Set(f, P!Idle), RestTyped', UNCHANGED <<day, marks, got, unmarked>>
  PROVE  PushInv'
<1>1. AtOneUser(P!Idle) /\ P!Idle.day <= day /\ \A u, d : ~MaySend(P!Idle, day, u, d)
  BY IdleFan, FanAt DEF AtOneUser, MaySend
<1>2. QED
  BY <1>1, IdleFan, FanRests DEF P!Set

LEMMA ToNext ==
  ASSUME PushInv, NEW f \in Fans, P!Skip(f), RestTyped', day' = day, marks \subseteq marks', UNCHANGED <<got, unmarked>>
  PROVE  PushInv'
<1> DEFINE g == [fan[f] EXCEPT !.at = "next", !.user = {}, !.devs = {}]
<1>1. g \in FanRec /\ g.at = "next" /\ g.user = {} /\ g.day = fan[f].day
  BY FanAt DEF FanRec
<1>2. fan' = [fan EXCEPT ![f] = g]
  BY DEF P!Skip, P!Set
<1> HIDE DEF g
<1>3. AtOneUser(g) /\ g.day <= day /\ \A u, d : ~MaySend(g, day, u, d)
  BY <1>1, FanAt DEF AtOneUser, MaySend
<1>4. QED
  BY <1>1, <1>2, <1>3, FanMoves DEF Accounted

LEMMA StartDigestInv ==
  ASSUME PushInv, NEW f \in Fans, P!StartDigest(f)
  PROVE  PushInv'
<1> DEFINE g == [P!Idle EXCEPT !.at = "list", !.daily = TRUE]
<1>1. g \in FanRec /\ g.at = "list" /\ g.user = {} /\ g.day = 1
  BY IdleFan DEF FanRec
<1>2. fan' = [fan EXCEPT ![f] = g] /\ P!Quiet
  BY DEF P!StartDigest, P!Set
<1> HIDE DEF g
<1>3. AtOneUser(g) /\ g.day <= day /\ \A u, d : ~MaySend(g, day, u, d)
  BY <1>1, FanAt DEF AtOneUser, MaySend
<1>4. QED
  BY <1>1, <1>2, <1>3, QuietTyped, FanRests

LEMMA StartPushInv ==
  ASSUME PushInv, NEW f \in Fans, NEW u \in Users, P!StartPush(f, u)
  PROVE  PushInv'
<1> DEFINE g == [P!Idle EXCEPT !.at = "devices", !.user = {u}]
<1>1. g \in FanRec /\ g.at = "devices" /\ g.user = {u} /\ g.day = 1 /\ ~g.daily
  BY IdleFan DEF FanRec
<1>2. fan' = [fan EXCEPT ![f] = g] /\ P!Quiet
  BY DEF P!StartPush, P!Set
<1> HIDE DEF g
<1>3. AtOneUser(g) /\ g.day <= day /\ \A v, d : ~MaySend(g, day, v, d)
  BY <1>1, FanAt DEF AtOneUser, MaySend
<1>4. QED
  BY <1>1, <1>2, <1>3, QuietTyped, FanRests

LEMMA ListInv ==
  ASSUME PushInv, NEW f \in Fans, P!List(f)
  PROVE  PushInv'
<1>1. /\ fan[f].at = "list" /\ (P!Succeeds(f) \/ P!Fails(f))
      /\ UNCHANGED <<day, wants, subs, alive, marks, edits, got, unmarked>>
      /\ let' \in {let, Users}
  BY DEF P!List
<1>2. RestTyped'
  BY <1>1, FaultsTyped DEF PushInv, RestTyped
<1>3. CASE P!Set(f, P!Idle)
  BY <1>1, <1>2, <1>3, ToIdle
<1>4. CASE P!Set(f, [fan[f] EXCEPT !.at = "next", !.todo = P!Subscribers, !.day = day])
  <2> DEFINE g == [fan[f] EXCEPT !.at = "next", !.todo = P!Subscribers, !.day = day]
  <2>1. P!Subscribers \in SUBSET Users /\ day \in P!Days
    BY DEF P!Subscribers, PushInv, RestTyped
  <2>2. g \in FanRec /\ g.at = "next" /\ g.user = fan[f].user /\ g.day = day
    BY <2>1, FanAt DEF FanRec
  <2>3. fan' = [fan EXCEPT ![f] = g]
    BY <1>4 DEF P!Set
  <2> HIDE DEF g
  <2>4. AtOneUser(g) /\ g.day <= day /\ \A u, d : ~MaySend(g, day, u, d)
    BY <1>1, <2>2, FanAt DEF AtOneUser, MaySend
  <2>5. QED
    BY <1>1, <1>2, <2>2, <2>3, <2>4, FanRests
<1>5. QED
  BY <1>3, <1>4 DEF P!List

LEMMA TakeInv ==
  ASSUME PushInv, NEW f \in Fans, P!Take(f)
  PROVE  PushInv'
<1>1. fan[f].at = "next" /\ UNCHANGED <<day, wants, subs, alive, marks, edits, faults, got, unmarked>>
      /\ let' \in {let, let \cup fan[f].todo}
  BY DEF P!Take
<1>2. RestTyped' /\ fan[f].todo \subseteq Users
  BY <1>1, FanAt DEF PushInv, RestTyped, FanRec
<1>3. CASE P!Set(f, P!Idle)
  BY <1>1, <1>2, <1>3, ToIdle
<1>4. ASSUME NEW u \in fan[f].todo,
             P!Set(f, [fan[f] EXCEPT !.at = "mark", !.user = {u}, !.todo = fan[f].todo \ {u}])
      PROVE  PushInv'
  <2> DEFINE g == [fan[f] EXCEPT !.at = "mark", !.user = {u}, !.todo = fan[f].todo \ {u}]
  <2>1. u \in Users
    BY <1>2
  <2>2. g \in FanRec /\ g.at = "mark" /\ g.user = {u} /\ g.day = fan[f].day
    BY <1>2, <2>1, FanAt DEF FanRec
  <2>3. fan' = [fan EXCEPT ![f] = g]
    BY <1>4 DEF P!Set
  <2> HIDE DEF g
  <2>4. AtOneUser(g) /\ g.day <= day /\ \A v, d : ~MaySend(g, day, v, d)
    BY <2>1, <2>2, FanAt DEF AtOneUser, MaySend
  <2>5. QED
    BY <1>1, <1>2, <2>2, <2>3, <2>4, FanRests
<1>5. QED
  BY <1>3, <1>4 DEF P!Take

LEMMA LeaveInv ==
  ASSUME PushInv, NEW f \in Fans, P!Leave(f)
  PROVE  PushInv'
BY QuietTyped, ToIdle DEF P!Leave

\* MarkDigestSent: what lets a fan-out through is today's first mark, or a failure that is counted.
LEMMA MarkInv ==
  ASSUME PushInv, NEW f \in Fans, P!Mark(f)
  PROVE  PushInv'
<1> DEFINE t == fan[f].day
           g == [fan[f] EXCEPT !.at = "devices"]
<1>1. fan[f].at = "mark" /\ UNCHANGED <<day, wants, subs, alive, edits, got, let>> /\ t \in P!Days
  BY FanAt DEF P!Mark, FanRec
<1>2. g \in FanRec /\ g.at = "devices" /\ g.user = fan[f].user /\ g.day = t /\ g.cut = fan[f].cut
  BY FanAt DEF FanRec
<1>3. AtOneUser(g) /\ g.day <= day
  BY <1>1, <1>2, FanAt DEF AtOneUser
<1>4. PICK u \in fan[f].user :
        \/ /\ P!Succeeds(f)
           /\ IF P!NewlyMarked(u, t) THEN P!Set(f, g) ELSE P!Skip(f)
           /\ marks' = marks \cup {<<u, t>>} /\ unmarked' = unmarked
        \/ /\ P!Fails(f) /\ P!Set(f, g) /\ marks' \in {marks, marks \cup {<<u, t>>}}
           /\ unmarked' = IF t = day /\ ~fan[f].cut THEN [unmarked EXCEPT ![u] = unmarked[u] + 1] ELSE unmarked
  BY DEF P!Mark, P!FailOpen
<1> HIDE DEF g, t
<1>5. u \in Users /\ fan[f].user = {u}
  BY <1>1, FanAt
<1>6. RestTyped' /\ marks \subseteq marks'
  <2>1. faults' \in 0 .. MaxFaults
    BY <1>4, FaultsTyped
  <2>2. unmarked' \in [Users -> Nat]
    BY <1>4, <1>5 DEF PushInv, RestTyped
  <2>3. QED
    BY <1>1, <1>4, <1>5, <2>1, <2>2 DEF PushInv, RestTyped
<1>7. CASE P!Skip(f) /\ unmarked' = unmarked
  BY <1>1, <1>6, <1>7, ToNext
<1>8. CASE P!Set(f, g)
  <2>1. fan' = [fan EXCEPT ![f] = g]
    BY <1>8 DEF P!Set
  <2>2. \A v \in Users, d \in Devices : MaySend(g, day, v, d) => v = u /\ t = day /\ ~fan[f].cut
    BY <1>2, <1>5 DEF MaySend
  <2>3. \A v \in Users : v # u => unmarked'[v] = unmarked[v]
    BY <1>4 DEF PushInv, RestTyped
  <2>4. t = day /\ ~fan[f].cut =>
          \/ <<u, day>> \notin marks /\ <<u, day>> \in marks' /\ unmarked'[u] = unmarked[u]
          \/ unmarked'[u] = unmarked[u] + 1
          \/ ~P!Set(f, g) \/ P!Skip(f)
    BY <1>4, <1>5 DEF PushInv, RestTyped, P!NewlyMarked
  <2>5. ~P!Skip(f)
    <3>1. P!Skip(f) => fan'[f].at = "next"
      BY FanAt DEF P!Skip, P!Set, PushInv, FanRec
    <3>2. fan'[f].at = "devices"
      BY <1>2, <2>1 DEF PushInv
    <3>3. QED
      BY <3>1, <3>2
  <2>6. ~(t = day /\ ~fan[f].cut) => unmarked' = unmarked
    BY <1>4
  <2>7. ASSUME NEW v \in Users, NEW d \in Devices PROVE Accounted(g, f, v, d)
    BY <1>1, <1>8, <2>2, <2>3, <2>4, <2>5, <2>6 DEF Accounted
  <2>8. QED
    BY <1>1, <1>2, <1>3, <1>6, <2>1, <2>7, FanMoves
<1>9. QED
  BY <1>4, <1>7, <1>8

LEMMA ListDevicesInv ==
  ASSUME PushInv, NEW f \in Fans, P!ListDevices(f)
  PROVE  PushInv'
<1>1. PICK u \in fan[f].user :
        \/ /\ P!Succeeds(f) /\ let' = let
           /\ P!Set(f, [fan[f] EXCEPT !.at = "send", !.devs = {d \in Devices : <<u, d>> \in subs /\ P!ValidateEndpoint(d)}])
        \/ P!Fails(f) /\ P!Skip(f) /\ let' = let \cup {u}
  BY DEF P!ListDevices
<1>2. fan[f].at = "devices" /\ UNCHANGED <<day, wants, subs, alive, marks, edits, got, unmarked>>
  BY DEF P!ListDevices
<1>3. u \in Users /\ fan[f].user = {u}
  BY <1>2, FanAt
<1>4. RestTyped'
  BY <1>1, <1>2, <1>3, FaultsTyped DEF PushInv, RestTyped
<1>5. CASE P!Skip(f)
  BY <1>2, <1>4, <1>5, ToNext
<1>6. CASE P!Succeeds(f) /\ ~P!Skip(f)
  <2> DEFINE g == [fan[f] EXCEPT !.at = "send",
                                 !.devs = {d \in Devices : <<u, d>> \in subs /\ P!ValidateEndpoint(d)}]
  <2>1. /\ g \in FanRec /\ g.at = "send" /\ g.user = fan[f].user /\ g.day = fan[f].day
        /\ g.daily = fan[f].daily
    BY FanAt DEF FanRec
  <2>2. fan' = [fan EXCEPT ![f] = g]
    BY <1>1, <1>6 DEF P!Set
  <2> HIDE DEF g
  <2>3. AtOneUser(g) /\ g.day <= day
    BY <1>2, <2>1, FanAt DEF AtOneUser
  <2>4. \A v \in Users, d \in Devices : MaySend(g, day, v, d) => MaySend(fan[f], day, v, d)
    BY <1>2, <1>6, <2>1 DEF MaySend, P!Succeeds
  <2>5. QED
    BY <1>2, <1>4, <2>1, <2>2, <2>3, <2>4, FanRests
<1>7. QED
  BY <1>1, <1>5, <1>6

\* A delivery of today's digest is of one who was about to send it, and is no more.
LEMMA SendInv ==
  ASSUME PushInv, NEW f \in Fans, NEW d \in Devices, P!Send(f, d)
  PROVE  PushInv'
<1> DEFINE g == [fan[f] EXCEPT !.devs = fan[f].devs \ {d}]
<1>1. PICK u \in fan[f].user :
        /\ P!Succeeds(f) \/ P!Fails(f)
        /\ got' \in {got, P!Delivered(u, d, f)} /\ let' \in {let, let \cup {u}} /\ subs' \subseteq subs
  BY DEF P!Send, P!Pruned
<1>2. /\ fan[f].at = "send" /\ d \in fan[f].devs /\ fan' = [fan EXCEPT ![f] = g]
      /\ UNCHANGED <<day, wants, alive, marks, edits, unmarked>>
  BY DEF P!Send, P!Set
<1>3. u \in Users /\ fan[f].user = {u}
  BY <1>2, FanAt
<1>4. /\ g \in FanRec /\ g.at = fan[f].at /\ g.user = fan[f].user /\ g.day = fan[f].day
      /\ g.daily = fan[f].daily /\ g.devs = fan[f].devs \ {d}
  BY FanAt DEF FanRec
<1> HIDE DEF g
<1>5. AtOneUser(g) /\ g.day <= day
  BY <1>2, <1>4, FanAt DEF AtOneUser
<1>6. got' \in [Users \X Devices -> Nat]
  BY <1>1, <1>3 DEF PushInv, RestTyped, P!Delivered
<1>7. RestTyped'
  BY <1>1, <1>2, <1>3, <1>6, FaultsTyped DEF PushInv, RestTyped
<1>8. ASSUME NEW v \in Users, NEW x \in Devices PROVE Accounted(g, f, v, x)
  <2>1. MaySend(g, day, v, x) => MaySend(fan[f], day, v, x)
    BY <1>2, <1>4 DEF MaySend
  <2>2. CASE got' = got \/ v # u \/ x # d
    <3>1. got'[<<v, x>>] = got[<<v, x>>]
      BY <1>1, <1>3, <2>2 DEF PushInv, RestTyped, P!Delivered
    <3>2. QED
      BY <1>2, <2>1, <3>1 DEF Accounted
  <2>3. CASE got' # got /\ v = u /\ x = d
    <3>1. fan[f].daily /\ fan[f].day = day /\ got'[<<u, d>>] = got[<<u, d>>] + 1
      BY <1>1, <1>3, <2>3 DEF PushInv, RestTyped, P!Delivered
    <3>2. MaySend(fan[f], day, u, d) /\ ~MaySend(g, day, u, d)
      BY <1>2, <1>3, <1>4, <3>1 DEF MaySend
    <3>3. QED
      BY <1>2, <2>3, <3>1, <3>2 DEF Accounted
  <2>4. QED
    BY <2>2, <2>3
<1>9. QED
  BY <1>2, <1>4, <1>5, <1>7, <1>8, FanMoves

LEMMA SentInv ==
  ASSUME PushInv, NEW f \in Fans, P!Sent(f)
  PROVE  PushInv'
BY QuietTyped, ToNext DEF P!Sent

LEMMA CutInv ==
  ASSUME PushInv, NEW f \in Fans, P!Cut(f)
  PROVE  PushInv'
<1> DEFINE g == [fan[f] EXCEPT !.cut = TRUE]
<1>1. /\ g \in FanRec /\ g.at = fan[f].at /\ g.user = fan[f].user /\ g.day = fan[f].day
      /\ g.daily = fan[f].daily /\ g.devs = fan[f].devs /\ g.cut
  BY FanAt DEF FanRec
<1>2. /\ fan' = [fan EXCEPT ![f] = g] /\ P!Fault
      /\ UNCHANGED <<day, wants, subs, alive, marks, edits, got, unmarked, let>>
  BY DEF P!Cut, P!Set
<1> HIDE DEF g
<1>3. RestTyped'
  BY <1>2, FeedAssumption DEF PushInv, RestTyped, P!Fault
<1>4. AtOneUser(g) /\ g.day <= day
  BY <1>1, FanAt DEF AtOneUser
<1>5. \A v \in Users, d \in Devices : MaySend(g, day, v, d) => MaySend(fan[f], day, v, d)
  BY <1>1 DEF MaySend
<1>6. QED
  BY <1>1, <1>2, <1>3, <1>4, <1>5, FanRests

\* The steps of the users, the browsers and the push services move no digest.
LEMMA NobodySends ==
  ASSUME PushInv, RestTyped', UNCHANGED <<fan, day, marks, got, unmarked>>
  PROVE  PushInv'
BY DEF PushInv, WithinAdmitted, Admitted

LEMMA EditsInv ==
  ASSUME PushInv, NEW u \in Users,
         P!Choose(u) \/ \E d \in Devices : P!Subscribe(u, d) \/ P!Unsubscribe(u, d)
  PROVE  PushInv'
<1>1. edits' \in 0 .. MaxEdits
  BY FeedAssumption DEF PushInv, RestTyped, P!Choose, P!Subscribe, P!Unsubscribe, P!Edit
<1>2. /\ wants' \subseteq Users /\ subs' \subseteq Users \X Devices /\ alive' = alive /\ let' \subseteq Users
      /\ UNCHANGED <<fan, day, marks, faults, got, unmarked>>
  BY DEF PushInv, RestTyped, P!Choose, P!Subscribe, P!Unsubscribe
<1>3. RestTyped'
  BY <1>1, <1>2 DEF PushInv, RestTyped
<1>4. QED
  BY <1>2, <1>3, NobodySends

\* Without a sender nothing can be sent.
LEMMA NoSenders ==
  ASSUME NEW table, NEW today, NEW u, NEW d, \A f \in Fans : ~MaySend(table[f], today, u, d)
  PROVE  Count(table, today, u, d) = 0
<1>1. Senders(table, today, u, d) = {}
  BY DEF Senders
<1>2. QED
  BY <1>1, FS_EmptySet DEF Count

\* The fan-outs of yesterday do not send for today.
LEMMA MidnightInv ==
  ASSUME PushInv, P!Midnight
  PROVE  PushInv'
<1>1. /\ day \in P!Days /\ day < LastUTCDay /\ day' = day + 1
      /\ marks' \subseteq marks /\ let' = UNION {fan[f].todo \cup fan[f].user : f \in Fans}
      /\ got' = [x \in Users \X Devices |-> 0] /\ unmarked' = [u \in Users |-> 0]
      /\ UNCHANGED <<wants, subs, alive, fan, edits, faults>>
  BY DEF P!Midnight, PushInv, RestTyped
<1>2. \A f \in Fans : fan[f].day \in Nat /\ fan[f].day <= day /\ fan[f].todo \subseteq Users /\ fan[f].user \subseteq Users
  BY DEF PushInv, FanRec, P!Days
<1>3. let' \subseteq Users
  BY <1>1, <1>2
<1>4. RestTyped' /\ day \in Nat
  BY <1>1, <1>3, FeedAssumption DEF PushInv, RestTyped, P!Days
<1>5. \A f \in Fans : AtOneUser(fan'[f]) /\ fan'[f].day <= day' /\ fan'[f].day # day'
  BY <1>1, <1>2, <1>4 DEF PushInv
<1>6. \A u \in Users, d \in Devices : Count(fan', day', u, d) = 0
  BY <1>5, NoSenders DEF MaySend
<1>7. \A u \in Users, d \in Devices : got'[<<u, d>>] + Count(fan', day', u, d)
        <= (IF <<u, day'>> \in marks' THEN 1 ELSE 0) + unmarked'[u]
  BY <1>1, <1>6
<1>8. QED
  BY <1>1, <1>4, <1>5, <1>7 DEF PushInv, WithinAdmitted, Admitted

LEMMA RestartInv ==
  ASSUME PushInv, P!Restart
  PROVE  PushInv'
<1>1. /\ fan' = [f \in Fans |-> P!Idle] /\ P!Fault /\ let' \in {let, Users}
      /\ UNCHANGED <<day, wants, subs, alive, marks, edits, got, unmarked>>
  BY DEF P!Restart
<1>2. RestTyped'
  BY <1>1, FeedAssumption DEF PushInv, RestTyped, P!Fault
<1>3. 1 <= day /\ day \in Nat
  BY FeedAssumption DEF PushInv, RestTyped, P!Days
<1>4. fan' \in [Fans -> FanRec] /\ \A f \in Fans : AtOneUser(fan'[f]) /\ fan'[f].day <= day'
  BY <1>1, <1>3, IdleFan DEF AtOneUser
<1>5. \A u \in Users, d \in Devices : Count(fan', day', u, d) = 0
  BY <1>1, IdleFan, NoSenders DEF MaySend
<1>6. ASSUME NEW u \in Users, NEW d \in Devices
      PROVE  got'[<<u, d>>] + Count(fan', day', u, d) <= (IF <<u, day'>> \in marks' THEN 1 ELSE 0) + unmarked'[u]
  <2>1. got[<<u, d>>] + Count(fan, day, u, d) <= (IF <<u, day>> \in marks THEN 1 ELSE 0) + unmarked[u]
    BY DEF PushInv, WithinAdmitted, Admitted
  <2>2. Count(fan, day, u, d) \in Nat
    <3>1. Senders(fan, day, u, d) \subseteq Fans
      BY DEF Senders
    <3>2. QED
      BY <3>1, FeedAssumption, FS_Subset, FS_CardinalityType DEF Count
  <2>3. got[<<u, d>>] \in Nat /\ unmarked[u] \in Nat
    BY DEF PushInv, RestTyped
  <2>4. QED
    BY <1>1, <1>5, <2>1, <2>2, <2>3
<1>7. QED
  BY <1>2, <1>4, <1>6 DEF PushInv, WithinAdmitted, Admitted

LEMMA PushInit == P!Init => PushInv
<1> SUFFICES ASSUME P!Init PROVE PushInv
  OBVIOUS
<1>1. 1 \in P!Days /\ 0 \in 0 .. MaxEdits /\ 0 \in 0 .. MaxFaults
  BY FeedAssumption DEF P!Days
<1>2. RestTyped
  BY <1>1 DEF P!Init, RestTyped
<1>3. fan \in [Fans -> FanRec] /\ \A f \in Fans : AtOneUser(fan[f]) /\ fan[f].day <= day
  BY IdleFan DEF P!Init, AtOneUser
<1>4. \A u \in Users, d \in Devices : Count(fan, day, u, d) = 0
  BY IdleFan, NoSenders DEF P!Init, MaySend
<1>5. WithinAdmitted
  BY <1>4 DEF P!Init, WithinAdmitted, Admitted
<1>6. QED
  BY <1>2, <1>3, <1>5 DEF PushInv

LEMMA PushNext == PushInv /\ [P!Next]_(P!vars) => PushInv'
<1> SUFFICES ASSUME PushInv, [P!Next]_(P!vars) PROVE PushInv'
  OBVIOUS
<1>1. CASE UNCHANGED P!vars
  <2>1. RestTyped' /\ UNCHANGED <<fan, day, marks, got, unmarked>>
    BY <1>1 DEF P!vars, PushInv, RestTyped
  <2>2. QED
    BY <2>1, NobodySends
<1>2. ASSUME NEW f \in Fans, P!Work(f) PROVE PushInv'
  BY <1>2, ListInv, TakeInv, LeaveInv, MarkInv, ListDevicesInv, SentInv, SendInv DEF P!Work
<1>3. ASSUME NEW f \in Fans, P!StartDigest(f) \/ P!Cut(f) \/ \E u \in Users : P!StartPush(f, u) PROVE PushInv'
  BY <1>3, StartDigestInv, CutInv, StartPushInv
<1>4. ASSUME NEW u \in Users, P!Choose(u) \/ \E d \in Devices : P!Subscribe(u, d) \/ P!Unsubscribe(u, d) PROVE PushInv'
  BY <1>4, EditsInv
<1>5. ASSUME NEW d \in Devices, P!Revoke(d) PROVE PushInv'
  <2>1. RestTyped' /\ UNCHANGED <<fan, day, marks, got, unmarked>>
    BY <1>5 DEF P!Revoke, PushInv, RestTyped
  <2>2. QED
    BY <2>1, NobodySends
<1>6. QED
  BY <1>1, <1>2, <1>3, <1>4, <1>5, MidnightInv, RestartInv DEF P!Next

\* However many fan-outs of a day overlap, for any users, devices, failures and restarts: a device receives one digest of
\* the day, and one more for each time a failing Redis let a fan-out through (MarkDigestSent, SendWatchListDigest).
THEOREM DigestOncePerDay == P!Spec => []OneDigestADay
<1>1. ASSUME PushInv, NEW u \in Users, NEW d \in Devices PROVE got[<<u, d>>] <= 1 + unmarked[u]
  <2>1. got[<<u, d>>] + Count(fan, day, u, d) <= (IF <<u, day>> \in marks THEN 1 ELSE 0) + unmarked[u]
    BY <1>1 DEF PushInv, WithinAdmitted, Admitted
  <2>2. Senders(fan, day, u, d) \subseteq Fans
    BY DEF Senders
  <2>3. Count(fan, day, u, d) \in Nat
    BY <2>2, FeedAssumption, FS_Subset, FS_CardinalityType DEF Count
  <2>4. got[<<u, d>>] \in Nat /\ unmarked[u] \in Nat
    BY <1>1 DEF PushInv, RestTyped
  <2>5. QED
    BY <2>1, <2>3, <2>4
<1>2. PushInv => OneDigestADay
  BY <1>1 DEF OneDigestADay, P!OneDigestADay
<1>3. QED
  BY <1>2, PushInit, PushNext, PTL DEF P!Spec

-----------------------------------------------------------------------------
(* Holdings: the invariant.                                                *)

Versions == 0 .. MaxVersion
EditRec == [at : {"idle", "invalidate"}, as : Versions, todo : SUBSET Windows]
FlightRec == [at : {"none", "list", "bars"}, val : Versions \cup {H!None}]
ReadRec == [at : {"idle", "wait"}, window : Windows, seen : Versions, val : Versions \cup {H!None}]

HistoryTyped ==
  /\ version \in Versions /\ owns \in BOOLEAN /\ answered \in 0 .. version
  /\ edit \in [Editors -> EditRec] /\ cache \in [Windows -> Versions \cup {H!None}]
  /\ flight \in [Windows -> FlightRec] /\ read \in [Readers -> ReadRec]
  /\ stores \subseteq Windows \X Versions /\ excused \subseteq Windows \X Versions

\* What is on its way to the cache without the latest edit was excused when that edit was committed.
OvertakenIsExcused ==
  /\ \A w \in Windows, v \in Versions : <<w, v>> \in stores /\ v < version => <<w, v>> \in excused
  /\ \A w \in Windows : flight[w].at = "bars" =>
       flight[w].val \in Versions /\ (flight[w].val < version => <<w, flight[w].val>> \in excused)

\* A cached history without an answered edit is excused, and so is one without an edit that has deleted its key.
CachedIsExcused ==
  \A w \in Windows : cache[w] # H!None =>
    /\ cache[w] < answered => <<w, cache[w]>> \in excused
    /\ \A e \in Editors : edit[e].at = "invalidate" /\ w \notin edit[e].todo /\ cache[w] < edit[e].as
                            => <<w, cache[w]>> \in excused

\* The edits in progress were committed, and a reader has seen no edit that was not answered.
Committed == /\ \A e \in Editors : edit[e].as <= version
             /\ \A r \in Readers : read[r].seen <= answered

HoldingsInv == HistoryTyped /\ OvertakenIsExcused /\ CachedIsExcused /\ Committed /\ StaleHistoryIsExplained

LEMMA HoldingsTyped == HoldingsInv => H!TypeOK
BY DEF HoldingsInv, HistoryTyped, H!TypeOK, H!Versions, H!Copies, Versions, EditRec, FlightRec, ReadRec

LEMMA HoldingsInit == H!Init => HoldingsInv
<1> SUFFICES ASSUME H!Init PROVE HoldingsInv
  OBVIOUS
<1>1. 0 \in Versions /\ H!None = -1
  BY FeedAssumption DEF Versions, H!None
<1>2. HistoryTyped
  <2>1. H!NoEdit \in EditRec /\ H!NoFlight \in FlightRec
    BY <1>1 DEF H!NoEdit, H!NoFlight, EditRec, FlightRec
  <2>2. \A w \in Windows : H!Resting(w) \in ReadRec
    BY <1>1 DEF H!Resting, ReadRec
  <2>3. QED
    BY <1>1, <2>1, <2>2 DEF H!Init, HistoryTyped
<1>3. OvertakenIsExcused /\ CachedIsExcused /\ Committed /\ StaleHistoryIsExplained
  BY <1>1 DEF H!Init, H!NoEdit, H!NoFlight, H!Resting, OvertakenIsExcused, CachedIsExcused, Committed,
              StaleHistoryIsExplained, H!StaleHistoryIsExplained, H!None
<1>4. QED
  BY <1>2, <1>3 DEF HoldingsInv

-----------------------------------------------------------------------------
(* Holdings: the edits.                                                    *)

LEMMA CommitHolds ==
  ASSUME HoldingsInv, NEW e \in Editors, NEW left \in BOOLEAN, H!Commit(e, left)
  PROVE  HoldingsInv'
<1> DEFINE g == [at |-> "invalidate", as |-> version + 1, todo |-> Windows]
<1>1. /\ version \in Versions /\ answered \in 0 .. version
      /\ edit \in [Editors -> EditRec] /\ cache \in [Windows -> Versions \cup {H!None}]
      /\ flight \in [Windows -> FlightRec] /\ read \in [Readers -> ReadRec]
      /\ stores \subseteq Windows \X Versions /\ excused \subseteq Windows \X Versions
  BY DEF HoldingsInv, HistoryTyped
<1>2. /\ version' = version + 1 /\ owns' = left /\ edit' = [edit EXCEPT ![e] = g]
      /\ UNCHANGED <<answered, cache, flight, stores, read>>
  BY DEF H!Commit
<1>3. version' \in Versions /\ answered' \in 0 .. version' /\ g \in EditRec
  BY <1>1, <1>2, FeedAssumption DEF H!Commit, Versions, EditRec
<1> DEFINE overtaken == UNION {{x} \X H!InFlight(x) : x \in Windows}
<1>4. excused' = excused \cup overtaken
  BY DEF H!Commit
<1>5. \A w \in Windows, v \in Versions :
        v \in H!InFlight(w) <=> <<w, v>> \in stores \/ (flight[w].at = "bars" /\ flight[w].val = v)
  BY DEF H!InFlight, H!Versions, Versions
<1>6. \A w \in Windows : H!InFlight(w) \subseteq Versions
  BY DEF H!InFlight, H!Versions, Versions
<1>7. overtaken \subseteq Windows \X Versions
  BY <1>6
<1>8. \A w \in Windows, v \in Versions : v \in H!InFlight(w) => <<w, v>> \in overtaken
  OBVIOUS
<1> HIDE DEF overtaken
<1>9. \A w \in Windows, v \in Versions :
        <<w, v>> \in stores \/ (flight[w].at = "bars" /\ flight[w].val = v) => <<w, v>> \in excused'
  BY <1>4, <1>5, <1>8
<1>10. excused' \subseteq Windows \X Versions /\ excused \subseteq excused'
  BY <1>1, <1>4, <1>7
<1>11. HistoryTyped'
  BY <1>1, <1>2, <1>3, <1>10 DEF HistoryTyped
<1>12. OvertakenIsExcused'
  BY <1>2, <1>9 DEF HoldingsInv, OvertakenIsExcused
<1>13. CachedIsExcused'
  BY <1>1, <1>2, <1>10 DEF HoldingsInv, CachedIsExcused
<1>14. Committed'
  <2>1. version \in Int /\ \A x \in Editors : edit[x].as \in Int
    BY <1>1 DEF EditRec, Versions
  <2>2. \A x \in Editors : edit'[x].as <= version'
    BY <1>1, <1>2, <2>1 DEF HoldingsInv, Committed
  <2>3. QED
    BY <1>2, <2>2 DEF HoldingsInv, Committed
<1>15. StaleHistoryIsExplained'
  BY <1>2, <1>10 DEF HoldingsInv, StaleHistoryIsExplained, H!StaleHistoryIsExplained
<1>16. QED
  BY <1>11, <1>12, <1>13, <1>14, <1>15 DEF HoldingsInv

LEMMA InvalidateHolds ==
  ASSUME HoldingsInv, NEW e \in Editors, NEW w \in Windows, H!Invalidate(e, w)
  PROVE  HoldingsInv'
<1> DEFINE g == [edit[e] EXCEPT !.todo = edit[e].todo \ {w}]
<1>1. /\ edit \in [Editors -> EditRec] /\ cache \in [Windows -> Versions \cup {H!None}]
  BY DEF HoldingsInv, HistoryTyped
<1>2. /\ edit' = [edit EXCEPT ![e] = g] /\ cache' = [cache EXCEPT ![w] = H!None]
      /\ UNCHANGED <<version, owns, answered, flight, stores, read, excused>>
  BY DEF H!Invalidate, H!Forget
<1>3. g \in EditRec /\ g.at = edit[e].at /\ g.as = edit[e].as /\ g.todo = edit[e].todo \ {w}
  BY <1>1 DEF EditRec
<1> HIDE DEF g
<1>4. HistoryTyped'
  BY <1>1, <1>2, <1>3 DEF HoldingsInv, HistoryTyped
<1>5. CachedIsExcused'
  BY <1>1, <1>2, <1>3 DEF HoldingsInv, CachedIsExcused
<1>6. OvertakenIsExcused' /\ StaleHistoryIsExplained'
  BY <1>2 DEF HoldingsInv, OvertakenIsExcused, StaleHistoryIsExplained, H!StaleHistoryIsExplained
<1>7. Committed'
  BY <1>1, <1>2, <1>3 DEF HoldingsInv, Committed
<1>8. QED
  BY <1>4, <1>5, <1>6, <1>7 DEF HoldingsInv

\* The keys that an answered edit leaves behind are excused; the others hold nothing that is not.
LEMMA ReplyHolds ==
  ASSUME HoldingsInv, NEW e \in Editors, H!Reply(e)
  PROVE  HoldingsInv'
<1>1. /\ version \in Versions /\ answered \in 0 .. version
      /\ edit \in [Editors -> EditRec] /\ cache \in [Windows -> Versions \cup {H!None}]
      /\ read \in [Readers -> ReadRec]
      /\ excused \subseteq Windows \X Versions
  BY DEF HoldingsInv, HistoryTyped
<1>2. /\ edit' = [edit EXCEPT ![e] = H!NoEdit] /\ edit[e].at = "invalidate"
      /\ answered' = IF edit[e].as > answered THEN edit[e].as ELSE answered
      /\ UNCHANGED <<version, owns, cache, flight, stores, read>>
  BY DEF H!Reply
<1>3. H!NoEdit \in EditRec /\ H!NoEdit.at = "idle" /\ H!NoEdit.as = 0
  <2>1. 0 \in Versions
    BY FeedAssumption DEF Versions
  <2>2. QED
    BY <2>1 DEF H!NoEdit, EditRec
<1>4. /\ \A w \in Windows : cache[w] # H!None /\ w \in edit[e].todo => <<w, cache[w]>> \in excused'
      /\ excused \subseteq excused' /\ excused' \subseteq Windows \X Versions
  BY <1>1 DEF H!Reply, H!Left
<1>5. edit[e].as \in Nat /\ edit[e].as <= version /\ version \in Nat /\ answered \in Nat /\ answered <= version
  BY <1>1 DEF HoldingsInv, Committed, EditRec, Versions
<1>6. answered' \in 0 .. version' /\ answered <= answered'
  BY <1>2, <1>5
<1>7. HistoryTyped'
  BY <1>1, <1>2, <1>3, <1>4, <1>6 DEF HoldingsInv, HistoryTyped
<1>8. CachedIsExcused'
  <2> SUFFICES ASSUME NEW w \in Windows, cache[w] # H!None
               PROVE  /\ cache[w] < answered' => <<w, cache[w]>> \in excused'
                      /\ \A x \in Editors : edit'[x].at = "invalidate" /\ w \notin edit'[x].todo
                                            /\ cache[w] < edit'[x].as => <<w, cache[w]>> \in excused'
    BY <1>2 DEF CachedIsExcused
  <2>1. /\ cache[w] < answered => <<w, cache[w]>> \in excused
        /\ \A x \in Editors : edit[x].at = "invalidate" /\ w \notin edit[x].todo /\ cache[w] < edit[x].as
                                => <<w, cache[w]>> \in excused
    BY DEF HoldingsInv, CachedIsExcused
  <2>2. cache[w] < edit[e].as => <<w, cache[w]>> \in excused'
    BY <1>2, <1>4, <2>1
  <2>3. cache[w] < answered' => <<w, cache[w]>> \in excused'
    BY <1>2, <1>4, <2>1, <2>2
  <2>4. \A x \in Editors : edit'[x].at = "invalidate" => edit'[x] = edit[x]
    BY <1>1, <1>2, <1>3
  <2>5. QED
    BY <1>4, <2>1, <2>3, <2>4
<1>9. OvertakenIsExcused' /\ StaleHistoryIsExplained'
  BY <1>2, <1>4 DEF HoldingsInv, OvertakenIsExcused, StaleHistoryIsExplained, H!StaleHistoryIsExplained
<1>10. Committed'
  <2>1. \A r \in Readers : read[r].seen \in Nat /\ read[r].seen <= answered
    BY <1>1 DEF HoldingsInv, Committed, ReadRec, Versions
  <2>2. \A r \in Readers : read[r].seen <= answered'
    BY <1>5, <1>6, <2>1, <1>2
  <2>3. \A x \in Editors : edit'[x].as <= version'
    BY <1>1, <1>2, <1>3, <1>5 DEF HoldingsInv, Committed
  <2>4. QED
    BY <1>2, <2>2, <2>3 DEF Committed
<1>11. QED
  BY <1>7, <1>8, <1>9, <1>10 DEF HoldingsInv

-----------------------------------------------------------------------------
(* Holdings: the reads.                                                    *)

LEMMA HitHolds ==
  ASSUME HoldingsInv, NEW r \in Readers, NEW w \in Windows, H!Hit(r, w)
  PROVE  HoldingsInv'
<1> DEFINE g == [at |-> "idle", window |-> w, seen |-> answered, val |-> cache[w]]
<1>1. /\ version \in Versions /\ answered \in 0 .. version
      /\ cache \in [Windows -> Versions \cup {H!None}] /\ read \in [Readers -> ReadRec]
  BY DEF HoldingsInv, HistoryTyped
<1>2. /\ read' = [read EXCEPT ![r] = g] /\ cache[w] # H!None
      /\ UNCHANGED <<version, owns, edit, answered, cache, flight, stores, excused>>
  BY DEF H!Hit
<1>3. answered \in Versions
  BY <1>1, FeedAssumption DEF Versions
<1>4. g \in ReadRec /\ g.window = w /\ g.seen = answered /\ g.val = cache[w]
  BY <1>1, <1>3 DEF ReadRec
<1>5. cache[w] < answered => <<w, cache[w]>> \in excused
  BY <1>2 DEF HoldingsInv, CachedIsExcused
<1> HIDE DEF g
<1>6. HistoryTyped'
  BY <1>1, <1>2, <1>4 DEF HoldingsInv, HistoryTyped
<1>7. OvertakenIsExcused' /\ CachedIsExcused'
  BY <1>2 DEF HoldingsInv, OvertakenIsExcused, CachedIsExcused
<1>8. Committed'
  <2>1. answered <= answered
    BY <1>1
  <2>2. QED
    BY <1>1, <1>2, <1>4, <2>1 DEF HoldingsInv, Committed
<1>9. StaleHistoryIsExplained'
  BY <1>1, <1>2, <1>4, <1>5 DEF HoldingsInv, StaleHistoryIsExplained, H!StaleHistoryIsExplained
<1>10. QED
  BY <1>6, <1>7, <1>8, <1>9 DEF HoldingsInv

LEMMA MissHolds ==
  ASSUME HoldingsInv, NEW r \in Readers, NEW w \in Windows, H!Miss(r, w)
  PROVE  HoldingsInv'
<1> DEFINE g == [at |-> "wait", window |-> w, seen |-> answered, val |-> H!None]
           h == IF flight[w].at = "none" THEN [at |-> "list", val |-> H!None] ELSE flight[w]
<1>1. /\ version \in Versions /\ answered \in 0 .. version
      /\ flight \in [Windows -> FlightRec] /\ read \in [Readers -> ReadRec]
  BY DEF HoldingsInv, HistoryTyped
<1>2. /\ read' = [read EXCEPT ![r] = g] /\ flight' = [flight EXCEPT ![w] = h]
      /\ UNCHANGED <<version, owns, edit, answered, cache, stores, excused>>
  BY DEF H!Miss
<1>3. answered \in Versions
  BY <1>1, FeedAssumption DEF Versions
<1>4. g \in ReadRec /\ g.seen = answered /\ g.val = H!None
  BY <1>1, <1>3 DEF ReadRec
<1>5. h \in FlightRec /\ (h.at = "bars" => h = flight[w])
  BY <1>1 DEF FlightRec
<1> HIDE DEF g, h
<1>6. HistoryTyped'
  BY <1>1, <1>2, <1>4, <1>5 DEF HoldingsInv, HistoryTyped
<1>7. OvertakenIsExcused' /\ CachedIsExcused'
  BY <1>1, <1>2, <1>5 DEF HoldingsInv, OvertakenIsExcused, CachedIsExcused
<1>8. Committed'
  <2>1. answered <= answered
    BY <1>1
  <2>2. QED
    BY <1>1, <1>2, <1>4, <2>1 DEF HoldingsInv, Committed
<1>9. StaleHistoryIsExplained'
  BY <1>1, <1>2, <1>4 DEF HoldingsInv, StaleHistoryIsExplained, H!StaleHistoryIsExplained
<1>10. QED
  BY <1>6, <1>7, <1>8, <1>9 DEF HoldingsInv

LEMMA LeaveHolds ==
  ASSUME HoldingsInv, NEW r \in Readers, H!Leave(r)
  PROVE  HoldingsInv'
<1> DEFINE g == H!Resting(read[r].window)
<1>1. /\ version \in Versions /\ answered \in 0 .. version /\ read \in [Readers -> ReadRec]
  BY DEF HoldingsInv, HistoryTyped
<1>2. /\ read' = [read EXCEPT ![r] = g]
      /\ UNCHANGED <<version, owns, edit, answered, cache, flight, stores, excused>>
  BY DEF H!Leave
<1>3. 0 \in Versions
  BY FeedAssumption DEF Versions
<1>4. g \in ReadRec /\ g.seen = 0 /\ g.val = H!None
  BY <1>1, <1>3 DEF ReadRec, H!Resting
<1> HIDE DEF g
<1>5. HistoryTyped'
  BY <1>1, <1>2, <1>4 DEF HoldingsInv, HistoryTyped
<1>6. OvertakenIsExcused' /\ CachedIsExcused'
  BY <1>2 DEF HoldingsInv, OvertakenIsExcused, CachedIsExcused
<1>7. Committed'
  <2>1. 0 <= answered
    BY <1>1
  <2>2. QED
    BY <1>1, <1>2, <1>4, <2>1 DEF HoldingsInv, Committed
<1>8. StaleHistoryIsExplained'
  BY <1>1, <1>2, <1>4 DEF HoldingsInv, StaleHistoryIsExplained, H!StaleHistoryIsExplained
<1>9. QED
  BY <1>5, <1>6, <1>7, <1>8 DEF HoldingsInv

\* A result that has the latest edit, or was excused, or is an error, may go to whoever waits.
LEMMA DeliverHolds ==
  ASSUME HoldingsInv, NEW w \in Windows, NEW v \in Versions \cup {H!None}, H!Deliver(w, v),
         v # H!None /\ v < version => <<w, v>> \in excused,
         UNCHANGED <<version, owns, edit, answered, cache, excused>>,
         stores' \subseteq Windows \X Versions,
         \A x \in Windows, y \in Versions : <<x, y>> \in stores' /\ y < version => <<x, y>> \in excused
  PROVE  HoldingsInv'
<1>1. /\ version \in Versions /\ answered \in 0 .. version
      /\ flight \in [Windows -> FlightRec] /\ read \in [Readers -> ReadRec]
  BY DEF HoldingsInv, HistoryTyped
<1>2. flight' = [flight EXCEPT ![w] = H!NoFlight] /\ H!NoFlight \in FlightRec /\ H!NoFlight.at = "none"
  BY DEF H!Deliver, H!NoFlight, FlightRec
<1>3. /\ read' \in [Readers -> ReadRec]
      /\ \A r \in Readers : \/ read'[r] = read[r]
                            \/ read'[r].window = w /\ read'[r].val = v /\ read'[r].seen = read[r].seen
  <2>1. ASSUME NEW r \in Readers
        PROVE  /\ [read[r] EXCEPT !.at = "idle", !.val = v] \in ReadRec
               /\ [read[r] EXCEPT !.at = "idle", !.val = v].window = read[r].window
               /\ [read[r] EXCEPT !.at = "idle", !.val = v].val = v
               /\ [read[r] EXCEPT !.at = "idle", !.val = v].seen = read[r].seen
    BY <1>1 DEF ReadRec
  <2>2. QED
    BY <1>1, <2>1 DEF H!Deliver
<1>4. HistoryTyped'
  BY <1>1, <1>2, <1>3 DEF HoldingsInv, HistoryTyped
<1>5. OvertakenIsExcused' /\ CachedIsExcused'
  BY <1>1, <1>2 DEF HoldingsInv, OvertakenIsExcused, CachedIsExcused
<1>6. Committed'
  BY <1>3 DEF HoldingsInv, Committed
<1>7. StaleHistoryIsExplained'
  <2> SUFFICES ASSUME NEW r \in Readers, read'[r].val # H!None, read'[r].val < read'[r].seen
               PROVE  <<read'[r].window, read'[r].val>> \in excused
    BY DEF StaleHistoryIsExplained, H!StaleHistoryIsExplained
  <2>1. CASE read'[r] = read[r]
    BY <2>1 DEF HoldingsInv, StaleHistoryIsExplained, H!StaleHistoryIsExplained
  <2>2. CASE read'[r].window = w /\ read'[r].val = v /\ read'[r].seen = read[r].seen
    <3>1. read[r].seen <= answered /\ read[r].seen \in Nat /\ answered \in Nat /\ version \in Nat
          /\ answered <= version /\ v \in Int
      BY <1>1, <2>2 DEF HoldingsInv, Committed, ReadRec, Versions, H!None
    <3>2. v < version
      BY <2>2, <3>1
    <3>3. QED
      BY <2>2, <3>2
  <2>3. QED
    BY <1>3, <2>1, <2>2
<1>8. QED
  BY <1>4, <1>5, <1>6, <1>7 DEF HoldingsInv

LEMMA ListHolds ==
  ASSUME HoldingsInv, NEW w \in Windows, H!List(w)
  PROVE  HoldingsInv'
<1>1. /\ version \in Versions /\ flight \in [Windows -> FlightRec]
      /\ stores \subseteq Windows \X Versions /\ version \in Int
  BY DEF HoldingsInv, HistoryTyped, Versions
<1>2. UNCHANGED <<version, owns, edit, answered, cache, stores, excused>>
  BY DEF H!List
<1>3. CASE owns
  <2> DEFINE g == [at |-> "bars", val |-> version]
  <2>1. flight' = [flight EXCEPT ![w] = g] /\ UNCHANGED read
    BY <1>3 DEF H!List
  <2>2. g \in FlightRec /\ g.val = version
    BY <1>1 DEF FlightRec
  <2> HIDE DEF g
  <2>3. HistoryTyped'
    BY <1>1, <1>2, <2>1, <2>2 DEF HoldingsInv, HistoryTyped
  <2>4. OvertakenIsExcused'
    BY <1>1, <1>2, <2>1, <2>2 DEF HoldingsInv, OvertakenIsExcused
  <2>5. CachedIsExcused' /\ Committed' /\ StaleHistoryIsExplained'
    BY <1>2, <2>1 DEF HoldingsInv, CachedIsExcused, Committed, StaleHistoryIsExplained, H!StaleHistoryIsExplained
  <2>6. QED
    BY <2>3, <2>4, <2>5 DEF HoldingsInv
<1>4. CASE ~owns
  <2>1. H!Deliver(w, version) /\ ~(version < version)
    BY <1>1, <1>4 DEF H!List
  <2>2. \A x \in Windows, y \in Versions : <<x, y>> \in stores' /\ y < version => <<x, y>> \in excused
    BY <1>2 DEF HoldingsInv, OvertakenIsExcused
  <2>3. QED
    BY <1>1, <1>2, <2>1, <2>2, DeliverHolds
<1>5. QED
  BY <1>3, <1>4

LEMMA BarsHolds ==
  ASSUME HoldingsInv, NEW w \in Windows, H!Bars(w)
  PROVE  HoldingsInv'
<1> DEFINE v == flight[w].val
<1>1. v \in Versions /\ (v < version => <<w, v>> \in excused) /\ stores \subseteq Windows \X Versions
  BY DEF HoldingsInv, HistoryTyped, OvertakenIsExcused, H!Bars
<1>2. /\ UNCHANGED <<version, owns, edit, answered, cache, excused>>
      /\ H!Deliver(w, v) /\ stores' = stores \cup {<<w, v>>}
  BY DEF H!Bars
<1> HIDE DEF v
<1>3. /\ stores' \subseteq Windows \X Versions
      /\ \A x \in Windows, y \in Versions : <<x, y>> \in stores' /\ y < version => <<x, y>> \in excused
  BY <1>1, <1>2 DEF HoldingsInv, OvertakenIsExcused
<1>4. QED
  BY <1>1, <1>2, <1>3, DeliverHolds

LEMMA BrokenHolds ==
  ASSUME HoldingsInv, NEW w \in Windows, H!Broken(w)
  PROVE  HoldingsInv'
<1>1. stores \subseteq Windows \X Versions
  BY DEF HoldingsInv, HistoryTyped
<1>2. /\ UNCHANGED <<version, owns, edit, answered, cache, stores, excused>>
      /\ H!Deliver(w, H!None)
  BY DEF H!Broken
<1>3. \A x \in Windows, y \in Versions : <<x, y>> \in stores' /\ y < version => <<x, y>> \in excused
  BY <1>2 DEF HoldingsInv, OvertakenIsExcused
<1>4. QED
  BY <1>1, <1>2, <1>3, DeliverHolds

\* Storing what has the latest edit, or was excused.
LEMMA StoreHolds ==
  ASSUME HoldingsInv, NEW w \in Windows, NEW v \in Versions, H!Store(w, v)
  PROVE  HoldingsInv'
<1>1. /\ version \in Versions /\ answered \in 0 .. version
      /\ edit \in [Editors -> EditRec] /\ cache \in [Windows -> Versions \cup {H!None}]
      /\ stores \subseteq Windows \X Versions
  BY DEF HoldingsInv, HistoryTyped
<1>2. /\ stores' = stores \ {<<w, v>>} /\ <<w, v>> \in stores
      /\ cache' = [cache EXCEPT ![w] = v] \/ cache' = cache
      /\ UNCHANGED <<version, owns, edit, answered, flight, read, excused>>
  BY DEF H!Store
<1>3. v < version => <<w, v>> \in excused
  BY <1>2 DEF HoldingsInv, OvertakenIsExcused
<1>4. HistoryTyped'
  BY <1>1, <1>2 DEF HoldingsInv, HistoryTyped
<1>5. OvertakenIsExcused'
  BY <1>2 DEF HoldingsInv, OvertakenIsExcused
<1>6. Committed' /\ StaleHistoryIsExplained'
  BY <1>2 DEF HoldingsInv, Committed, StaleHistoryIsExplained, H!StaleHistoryIsExplained
<1>7. /\ v < answered => <<w, v>> \in excused
      /\ \A e \in Editors : v < edit[e].as => <<w, v>> \in excused
  <2>1. version \in Nat /\ answered \in Nat /\ answered <= version /\ v \in Nat
        /\ \A e \in Editors : edit[e].as \in Nat /\ edit[e].as <= version
    BY <1>1 DEF HoldingsInv, Committed, EditRec, Versions
  <2>2. QED
    BY <1>3, <2>1
<1>8. CachedIsExcused'
  BY <1>1, <1>2, <1>7 DEF HoldingsInv, CachedIsExcused
<1>9. QED
  BY <1>4, <1>5, <1>6, <1>8 DEF HoldingsInv

LEMMA ExpireHolds ==
  ASSUME HoldingsInv, NEW w \in Windows, H!Expire(w)
  PROVE  HoldingsInv'
<1>1. cache \in [Windows -> Versions \cup {H!None}]
  BY DEF HoldingsInv, HistoryTyped
<1>2. /\ cache' = [cache EXCEPT ![w] = H!None]
      /\ UNCHANGED <<version, owns, edit, answered, flight, stores, read, excused>>
  BY DEF H!Expire, H!Forget
<1>3. HistoryTyped'
  BY <1>1, <1>2 DEF HoldingsInv, HistoryTyped
<1>4. CachedIsExcused'
  BY <1>1, <1>2 DEF HoldingsInv, CachedIsExcused
<1>5. OvertakenIsExcused' /\ Committed' /\ StaleHistoryIsExplained'
  BY <1>2 DEF HoldingsInv, OvertakenIsExcused, Committed, StaleHistoryIsExplained, H!StaleHistoryIsExplained
<1>6. QED
  BY <1>3, <1>4, <1>5 DEF HoldingsInv

LEMMA HoldingsRestart ==
  ASSUME HoldingsInv, H!Restart
  PROVE  HoldingsInv'
<1>1. /\ version \in Versions /\ answered \in 0 .. version /\ version \in Nat
      /\ cache \in [Windows -> Versions \cup {H!None}] /\ read \in [Readers -> ReadRec]
      /\ excused \subseteq Windows \X Versions
  BY DEF HoldingsInv, HistoryTyped, Versions
<1>2. /\ edit' = [e \in Editors |-> H!NoEdit] /\ flight' = [w \in Windows |-> H!NoFlight] /\ stores' = {}
      /\ read' = [r \in Readers |-> H!Resting(read[r].window)]
      /\ UNCHANGED <<version, owns, answered, cache>>
  BY DEF H!Restart
<1>3. excused \subseteq excused' /\ excused' \subseteq Windows \X Versions
  BY <1>1 DEF H!Restart, H!Left
<1>4. 0 \in Versions
  BY FeedAssumption DEF Versions
<1>5. /\ H!NoEdit \in EditRec /\ H!NoEdit.at = "idle" /\ H!NoEdit.as = 0
      /\ H!NoFlight \in FlightRec /\ H!NoFlight.at = "none"
  BY <1>4 DEF H!NoEdit, H!NoFlight, EditRec, FlightRec
<1>6. \A r \in Readers : read'[r] \in ReadRec /\ read'[r].seen = 0 /\ read'[r].val = H!None
  BY <1>1, <1>2, <1>4 DEF H!Resting, ReadRec
<1>7. HistoryTyped'
  <2>1. edit' \in [Editors -> EditRec] /\ flight' \in [Windows -> FlightRec] /\ stores' \subseteq Windows \X Versions
    BY <1>2, <1>5
  <2>2. read' \in [Readers -> ReadRec]
    BY <1>2, <1>6
  <2>3. QED
    BY <1>1, <1>2, <1>3, <2>1, <2>2 DEF HoldingsInv, HistoryTyped
<1>8. OvertakenIsExcused'
  BY <1>2, <1>5 DEF OvertakenIsExcused
<1>9. CachedIsExcused'
  BY <1>2, <1>3, <1>5 DEF HoldingsInv, CachedIsExcused
<1>10. Committed'
  BY <1>1, <1>2, <1>5, <1>6 DEF Committed
<1>11. StaleHistoryIsExplained'
  BY <1>6 DEF StaleHistoryIsExplained, H!StaleHistoryIsExplained
<1>12. QED
  BY <1>7, <1>8, <1>9, <1>10, <1>11 DEF HoldingsInv

LEMMA HoldingsNext == HoldingsInv /\ [H!Next]_(H!vars) => HoldingsInv'
<1> SUFFICES ASSUME HoldingsInv, [H!Next]_(H!vars) PROVE HoldingsInv'
  OBVIOUS
<1>1. CASE UNCHANGED H!vars
  BY <1>1 DEF HoldingsInv, HistoryTyped, H!vars, OvertakenIsExcused, CachedIsExcused, Committed, StaleHistoryIsExplained,
              H!StaleHistoryIsExplained
<1>2. CASE H!Next
  <2>1. ASSUME NEW e \in Editors, NEW w \in Windows, H!Invalidate(e, w) PROVE HoldingsInv'
    BY <2>1, InvalidateHolds
  <2>2. ASSUME NEW w \in Windows, H!Work(w) PROVE HoldingsInv'
    BY <2>2, ListHolds, BarsHolds, BrokenHolds DEF H!Work
  <2>3. H!Versions = Versions
    BY DEF H!Versions, Versions
  <2>4. QED
    BY <1>2, <2>1, <2>2, <2>3, CommitHolds, ReplyHolds, HitHolds, MissHolds, LeaveHolds, StoreHolds, ExpireHolds,
       HoldingsRestart DEF H!Next
<1>3. QED
  BY <1>1, <1>2

\* A history that lacks an answered edit was in flight when the edit was committed, or outlived an invalidation that
\* failed (portfolio_handlers.go), for any number of windows, editors and readers.
THEOREM HistoryIsExplained == H!Spec => []StaleHistoryIsExplained
<1>1. HoldingsInv => StaleHistoryIsExplained
  BY DEF HoldingsInv
<1>2. QED
  BY <1>1, HoldingsInit, HoldingsNext, PTL DEF H!Spec

-----------------------------------------------------------------------------
(* The three parts together.                                               *)

\* The schedule, the fan-outs and the histories keep their types side by side.
THEOREM FeedTypeCorrect == Spec /\ P!Spec /\ H!Spec => []FeedTypeOK
<1>1. P!Spec => []P!TypeOK
  BY PushTyped, PushInit, PushNext, PTL DEF P!Spec
<1>2. H!Spec => []H!TypeOK
  BY HoldingsTyped, HoldingsInit, HoldingsNext, PTL DEF H!Spec
<1>3. TypeOK /\ P!TypeOK /\ H!TypeOK => FeedTypeOK
  BY DEF FeedTypeOK
<1>4. QED
  BY <1>1, <1>2, <1>3, TypeCorrect, PTL
=============================================================================
