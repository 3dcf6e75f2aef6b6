------------------------------ MODULE HubProofs ------------------------------
(***************************************************************************)
(* What the hub guarantees for any number of connections and pushers and   *)
(* any size of its channels: Run never closes a channel twice and never    *)
(* sends on a closed one, the map keeps to its cap and its gauge, and a    *)
(* connection that has ended is forgotten.                                 *)
(***************************************************************************)
EXTENDS Hub, FiniteSetTheorems, TLAPS

NoRepeat(s) == \A i, j \in 1..Len(s) : s[i] = s[j] => i = j

(* A connection waits to be registered at most once, and not once it is a  *)
(* client; before its handler queues it, it is nowhere.                    *)
RegisteredOnce ==
  /\ NoRepeat(register)
  /\ clients \intersect Queued(register) = {}
  /\ \A c \in Conns : handler[c] = "new" => c \notin clients \union Queued(register) \union closed

(* The fan-out is over clients of the map, which Run alone changes.        *)
FanoutInMap ==
  /\ hub.todo \subseteq clients
  /\ hub.pc = "select" => hub.todo = {}

(* EndedIsForgotten, for the connections yet to be registered as well.     *)
Forgotten ==
  \A c \in clients \union Queued(register) :
    handler[c] = "done" => c \in Queued(unregister) \/ c \in early

HubInv == RegisteredOnce /\ FanoutInMap /\ RunNeverPanics /\ Forgotten /\ GaugeIsExact

-----------------------------------------------------------------------------
(* Channels of connections.                                                *)

LEMMA QueuedConns ==
  ASSUME NEW s \in Seq(Conns)
  PROVE  Queued(s) \subseteq Conns
BY DEF Queued

LEMMA QueuedAppend ==
  ASSUME NEW s \in Seq(Conns), NEW c \in Conns
  PROVE  /\ Append(s, c) \in Seq(Conns) /\ Len(Append(s, c)) = Len(s) + 1
         /\ Queued(Append(s, c)) = Queued(s) \union {c}
         /\ NoRepeat(s) /\ c \notin Queued(s) => NoRepeat(Append(s, c))
<1>1. /\ Append(s, c) \in Seq(Conns) /\ Len(s) \in Nat /\ Len(Append(s, c)) = Len(s) + 1
      /\ Append(s, c)[Len(s) + 1] = c
      /\ \A i \in 1..Len(s) : Append(s, c)[i] = s[i]
  OBVIOUS
<1>2. Queued(Append(s, c)) = Queued(s) \union {c}
  <2>1. 1..(Len(s) + 1) = (1..Len(s)) \union {Len(s) + 1}
    BY <1>1
  <2>2. QED
    BY <1>1, <2>1 DEF Queued
<1>3. NoRepeat(s) /\ c \notin Queued(s) => NoRepeat(Append(s, c))
  BY <1>1 DEF NoRepeat, Queued
<1>4. QED
  BY <1>1, <1>2, <1>3

LEMMA QueuedTail ==
  ASSUME NEW s \in Seq(Conns), s # <<>>
  PROVE  /\ Tail(s) \in Seq(Conns) /\ Len(Tail(s)) = Len(s) - 1
         /\ Head(s) \in Conns /\ Head(s) \in Queued(s)
         /\ Queued(s) = Queued(Tail(s)) \union {Head(s)}
         /\ NoRepeat(s) => NoRepeat(Tail(s)) /\ Head(s) \notin Queued(Tail(s))
<1>1. /\ Len(s) \in Nat \ {0} /\ Tail(s) \in Seq(Conns) /\ Len(Tail(s)) = Len(s) - 1
      /\ Head(s) = s[1] /\ Head(s) \in Conns
      /\ \A i \in 1..Len(Tail(s)) : Tail(s)[i] = s[i + 1]
  OBVIOUS
<1>2. Head(s) \in Queued(s)
  BY <1>1 DEF Queued
<1>3. Queued(Tail(s)) \subseteq Queued(s)
  BY <1>1 DEF Queued
<1>4. ASSUME NEW i \in 1..Len(s) PROVE s[i] \in Queued(Tail(s)) \union {Head(s)}
  <2>1. CASE i = 1
    BY <1>1, <2>1
  <2>2. CASE i # 1
    <3>1. i - 1 \in 1..Len(Tail(s)) /\ Tail(s)[i - 1] = s[i]
      BY <1>1, <2>2
    <3>2. QED
      BY <3>1 DEF Queued
  <2>3. QED
    BY <2>1, <2>2
<1>5. Queued(s) = Queued(Tail(s)) \union {Head(s)}
  BY <1>2, <1>3, <1>4 DEF Queued
<1>6. NoRepeat(s) => NoRepeat(Tail(s)) /\ Head(s) \notin Queued(Tail(s))
  BY <1>1 DEF NoRepeat, Queued
<1>7. QED
  BY <1>1, <1>2, <1>5, <1>6

-----------------------------------------------------------------------------
(* Types.                                                                  *)

LEMMA InitTypeOK == Init => TypeOK
BY HubAssumption DEF Init, TypeOK

LEMMA ConnTypeStep ==
  ASSUME TypeOK, NEW c \in Conns,
         Connect(c) \/ ReadFails(c) \/ Leave(c) \/ Write(c) \/ PumpStops(c)
  PROVE  TypeOK'
<1>1. CASE Connect(c)
  BY <1>1, QueuedAppend, HubAssumption DEF Connect, TypeOK
<1>2. CASE ReadFails(c)
  BY <1>2 DEF ReadFails, TypeOK, chans
<1>3. CASE Leave(c)
  BY <1>3, QueuedAppend DEF Leave, Unregistered, TypeOK
<1>4. CASE Write(c)
  BY <1>4, HubAssumption DEF Write, TypeOK, peers
<1>5. CASE PumpStops(c)
  BY <1>5 DEF PumpStops, PumpClosed, TypeOK, chans
<1>6. QED
  BY <1>1, <1>2, <1>3, <1>4, <1>5

LEMMA HubRecord ==
  ASSUME NEW h \in [pc : {"select", "fanout"}, todo : SUBSET Conns], NEW x \in SUBSET Conns
  PROVE  [h EXCEPT !.todo = x] \in [pc : {"select", "fanout"}, todo : SUBSET Conns]
OBVIOUS

LEMMA RunTypeStep ==
  ASSUME TypeOK, HubInv, Run
  PROVE  TypeOK'
<1>1. CASE RunRegister
  <2>1. register \in Seq(Conns) /\ Len(register) <= RegisterCap /\ register # <<>>
    BY <1>1 DEF RunRegister, TypeOK
  <2>2. Head(register) \in Conns /\ Tail(register) \in Seq(Conns) /\ Len(Tail(register)) <= RegisterCap
    BY <2>1, QueuedTail, HubAssumption
  <2>3. clients' \subseteq Conns /\ gauge' \in Nat /\ closed' \subseteq Conns
    BY <1>1, <2>2 DEF RunRegister, TypeOK
  <2>4. QED
    BY <1>1, <2>2, <2>3 DEF RunRegister, TypeOK, peers
<1>2. CASE RunUnregister
  <2>1. unregister \in Seq(Conns) /\ Len(unregister) <= UnregisterCap /\ unregister # <<>>
    BY <1>2 DEF RunUnregister, TypeOK
  <2>2. /\ Head(unregister) \in Conns /\ Tail(unregister) \in Seq(Conns)
        /\ Len(Tail(unregister)) <= UnregisterCap
    BY <2>1, QueuedTail, HubAssumption
  <2>3. gauge' \in Nat
    <3>1. CASE Head(unregister) \in clients /\ gauge' = gauge - 1
      <4>1. IsFiniteSet(clients)
        BY HubAssumption, FS_Subset DEF TypeOK
      <4>2. Cardinality(clients) # 0 /\ Cardinality(clients) \in Nat
        BY <3>1, <4>1, FS_EmptySet, FS_CardinalityType
      <4>3. QED
        BY <3>1, <4>2 DEF HubInv, GaugeIsExact
    <3>2. CASE gauge' = gauge
      BY <3>2 DEF TypeOK
    <3>3. QED
      BY <1>2, <3>1, <3>2 DEF RunUnregister, Known
  <2>4. clients' \subseteq Conns /\ closed' \subseteq Conns /\ early' \subseteq Conns
    BY <1>2, <2>2 DEF RunUnregister, TypeOK
  <2>5. QED
    BY <1>2, <2>2, <2>3, <2>4 DEF RunUnregister, TypeOK, peers
<1>3. CASE RunBroadcast
  BY <1>3, HubAssumption DEF RunBroadcast, TypeOK, peers
<1>4. ASSUME NEW c \in Conns, Fanout(c) PROVE TypeOK'
  <2>1. /\ unregister \in Seq(Conns) /\ Len(unregister) <= UnregisterCap
        /\ send \in [Conns -> 0..SendCap] /\ send[c] \in 0..SendCap /\ SendCap \in Nat
    BY HubAssumption DEF TypeOK
  <2>2. \/ unregister' = unregister
        \/ Len(unregister) < UnregisterCap /\ unregister' = Append(unregister, c)
    BY <1>4 DEF Fanout, EvictionHint
  <2>3. unregister' \in Seq(Conns) /\ Len(unregister') <= UnregisterCap
    <3>1. Append(unregister, c) \in Seq(Conns) /\ Len(Append(unregister, c)) = Len(unregister) + 1
      BY <2>1, QueuedAppend
    <3>2. Len(unregister) \in Nat /\ UnregisterCap \in Nat
      BY <2>1, HubAssumption
    <3>3. CASE unregister' = unregister
      BY <2>1, <3>3
    <3>4. CASE Len(unregister) < UnregisterCap /\ unregister' = Append(unregister, c)
      <4>1. Len(unregister) + 1 <= UnregisterCap
        BY <3>2, <3>4
      <4>2. unregister' \in Seq(Conns) /\ Len(unregister') = Len(unregister) + 1
        BY <3>1, <3>4
      <4>3. QED
        BY <4>1, <4>2
    <3>5. QED
      BY <2>2, <3>3, <3>4
  <2>4. \/ send' = send
        \/ send[c] < SendCap /\ send' = [send EXCEPT ![c] = send[c] + 1]
    BY <1>4 DEF Fanout
  <2>5. send' \in [Conns -> 0..SendCap]
    BY <2>1, <2>4
  <2>6. hub' \in [pc : {"select", "fanout"}, todo : SUBSET Conns]
    <3>1. hub \in [pc : {"select", "fanout"}, todo : SUBSET Conns] /\ hub.todo \ {c} \in SUBSET Conns
      BY DEF TypeOK
    <3>2. hub' = [hub EXCEPT !.todo = hub.todo \ {c}]
      BY <1>4 DEF Fanout
    <3> DEFINE x == hub.todo \ {c}
    <3>3. x \in SUBSET Conns /\ hub' = [hub EXCEPT !.todo = x]
      BY <3>1, <3>2
    <3> HIDE DEF x
    <3>4. QED
      BY <3>1, <3>3, HubRecord
  <2>7. alive' \in BOOLEAN
    BY <1>4 DEF Fanout
  <2>8. QED
    BY <1>4, <2>3, <2>5, <2>6, <2>7 DEF Fanout, TypeOK, peers
<1>5. CASE FanoutDone
  BY <1>5 DEF FanoutDone, TypeOK, chans, peers
<1>6. QED
  BY <1>1, <1>2, <1>3, <1>4, <1>5 DEF Run

LEMMA TypeStep == TypeOK /\ HubInv /\ [Next]_vars => TypeOK'
<1> SUFFICES ASSUME TypeOK, HubInv, [Next]_vars PROVE TypeOK'
  OBVIOUS
<1>1. CASE Offer
  BY <1>1, HubAssumption DEF Offer, TypeOK, peers
<1>2. ASSUME NEW p \in Pushers, NEW a \in Audiences, PushSnapshot(p, a) PROVE TypeOK'
  BY <1>2, HubAssumption DEF PushSnapshot, TypeOK, chans, peers
<1>3. ASSUME NEW p \in Pushers, NEW c \in Conns, PushSend(p, c) PROVE TypeOK'
  BY <1>3, HubAssumption DEF PushSend, TypeOK, peers
<1>4. CASE UNCHANGED vars
  BY <1>4 DEF vars, chans, peers, TypeOK
<1>5. QED
  BY <1>1, <1>2, <1>3, <1>4, ConnTypeStep, RunTypeStep DEF Next

-----------------------------------------------------------------------------
(* The hub's invariant.                                                    *)

LEMMA InitHubInv == Init => HubInv
<1> SUFFICES ASSUME Init PROVE HubInv
  OBVIOUS
<1>1. Queued(<<>>) = {} /\ NoRepeat(<<>>)
  BY DEF Queued, NoRepeat
<1>2. RegisteredOnce /\ FanoutInMap /\ RunNeverPanics /\ Forgotten
  BY <1>1 DEF Init, RegisteredOnce, FanoutInMap, RunNeverPanics, Forgotten
<1>3. GaugeIsExact
  BY FS_EmptySet, HubAssumption DEF Init, GaugeIsExact
<1>4. QED
  BY <1>2, <1>3 DEF HubInv

(* A step that leaves the map, its queue of registrations and what is      *)
(* closed alone, and takes no connection off the unregister channel.       *)
LEMMA QuietStep ==
  ASSUME HubInv, UNCHANGED <<clients, gauge, register, closed, early>>,
         \A c \in Conns : handler'[c] = "new" => handler[c] = "new",
         \A c \in Conns : handler'[c] = "done" => handler[c] = "done" \/ c \in Queued(unregister'),
         clients \union Queued(register) \subseteq Conns,
         Queued(unregister) \subseteq Queued(unregister'),
         hub'.todo \subseteq clients, hub'.pc = "select" => hub'.todo = {}
  PROVE  HubInv'
<1>1. Queued(register') = Queued(register)
  OBVIOUS
<1>2. RegisteredOnce'
  BY <1>1 DEF HubInv, RegisteredOnce
<1>3. FanoutInMap'
  BY DEF FanoutInMap
<1>4. RunNeverPanics'
  BY <1>1 DEF HubInv, RunNeverPanics
<1>5. Forgotten'
  BY <1>1 DEF HubInv, Forgotten
<1>6. GaugeIsExact'
  BY DEF HubInv, GaugeIsExact
<1>7. QED
  BY <1>2, <1>3, <1>4, <1>5, <1>6 DEF HubInv

LEMMA PlacesInConns ==
  ASSUME TypeOK
  PROVE  /\ clients \union Queued(register) \subseteq Conns /\ Queued(unregister) \subseteq Conns
         /\ IsFiniteSet(clients) /\ Cardinality(clients) \in Nat
<1>1. clients \subseteq Conns /\ register \in Seq(Conns) /\ unregister \in Seq(Conns)
  BY DEF TypeOK
<1>2. Queued(register) \subseteq Conns /\ Queued(unregister) \subseteq Conns
  BY <1>1, QueuedConns
<1>3. IsFiniteSet(clients) /\ Cardinality(clients) \in Nat
  BY <1>1, HubAssumption, FS_Subset, FS_CardinalityType
<1>4. QED
  BY <1>1, <1>2, <1>3

(* The steps of a connection's own goroutines.                             *)
LEMMA ConnInvStep ==
  ASSUME TypeOK, HubInv, NEW c \in Conns,
         Connect(c) \/ ReadFails(c) \/ Leave(c) \/ Write(c) \/ PumpStops(c)
  PROVE  HubInv'
<1>0. hub.todo \subseteq clients /\ (hub.pc = "select" => hub.todo = {})
  BY DEF HubInv, FanoutInMap
<1>1. CASE Connect(c)
  <2>1. /\ register' = Append(register, c) /\ handler[c] = "new"
        /\ handler' = [handler EXCEPT ![c] = "read"]
        /\ UNCHANGED <<clients, gauge, unregister, closed, hub, early>>
    BY <1>1 DEF Connect
  <2>2. c \notin clients \union Queued(register) \union closed
    BY <2>1 DEF HubInv, RegisteredOnce
  <2>3. /\ Queued(register') = Queued(register) \union {c}
        /\ NoRepeat(register')
    BY <2>1, <2>2, QueuedAppend DEF TypeOK, HubInv, RegisteredOnce
  <2>4. \A d \in Conns : handler'[d] = IF d = c THEN "read" ELSE handler[d]
    BY <2>1 DEF TypeOK
  <2>5. RegisteredOnce'
    BY <2>1, <2>2, <2>3, <2>4 DEF HubInv, RegisteredOnce
  <2>6. FanoutInMap' /\ GaugeIsExact'
    BY <2>1 DEF HubInv, FanoutInMap, GaugeIsExact
  <2>7. RunNeverPanics'
    BY <2>1, <2>2, <2>3 DEF HubInv, RunNeverPanics
  <2>8. Forgotten'
    BY <2>1, <2>3, <2>4, PlacesInConns DEF HubInv, Forgotten
  <2>9. QED
    BY <2>5, <2>6, <2>7, <2>8 DEF HubInv
<1>2. CASE ReadFails(c)
  BY <1>0, <1>2, PlacesInConns, QuietStep DEF ReadFails, chans, TypeOK
<1>3. CASE Leave(c)
  <2>1. Queued(unregister') = Queued(unregister) \union {c}
    BY <1>3, QueuedAppend DEF Leave, Unregistered, TypeOK
  <2>2. QED
    BY <1>0, <1>3, <2>1, PlacesInConns, QuietStep DEF Leave, TypeOK
<1>4. CASE Write(c)
  BY <1>0, <1>4, PlacesInConns, QuietStep DEF Write, peers
<1>5. CASE PumpStops(c)
  BY <1>0, <1>5, PlacesInConns, QuietStep DEF PumpStops, chans
<1>6. QED
  BY <1>1, <1>2, <1>3, <1>4, <1>5

(* The steps of Run.                                                       *)
LEMMA RunInvStep ==
  ASSUME TypeOK, HubInv, Run
  PROVE  HubInv'
<1>1. CASE RunRegister
  <2> DEFINE h == Head(register)
  <2>1. /\ register \in Seq(Conns) /\ register # <<>> /\ register' = Tail(register)
        /\ hub.todo = {} /\ hub' = hub /\ UNCHANGED <<unregister, handler, early>>
    BY <1>1 DEF RunRegister, AtSelect, TypeOK, HubInv, FanoutInMap, peers
  <2>2. /\ h \in Conns /\ h \in Queued(register) /\ Queued(register) = Queued(register') \union {h}
        /\ NoRepeat(register') /\ h \notin Queued(register')
    BY <2>1, QueuedTail DEF HubInv, RegisteredOnce
  <2>3. \/ HasRoom /\ clients' = clients \union {h} /\ gauge' = gauge + 1 /\ closed' = closed
        \/ closed' = closed \union {h} /\ clients' = clients /\ gauge' = gauge
    BY <1>1 DEF RunRegister
  <2> HIDE DEF h
  <2>4. h \notin clients /\ h \notin closed /\ handler[h] # "new"
    BY <2>2 DEF HubInv, RegisteredOnce, RunNeverPanics
  <2>5. RegisteredOnce'
    BY <2>1, <2>2, <2>3, <2>4 DEF HubInv, RegisteredOnce
  <2>6. FanoutInMap'
    BY <2>1, <2>3 DEF HubInv, FanoutInMap
  <2>7. RunNeverPanics'
    BY <2>1, <2>2, <2>3, <2>4 DEF HubInv, RunNeverPanics
  <2>8. Forgotten'
    BY <2>1, <2>2, <2>3 DEF HubInv, Forgotten
  <2>9. GaugeIsExact'
    <3>1. Cardinality(clients \union {h}) = Cardinality(clients) + 1
      BY <2>4, PlacesInConns, FS_AddElement
    <3>2. Cardinality(clients) \in Nat /\ gauge = Cardinality(clients) /\ gauge <= MaxClients
      BY PlacesInConns DEF HubInv, GaugeIsExact
    <3>3. CASE HasRoom /\ clients' = clients \union {h} /\ gauge' = gauge + 1
      BY <3>1, <3>2, <3>3, HubAssumption DEF HasRoom, GaugeIsExact
    <3>4. CASE clients' = clients /\ gauge' = gauge
      BY <3>2, <3>4 DEF GaugeIsExact
    <3>5. QED
      BY <2>3, <3>3, <3>4
  <2>10. QED
    BY <2>5, <2>6, <2>7, <2>8, <2>9 DEF HubInv
<1>2. CASE RunUnregister
  <2> DEFINE h == Head(unregister)
  <2>1. /\ unregister \in Seq(Conns) /\ unregister # <<>> /\ unregister' = Tail(unregister)
        /\ hub.todo = {} /\ hub' = hub /\ UNCHANGED <<register, handler>>
        /\ early' = early \union ({h} \intersect Queued(register))
    BY <1>2 DEF RunUnregister, AtSelect, TypeOK, HubInv, FanoutInMap, peers
  <2>2. h \in Conns /\ Queued(unregister) = Queued(unregister') \union {h}
    BY <2>1, QueuedTail
  <2>3. \/ h \in clients /\ clients' = clients \ {h} /\ gauge' = gauge - 1 /\ closed' = closed \union {h}
        \/ h \notin clients /\ clients' = clients /\ gauge' = gauge /\ closed' = closed
    BY <1>2 DEF RunUnregister, Known
  <2> HIDE DEF h
  <2>4. Queued(register') = Queued(register)
    BY <2>1
  <2>5. RegisteredOnce'
    BY <2>1, <2>3, <2>4 DEF HubInv, RegisteredOnce
  <2>6. FanoutInMap'
    BY <2>1 DEF HubInv, FanoutInMap
  <2>7. RunNeverPanics'
    BY <2>1, <2>3, <2>4 DEF HubInv, RunNeverPanics, RegisteredOnce
  <2>8. Forgotten'
    BY <2>1, <2>2, <2>3, <2>4 DEF HubInv, Forgotten
  <2>9. GaugeIsExact'
    <3>1. h \in clients => Cardinality(clients \ {h}) = Cardinality(clients) - 1
      BY PlacesInConns, FS_RemoveElement
    <3>2. Cardinality(clients) \in Nat /\ gauge = Cardinality(clients) /\ gauge <= MaxClients
      BY PlacesInConns DEF HubInv, GaugeIsExact
    <3>3. CASE h \in clients /\ clients' = clients \ {h} /\ gauge' = gauge - 1
      BY <3>1, <3>2, <3>3, HubAssumption DEF GaugeIsExact
    <3>4. CASE clients' = clients /\ gauge' = gauge
      BY <3>2, <3>4 DEF GaugeIsExact
    <3>5. QED
      BY <2>3, <3>3, <3>4
  <2>10. QED
    BY <2>5, <2>6, <2>7, <2>8, <2>9 DEF HubInv
<1>3. CASE RunBroadcast
  BY <1>3, PlacesInConns, QuietStep DEF RunBroadcast, peers
<1>4. ASSUME NEW c \in Conns, Fanout(c) PROVE HubInv'
  <2>1. /\ UNCHANGED <<clients, gauge, register, closed, early, handler>>
        /\ hub'.todo = hub.todo \ {c} /\ hub'.pc = "fanout"
    BY <1>4 DEF Fanout, peers, TypeOK
  <2>2. Queued(unregister) \subseteq Queued(unregister')
    <3>1. CASE unregister' = unregister
      BY <3>1
    <3>2. CASE unregister' = Append(unregister, c)
      BY <3>2, QueuedAppend DEF TypeOK
    <3>3. QED
      BY <1>4, <3>1, <3>2 DEF Fanout, EvictionHint
  <2>3. hub.todo \subseteq clients
    BY DEF HubInv, FanoutInMap
  <2>4. QED
    BY <2>1, <2>2, <2>3, PlacesInConns, QuietStep
<1>5. CASE FanoutDone
  <2>1. /\ UNCHANGED <<clients, gauge, register, unregister, closed, early, handler>>
        /\ hub'.todo = {}
    BY <1>5 DEF FanoutDone, chans, peers, TypeOK
  <2>2. QED
    BY <2>1, PlacesInConns, QuietStep
<1>6. QED
  BY <1>1, <1>2, <1>3, <1>4, <1>5 DEF Run

LEMMA HubInvStep == TypeOK /\ HubInv /\ [Next]_vars => HubInv'
<1> SUFFICES ASSUME TypeOK, HubInv, [Next]_vars PROVE HubInv'
  OBVIOUS
<1>0. hub.todo \subseteq clients /\ (hub.pc = "select" => hub.todo = {})
  BY DEF HubInv, FanoutInMap
<1>1. CASE Offer
  BY <1>0, <1>1, PlacesInConns, QuietStep DEF Offer, peers
<1>2. ASSUME NEW p \in Pushers, NEW a \in Audiences, PushSnapshot(p, a) PROVE HubInv'
  BY <1>0, <1>2, PlacesInConns, QuietStep DEF PushSnapshot, chans, peers
<1>3. ASSUME NEW p \in Pushers, NEW c \in Conns, PushSend(p, c) PROVE HubInv'
  BY <1>0, <1>3, PlacesInConns, QuietStep DEF PushSend, peers
<1>4. CASE UNCHANGED vars
  BY <1>0, <1>4, PlacesInConns, QuietStep DEF vars, chans, peers
<1>5. QED
  BY <1>1, <1>2, <1>3, <1>4, ConnInvStep, RunInvStep DEF Next

LEMMA Invariance == Spec => [](TypeOK /\ HubInv)
<1>1. (TypeOK /\ HubInv) /\ [Next]_vars => (TypeOK /\ HubInv)'
  BY TypeStep, HubInvStep
<1>2. QED
  BY <1>1, InitTypeOK, InitHubInv, PTL DEF Spec

(* Every variable has its type, and no channel passes its buffer.          *)
THEOREM TypeCorrect == Spec => []TypeOK
BY Invariance, PTL

(* Run closes each channel once and never sends on a closed one, however   *)
(* connections come, are evicted and go.                                   *)
THEOREM RunIsSafe == Spec => []RunNeverPanics
<1>1. HubInv => RunNeverPanics
  BY DEF HubInv
<1>2. QED
  BY <1>1, Invariance, PTL

(* The gauge counts the clients, which never pass the cap.                 *)
THEOREM GaugeCountsClients == Spec => []GaugeIsExact
<1>1. HubInv => GaugeIsExact
  BY DEF HubInv
<1>2. QED
  BY <1>1, Invariance, PTL

(* A connection that has ended is in the map only until its unregister is  *)
(* taken, or because that was taken before it was registered.              *)
THEOREM EndedConnectionsAreForgotten == Spec => []EndedIsForgotten
<1>1. HubInv => EndedIsForgotten
  BY DEF HubInv, Forgotten, EndedIsForgotten
<1>2. QED
  BY <1>1, Invariance, PTL
=============================================================================
