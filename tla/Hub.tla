--------------------------------- MODULE Hub ---------------------------------
(***************************************************************************)
(* The WebSocket hub: the goroutine that owns the set of clients, the two  *)
(* goroutines of each connection (HandleWS and WritePump), the producers   *)
(* of broadcast frames and the pushers of targeted ones.                   *)
(*                                                                         *)
(* A channel of connections is a sequence; of a channel of frames only its *)
(* length matters.  A connection is used once.                             *)
(***************************************************************************)
EXTENDS Integers, Sequences, FiniteSets

CONSTANTS
  Conns,         \* accepted WebSocket connections
  Pushers,       \* goroutines in PushToUser or PushToRole
  Audiences,     \* the connections a push may be for: those of a user or of a role
  MaxClients,    \* wsMaxClients
  RegisterCap, UnregisterCap, BroadcastCap, SendCap   \* channel buffers

ASSUME HubAssumption ==
  /\ IsFiniteSet(Conns)
  /\ Audiences \subseteq SUBSET Conns
  /\ MaxClients \in Nat
  /\ {RegisterCap, UnregisterCap, BroadcastCap, SendCap} \subseteq Nat \ {0}

VARIABLES
  clients, gauge,        \* Hub.clients and the gauge that counts it
  register, unregister,  \* the channels of connections
  broadcast,             \* frames waiting in Hub.Broadcast
  hub,                   \* Run: at its select, or the clients the frame has yet to go to
  send, closed,          \* Client.send: frames waiting, and whether Run closed it
  handler, pump,         \* the two goroutines of each connection
  socket,                \* connections whose socket this server has not closed
  push,                  \* the clients each pusher has yet to send to
  alive,                 \* no goroutine has panicked
  early                  \* history: connections unregistered before they were registered

chans == <<register, unregister, broadcast, send, closed>>
peers == <<handler, pump, socket>>
vars  == <<clients, gauge, chans, hub, peers, push, alive, early>>

Queued(q) == {q[i] : i \in 1..Len(q)}

Init ==
  /\ clients = {} /\ gauge = 0
  /\ register = <<>> /\ unregister = <<>> /\ broadcast = 0
  /\ hub = [pc |-> "select", todo |-> {}]
  /\ send = [c \in Conns |-> 0] /\ closed = {}
  /\ handler = [c \in Conns |-> "new"] /\ pump = [c \in Conns |-> "none"]
  /\ socket = Conns
  /\ push = [p \in Pushers |-> {}]
  /\ alive = TRUE /\ early = {}

-----------------------------------------------------------------------------
(* HandleWS, with the upgrade behind it.                                   *)

(* The registration blocks while the channel is full.  WritePump starts    *)
(* when it is queued, which may be long before Run sees it.                *)
Connect(c) ==
  /\ alive
  /\ handler[c] = "new" /\ Len(register) < RegisterCap
  /\ register' = Append(register, c)
  /\ handler' = [handler EXCEPT ![c] = "read"]
  /\ pump' = [pump EXCEPT ![c] = "run"]
  /\ UNCHANGED <<clients, gauge, unregister, broadcast, send, closed, hub, socket, push, alive, early>>

(* ReadMessage fails: the peer left, kept silent past the pong wait, sent  *)
(* too much; or this server closed the socket.                             *)
ReadFails(c) ==
  /\ alive
  /\ handler[c] = "read"
  /\ handler' = [handler EXCEPT ![c] = "leave"]
  /\ UNCHANGED <<clients, gauge, chans, hub, pump, socket, push, alive, early>>

LeaveOrDrop(c) ==
  IF Len(unregister) < UnregisterCap THEN Append(unregister, c) ELSE unregister

(* The unregister channel once c's deferred send has gone through: it      *)
(* blocks while the channel is full.                                       *)
Unregistered(c) == Append(unregister, c)

(* The deferred exit: unregister, then close the socket.                   *)
Leave(c) ==
  /\ alive
  /\ handler[c] = "leave"
  /\ unregister' = Unregistered(c)
  /\ Len(unregister') <= UnregisterCap
  /\ handler' = [handler EXCEPT ![c] = "done"]
  /\ socket' = socket \ {c}
  /\ UNCHANGED <<clients, gauge, register, broadcast, send, closed, hub, pump, push, alive, early>>

-----------------------------------------------------------------------------
(* WritePump.                                                              *)

(* A queued frame is written.                                              *)
Write(c) ==
  /\ alive
  /\ pump[c] = "run" /\ send[c] > 0 /\ c \in socket
  /\ send' = [send EXCEPT ![c] = @ - 1]
  /\ UNCHANGED <<clients, gauge, register, unregister, broadcast, closed, hub, peers, push, alive, early>>

SocketLeftOpen(c) == socket

(* The sockets left when c's pump has run its deferred function.           *)
PumpClosed(c) == socket \ {c}

(* A write or a ping fails, or runs past its deadline; or the channel is   *)
(* closed and drained, and the close frame is sent.                        *)
PumpStops(c) ==
  /\ alive
  /\ pump[c] = "run"
  /\ pump' = [pump EXCEPT ![c] = "stop"]
  /\ socket' = PumpClosed(c)
  /\ UNCHANGED <<clients, gauge, chans, hub, handler, push, alive, early>>

-----------------------------------------------------------------------------
(* Hub.Run.                                                                *)

AtSelect == alive /\ hub.pc = "select"

RoomForOneMore == Cardinality(clients) <= MaxClients

HasRoom == Cardinality(clients) < MaxClients

(* A client over the cap has its channel closed and is never registered.   *)
RunRegister ==
  /\ AtSelect /\ register # <<>>
  /\ register' = Tail(register)
  /\ \/ /\ HasRoom
        /\ clients' = clients \union {Head(register)} /\ gauge' = gauge + 1
        /\ UNCHANGED closed
     \/ /\ ~HasRoom
        /\ closed' = closed \union {Head(register)}
        /\ UNCHANGED <<clients, gauge>>
  /\ UNCHANGED <<unregister, broadcast, send, hub, peers, push, alive, early>>

AnyClient(c) == TRUE

(* The clients an unregister takes out and closes: those in the map.       *)
Known(c) == c \in clients

(* The second unregister of an evicted client finds nothing to do; so does *)
(* one that overtook its own registration.                                 *)
RunUnregister ==
  /\ AtSelect /\ unregister # <<>>
  /\ unregister' = Tail(unregister)
  /\ \/ /\ Known(Head(unregister))
        /\ clients' = clients \ {Head(unregister)} /\ gauge' = gauge - 1
        /\ closed' = closed \union {Head(unregister)}
     \/ /\ ~Known(Head(unregister))
        /\ UNCHANGED <<clients, gauge, closed>>
  /\ early' = early \union ({Head(unregister)} \intersect Queued(register))
  /\ UNCHANGED <<register, broadcast, send, hub, peers, push, alive>>

(* A frame is taken for the clients of the moment.                         *)
RunBroadcast ==
  /\ AtSelect /\ broadcast > 0
  /\ broadcast' = broadcast - 1
  /\ hub' = [pc |-> "fanout", todo |-> clients]
  /\ UNCHANGED <<clients, gauge, register, unregister, send, closed, peers, push, alive, early>>

BlockingHint(c) == /\ Len(unregister) < UnregisterCap
                   /\ unregister' = Append(unregister, c)

(* A client whose buffer is full is hinted for eviction, unless the        *)
(* unregister channel is full too: Run must not wait for itself.           *)
EvictionHint(c) ==
  \/ Len(unregister) < UnregisterCap /\ unregister' = Append(unregister, c)
  \/ Len(unregister) >= UnregisterCap /\ UNCHANGED unregister

(* The frame goes to one client of the fan-out.  A send on a closed        *)
(* channel would panic, here as in a push.                                 *)
Fanout(c) ==
  /\ alive /\ hub.pc = "fanout" /\ c \in hub.todo
  /\ hub' = [hub EXCEPT !.todo = hub.todo \ {c}]
  /\ alive' = (c \notin closed)
  /\ \/ send[c] < SendCap /\ send' = [send EXCEPT ![c] = @ + 1] /\ UNCHANGED unregister
     \/ send[c] >= SendCap /\ EvictionHint(c) /\ UNCHANGED send
  /\ UNCHANGED <<clients, gauge, register, broadcast, closed, peers, push, early>>

FanoutDone ==
  /\ alive /\ hub.pc = "fanout" /\ hub.todo = {}
  /\ hub' = [hub EXCEPT !.pc = "select"]
  /\ UNCHANGED <<clients, gauge, chans, peers, push, alive, early>>

-----------------------------------------------------------------------------
(* Producers.                                                              *)

(* A scrape's frame, or one attempt of a cache bust: it never blocks.      *)
Offer ==
  /\ alive
  /\ broadcast < BroadcastCap
  /\ broadcast' = broadcast + 1
  /\ UNCHANGED <<clients, gauge, register, unregister, send, closed, hub, peers, push, alive, early>>

(* PushToUser and PushToRole: the matching clients are copied under the    *)
(* read lock ...                                                           *)
PushSnapshot(p, audience) ==
  /\ alive
  /\ push[p] = {}
  /\ push' = [push EXCEPT ![p] = clients \intersect audience]
  /\ UNCHANGED <<clients, gauge, chans, hub, peers, alive, early>>

(* ... and sent to without it.  A full buffer drops the frame; a send on a *)
(* channel that Run has closed meanwhile panics.                           *)
PushSend(p, c) ==
  /\ alive
  /\ c \in push[p]
  /\ push' = [push EXCEPT ![p] = push[p] \ {c}]
  /\ alive' = (c \notin closed)
  /\ send' = IF send[c] < SendCap /\ c \notin closed THEN [send EXCEPT ![c] = @ + 1] ELSE send
  /\ UNCHANGED <<clients, gauge, register, unregister, broadcast, closed, hub, peers, early>>

-----------------------------------------------------------------------------
Run == RunRegister \/ RunUnregister \/ RunBroadcast \/ (\E c \in Conns : Fanout(c)) \/ FanoutDone

Next ==
  \/ Run
  \/ \E c \in Conns : Connect(c) \/ ReadFails(c) \/ Leave(c) \/ Write(c) \/ PumpStops(c)
  \/ Offer
  \/ \E p \in Pushers : (\E a \in Audiences : PushSnapshot(p, a)) \/ (\E c \in Conns : PushSend(p, c))

Spec == Init /\ [][Next]_vars

(* Run is always scheduled, and a select between ready channels is random: *)
(* none of them is passed over for ever.  A goroutine blocked on a channel *)
(* is served in its turn.  A read fails once the socket is closed.  A      *)
(* client's pump is never owed anything: it may be held up by its peer.    *)
FairSpec ==
  /\ Spec
  /\ WF_vars(Run) /\ SF_vars(RunRegister) /\ SF_vars(RunUnregister)
  /\ \A c \in Conns : SF_vars(Leave(c)) /\ WF_vars(c \notin socket /\ ReadFails(c))

-----------------------------------------------------------------------------
(* Every variable has its type, and every channel keeps to its buffer.     *)
TypeOK ==
  /\ clients \subseteq Conns /\ gauge \in Nat
  /\ register \in Seq(Conns) /\ Len(register) <= RegisterCap
  /\ unregister \in Seq(Conns) /\ Len(unregister) <= UnregisterCap
  /\ broadcast \in 0..BroadcastCap
  /\ hub \in [pc : {"select", "fanout"}, todo : SUBSET Conns]
  /\ send \in [Conns -> 0..SendCap] /\ closed \subseteq Conns
  /\ handler \in [Conns -> {"new", "read", "leave", "done"}]
  /\ pump \in [Conns -> {"none", "run", "stop"}]
  /\ socket \subseteq Conns
  /\ push \in [Pushers -> SUBSET Conns]
  /\ alive \in BOOLEAN /\ early \subseteq Conns

(* A channel is closed once, and Run never sends on a closed one: no       *)
(* client of the map, of the fan-out in progress or waiting to be          *)
(* registered has been closed, however often it is unregistered.           *)
RunNeverPanics == (clients \union hub.todo \union Queued(register)) \intersect closed = {}

(* The gauge counts the map, which never passes the cap.                   *)
GaugeIsExact == gauge = Cardinality(clients) /\ gauge <= MaxClients

(* A connection that has ended is in the map only until Run takes its      *)
(* unregister from the channel, or for good when that was taken before its *)
(* registration.                                                           *)
EndedIsForgotten ==
  \A c \in clients : handler[c] = "done" => c \in Queued(unregister) \/ c \in early

(* Run always comes back to its select: it waits for no client and never   *)
(* for itself.                                                             *)
RunReturns == []<>(hub.pc = "select" \/ ~alive)

(* A peer that cannot be written to leaves the map, although its eviction  *)
(* hint may be dropped ("the client still gets cleaned up shortly via      *)
(* WritePump's wsWriteWait deadline").                                     *)
HungPeerIsDropped == \A c \in Conns : pump[c] = "stop" ~> (c \notin clients \/ c \in early \/ ~alive)

(* What the comment on PushToUser claims ("Safe to call from background    *)
(* goroutines"), checked in a run that refutes it: no push panics.         *)
PushIsSafe == alive
=============================================================================
