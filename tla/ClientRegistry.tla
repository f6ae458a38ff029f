--------------------------- MODULE ClientRegistry ---------------------------
(***************************************************************************)
(* WebSocket connections (websocket/manager.go, websocket/client.go) and   *)
(* the handler that pushes consumed notifications to them: registration,   *)
(* replacement of a user's older connection, the two pumps of a client,    *)
(* and the end of the service.                                             *)
(***************************************************************************)
EXTENDS Naturals, Sequences

CONSTANTS
    Clients,        \* WebSocket connections
    Users,
    UserOf,         \* whose connection it is
    Msgs,           \* notifications
    Receiver,       \* whom they are for
    None,
    SendBufferSize

Pumps == {"read", "write"}

VARIABLES
    serving,        \* the consumer's worker runs
    hand,           \* what it holds: step, message, client
    fate,           \* of each message
    registry,       \* Manager.clients
    stage,          \* the goroutine that serves a connection
    evicted,        \* the client Register replaced and has yet to close
    online,         \* IsOnline
    sendOpen,       \* the send channel is open
    alive,          \* both ends of the connection are there
    buffer,         \* the send channel's content
    pump,           \* the two pumps of a client
    newest          \* the last client registered for a user

work == <<serving, hand, fate>>
vars == <<work, registry, stage, evicted, online, sendOpen, alive, buffer, pump, newest>>

Idle == [step |-> "idle", msg |-> None, client |-> None]

TypeOK ==
    /\ serving \in BOOLEAN
    /\ hand \in [step : {"idle", "found", "sending"}, msg : Msgs \cup {None},
                  client : Clients \cup {None}]
    /\ fate \in [Msgs -> {"queue", "forwarded", "offline", "dead"}]
    /\ registry \in [Users -> Clients \cup {None}]
    /\ stage \in [Clients -> {"none", "created", "registered", "serving"}]
    /\ evicted \in [Clients -> Clients \cup {None}]
    /\ {online, sendOpen, alive} \subseteq [Clients -> BOOLEAN]
    /\ buffer \in [Clients -> Seq(Msgs)]
    /\ pump \in [Clients -> [Pumps -> {"off", "on", "leaving", "closing", "ended"}]]
    /\ newest \in [Users -> Clients \cup {None}]

Init ==
    /\ serving = TRUE
    /\ hand = Idle
    /\ fate = [m \in Msgs |-> "queue"]
    /\ registry = [u \in Users |-> None]
    /\ stage = [c \in Clients |-> "none"]
    /\ evicted = [c \in Clients |-> None]
    /\ online = [c \in Clients |-> FALSE]
    /\ sendOpen = [c \in Clients |-> FALSE]
    /\ alive = [c \in Clients |-> FALSE]
    /\ buffer = [c \in Clients |-> <<>>]
    /\ pump = [c \in Clients |-> [p \in Pumps |-> "off"]]
    /\ newest = [u \in Users |-> None]

-----------------------------------------------------------------------------
(* HandleForwardMessage *)

(* GetByUserID: a client that is not online counts as none, and the message is acknowledged. *)
Take(m) ==
    /\ serving /\ hand = Idle
    /\ fate[m] = "queue"
    /\ LET c == registry[Receiver[m]] IN
       IF c # None /\ online[c]
       THEN hand' = [step |-> "found", msg |-> m, client |-> c] /\ UNCHANGED fate
       ELSE fate' = [fate EXCEPT ![m] = "offline"] /\ UNCHANGED hand
    /\ UNCHANGED <<serving, registry, stage, evicted, online, sendOpen, alive, buffer, pump,
                   newest>>

LetGo(fates) ==
    /\ \E f \in fates : fate' = [fate EXCEPT ![hand.msg] = f]
    /\ hand' = Idle

(* retryOrDeadLetter: whether a retry is left is counted in Consumer. *)
NotSent == {"queue", "dead"}

(* TrySend asks whether the client is online, *)
TrySendChecks ==
    /\ hand.step = "found"
    /\ IF online[hand.client]
       THEN hand' = [hand EXCEPT !.step = "sending"] /\ UNCHANGED fate
       ELSE LetGo(NotSent)
    /\ UNCHANGED <<serving, registry, stage, evicted, online, sendOpen, alive, buffer, pump,
                   newest>>

(* and then sends: into a channel that may have been closed in between, which panics and is
   recovered by the worker, or one that is full. *)
TrySendSends ==
    /\ hand.step = "sending"
    /\ LET c == hand.client IN
       IF sendOpen[c] /\ Len(buffer[c]) < SendBufferSize
       THEN /\ buffer' = [buffer EXCEPT ![c] = Append(@, hand.msg)]
            /\ LetGo({"forwarded"})
       ELSE /\ LetGo(NotSent)
            /\ UNCHANGED buffer
    /\ UNCHANGED <<serving, registry, stage, evicted, online, sendOpen, alive, pump, newest>>

-----------------------------------------------------------------------------
(* WebSocket connections *)

(* HandleWebSocket up to NewClient. *)
Connect(c) ==
    /\ stage[c] = "none"
    /\ stage' = [stage EXCEPT ![c] = "created"]
    /\ alive' = [alive EXCEPT ![c] = TRUE]
    /\ sendOpen' = [sendOpen EXCEPT ![c] = TRUE]
    /\ UNCHANGED <<work, registry, evicted, online, buffer, pump, newest>>

(* The other client registered for the same user. *)
Replaced(c) == IF registry[UserOf[c]] = c THEN None ELSE registry[UserOf[c]]

Register(c) ==
    /\ stage[c] = "created"
    /\ stage' = [stage EXCEPT ![c] = "registered"]
    /\ evicted' = [evicted EXCEPT ![c] = Replaced(c)]
    /\ registry' = [registry EXCEPT ![UserOf[c]] = c]
    /\ online' = [online EXCEPT ![c] = TRUE]
    /\ newest' = [newest EXCEPT ![UserOf[c]] = c]
    /\ UNCHANGED <<work, sendOpen, alive, buffer, pump>>

(* Client.Close, once. *)
CloseClient(c) ==
    /\ online' = [online EXCEPT ![c] = FALSE]
    /\ sendOpen' = [sendOpen EXCEPT ![c] = FALSE]
    /\ alive' = [alive EXCEPT ![c] = FALSE]

CloseReplaced(c) ==
    /\ evicted[c] # None
    /\ CloseClient(evicted[c])
    /\ evicted' = [evicted EXCEPT ![c] = None]
    /\ UNCHANGED <<work, registry, stage, buffer, pump, newest>>

StartPumps(c) ==
    /\ stage[c] = "registered" /\ evicted[c] = None
    /\ stage' = [stage EXCEPT ![c] = "serving"]
    /\ pump' = [pump EXCEPT ![c] = [p \in Pumps |-> "on"]]
    /\ UNCHANGED <<work, registry, evicted, online, sendOpen, alive, buffer, newest>>

(* The user leaves, or the network fails. *)
Disconnect(c) ==
    /\ alive[c] /\ alive' = [alive EXCEPT ![c] = FALSE]
    /\ UNCHANGED <<work, registry, stage, evicted, online, sendOpen, buffer, pump, newest>>

(* writePump takes a message; what is left in a closed channel meets a closed connection. *)
Push(c) ==
    /\ pump[c]["write"] = "on" /\ buffer[c] # <<>>
    /\ buffer' = [buffer EXCEPT ![c] = Tail(@)]
    /\ pump' = [pump EXCEPT ![c]["write"] = IF alive[c] THEN "on" ELSE "leaving"]
    /\ UNCHANGED <<work, registry, stage, evicted, online, sendOpen, alive, newest>>

ClosedAndEmpty(c, p) == p = "write" /\ ~sendOpen[c] /\ buffer[c] = <<>>

(* As if no deadline and no ping told a pump that the other end is gone. *)
PumpNoticesClose(c, p) == ClosedAndEmpty(c, p)

(* A read or a ping fails, or the send channel is closed and empty. *)
PumpNotices(c, p) == ~alive[c] \/ ClosedAndEmpty(c, p)

PumpLeaves(c, p) ==
    /\ pump[c][p] = "on" /\ PumpNotices(c, p)
    /\ pump' = [pump EXCEPT ![c][p] = "leaving"]
    /\ UNCHANGED <<work, registry, stage, evicted, online, sendOpen, alive, buffer, newest>>

(* As if a client that leaves took its user's entry away, whoever is registered there. *)
RemovedWithUser(c) == TRUE

IsCurrent(c) == registry[UserOf[c]] = c

(* UnregisterByClient under the lock, *)
Unregister(c, p) ==
    /\ pump[c][p] = "leaving"
    /\ pump' = [pump EXCEPT ![c][p] = "closing"]
    /\ registry' = IF IsCurrent(c) THEN [registry EXCEPT ![UserOf[c]] = None] ELSE registry
    /\ UNCHANGED <<work, stage, evicted, online, sendOpen, alive, buffer, newest>>

(* and its Close without it. *)
PumpEnds(c, p) ==
    /\ pump[c][p] = "closing"
    /\ pump' = [pump EXCEPT ![c][p] = "ended"]
    /\ CloseClient(c)
    /\ UNCHANGED <<work, registry, stage, evicted, buffer, newest>>

-----------------------------------------------------------------------------
(* The end of the service: its worker is gone (ForwardLifecycle), then UnregisterAll. Users may
   still connect. *)
UnregisterAll ==
    /\ serving /\ hand = Idle
    /\ serving' = FALSE
    /\ LET gone == {registry[u] : u \in Users} \ {None} IN
       /\ online' = [c \in Clients |-> online[c] /\ c \notin gone]
       /\ sendOpen' = [c \in Clients |-> sendOpen[c] /\ c \notin gone]
       /\ alive' = [c \in Clients |-> alive[c] /\ c \notin gone]
    /\ registry' = [u \in Users |-> None]
    /\ UNCHANGED <<hand, fate, stage, evicted, buffer, pump, newest>>

-----------------------------------------------------------------------------

HandlerStep == TrySendChecks \/ TrySendSends

PumpStep(c, p) == PumpLeaves(c, p) \/ Unregister(c, p) \/ PumpEnds(c, p)

Next ==
    \/ \E m \in Msgs : Take(m)
    \/ HandlerStep
    \/ \E c \in Clients :
          \/ Connect(c) \/ Register(c) \/ CloseReplaced(c) \/ StartPumps(c)
          \/ Disconnect(c) \/ Push(c)
          \/ \E p \in Pumps : PumpStep(c, p)
    \/ UnregisterAll

Spec == Init /\ [][Next]_vars

(* Goroutines that can go on do: a Register that replaced a client closes it, pumps notice the
   end of their connection (a read fails at once or at its deadline, a ping fails at its next
   tick) and unregister. *)
Fairness ==
    \A c \in Clients :
        /\ WF_vars(CloseReplaced(c)) /\ WF_vars(StartPumps(c))
        /\ \A p \in Pumps : WF_vars(PumpStep(c, p))

FairSpec == Spec /\ Fairness

-----------------------------------------------------------------------------
(* Properties *)

Reachable(c) == registry[UserOf[c]] = c
Registered(c) == stage[c] \in {"registered", "serving"}

(* The connection a user opened last can be found as long as it is there: the pumps of the one
   it replaced, which unregister later, do not take it away (UnregisterByClient). *)
NewestIsReachable ==
    \A c \in Clients :
        Registered(c) /\ newest[UserOf[c]] = c /\ alive[c] => Reachable(c) /\ online[c]

(* A client that is online and cannot be found is about to be closed, by the one that replaced
   it or by its own pump: no connection is left to itself. *)
NoOrphan ==
    \A c \in Clients :
        online[c] /\ ~Reachable(c) =>
            \/ \E d \in Clients : evicted[d] = c
            \/ \E p \in Pumps : pump[c][p] = "closing"

ConnectionsAreTracked == NewestIsReachable /\ NoOrphan

(* A connection that is gone leaves nothing behind: its pumps end, its client is closed and no
   longer registered. *)
LostClientsLeave ==
    \A c \in Clients :
        stage[c] = "serving" /\ ~alive[c] ~>
            /\ ~Reachable(c) /\ ~online[c] /\ ~sendOpen[c]
            /\ \A p \in Pumps : pump[c][p] = "ended"
=============================================================================
