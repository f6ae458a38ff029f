----------------------------- MODULE Forwarding -----------------------------
(***************************************************************************)
(* The way of a notification between the outbox table and the user's       *)
(* browser, in its three parts: a publisher, the life cycle of             *)
(* NotificationForwardService, and the WebSocket connections.  They share  *)
(* no variable.                                                            *)
(***************************************************************************)
EXTENDS Publisher

CONSTANTS
    MaxStarts, MaxFailures,                                             \* of the life cycle
    Clients, Users, UserOf, Msgs, Receiver, None, SendBufferSize        \* of the connections

(* No connection is the absence of one; each is somebody's, and so is a notification. *)
ASSUME ForwardingAssumption ==
    /\ MaxStarts \in Nat /\ MaxFailures \in Nat
    /\ None \notin Clients
    /\ UserOf \in [Clients -> Users]
    /\ Receiver \in [Msgs -> Users]

VARIABLES
    service, closer, starter, disabled, running, cancelled, leaked, publisher, subscriber, worker,
    starts, failures,
    serving, hand, fate, registry, stage, evicted, online, sendOpen, alive, buffer, pump, newest

lifeVars == <<service, closer, starter, disabled, running, cancelled, leaked, publisher,
              subscriber, worker, starts, failures>>
wsVars == <<serving, hand, fate, registry, stage, evicted, online, sendOpen, alive, buffer, pump,
            newest>>

Life == INSTANCE ForwardLifecycle
Ws == INSTANCE ClientRegistry

(* Every part keeps to its types. *)
TypesOK == TypeOK /\ Life!TypeOK /\ Ws!TypeOK

(* Shutdown of the service takes nothing from a worker and leaves nothing behind, and a Close
   comes to its end: see ForwardLifecycle. *)
OrderlyShutdown == Life!OrderlyShutdown
CloseCompletes == Life!CloseCompletes

(* A connection is found or about to be closed, and one that is gone leaves nothing behind: see
   ClientRegistry. *)
ConnectionsAreTracked == Ws!ConnectionsAreTracked
LostClientsLeave == Ws!LostClientsLeave
=============================================================================
