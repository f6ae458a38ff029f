------------------------------ MODULE Consumer ------------------------------
(***************************************************************************)
(* The consuming half of the notification pipeline: the RabbitMQ main,     *)
(* retry and dead-letter queues, the Subscriber that keeps a channel open  *)
(* to the main queue (internal/mq/rabbitmq/subscriber.go), and the handle  *)
(* workers that settle every delivery                                      *)
(* (internal/service/forwarding_service/worker/handle_worker.go, started   *)
(* and stopped by handle_worker_manager.go).                               *)
(*                                                                         *)
(* A queue is a set: the order of messages is not modelled.  The delivery  *)
(* buffer of the client library, the delivery in forwardDeliveries' hand   *)
(* and the buffered channel "out" are one set, the inbox.  A delivery is   *)
(* tagged with the channel it came on, since it can be settled only there. *)
(***************************************************************************)
EXTENDS Naturals, FiniteSets

CONSTANTS
    Events,              \* notification events
    Copies,              \* identities of messages in the broker, reused once settled
    Workers,             \* handle workers
    None,
    MaxRetries,          \* MaxRetries of HandleWorkerConfig
    PrefetchCount,       \* unacknowledged deliveries the broker allows the channel
    ReconnectAttempts,   \* defaultSubscriberReconnectAttempts
    MaxFaults            \* bound on crashes, dropped connections and duplicates

ASSUME ConsumerAssumption ==
    /\ Copies \subseteq Nat
    /\ None \notin Events \cup Copies
    /\ MaxRetries \in Nat
    /\ PrefetchCount \in Nat \ {0}
    /\ ReconnectAttempts \in Nat \ {0}
    /\ MaxFaults \in Nat

VARIABLES
    msg,         \* msg[c]: where message c is in the broker
    published,   \* events the outbox workers have published
    handled,     \* events the handler has accepted
    dead,        \* events with a message in the dead-letter queue
    phase,       \* the HandleWorkerManager
    loop,        \* the Subscriber's consumeLoop
    attempt,     \* failed attempts of the current reconnect
    chan,        \* number of the channel opened last
    chanUp,      \* whether that channel is open
    brokerUp,    \* whether the broker accepts connections
    inbox,       \* deliveries pushed to this process and not taken by a worker
    work,        \* work[w]: what worker w is doing, with which delivery
    faults

broker == <<msg, published, dead>>
link == <<loop, attempt, chan, chanUp, brokerUp>>
vars == <<broker, handled, phase, link, inbox, work, faults>>

Delivery == [copy : Copies, event : Events, retry : 0 .. MaxRetries, chan : Nat]
Msg == [event : Events \cup {None}, retry : 0 .. MaxRetries,
        place : {"none", "main", "unacked", "retry"}]
WorkPC == {"exited", "recv", "handle", "ack", "publish", "ackRetry", "nack"}
NoMsg == [event |-> None, retry |-> 0, place |-> "none"]
Idle == [pc |-> "recv", d |-> None]

TypeOK ==
    /\ msg \in [Copies -> Msg]
    /\ published \subseteq Events /\ handled \subseteq Events /\ dead \subseteq Events
    /\ phase \in {"down", "up", "stopping", "draining"}
    /\ loop \in {"consume", "forward", "reconnect", "gone"}
    /\ attempt \in 0 .. ReconnectAttempts
    /\ chan \in Nat /\ chanUp \in BOOLEAN /\ brokerUp \in BOOLEAN
    /\ inbox \subseteq Delivery
    /\ work \in [Workers -> [pc : WorkPC, d : Delivery \cup {None}]]
    /\ faults \in 0 .. MaxFaults

Init ==
    /\ msg = [c \in Copies |-> NoMsg]
    /\ published = {} /\ handled = {} /\ dead = {}
    /\ phase = "down"
    /\ loop = "gone" /\ attempt = 0
    /\ chan = 0 /\ chanUp = FALSE /\ brokerUp = TRUE
    /\ inbox = {}
    /\ work = [w \in Workers |-> [Idle EXCEPT !.pc = "exited"]]
    /\ faults = 0

Fault == faults < MaxFaults /\ faults' = faults + 1

-----------------------------------------------------------------------------
(* The broker *)

Free == {c \in Copies : msg[c].place = "none"}
NextFree == CHOOSE c \in Free : \A f \in Free : c <= f

\* A new message; a publish needs a free identity (the bound on copies).
Enqueue(queue, e, retry) ==
    /\ Free # {}
    /\ msg' = [msg EXCEPT ![NextFree] = [event |-> e, retry |-> retry, place |-> queue]]

\* An outbox worker publishes the event; doing so again is a fault (its confirm
\* was lost, or its lease was).
OutboxPublishes(e) ==
    /\ brokerUp
    /\ IF e \in published THEN Fault ELSE UNCHANGED faults
    /\ Enqueue("main", e, 0)
    /\ published' = published \cup {e}
    /\ UNCHANGED <<dead, handled, phase, link, inbox, work>>

\* The TTL of the retry queue dead-letters the message to the main exchange.
RetryDelayElapses(c) ==
    /\ brokerUp
    /\ msg[c].place = "retry"
    /\ msg' = [msg EXCEPT ![c].place = "main"]
    /\ UNCHANGED <<published, dead, handled, phase, link, inbox, work, faults>>

Unacked == {c \in Copies : msg[c].place = "unacked"}

\* The broker pushes a message on the channel of a registered consumer.
Deliver(c) ==
    /\ chanUp /\ loop = "forward"
    /\ msg[c].place = "main"
    /\ Cardinality(Unacked) < PrefetchCount
    /\ msg' = [msg EXCEPT ![c].place = "unacked"]
    /\ inbox' = inbox \cup {[copy |-> c, event |-> msg[c].event,
                             retry |-> msg[c].retry, chan |-> chan]}
    /\ UNCHANGED <<published, dead, handled, phase, link, work, faults>>

\* What the broker does with unacknowledged messages when their channel closes.
Requeued == [c \in Copies |-> IF c \in Unacked THEN [msg[c] EXCEPT !.place = "main"] ELSE msg[c]]

\* The connection breaks, alone or because the broker goes down.
ConnectionDrops ==
    /\ chanUp
    /\ Fault
    /\ msg' = Requeued
    /\ chanUp' = FALSE
    /\ brokerUp' \in BOOLEAN
    /\ UNCHANGED <<published, dead, handled, phase, loop, attempt, chan, inbox, work>>

BrokerReturns ==
    /\ ~brokerUp
    /\ brokerUp' = TRUE
    /\ UNCHANGED <<broker, handled, phase, loop, attempt, chan, chanUp, inbox, work, faults>>

-----------------------------------------------------------------------------
(* The Subscriber's consumeLoop *)

\* consumeChannel registers a consumer.  A channel found closed, or lost with an
\* error that IsClosedError knows, is opened again; one lost during the call with
\* any other error (an EOF, a connection closed by force) ends consumeLoop.
Consume ==
    /\ loop = "consume" /\ phase = "up"
    /\ loop' \in IF chanUp THEN {"forward"} ELSE {"reconnect", "gone"}
    /\ attempt' = 0
    /\ UNCHANGED <<broker, handled, phase, chan, chanUp, brokerUp, inbox, work, faults>>

\* As if a closed delivery channel ended consumeLoop.
DeliveriesCloseIsTheEnd ==
    /\ loop = "forward" /\ phase = "up"
    /\ ~chanUp
    /\ loop' = "gone"
    /\ attempt' = 0
    /\ UNCHANGED <<broker, handled, phase, chan, chanUp, brokerUp, inbox, work, faults>>

\* forwardDeliveries sees the delivery channel closed.
DeliveriesClose ==
    /\ loop = "forward" /\ phase = "up"
    /\ ~chanUp
    /\ loop' = "reconnect"
    /\ attempt' = 0
    /\ UNCHANGED <<broker, handled, phase, chan, chanUp, brokerUp, inbox, work, faults>>

Reconnect ==
    /\ loop = "reconnect" /\ phase = "up"
    /\ brokerUp
    /\ chan' = chan + 1
    /\ chanUp' = TRUE
    /\ loop' = "consume"
    /\ UNCHANGED <<broker, handled, phase, attempt, brokerUp, inbox, work, faults>>

\* After the last attempt consumeLoop returns and closes "out" for good.
ReconnectFails ==
    /\ loop = "reconnect" /\ phase = "up"
    /\ ~brokerUp
    /\ attempt' = attempt + 1
    /\ loop' = IF attempt + 1 = ReconnectAttempts THEN "gone" ELSE "reconnect"
    /\ UNCHANGED <<broker, handled, phase, chan, chanUp, brokerUp, inbox, work, faults>>

-----------------------------------------------------------------------------
(* A handle worker *)

Set(w, pc, d) == work' = [work EXCEPT ![w] = [pc |-> pc, d |-> d]]

Receive(w, d) ==
    /\ work[w].pc = "recv"
    /\ d \in inbox
    /\ inbox' = inbox \ {d}
    /\ Set(w, "handle", d)
    /\ UNCHANGED <<broker, handled, phase, link, faults>>

\* As if the limit were checked one try too late.
LimitOneTryLate(d) == IF d.retry > MaxRetries THEN "nack" ELSE "publish"

\* Past the limit a message is dead-lettered instead of retried.
RetryOrDeadLetter(d) == IF d.retry >= MaxRetries THEN "nack" ELSE "publish"

\* HandleMessage: the handler accepts the message, asks for a retry (a panic and
\* an unknown action count as that) or rejects it.
Handle(w) ==
    LET d == work[w].d
    IN  /\ work[w].pc = "handle"
        /\ \/ Set(w, "ack", d) /\ handled' = handled \cup {d.event}
           \/ Set(w, RetryOrDeadLetter(d), d) /\ UNCHANGED handled
           \/ Set(w, "nack", d) /\ UNCHANGED handled
        /\ UNCHANGED <<broker, phase, link, inbox, faults>>

\* A delivery can be settled on the channel it came on, while that is open.
Settleable(d) == chanUp /\ d.chan = chan

\* ackMessage, and the ack of the original after its retry is published.
Ack(w) ==
    LET d == work[w].d
    IN  /\ work[w].pc \in {"ack", "ackRetry"}
        /\ msg' = IF Settleable(d) THEN [msg EXCEPT ![d.copy] = NoMsg] ELSE msg
        /\ work' = [work EXCEPT ![w] = Idle]
        /\ UNCHANGED <<published, dead, handled, phase, link, inbox, faults>>

\* deadLetterMessage: nack without requeue; the main queue dead-letters it.
DeadLetter(w) ==
    LET d == work[w].d
    IN  /\ work[w].pc = "nack"
        /\ msg' = IF Settleable(d) THEN [msg EXCEPT ![d.copy] = NoMsg] ELSE msg
        /\ dead' = IF Settleable(d) THEN dead \cup {d.event} ELSE dead
        /\ work' = [work EXCEPT ![w] = Idle]
        /\ UNCHANGED <<published, handled, phase, link, inbox, faults>>

\* As if the code went on to reject the original after publishing the copy.
RetriedAndRejected(w) ==
    LET d == work[w].d
    IN  /\ work[w].pc = "publish"
        /\ brokerUp
        /\ Enqueue("retry", d.event, d.retry + 1)
        /\ Set(w, "nack", d)
        /\ UNCHANGED <<published, dead, handled, phase, link, inbox, faults>>

\* The copy is published with one more try on its account; the original is not
\* settled yet.
PublishRetry(w) ==
    LET d == work[w].d
    IN  /\ work[w].pc = "publish"
        /\ brokerUp
        /\ Enqueue("retry", d.event, d.retry + 1)
        /\ Set(w, "ackRetry", d)
        /\ UNCHANGED <<published, dead, handled, phase, link, inbox, faults>>

\* As if a failed retry publish acknowledged the original.
RetryErrorAcked(w) ==
    /\ work[w].pc = "publish"
    /\ Set(w, "ack", work[w].d)
    /\ UNCHANGED <<broker, handled, phase, link, inbox, faults>>

\* As if a failed retry publish returned without settling the original.
RetryErrorForgotten(w) ==
    /\ work[w].pc = "publish"
    /\ work' = [work EXCEPT ![w] = Idle]
    /\ UNCHANGED <<broker, handled, phase, link, inbox, faults>>

\* The publish fails (the context is cancelled, the retry link is down): the
\* original goes to the dead-letter queue.
PublishRetryFails(w) ==
    /\ work[w].pc = "publish"
    /\ Set(w, "nack", work[w].d)
    /\ UNCHANGED <<broker, handled, phase, link, inbox, faults>>

\* The copy reaches the queue, but its confirm does not reach the worker, which
\* gives up or, inside Publish, reconnects and publishes once more.
RetryConfirmLost(w) ==
    LET d == work[w].d
    IN  /\ work[w].pc = "publish"
        /\ brokerUp
        /\ Fault
        /\ Enqueue("retry", d.event, d.retry + 1)
        /\ Set(w, "nack", d) \/ UNCHANGED work
        /\ UNCHANGED <<published, dead, handled, phase, link, inbox>>

\* Run returns when its context is cancelled or "out" is closed and empty.
WorkerExits(w) ==
    /\ work[w].pc = "recv"
    /\ phase = "draining" \/ (loop = "gone" /\ inbox = {})
    /\ Set(w, "exited", None)
    /\ UNCHANGED <<broker, handled, phase, link, inbox, faults>>

-----------------------------------------------------------------------------
(* HandleWorkerManager: Start and Close *)

\* NewSubscriber connects, Subscribe starts consumeLoop, the workers are launched.
Start ==
    /\ phase = "down"
    /\ brokerUp
    /\ phase' = "up"
    /\ chan' = chan + 1 /\ chanUp' = TRUE
    /\ loop' = "consume" /\ attempt' = 0
    /\ inbox' = {}
    /\ work' = [w \in Workers |-> Idle]
    /\ UNCHANGED <<broker, handled, brokerUp, faults>>

\* Close: subscriber.Close marks the subscriber closed and cancels consumeLoop.
Close ==
    /\ phase = "up"
    /\ Fault
    /\ phase' = "stopping"
    /\ UNCHANGED <<broker, handled, link, inbox, work>>

\* consumeLoop returns; what it has not forwarded to "out" is dropped.
LoopStops ==
    /\ phase \in {"stopping", "draining"}
    /\ loop # "gone"
    /\ loop' = "gone"
    /\ \E forwarded \in SUBSET inbox : inbox' = forwarded
    /\ UNCHANGED <<broker, handled, phase, attempt, chan, chanUp, brokerUp, work, faults>>

\* As if Close cancelled the workers' context before closing the channel.
CancelBeforeChannelCloses ==
    /\ phase = "stopping"
    /\ phase' = "draining"
    /\ UNCHANGED <<broker, handled, link, inbox, work, faults>>

\* subscriber.Close closes the channel once consumeLoop has returned, or after
\* its timeout; then Close cancels the context of the workers.
ChannelCloses ==
    /\ phase = "stopping"
    /\ phase' = "draining"
    /\ msg' = Requeued
    /\ chanUp' = FALSE
    /\ UNCHANGED <<published, dead, handled, loop, attempt, chan, brokerUp, inbox, work, faults>>

Down ==
    /\ phase' = "down"
    /\ loop' = "gone" /\ attempt' = 0
    /\ chanUp' = FALSE
    /\ msg' = Requeued
    /\ inbox' = {}
    /\ work' = [w \in Workers |-> [Idle EXCEPT !.pc = "exited"]]
    /\ UNCHANGED <<published, dead, handled, chan, brokerUp>>

\* Start returns: every worker has exited and the manager's state is cleared.
Stopped ==
    /\ phase = "draining"
    /\ loop = "gone"
    /\ \A w \in Workers : work[w].pc = "exited"
    /\ Down
    /\ UNCHANGED faults

\* The process dies, in whatever phase.
Crash == phase # "down" /\ Fault /\ Down

Work(w) ==
    \/ \E d \in inbox : Receive(w, d)
    \/ Handle(w) \/ Ack(w) \/ DeadLetter(w) \/ PublishRetry(w) \/ PublishRetryFails(w)
    \/ RetryConfirmLost(w) \/ WorkerExits(w)

Subscriber == Consume \/ DeliveriesClose \/ Reconnect \/ ReconnectFails \/ LoopStops

Next ==
    \/ \E e \in Events : OutboxPublishes(e)
    \/ \E c \in Copies : RetryDelayElapses(c) \/ Deliver(c)
    \/ ConnectionDrops \/ BrokerReturns
    \/ Subscriber
    \/ \E w \in Workers : Work(w)
    \/ Start \/ Close \/ ChannelCloses \/ Stopped \/ Crash

Spec == Init /\ [][Next]_vars

\* The goroutines are scheduled, the broker delivers, an outage ends, a stopped
\* process is started again; nothing forces a publish, a close or a fault.
FairSpec ==
    /\ Spec
    /\ \A w \in Workers : WF_vars(Work(w))
    /\ WF_vars(Subscriber) /\ WF_vars(BrokerReturns)
    /\ \A c \in Copies : WF_vars(RetryDelayElapses(c)) /\ SF_vars(Deliver(c))
    /\ WF_vars(Start) /\ WF_vars(ChannelCloses) /\ WF_vars(Stopped)

-----------------------------------------------------------------------------
(* Properties *)

Live(e) == {c \in Copies : msg[c].event = e}

\* No published event disappears: until the handler has accepted it or it is in
\* the dead-letter queue, some queue or unacknowledged delivery holds it, over
\* retries, lost acknowledgements, reconnects, shutdowns and crashes.
NoEventLost ==
    \A e \in published : Live(e) # {} \/ e \in handled \/ e \in dead

\* Every delivery of the current channel is the unacknowledged message it was
\* made from, and while the consumer runs each unacknowledged message is in the
\* hands of exactly one worker or waits in the inbox.  A message nobody will
\* settle would hold a prefetch slot until the connection breaks.
Held(d) == \/ d \in inbox
           \/ \E w \in Workers : work[w].d = d

NoOrphanDelivery ==
    /\ \A w \in Workers :
         LET d == work[w].d
         IN  d # None /\ Settleable(d) =>
               /\ msg[d.copy] = [event |-> d.event, retry |-> d.retry, place |-> "unacked"]
               /\ d \notin inbox
               /\ \A v \in Workers \ {w} : work[v].d # d
    /\ phase = "up" => \A c \in Unacked :
         Held([copy |-> c, event |-> msg[c].event, retry |-> msg[c].retry, chan |-> chan])

\* Without faults a published event is in one place: one message, or accepted, or
\* dead.  A message whose outcome a worker is about to report does not count.  And
\* whatever fails, no message is a retry beyond the limit (RetryMessage).
Reported(c) ==
    \E w \in Workers : work[w].pc \in {"ack", "ackRetry"} /\ work[w].d.copy = c

OneFate ==
    /\ faults = 0 => \A e \in published :
          Cardinality({c \in Live(e) : ~Reported(c)})
            + Cardinality({e} \cap handled) + Cardinality({e} \cap dead) = 1
    /\ \A e \in published : \A c \in Live(e) : msg[c].retry <= MaxRetries

\* A shutdown never dead-letters: the channel is closed before the workers'
\* context is cancelled, so a publish that fails because of the cancellation
\* cannot turn into a rejected message.
DrainNeverDeadLetters == [][phase = "draining" => dead' = dead]_vars

\* consumeLoop has returned although nobody stops it: its reconnect attempts are
\* used up, or an error it does not know ended it.  Nothing starts it again.
Abandoned == phase = "up" /\ loop = "gone"

\* Every published event is accepted or dead-lettered in the end, unless consumeLoop
\* has given up on its queue: through retries, lost confirms, dropped channels,
\* shutdowns and crashes no message is left where nobody takes it up again.
EventuallySettled == \A e \in Events : e \in published ~> e \in handled \cup dead \/ Abandoned

\* The reconnect attempts were used up during one outage.
GaveUp == Abandoned /\ attempt = ReconnectAttempts

Consuming == loop = "forward" /\ chanUp

\* A consumer that was receiving deliveries when its channel broke receives them
\* again (consumeLoop and Reconnect), unless it is stopped, its attempts are used up,
\* or another fault comes before it is back.
SurvivesADrop ==
    \A n \in 0 .. MaxFaults :
        phase = "up" /\ loop = "forward" /\ faults = n
            ~> Consuming \/ phase # "up" \/ GaveUp \/ faults > n
=============================================================================
