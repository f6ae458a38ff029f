--------------------------- MODULE ConsumerProofs ---------------------------
(***************************************************************************)
(* What the consumer keeps for any events, workers, copies and faults: its *)
(* types, that no event is lost, that nothing is unacknowledged but what   *)
(* somebody holds, that a shutdown dead-letters nothing, and that without  *)
(* faults every event has one fate.                                        *)
(***************************************************************************)
EXTENDS Consumer, FiniteSetTheorems, NaturalsInduction, WellFoundedInduction, TLAPS

Busy(w) == work[w].pc \notin {"recv", "exited"}

(* An identity that is not in use is blank. *)
BrokerTyped ==
    /\ msg \in [Copies -> Msg]
    /\ \A c \in Copies : IF msg[c].place = "none" THEN msg[c] = NoMsg ELSE msg[c].event \in Events
    /\ published \subseteq Events /\ handled \subseteq Events /\ dead \subseteq Events

LevelsTyped ==
    /\ phase \in {"down", "up", "stopping", "draining"}
    /\ loop \in {"consume", "forward", "reconnect", "gone"}
    /\ attempt \in 0 .. ReconnectAttempts
    /\ loop = "reconnect" => attempt < ReconnectAttempts
    /\ chan \in Nat
    /\ faults \in 0 .. MaxFaults

FlagsTyped == chanUp \in BOOLEAN /\ brokerUp \in BOOLEAN

(* A worker that is not idle has a delivery, one it may publish again only below the limit. *)
WorkTyped ==
    /\ inbox \subseteq Delivery
    /\ work \in [Workers -> [pc : WorkPC, d : Delivery \cup {None}]]
    /\ \A w \in Workers : IF Busy(w) THEN work[w].d \in Delivery ELSE work[w].d = None
    /\ \A w \in Workers : work[w].pc = "publish" => work[w].d.retry < MaxRetries

(* TypeOK by parts. *)
Typed == BrokerTyped /\ LevelsTyped /\ FlagsTyped /\ WorkTyped

(* Everything delivered and not settled. *)
InHand == inbox \cup {work[w].d : w \in {v \in Workers : Busy(v)}}

(* Channels are opened one after another, the next when the last is closed. *)
LinkInv ==
    /\ loop = "reconnect" => ~chanUp
    /\ phase \in {"draining", "down"} => ~chanUp
    /\ phase = "down" => inbox = {} /\ \A w \in Workers : ~Busy(w)
    /\ ~chanUp => Unacked = {}
    /\ \A d \in InHand : d.chan <= chan

Original(d) == [event |-> d.event, retry |-> d.retry, place |-> "unacked"]

(* What can be settled is in one pair of hands, and is the message it was made from. While the *)
(* consumer is up the hands hold all there is.                                                 *)
HandsInv ==
    /\ \A d \in InHand : Settleable(d) => msg[d.copy] = Original(d)
    /\ \A w \in Workers : Busy(w) /\ Settleable(work[w].d) =>
          /\ work[w].d \notin inbox
          /\ \A v \in Workers \ {w} : Busy(v) => work[v].d # work[w].d
    /\ phase = "up" => \A c \in Unacked :
          [copy |-> c, event |-> msg[c].event, retry |-> msg[c].retry, chan |-> chan] \in InHand

(* The acknowledgement of a retried delivery leaves a later try of its event, or its end. Later *)
(* by the count: two workers could otherwise each rely on the other's copy.                     *)
Outlived(d) ==
    \/ d.event \in handled \cup dead
    \/ \E c \in Copies : msg[c].event = d.event /\ msg[c].retry > d.retry

FateInv ==
    /\ handled \cup dead \subseteq published
    /\ \A c \in Copies : msg[c].place # "none" => msg[c].event \in published
    /\ \A d \in InHand : d.event \in published
    /\ \A w \in Workers : work[w].pc = "ack" => work[w].d.event \in handled
    /\ \A w \in Workers : work[w].pc = "ackRetry" /\ Settleable(work[w].d) => Outlived(work[w].d)
    /\ NoEventLost

(* Without faults the first channel stays open, so every delivery can be settled, *)
Undisturbed ==
    faults = 0 =>
        /\ phase \in {"down", "up"}
        /\ phase = "up" => chanUp
        /\ \A d \in InHand : d.chan = chan

Undecided(e) == {c \in Live(e) : ~Reported(c)}

(* and an event has one message that decides on it, or is decided. *)
OneWay(e) ==
    \/ e \notin handled \cup dead /\ \E c \in Copies : Undecided(e) = {c}
    \/ e \in handled \ dead /\ Undecided(e) = {}
    \/ e \in dead \ handled /\ Undecided(e) = {}

FatesInv == Undisturbed /\ (faults = 0 => \A e \in published : OneWay(e))

IndInv == Typed /\ LinkInv /\ HandsInv /\ FateInv /\ FatesInv

-----------------------------------------------------------------------------
(* Operators *)

Less == {ss \in Nat \X Nat : ss[1] < ss[2]}

(* Of any natural numbers there is a least one. *)
LEMMA LeastOf ==
  ASSUME NEW S \in SUBSET Nat, S # {}
  PROVE  \E c \in S : \A f \in S : c <= f
  <1>1. IsWellFoundedOn(Less, Nat)
    BY NatLessThanWellFounded DEF OpToRel, Less
  <1>2. PICK c \in S : \A f \in S : ~ (<<f, c>> \in Less)
    BY <1>1, WFMin, Zenon
  <1>3. \A m, n \in Nat : m < n => <<m, n>> \in Less
    BY DEF Less
  <1>4. \A f \in S : c <= f
    <2> SUFFICES ASSUME NEW f \in S PROVE c <= f
      OBVIOUS
    <2>1. ~ (f < c)
      BY <1>2, <1>3
    <2>2. QED
      BY <2>1
  <1>5. QED
    BY <1>4

(* So of the free identities. *)
LEMMA NextFreeIsFree == Free # {} => NextFree \in Free
  <1> SUFFICES ASSUME Free # {} PROVE NextFree \in Free
    OBVIOUS
  <1>1. Free \in SUBSET Nat
    BY ConsumerAssumption DEF Free
  <1>2. \E c \in Free : \A f \in Free : c <= f
    BY <1>1, LeastOf
  <1>3. QED
    BY <1>2, Zenon DEF NextFree

(* A publish takes a free identity for a message of its event. *)
LEMMA EnqueueIs ==
  ASSUME NEW queue, NEW e, NEW retry, Enqueue(queue, e, retry)
  PROVE  \E c \in Copies : /\ msg[c].place = "none"
                           /\ msg' = [msg EXCEPT ![c] = [event |-> e, retry |-> retry, place |-> queue]]
  BY NextFreeIsFree DEF Enqueue, Free

(* A closed channel puts what it had delivered back into the queue, and changes nothing else. *)
LEMMA RequeuedIs ==
  ASSUME BrokerTyped
  PROVE  /\ Requeued \in [Copies -> Msg]
         /\ \A c \in Copies : /\ Requeued[c].event = msg[c].event /\ Requeued[c].retry = msg[c].retry
                              /\ Requeued[c].place # "unacked"
                              /\ Requeued[c].place = "none" <=> msg[c].place = "none"
                              /\ msg[c].place = "none" => Requeued[c] = msg[c]
  BY DEF BrokerTyped, Msg, Requeued, Unacked

-----------------------------------------------------------------------------
(* Types *)

(* The parts say what TypeOK says. *)
LEMMA TypedIsTypeOK == Typed => TypeOK
  BY DEF Typed, TypeOK, BrokerTyped, LevelsTyped, FlagsTyped, WorkTyped

(* Before anything is published everything is typed. *)
LEMMA InitTyped == Init => Typed
  <1> SUFFICES ASSUME Init PROVE Typed
    OBVIOUS
  <1>1. BrokerTyped
    BY ConsumerAssumption DEF Init, BrokerTyped, NoMsg, Msg
  <1>2. LevelsTyped
    BY ConsumerAssumption DEF Init, LevelsTyped
  <1>3. FlagsTyped
    BY Zenon DEF Init, FlagsTyped
  <1>4. WorkTyped
    BY DEF Init, WorkTyped, Idle, WorkPC, Busy
  <1>5. QED
    BY <1>1, <1>2, <1>3, <1>4 DEF Typed

(* Phases follow phases, and only a reconnect under way counts attempts. *)
LEMMA LevelsStepTyped == LevelsTyped /\ [Next]_vars => LevelsTyped'
  <1> SUFFICES ASSUME LevelsTyped, [Next]_vars PROVE LevelsTyped'
    OBVIOUS
  <1> USE ConsumerAssumption DEF LevelsTyped
  <1>1. ASSUME NEW e \in Events, OutboxPublishes(e) PROVE LevelsTyped'
    BY <1>1 DEF OutboxPublishes, Fault, link
  <1>2. ASSUME NEW c \in Copies, RetryDelayElapses(c) \/ Deliver(c) PROVE LevelsTyped'
    BY <1>2 DEF RetryDelayElapses, Deliver, link
  <1>3. CASE ConnectionDrops \/ BrokerReturns \/ Subscriber
    BY <1>3 DEF ConnectionDrops, BrokerReturns, Subscriber, Consume, DeliveriesClose, Reconnect,
                ReconnectFails, LoopStops, Fault
  <1>4. ASSUME NEW w \in Workers, Work(w) PROVE LevelsTyped'
    BY <1>4 DEF Work, Receive, Handle, Ack, DeadLetter, PublishRetry, PublishRetryFails,
                RetryConfirmLost, WorkerExits, Fault, link
  <1>5. CASE Start \/ Close \/ ChannelCloses \/ Stopped \/ Crash
    BY <1>5 DEF Start, Close, ChannelCloses, Stopped, Crash, Down, Fault, link
  <1>6. QED
    BY <1>1, <1>2, <1>3, <1>4, <1>5 DEF Next, vars, link

(* Flags are set to flags. *)
LEMMA FlagsStepTyped == FlagsTyped /\ [Next]_vars => FlagsTyped'
  <1> SUFFICES ASSUME FlagsTyped, [Next]_vars PROVE FlagsTyped'
    OBVIOUS
  <1> USE DEF FlagsTyped, link
  <1>1. ASSUME NEW e \in Events, OutboxPublishes(e) PROVE FlagsTyped'
    BY <1>1, Zenon DEF OutboxPublishes
  <1>2. ASSUME NEW c \in Copies, RetryDelayElapses(c) \/ Deliver(c) PROVE FlagsTyped'
    BY <1>2, Zenon DEF RetryDelayElapses, Deliver
  <1>3. CASE ConnectionDrops \/ BrokerReturns \/ Subscriber
    BY <1>3, Zenon DEF ConnectionDrops, BrokerReturns, Subscriber, Consume, DeliveriesClose,
                       Reconnect, ReconnectFails, LoopStops
  <1>4. ASSUME NEW w \in Workers, Work(w) PROVE FlagsTyped'
    BY <1>4, Zenon DEF Work, Receive, Handle, Ack, DeadLetter, PublishRetry, PublishRetryFails,
                       RetryConfirmLost, WorkerExits
  <1>5. CASE Start \/ Close \/ ChannelCloses \/ Stopped \/ Crash
    BY <1>5, Zenon DEF Start, Close, ChannelCloses, Stopped, Crash, Down
  <1>6. QED
    BY <1>1, <1>2, <1>3, <1>4, <1>5, Zenon DEF Next, vars

(* A message that goes into the broker is one of an event, not retried too often. *)
LEMMA EnqueueTyped ==
  ASSUME BrokerTyped, NEW queue \in {"main", "retry"}, NEW e \in Events, NEW retry \in 0 .. MaxRetries,
         Enqueue(queue, e, retry), UNCHANGED <<handled, dead>>, published' \subseteq Events
  PROVE  BrokerTyped'
  <1>1. PICK c \in Copies : msg' = [msg EXCEPT ![c] = [event |-> e, retry |-> retry, place |-> queue]]
    BY EnqueueIs
  <1>2. QED
    BY <1>1 DEF BrokerTyped, Msg

(* One that leaves it blanks its identity. *)
LEMMA SettleTyped ==
  ASSUME BrokerTyped, NEW d \in Delivery,
         msg' = IF Settleable(d) THEN [msg EXCEPT ![d.copy] = NoMsg] ELSE msg,
         UNCHANGED <<published, handled>>, dead' \subseteq dead \cup {d.event}
  PROVE  BrokerTyped'
  BY ConsumerAssumption DEF BrokerTyped, Delivery, Msg, NoMsg

(* Messages keep their types. *)
LEMMA BrokerStepTyped == Typed /\ [Next]_vars => BrokerTyped'
  <1> SUFFICES ASSUME Typed, [Next]_vars PROVE BrokerTyped'
    OBVIOUS
  <1>t. BrokerTyped /\ WorkTyped
    BY DEF Typed
  <1>z. 0 \in 0 .. MaxRetries
    BY ConsumerAssumption
  <1>r. UNCHANGED <<published, handled, dead>> /\ msg' = Requeued => BrokerTyped'
    BY <1>t, RequeuedIs DEF BrokerTyped
  <1>1. ASSUME NEW e \in Events, OutboxPublishes(e) PROVE BrokerTyped'
    <2>1. Enqueue("main", e, 0) /\ UNCHANGED <<handled, dead>> /\ published' \subseteq Events
      BY <1>1, <1>t DEF OutboxPublishes, BrokerTyped
    <2>2. QED
      BY <1>t, <1>z, <2>1, EnqueueTyped
  <1>2. ASSUME NEW c \in Copies, RetryDelayElapses(c) \/ Deliver(c) PROVE BrokerTyped'
    BY <1>2, <1>t DEF RetryDelayElapses, Deliver, BrokerTyped, Msg
  <1>3. CASE ConnectionDrops \/ ChannelCloses \/ Stopped \/ Crash
    BY <1>3, <1>r DEF ConnectionDrops, ChannelCloses, Stopped, Crash, Down
  <1>4. CASE BrokerReturns \/ Subscriber \/ Start \/ Close \/ UNCHANGED vars
    BY <1>4, <1>t DEF BrokerReturns, Subscriber, Consume, DeliveriesClose, Reconnect,
                      ReconnectFails, LoopStops, Start, Close, broker, vars, BrokerTyped
  <1>5. ASSUME NEW w \in Workers, Work(w) PROVE BrokerTyped'
    <2> DEFINE d == work[w].d
    <2>1. Busy(w) => d \in Delivery /\ d.event \in Events /\ d.retry \in 0 .. MaxRetries
      BY <1>t DEF WorkTyped, Delivery
    <2>2. ASSUME NEW x \in inbox, Receive(w, x) PROVE BrokerTyped'
      BY <2>2, <1>t DEF Receive, broker, BrokerTyped
    <2>3. CASE Handle(w)
      <3>1. handled' \subseteq Events /\ UNCHANGED <<msg, published, dead>>
        BY <2>1, <2>3, <1>t DEF Handle, Busy, broker, BrokerTyped
      <3>2. QED
        BY <3>1, <1>t DEF BrokerTyped
    <2>4. CASE Ack(w)
      BY <2>1, <2>4, <1>t, SettleTyped DEF Ack, Busy
    <2>5. CASE DeadLetter(w)
      BY <2>1, <2>5, <1>t, SettleTyped DEF DeadLetter, Busy
    <2>6. CASE PublishRetry(w) \/ RetryConfirmLost(w)
      <3>1. Enqueue("retry", d.event, d.retry + 1) /\ UNCHANGED <<published, handled, dead>>
        BY <2>6 DEF PublishRetry, RetryConfirmLost
      <3>2. d.event \in Events /\ d.retry + 1 \in 0 .. MaxRetries
        BY <2>1, <2>6, <1>t, ConsumerAssumption DEF PublishRetry, RetryConfirmLost, Busy, WorkTyped
      <3>3. published' \subseteq Events
        BY <3>1, <1>t DEF BrokerTyped
      <3>4. QED
        BY <3>1, <3>2, <3>3, <1>t, EnqueueTyped
    <2>7. CASE PublishRetryFails(w) \/ WorkerExits(w)
      BY <2>7, <1>t DEF PublishRetryFails, WorkerExits, broker, BrokerTyped
    <2>8. QED
      BY <1>5, <2>2, <2>3, <2>4, <2>5, <2>6, <2>7 DEF Work
  <1>6. QED
    BY <1>1, <1>2, <1>3, <1>4, <1>5 DEF Next

(* Whoever is busy keeps a delivery. *)
LEMMA SetTyped ==
  ASSUME WorkTyped, NEW w \in Workers, NEW pc \in WorkPC, NEW d \in Delivery \cup {None}, Set(w, pc, d),
         IF pc \in {"recv", "exited"} THEN d = None ELSE d \in Delivery,
         pc = "publish" => d.retry < MaxRetries, inbox' \subseteq inbox
  PROVE  WorkTyped'
  BY DEF WorkTyped, Set, Busy

(* Deliveries and workers keep their types. *)
LEMMA WorkStepTyped == Typed /\ [Next]_vars => WorkTyped'
  <1> SUFFICES ASSUME Typed, [Next]_vars PROVE WorkTyped'
    OBVIOUS
  <1>t. BrokerTyped /\ LevelsTyped /\ WorkTyped
    BY DEF Typed
  <1>d. /\ \A w \in Workers : Busy(w) => work[w].d \in Delivery
        /\ inbox \subseteq Delivery
    BY <1>t DEF WorkTyped
  <1>w. {"exited", "recv", "handle", "ack", "publish", "ackRetry", "nack"} = WorkPC
    BY DEF WorkPC
  <1>i. UNCHANGED work /\ inbox' \subseteq Delivery => WorkTyped'
    BY <1>t DEF WorkTyped, Busy
  <1>1. ASSUME NEW e \in Events, OutboxPublishes(e) PROVE WorkTyped'
    BY <1>1, <1>i, <1>d DEF OutboxPublishes
  <1>2. ASSUME NEW c \in Copies, RetryDelayElapses(c) \/ Deliver(c) PROVE WorkTyped'
    <2>1. [copy |-> c, event |-> msg[c].event, retry |-> msg[c].retry, chan |-> chan] \in Delivery
          \/ msg[c].place # "main"
      BY <1>t DEF BrokerTyped, LevelsTyped, Msg, Delivery
    <2>2. QED
      BY <1>2, <2>1, <1>i, <1>d DEF RetryDelayElapses, Deliver
  <1>3. CASE ConnectionDrops \/ BrokerReturns \/ Subscriber
    BY <1>3, <1>i, <1>d DEF ConnectionDrops, BrokerReturns, Subscriber, Consume, DeliveriesClose, Reconnect,
                ReconnectFails, LoopStops
  <1>4. ASSUME NEW w \in Workers, Work(w) PROVE WorkTyped'
    <2> DEFINE d == work[w].d
    <2>1. ASSUME NEW x \in inbox, Receive(w, x) PROVE WorkTyped'
      BY <2>1, <1>t, <1>d, <1>w, SetTyped DEF Receive
    <2>2. CASE Handle(w)
      <3>1. d \in Delivery /\ inbox' \subseteq inbox
        BY <2>2, <1>d DEF Handle, Busy
      <3>2. \E pc \in {"ack", "publish", "nack"} :
              Set(w, pc, d) /\ (pc = "publish" => ~(d.retry >= MaxRetries))
        BY <2>2 DEF Handle, RetryOrDeadLetter
      <3>3. ~(d.retry >= MaxRetries) => d.retry < MaxRetries
        BY <3>1, ConsumerAssumption DEF Delivery
      <3>4. QED
        BY <3>1, <3>2, <3>3, <1>t, <1>w, SetTyped
    <2>3. CASE Ack(w) \/ DeadLetter(w) \/ WorkerExits(w)
      <3>1. Set(w, "recv", None) \/ Set(w, "exited", None)
        BY <2>3 DEF Ack, DeadLetter, WorkerExits, Set, Idle
      <3>2. inbox' \subseteq inbox
        BY <2>3 DEF Ack, DeadLetter, WorkerExits
      <3>3. QED
        BY <3>1, <3>2, <1>t, <1>w, SetTyped
    <2>4. CASE PublishRetry(w) \/ PublishRetryFails(w) \/ RetryConfirmLost(w)
      <3>1. d \in Delivery /\ inbox' \subseteq inbox
        BY <2>4, <1>d DEF PublishRetry, PublishRetryFails, RetryConfirmLost, Busy
      <3>2. Set(w, "ackRetry", d) \/ Set(w, "nack", d) \/ UNCHANGED work
        BY <2>4 DEF PublishRetry, PublishRetryFails, RetryConfirmLost
      <3>3. QED
        BY <3>1, <3>2, <1>t, <1>w, <1>i, <1>d, SetTyped
    <2>5. QED
      BY <1>4, <2>1, <2>2, <2>3, <2>4 DEF Work
  <1>5. CASE Start \/ Stopped \/ Crash
    BY <1>5, <1>w DEF Start, Stopped, Crash, Down, WorkTyped, Idle, Busy
  <1>6. CASE Close \/ ChannelCloses \/ UNCHANGED vars
    BY <1>6, <1>i, <1>d DEF Close, ChannelCloses, vars
  <1>7. QED
    BY <1>1, <1>2, <1>3, <1>4, <1>5, <1>6 DEF Next

(* Every step keeps the types. *)
LEMMA StepTyped == Typed /\ [Next]_vars => Typed'
  BY BrokerStepTyped, LevelsStepTyped, FlagsStepTyped, WorkStepTyped DEF Typed

(* Over retries, reconnects, shutdowns and crashes, the consumer keeps its types; no message is *)
(* retried beyond the limit.                                                                    *)
THEOREM TypeCorrect == Spec => []TypeOK
  <1>1. Init => Typed
    BY InitTyped
  <1>2. Typed /\ [Next]_vars => Typed'
    BY StepTyped
  <1>3. Typed => TypeOK
    BY TypedIsTypeOK
  <1>4. QED
    BY <1>1, <1>2, <1>3, PTL DEF Spec

-----------------------------------------------------------------------------
(* The link *)

NewDelivery(c) == [copy |-> c, event |-> msg[c].event, retry |-> msg[c].retry, chan |-> chan]

(* A worker that goes on with its delivery keeps it in hand; one that is done does not. *)
LEMMA SetInHand ==
  ASSUME WorkTyped, NEW w \in Workers, NEW pc, NEW d, Set(w, pc, d), UNCHANGED inbox
  PROVE  /\ Busy(w) /\ pc \notin {"recv", "exited"} /\ d = work[w].d => InHand' = InHand
         /\ pc \in {"recv", "exited"} => InHand' \subseteq InHand
         /\ pc \in {"recv", "exited"} /\ ~Busy(w) => InHand' = InHand
         /\ \A v \in Workers \ {w} : work'[v] = work[v]
         /\ work'[w] = [pc |-> pc, d |-> d]
  BY DEF WorkTyped, Set, InHand, Busy

(* What is taken from the inbox stays in hand. *)
LEMMA ReceiveInHand ==
  ASSUME WorkTyped, NEW w \in Workers, NEW d \in inbox, Receive(w, d)
  PROVE  InHand' = InHand
  <1>1. /\ \A v \in Workers \ {w} : work'[v] = work[v]
        /\ work'[w] = [pc |-> "handle", d |-> d] /\ ~Busy(w)
        /\ inbox' = inbox \ {d}
    BY DEF Receive, Set, WorkTyped, Busy
  <1>2. QED
    BY <1>1 DEF InHand, Busy

(* What a worker does with its delivery. *)
LEMMA WorkInHand ==
  ASSUME Typed, NEW w \in Workers, Work(w)
  PROVE  /\ InHand' \subseteq InHand
         /\ Ack(w) \/ DeadLetter(w) \/ InHand' = InHand
         /\ UNCHANGED <<phase, link>>
  <1>t. WorkTyped
    BY DEF Typed
  <1>1. ASSUME NEW x \in inbox, Receive(w, x) PROVE InHand' = InHand /\ UNCHANGED <<phase, link>>
    BY <1>1, <1>t, ReceiveInHand DEF Receive
  <1>2. CASE Handle(w)
    <2>1. \E pc \in {"ack", "publish", "nack"} : Set(w, pc, work[w].d)
      BY <1>2 DEF Handle, RetryOrDeadLetter
    <2>2. Busy(w) /\ UNCHANGED <<inbox, phase, link>>
      BY <1>2 DEF Handle, Busy
    <2>3. QED
      BY <2>1, <2>2, <1>t, SetInHand
  <1>3. CASE Ack(w) \/ DeadLetter(w)
    <2>1. Set(w, "recv", None) /\ UNCHANGED <<inbox, phase, link>>
      BY <1>3 DEF Ack, DeadLetter, Set, Idle
    <2>2. QED
      BY <1>3, <2>1, <1>t, SetInHand
  <1>4. CASE PublishRetry(w) \/ PublishRetryFails(w) \/ RetryConfirmLost(w)
    <2>1. (\E pc \in {"ackRetry", "nack"} : Set(w, pc, work[w].d)) \/ UNCHANGED work
      BY <1>4 DEF PublishRetry, PublishRetryFails, RetryConfirmLost
    <2>2. Busy(w) /\ UNCHANGED <<inbox, phase, link>>
      BY <1>4 DEF PublishRetry, PublishRetryFails, RetryConfirmLost, Busy
    <2>3. UNCHANGED work => InHand' = InHand
      BY <2>2 DEF InHand, Busy
    <2>4. QED
      BY <2>1, <2>2, <2>3, <1>t, SetInHand
  <1>5. CASE WorkerExits(w)
    <2>1. Set(w, "exited", None) /\ ~Busy(w) /\ UNCHANGED <<inbox, phase, link>>
      BY <1>5 DEF WorkerExits, Busy
    <2>2. QED
      BY <2>1, <1>t, SetInHand
  <1>6. QED
    BY <1>1, <1>2, <1>3, <1>4, <1>5 DEF Work

(* What comes into somebody's hands is delivered on the channel that is open. *)
LEMMA StepInHand ==
  ASSUME Typed, [Next]_vars
  PROVE  \A d \in InHand' : \/ d \in InHand
                            \/ \E c \in Copies : Deliver(c) /\ d = NewDelivery(c)
  <1>t. WorkTyped
    BY DEF Typed
  <1>i. inbox' \subseteq inbox /\ UNCHANGED work => InHand' \subseteq InHand
    BY DEF InHand, Busy
  <1>1. ASSUME NEW e \in Events, OutboxPublishes(e) PROVE InHand' \subseteq InHand
    BY <1>1, <1>i DEF OutboxPublishes
  <1>2. ASSUME NEW c \in Copies, RetryDelayElapses(c) PROVE InHand' \subseteq InHand
    BY <1>2, <1>i DEF RetryDelayElapses
  <1>3. ASSUME NEW c \in Copies, Deliver(c) PROVE InHand' \subseteq InHand \cup {NewDelivery(c)}
    BY <1>3 DEF Deliver, InHand, Busy, NewDelivery
  <1>4. CASE ConnectionDrops \/ BrokerReturns \/ Subscriber \/ Close \/ ChannelCloses \/ UNCHANGED vars
    BY <1>4, <1>i DEF ConnectionDrops, BrokerReturns, Subscriber, Consume, DeliveriesClose, Reconnect,
                      ReconnectFails, LoopStops, Close, ChannelCloses, vars
  <1>5. CASE Start \/ Stopped \/ Crash
    <2>1. inbox' = {} /\ \A w \in Workers : ~Busy(w)'
      BY <1>5 DEF Start, Stopped, Crash, Down, Idle, Busy
    <2>2. QED
      BY <2>1 DEF InHand
  <1>6. ASSUME NEW w \in Workers, Work(w) PROVE InHand' \subseteq InHand
    BY <1>6, WorkInHand
  <1>7. QED
    BY <1>1, <1>2, <1>3, <1>4, <1>5, <1>6 DEF Next

(* A publish makes nothing unacknowledged, *)
LEMMA EnqueueUnacked ==
  ASSUME BrokerTyped, NEW queue \in {"main", "retry"}, NEW e, NEW retry, Enqueue(queue, e, retry)
  PROVE  /\ Unacked' = Unacked
         /\ \A c \in Unacked : msg'[c] = msg[c]
  <1>1. PICK c \in Copies : /\ msg[c].place = "none"
                            /\ msg' = [msg EXCEPT ![c] = [event |-> e, retry |-> retry, place |-> queue]]
    BY EnqueueIs
  <1>2. QED
    BY <1>1 DEF BrokerTyped, Unacked

(* nor does a settlement. *)
LEMMA SettleUnacked ==
  ASSUME BrokerTyped, NEW d, msg' = IF Settleable(d) THEN [msg EXCEPT ![d.copy] = NoMsg] ELSE msg
  PROVE  Unacked' \subseteq Unacked
  BY DEF BrokerTyped, Unacked, NoMsg

(* Only a delivery makes a message unacknowledged. *)
LEMMA StepUnacked ==
  ASSUME Typed, [Next]_vars
  PROVE  \A c \in Unacked' : c \in Unacked \/ Deliver(c)
  <1>t. BrokerTyped
    BY DEF Typed
  <1>r. msg' = Requeued => Unacked' = {}
    BY <1>t, RequeuedIs DEF Unacked
  <1>1. ASSUME NEW e \in Events, OutboxPublishes(e) PROVE Unacked' \subseteq Unacked
    BY <1>1, <1>t, EnqueueUnacked DEF OutboxPublishes
  <1>2. ASSUME NEW c \in Copies, RetryDelayElapses(c) PROVE Unacked' \subseteq Unacked
    BY <1>2, <1>t DEF RetryDelayElapses, Unacked, BrokerTyped
  <1>3. ASSUME NEW c \in Copies, Deliver(c) PROVE Unacked' \subseteq Unacked \cup {c}
    BY <1>3, <1>t DEF Deliver, Unacked, BrokerTyped
  <1>4. CASE ConnectionDrops \/ ChannelCloses \/ Stopped \/ Crash
    BY <1>4, <1>r DEF ConnectionDrops, ChannelCloses, Stopped, Crash, Down
  <1>5. CASE BrokerReturns \/ Subscriber \/ Start \/ Close \/ UNCHANGED vars
    BY <1>5 DEF BrokerReturns, Subscriber, Consume, DeliveriesClose, Reconnect,
                ReconnectFails, LoopStops, Start, Close, broker, vars, Unacked
  <1>6. ASSUME NEW w \in Workers, Work(w) PROVE Unacked' \subseteq Unacked
    <2>1. CASE Ack(w) \/ DeadLetter(w)
      BY <2>1, <1>t, SettleUnacked DEF Ack, DeadLetter
    <2>2. CASE PublishRetry(w) \/ RetryConfirmLost(w)
      BY <2>2, <1>t, EnqueueUnacked DEF PublishRetry, RetryConfirmLost
    <2>3. UNCHANGED msg => Unacked' \subseteq Unacked
      BY DEF Unacked
    <2>4. QED
      BY <1>6, <2>1, <2>2, <2>3 DEF Work, Receive, Handle, PublishRetryFails, WorkerExits, broker
  <1>7. QED
    BY <1>1, <1>2, <1>3, <1>4, <1>5, <1>6 DEF Next

(* A channel is opened only when the last one is closed, and nothing is unacknowledged but on an *)
(* open channel.                                                                                 *)
LEMMA LinkStep == Typed /\ LinkInv /\ [Next]_vars => LinkInv'
  <1> SUFFICES ASSUME Typed, LinkInv, [Next]_vars PROVE LinkInv'
    OBVIOUS
  <1>t. /\ BrokerTyped /\ chan \in Nat /\ chanUp \in BOOLEAN
        /\ \A d \in InHand : d.chan \in Nat
    BY DEF Typed, LevelsTyped, FlagsTyped, WorkTyped, InHand, Delivery
  <1>w. ASSUME NEW w \in Workers, Work(w)
        PROVE  /\ UNCHANGED <<loop, phase, chan, chanUp>>
               /\ phase = "down" => inbox' = {} /\ \A v \in Workers : ~Busy(v)'
    <2>1. UNCHANGED <<loop, phase, chan, chanUp>>
      BY <1>w, WorkInHand DEF link
    <2>2. CASE phase = "down"
      <3>1. inbox = {} /\ (\A v \in Workers : ~Busy(v))
        BY <2>2 DEF LinkInv
      <3>2. WorkerExits(w)
        BY <1>w, <3>1 DEF Work, Busy, Handle, Ack, DeadLetter, PublishRetry, PublishRetryFails,
                          RetryConfirmLost
      <3>3. inbox' = {} /\ \A v \in Workers : work'[v] = work[v] \/ work'[v].pc = "exited"
        BY <3>1, <3>2, <1>t DEF WorkerExits, Set, Typed, WorkTyped
      <3>4. QED
        BY <2>1, <3>1, <3>3 DEF Busy
    <2>3. QED
      BY <2>1, <2>2
  <1>1. (loop = "reconnect" => ~chanUp)' /\ (phase \in {"draining", "down"} => ~chanUp)'
    <2>1. ASSUME NEW e \in Events, OutboxPublishes(e) PROVE UNCHANGED <<loop, phase, chanUp>>
      BY <2>1 DEF OutboxPublishes, link
    <2>2. ASSUME NEW c \in Copies, RetryDelayElapses(c) \/ Deliver(c)
          PROVE  UNCHANGED <<loop, phase, chanUp>>
      BY <2>2 DEF RetryDelayElapses, Deliver, link
    <2>3. CASE ConnectionDrops \/ BrokerReturns \/ Subscriber
      BY <2>3, <1>t DEF LinkInv, ConnectionDrops, BrokerReturns, Subscriber, Consume,
                        DeliveriesClose, Reconnect, ReconnectFails, LoopStops
    <2>4. CASE Start \/ Close \/ ChannelCloses \/ Stopped \/ Crash
      BY <2>4, <1>t DEF LinkInv, Start, Close, ChannelCloses, Stopped, Crash, Down, link
    <2>5. QED
      BY <2>1, <2>2, <2>3, <2>4, <1>w DEF LinkInv, Next, vars, link
  <1>2. (phase = "down" => inbox = {} /\ \A w \in Workers : ~Busy(w))'
    <2>1. ASSUME NEW c \in Copies, Deliver(c) PROVE phase' # "down"
      BY <2>1 DEF Deliver, LinkInv
    <2>2. UNCHANGED <<inbox, work, phase>> => (phase = "down" => inbox = {} /\ \A w \in Workers : ~Busy(w))'
      BY DEF LinkInv, Busy
    <2>3. phase # "down" /\ UNCHANGED phase => phase' # "down"
      OBVIOUS
    <2>4. CASE Stopped \/ Crash
      BY <2>4 DEF Stopped, Crash, Down, Idle, Busy
    <2>5. CASE Subscriber
      BY <2>5, <2>2, <2>3 DEF Subscriber, Consume, DeliveriesClose, Reconnect, ReconnectFails, LoopStops
    <2>6. CASE ~Subscriber
      BY <2>1, <2>2, <2>4, <2>6, <1>w
         DEF Next, OutboxPublishes, RetryDelayElapses, ConnectionDrops, BrokerReturns, Start,
             Close, ChannelCloses, vars
    <2>7. QED
      BY <2>5, <2>6
  <1>3. ~chanUp' => Unacked' = {}
    <2>1. msg' = Requeued => Unacked' = {}
      BY <1>t, RequeuedIs DEF Unacked
    <2>2. CASE ConnectionDrops \/ ChannelCloses \/ Stopped \/ Crash
      BY <2>1, <2>2 DEF ConnectionDrops, ChannelCloses, Stopped, Crash, Down
    <2>3. CASE ~(ConnectionDrops \/ ChannelCloses \/ Stopped \/ Crash)
      <3>1. ~chanUp' => ~chanUp
        BY <2>3, <1>w, Zenon
           DEF Next, OutboxPublishes, RetryDelayElapses, Deliver, BrokerReturns, Subscriber,
               Consume, DeliveriesClose, Reconnect, ReconnectFails, LoopStops, Start, Close, vars, link
      <3>2. \A c \in Copies : Deliver(c) => chanUp
        BY DEF Deliver
      <3>3. QED
        BY <3>1, <3>2, StepUnacked DEF LinkInv, Unacked
    <2>4. QED
      BY <2>2, <2>3
  <1>4. \A d \in InHand' : d.chan <= chan'
    <2>1. chan' \in Nat /\ chan' >= chan
      BY <1>t, <1>w DEF Next, OutboxPublishes, RetryDelayElapses, Deliver, ConnectionDrops,
               BrokerReturns, Subscriber, Consume, DeliveriesClose, Reconnect, ReconnectFails,
               LoopStops, Start, Close, ChannelCloses, Stopped, Crash, Down, vars, link
    <2>2. \A c \in Copies : Deliver(c) => chan' = chan
      BY DEF Deliver, link
    <2>3. QED
      BY <2>1, <2>2, <1>t, StepInHand DEF LinkInv, NewDelivery
  <1>5. QED
    BY <1>1, <1>2, <1>3, <1>4 DEF LinkInv

-----------------------------------------------------------------------------
(* Hands *)

(* What cannot be settled can never be settled again. *)
LEMMA SettleableBefore ==
  ASSUME Typed, LinkInv, [Next]_vars, NEW d \in InHand, Settleable(d)'
  PROVE  Settleable(d) /\ UNCHANGED <<chan, chanUp>>
  <1>1. /\ d.chan <= chan /\ d.chan \in Nat /\ chan \in Nat
        /\ chanUp' /\ d.chan = chan'
    BY DEF Typed, LevelsTyped, WorkTyped, InHand, Delivery, LinkInv, Settleable
  <1>2. ASSUME NEW w \in Workers, Work(w) PROVE UNCHANGED <<chan, chanUp>>
    BY <1>2, WorkInHand DEF link
  <1>3. CASE Reconnect \/ Start
    <2>1. chan' = chan + 1
      BY <1>3 DEF Reconnect, Start
    <2>2. QED
      BY <1>1, <2>1
  <1>4. CASE ConnectionDrops \/ ChannelCloses \/ Stopped \/ Crash
    BY <1>1, <1>4 DEF ConnectionDrops, ChannelCloses, Stopped, Crash, Down
  <1>5. CASE ~(Reconnect \/ Start \/ ConnectionDrops \/ ChannelCloses \/ Stopped \/ Crash)
    <2>1. UNCHANGED <<chan, chanUp>>
      BY <1>2, <1>5 DEF Next, OutboxPublishes, RetryDelayElapses, Deliver, BrokerReturns, Subscriber,
                  Consume, DeliveriesClose, ReconnectFails, LoopStops, Close, vars, link
    <2>2. QED
      BY <1>1, <2>1 DEF Settleable
  <1>6. QED
    BY <1>3, <1>4, <1>5

(* Two deliveries of one message that can be settled are the same. *)
LEMMA SameDelivery ==
  ASSUME Typed, HandsInv, NEW d \in InHand, NEW x \in InHand, Settleable(d), Settleable(x), d.copy = x.copy
  PROVE  d = x
  <1>1. d \in Delivery /\ x \in Delivery
    BY DEF Typed, WorkTyped, InHand
  <1>2. Original(d) = Original(x) /\ d.chan = x.chan
    BY DEF HandsInv, Settleable
  <1>3. d.event = x.event /\ d.retry = x.retry
    BY <1>2 DEF Original
  <1>4. QED
    BY <1>1, <1>2, <1>3 DEF Delivery

(* A worker that settles its delivery has it alone. *)
LEMMA SettleAlone ==
  ASSUME Typed, HandsInv, NEW w \in Workers, Ack(w) \/ DeadLetter(w)
  PROVE  /\ work[w].d \in InHand /\ work[w].d \in Delivery /\ Busy(w)
         /\ InHand \subseteq InHand' \cup {work[w].d}
         /\ \A d \in InHand' : Settleable(d) /\ Settleable(work[w].d) => d.copy # work[w].d.copy
         /\ \A v \in Workers \ {w} : work'[v] = work[v]
         /\ ~Busy(w)' /\ UNCHANGED <<inbox, published, phase, link>>
         /\ msg' = IF Settleable(work[w].d) THEN [msg EXCEPT ![work[w].d.copy] = NoMsg] ELSE msg
  <1>1. Set(w, "recv", None) /\ Busy(w) /\ UNCHANGED <<inbox, published, phase, link>>
    BY DEF Ack, DeadLetter, Set, Idle, Busy
  <1>2. /\ \A v \in Workers \ {w} : work'[v] = work[v]
        /\ ~Busy(w)'
    <2>1. WorkTyped /\ UNCHANGED inbox
      BY <1>1 DEF Typed
    <2>2. work' = [work EXCEPT ![w] = [pc |-> "recv", d |-> None]]
      BY <1>1 DEF Set
    <2>3. QED
      BY <2>1, <2>2 DEF WorkTyped, Busy
  <1>3. InHand' = inbox \cup {work[v].d : v \in {u \in Workers \ {w} : Busy(u)}}
    BY <1>1, <1>2 DEF InHand, Busy
  <1>4. InHand = InHand' \cup {work[w].d} /\ work[w].d \in Delivery
    BY <1>1, <1>3 DEF InHand, Typed, WorkTyped
  <1>5. Settleable(work[w].d) => work[w].d \notin InHand'
    BY <1>1, <1>3 DEF HandsInv
  <1>6. \A d \in InHand' : Settleable(d) /\ Settleable(work[w].d) => d.copy # work[w].d.copy
    BY <1>4, <1>5, SameDelivery
  <1>7. QED
    BY <1>1, <1>2, <1>4, <1>6 DEF Ack, DeadLetter

(* Messages others hold are left alone. *)
LEMMA MessagesInHandStay ==
  ASSUME Typed, LinkInv, HandsInv, [Next]_vars, NEW d \in InHand, d \in InHand', Settleable(d)'
  PROVE  msg'[d.copy] = Original(d)
  <1>1. Settleable(d) /\ msg[d.copy] = Original(d) /\ d.copy \in Copies /\ chanUp'
    BY SettleableBefore DEF HandsInv, Typed, WorkTyped, InHand, Delivery, Settleable
  <1>2. d.copy \in Unacked /\ BrokerTyped
    BY <1>1 DEF Unacked, Original, Typed
  <1>3. ASSUME NEW e \in Events, OutboxPublishes(e) PROVE msg'[d.copy] = msg[d.copy]
    BY <1>2, <1>3, EnqueueUnacked DEF OutboxPublishes
  <1>4. ASSUME NEW c \in Copies, RetryDelayElapses(c) \/ Deliver(c) PROVE msg'[d.copy] = msg[d.copy]
    <2>1. msg' = [msg EXCEPT ![c].place = "main"] \/ msg' = [msg EXCEPT ![c].place = "unacked"]
      BY <1>4 DEF RetryDelayElapses, Deliver
    <2>2. c # d.copy /\ msg \in [Copies -> Msg]
      BY <1>2, <1>4 DEF RetryDelayElapses, Deliver, Unacked, BrokerTyped
    <2>3. QED
      BY <1>1, <2>1, <2>2
  <1>5. ASSUME NEW w \in Workers, Work(w) PROVE msg'[d.copy] = msg[d.copy]
    <2>1. CASE Ack(w) \/ DeadLetter(w)
      BY <1>1, <1>2, <2>1, SettleAlone DEF BrokerTyped
    <2>2. CASE PublishRetry(w) \/ RetryConfirmLost(w)
      BY <1>2, <2>2, EnqueueUnacked DEF PublishRetry, RetryConfirmLost
    <2>3. QED
      BY <1>5, <2>1, <2>2 DEF Work, Receive, Handle, PublishRetryFails, WorkerExits, broker
  <1>6. CASE ConnectionDrops \/ ChannelCloses \/ Stopped \/ Crash
    BY <1>1, <1>6 DEF ConnectionDrops, ChannelCloses, Stopped, Crash, Down
  <1>7. CASE BrokerReturns \/ Subscriber \/ Start \/ Close \/ UNCHANGED vars
    BY <1>1, <1>7 DEF BrokerReturns, Subscriber, Consume, DeliveriesClose, Reconnect,
                ReconnectFails, LoopStops, Start, Close, broker, vars
  <1>8. QED
    BY <1>1, <1>3, <1>4, <1>5, <1>6, <1>7 DEF Next

(* Nobody else gets what somebody holds. *)
LEMMA HoldersStayAlone ==
  ASSUME Typed, LinkInv, HandsInv, [Next]_vars, NEW w \in Workers, Busy(w)', Settleable(work[w].d)'
  PROVE  /\ work'[w].d \notin inbox'
         /\ \A v \in Workers \ {w} : Busy(v)' => work'[v].d # work'[w].d
  <1>t. WorkTyped /\ work \in [Workers -> [pc : WorkPC, d : Delivery \cup {None}]]
    BY DEF Typed, WorkTyped
  <1>1. ASSUME inbox' \subseteq inbox,
               \A v \in Workers : Busy(v)' => Busy(v) /\ work'[v].d = work[v].d
        PROVE  /\ work'[w].d \notin inbox'
               /\ \A v \in Workers \ {w} : Busy(v)' => work'[v].d # work'[w].d
    <2>1. Busy(w) /\ work'[w].d = work[w].d /\ work[w].d \in InHand
      BY <1>1 DEF InHand
    <2>2. PICK d \in InHand : d = work[w].d
      BY <2>1
    <2>3. Settleable(d)'
      BY <2>1, <2>2 DEF Settleable
    <2>4. Settleable(work[w].d)
      BY <2>2, <2>3, SettleableBefore
    <2>5. QED
      BY <1>1, <2>1, <2>4 DEF HandsInv
  <1>2. ASSUME NEW u \in Workers, NEW x \in inbox, Receive(u, x)
        PROVE  /\ work'[w].d \notin inbox'
               /\ \A v \in Workers \ {w} : Busy(v)' => work'[v].d # work'[w].d
    <2>1. /\ \A v \in Workers \ {u} : work'[v] = work[v]
          /\ work'[u] = [pc |-> "handle", d |-> x] /\ inbox' = inbox \ {x}
          /\ UNCHANGED <<chan, chanUp>>
      BY <1>2, <1>t DEF Receive, Set, link
    <2>2. CASE u = w
      <3>1. work'[w].d = x /\ Settleable(x)
        BY <2>1, <2>2 DEF Settleable
      <3>2. \A v \in Workers \ {w} : Busy(v) => work[v].d # x
        BY <3>1 DEF HandsInv
      <3>3. QED
        BY <2>1, <2>2, <3>1, <3>2 DEF Busy
    <2>3. CASE u # w
      <3>1. work'[w] = work[w] /\ Busy(w) /\ Settleable(work[w].d)
        BY <2>1, <2>3 DEF Busy, Settleable
      <3>2. work[w].d \notin inbox /\ \A v \in Workers \ {w} : Busy(v) => work[v].d # work[w].d
        BY <3>1 DEF HandsInv
      <3>3. QED
        BY <2>1, <2>3, <3>1, <3>2 DEF Busy
    <2>4. QED
      BY <2>2, <2>3
  <1>3. ASSUME NEW u \in Workers, Work(u), ~ \E x \in inbox : Receive(u, x)
        PROVE  inbox' \subseteq inbox /\ \A v \in Workers : Busy(v)' => Busy(v) /\ work'[v].d = work[v].d
    <2>1. inbox' = inbox
      BY <1>3 DEF Work, Handle, Ack, DeadLetter, PublishRetry, PublishRetryFails, RetryConfirmLost, WorkerExits
    <2>2. \/ UNCHANGED work
          \/ \E pc \in {"ack", "publish", "nack", "ackRetry"} : Set(u, pc, work[u].d) /\ Busy(u)
          \/ Set(u, "recv", None) \/ Set(u, "exited", None)
      BY <1>3 DEF Work, Handle, Ack, DeadLetter, PublishRetry, PublishRetryFails, RetryConfirmLost,
                  WorkerExits, RetryOrDeadLetter, Idle, Set, Busy
    <2>3. QED
      BY <2>1, <2>2, <1>t DEF Set, Busy
  <1>4. ASSUME NEW c \in Copies, Deliver(c)
        PROVE  /\ work'[w].d \notin inbox'
               /\ \A v \in Workers \ {w} : Busy(v)' => work'[v].d # work'[w].d
    <2>1. /\ inbox' = inbox \cup {NewDelivery(c)} /\ UNCHANGED <<work, chan, chanUp>>
          /\ msg[c].place = "main"
      BY <1>4 DEF Deliver, NewDelivery, link
    <2>2. Busy(w) /\ Settleable(work[w].d) /\ work[w].d \in InHand
      BY <2>1 DEF Busy, Settleable, InHand
    <2>3. msg[work[w].d.copy].place = "unacked"
      <3>1. PICK d \in InHand : d = work[w].d
        BY <2>2
      <3>2. msg[d.copy] = Original(d)
        BY <2>2, <3>1 DEF HandsInv
      <3>3. QED
        BY <3>1, <3>2 DEF Original
    <2>4. work[w].d # NewDelivery(c)
      BY <2>1, <2>3 DEF NewDelivery
    <2>5. QED
      BY <2>1, <2>2, <2>4 DEF HandsInv, Busy
  <1>5. CASE Start \/ Stopped \/ Crash
    BY <1>5 DEF Start, Stopped, Crash, Down, Idle, Busy
  <1>6. ASSUME inbox' \subseteq inbox, UNCHANGED work
        PROVE  /\ work'[w].d \notin inbox'
               /\ \A v \in Workers \ {w} : Busy(v)' => work'[v].d # work'[w].d
    <2>1. \A v \in Workers : Busy(v)' => Busy(v) /\ work'[v].d = work[v].d
      BY <1>6 DEF Busy
    <2>2. QED
      BY <1>1, <1>6, <2>1
  <1>7. ASSUME NEW u \in Workers, Work(u)
        PROVE  /\ work'[w].d \notin inbox'
               /\ \A v \in Workers \ {w} : Busy(v)' => work'[v].d # work'[w].d
    <2>1. CASE \E x \in inbox : Receive(u, x)
      BY <1>2, <2>1
    <2>2. CASE ~ \E x \in inbox : Receive(u, x)
      BY <1>1, <1>3, <1>7, <2>2
    <2>3. QED
      BY <2>1, <2>2
  <1>8. \/ \E c \in Copies : Deliver(c)
        \/ \E u \in Workers : Work(u)
        \/ Start \/ Stopped \/ Crash
        \/ inbox' \subseteq inbox /\ UNCHANGED work
    BY DEF Next, OutboxPublishes, RetryDelayElapses, ConnectionDrops, BrokerReturns, Subscriber,
           Consume, DeliveriesClose, Reconnect, ReconnectFails, LoopStops, Close, ChannelCloses, vars
  <1>9. QED
    BY <1>4, <1>5, <1>6, <1>7, <1>8

(* While the consumer is up, what is unacknowledged is in somebody's hands. *)
LEMMA NothingFallsDown ==
  ASSUME Typed, LinkInv, HandsInv, [Next]_vars, phase' = "up", NEW c \in Unacked'
  PROVE  NewDelivery(c)' \in InHand'
  <1>1. CASE Deliver(c)
    <2>1. NewDelivery(c)' = NewDelivery(c)
      BY <1>1 DEF Deliver, NewDelivery, link, Typed, BrokerTyped, Msg, Unacked
    <2>2. QED
      BY <1>1, <2>1 DEF Deliver, InHand, NewDelivery
  <1>2. CASE ~Deliver(c)
    <2>1. c \in Unacked /\ c \in Copies /\ chanUp /\ phase # "down"
      BY <1>2, StepUnacked DEF LinkInv, Unacked
    <2>2. chanUp'
      BY LinkStep DEF LinkInv
    <2>3. phase = "up" /\ ~Start /\ ~Reconnect
      BY <2>1 DEF Next, LinkInv, OutboxPublishes, RetryDelayElapses, Deliver, ConnectionDrops,
                  BrokerReturns, Subscriber, Consume, DeliveriesClose, Reconnect, ReconnectFails,
                  LoopStops, Work, Receive, Handle, Ack, DeadLetter, PublishRetry, PublishRetryFails,
                  RetryConfirmLost, WorkerExits, Start, Close, ChannelCloses, Stopped, Crash, Down, vars
    <2>4. PICK d \in InHand : d = NewDelivery(c)
      BY <2>1, <2>3 DEF HandsInv, NewDelivery
    <2>5. d.copy = c /\ d.event = msg[c].event /\ d.retry = msg[c].retry /\ d.chan = chan /\ Settleable(d)
      BY <2>1, <2>4 DEF NewDelivery, Settleable
    <2>6. UNCHANGED chan
      <3>1. ASSUME NEW w \in Workers, Work(w) PROVE UNCHANGED chan
        BY <3>1, WorkInHand DEF link
      <3>2. QED
        BY <2>3, <3>1 DEF Next, OutboxPublishes, RetryDelayElapses, Deliver, ConnectionDrops,
             BrokerReturns, Subscriber, Consume, DeliveriesClose, ReconnectFails, LoopStops,
             Close, ChannelCloses, Stopped, Crash, Down, vars, link
    <2>7. d \in InHand'
      <3>1. ASSUME NEW w \in Workers, Work(w) PROVE d \in InHand'
        <4>1. CASE Ack(w) \/ DeadLetter(w)
          <5>1. d # work[w].d
            BY <2>1, <2>5, <4>1, SettleAlone DEF Unacked, NoMsg, Typed, BrokerTyped
          <5>2. QED
            BY <4>1, <5>1, SettleAlone
        <4>2. QED
          BY <3>1, <4>1, WorkInHand
      <3>2. ASSUME inbox \subseteq inbox', UNCHANGED work PROVE d \in InHand'
        BY <3>2 DEF InHand, Busy
      <3>3. \/ \E w \in Workers : Work(w)
            \/ inbox \subseteq inbox' /\ UNCHANGED work
        BY <2>3, phase' = "up" DEF Next, OutboxPublishes, RetryDelayElapses, Deliver, ConnectionDrops,
             BrokerReturns, Subscriber, Consume, DeliveriesClose, Reconnect, ReconnectFails, LoopStops,
             Close, ChannelCloses, Stopped, Crash, Down, vars
      <3>4. QED
        BY <3>1, <3>2, <3>3
    <2>8. msg'[c] = Original(d)
      BY <2>2, <2>5, <2>6, <2>7, MessagesInHandStay DEF Settleable
    <2>9. NewDelivery(c)' = d
      BY <2>4, <2>5, <2>6, <2>8 DEF NewDelivery, Original
    <2>10. QED
      BY <2>7, <2>9
  <1>3. QED
    BY <1>1, <1>2

(* Whoever holds what can be settled holds it alone, and holds it as the broker does. *)
LEMMA HandsStep == Typed /\ LinkInv /\ HandsInv /\ [Next]_vars => HandsInv'
  <1> SUFFICES ASSUME Typed, LinkInv, HandsInv, [Next]_vars PROVE HandsInv'
    OBVIOUS
  <1>1. ASSUME NEW d \in InHand', Settleable(d)' PROVE msg'[d.copy] = Original(d)
    <2>1. CASE d \in InHand
      BY <1>1, <2>1, MessagesInHandStay
    <2>2. ASSUME NEW c \in Copies, Deliver(c), d = NewDelivery(c) PROVE msg'[d.copy] = Original(d)
      BY <2>2 DEF Deliver, NewDelivery, Original, Typed, BrokerTyped, Msg
    <2>3. QED
      BY <1>1, <2>1, <2>2, StepInHand
  <1>2. \A d \in InHand' : Settleable(d)' => msg'[d.copy] = Original(d)
    BY <1>1
  <1>3. \A w \in Workers : Busy(w)' /\ Settleable(work[w].d)' =>
          /\ work'[w].d \notin inbox'
          /\ \A v \in Workers \ {w} : Busy(v)' => work'[v].d # work'[w].d
    BY HoldersStayAlone
  <1>4. phase' = "up" => \A c \in Unacked' : NewDelivery(c)' \in InHand'
    BY NothingFallsDown
  <1>5. QED
    BY <1>2, <1>3, <1>4 DEF HandsInv, NewDelivery, Original

-----------------------------------------------------------------------------
(* Fates *)

(* What is published, accepted or dead stays so. *)
LEMMA FatesStay ==
  ASSUME [Next]_vars
  PROVE  published \subseteq published' /\ handled \subseteq handled' /\ dead \subseteq dead'
  <1>1. ASSUME NEW w \in Workers, Work(w)
        PROVE  published \subseteq published' /\ handled \subseteq handled' /\ dead \subseteq dead'
    BY <1>1 DEF Work, Receive, Handle, Ack, DeadLetter, PublishRetry, PublishRetryFails,
                RetryConfirmLost, WorkerExits, broker
  <1>2. QED
    BY <1>1 DEF Next, OutboxPublishes, RetryDelayElapses, Deliver, ConnectionDrops, BrokerReturns,
                Subscriber, Consume, DeliveriesClose, Reconnect, ReconnectFails, LoopStops, Start,
                Close, ChannelCloses, Stopped, Crash, Down, vars, broker

(* What a step does to the messages: moves them, adds one, or takes one away. *)
LEMMA StepMessages ==
  ASSUME Typed, [Next]_vars, NEW c \in Copies
  PROVE  \/ /\ msg'[c].event = msg[c].event /\ msg'[c].retry = msg[c].retry
            /\ (msg'[c].place = "none") = (msg[c].place = "none")
         \/ \E e \in Events : OutboxPublishes(e)
         \/ \E w \in Workers : PublishRetry(w) \/ RetryConfirmLost(w)
         \/ \E w \in Workers : Ack(w) \/ DeadLetter(w)
  <1> DEFINE Same == /\ msg'[c].event = msg[c].event /\ msg'[c].retry = msg[c].retry
                     /\ (msg'[c].place = "none") = (msg[c].place = "none")
  <1>t. BrokerTyped
    BY DEF Typed
  <1>1. UNCHANGED msg => Same
    OBVIOUS
  <1>2. msg' = Requeued => Same
    BY <1>t, RequeuedIs
  <1>3. ASSUME NEW f \in Copies, RetryDelayElapses(f) \/ Deliver(f) PROVE Same
    BY <1>3, <1>t DEF RetryDelayElapses, Deliver, BrokerTyped, Msg
  <1>4. CASE ConnectionDrops \/ ChannelCloses \/ Stopped \/ Crash
    BY <1>2, <1>4 DEF ConnectionDrops, ChannelCloses, Stopped, Crash, Down
  <1>5. CASE BrokerReturns \/ Subscriber \/ Start \/ Close \/ UNCHANGED vars
    BY <1>1, <1>5 DEF BrokerReturns, Subscriber, Consume, DeliveriesClose, Reconnect,
                ReconnectFails, LoopStops, Start, Close, broker, vars
  <1>6. ASSUME NEW w \in Workers, Work(w)
        PROVE  \/ UNCHANGED msg
               \/ PublishRetry(w) \/ RetryConfirmLost(w)
               \/ Ack(w) \/ DeadLetter(w)
    BY <1>6 DEF Work, Receive, Handle, PublishRetry, PublishRetryFails, RetryConfirmLost, WorkerExits, broker
  <1>7. QED
    BY <1>1, <1>3, <1>4, <1>5, <1>6 DEF Next

(* A message is added to the others. *)
LEMMA EnqueueKeeps ==
  ASSUME BrokerTyped, NEW queue \in {"main", "retry"}, NEW e, NEW retry, Enqueue(queue, e, retry)
  PROVE  \A c \in Copies : msg[c].event \in Events => msg'[c] = msg[c]
  <1>1. PICK f \in Copies : /\ msg[f].place = "none"
                            /\ msg' = [msg EXCEPT ![f] = [event |-> e, retry |-> retry, place |-> queue]]
    BY EnqueueIs
  <1>2. msg[f].event \notin Events
    BY <1>1, ConsumerAssumption DEF BrokerTyped, NoMsg
  <1>3. QED
    BY <1>1, <1>2 DEF BrokerTyped

(* A message is taken away when its event is accepted, dead, or tried again later. *)
LEMMA SettledIsOutlived ==
  ASSUME Typed, HandsInv, FateInv, NEW w \in Workers, Ack(w) \/ DeadLetter(w), Settleable(work[w].d)
  PROVE  \/ work[w].d.event \in handled' \cup dead'
         \/ \E c \in Copies : msg[c].event = work[w].d.event /\ msg[c].retry > work[w].d.retry
  <1>1. CASE Ack(w) /\ work[w].pc = "ack"
    BY <1>1 DEF FateInv, Ack
  <1>2. CASE Ack(w) /\ work[w].pc = "ackRetry"
    BY <1>2 DEF FateInv, Ack, Outlived
  <1>3. CASE DeadLetter(w)
    BY <1>3 DEF DeadLetter
  <1>4. QED
    BY <1>1, <1>2, <1>3 DEF Ack

(* The last try of an event ends in the handler or in the dead-letter queue. *)
LEMMA TriesLast ==
  ASSUME Typed, HandsInv, FateInv, [Next]_vars, NEW e \in Events, NEW n \in Nat,
         NEW c \in Copies, msg[c].event = e, msg[c].retry >= n
  PROVE  \/ e \in handled' \cup dead'
         \/ \E f \in Copies : msg'[f].event = e /\ msg'[f].retry >= n
  <1>t. BrokerTyped /\ msg \in [Copies -> Msg] /\ \A f \in Copies : msg[f].retry \in Nat
    BY ConsumerAssumption DEF Typed, BrokerTyped, Msg
  <1>1. ASSUME NEW queue \in {"main", "retry"}, NEW v, NEW retry, Enqueue(queue, v, retry)
        PROVE  msg'[c] = msg[c]
    BY <1>1, <1>t, EnqueueKeeps
  <1>2. ASSUME NEW w \in Workers, Ack(w) \/ DeadLetter(w)
        PROVE  \/ e \in handled' \cup dead'
               \/ \E f \in Copies : msg'[f].event = e /\ msg'[f].retry >= n
    <2> DEFINE d == work[w].d
    <2>1. /\ msg' = IF Settleable(d) THEN [msg EXCEPT ![d.copy] = NoMsg] ELSE msg
          /\ d \in InHand /\ d \in Delivery
      BY <1>2, SettleAlone
    <2>2. CASE ~Settleable(d) \/ c # d.copy
      BY <2>1, <2>2, <1>t
    <2>3. CASE Settleable(d) /\ c = d.copy
      <3>1. msg[c] = Original(d)
        <4>1. PICK x \in InHand : x = d
          BY <2>1
        <4>2. QED
          BY <2>3, <4>1 DEF HandsInv
      <3>2. d.event = e /\ d.retry >= n /\ d.retry \in Nat /\ msg[c].retry = d.retry
        BY <3>1, <1>t DEF Original
      <3>3. CASE d.event \in handled' \cup dead'
        BY <3>2, <3>3
      <3>4. ASSUME NEW f \in Copies, msg[f].event = d.event, msg[f].retry > d.retry
            PROVE  \E g \in Copies : msg'[g].event = e /\ msg'[g].retry >= n
        <4>1. f # c /\ msg[f].retry >= n
          BY <3>2, <3>4, <1>t
        <4>2. msg'[f] = msg[f]
          BY <2>1, <2>3, <4>1, <1>t
        <4>3. QED
          BY <3>2, <3>4, <4>1, <4>2
      <3>5. QED
        BY <1>2, <2>3, <3>3, <3>4, SettledIsOutlived
    <2>4. QED
      BY <2>2, <2>3
  <1>3. (msg'[c].event = e /\ msg'[c].retry >= n) \/ \E w \in Workers : Ack(w) \/ DeadLetter(w)
    <2>1. ASSUME NEW v \in Events, OutboxPublishes(v) PROVE msg'[c] = msg[c]
      BY <1>1, <2>1 DEF OutboxPublishes
    <2>2. ASSUME NEW w \in Workers, PublishRetry(w) \/ RetryConfirmLost(w) PROVE msg'[c] = msg[c]
      BY <1>1, <2>2 DEF PublishRetry, RetryConfirmLost
    <2>3. QED
      BY <2>1, <2>2, StepMessages
  <1>4. QED
    BY <1>2, <1>3

(* Who gets to report an outcome, and who has nothing to report. *)
LEMMA StepReports ==
  ASSUME Typed, [Next]_vars, NEW w \in Workers
  PROVE  \/ work'[w] = work[w]
         \/ work'[w].pc \notin {"ack", "ackRetry"}
         \/ Handle(w) /\ work'[w].pc = "ack" /\ work'[w].d = work[w].d /\ work[w].d.event \in handled'
         \/ PublishRetry(w) /\ work'[w].pc = "ackRetry" /\ work'[w].d = work[w].d
  <1>t. work \in [Workers -> [pc : WorkPC, d : Delivery \cup {None}]]
    BY DEF Typed, WorkTyped
  <1> DEFINE Goal == \/ work'[w] = work[w]
                     \/ work'[w].pc \notin {"ack", "ackRetry"}
                     \/ Handle(w) /\ work'[w].pc = "ack" /\ work'[w].d = work[w].d /\ work[w].d.event \in handled'
                     \/ PublishRetry(w) /\ work'[w].pc = "ackRetry" /\ work'[w].d = work[w].d
  <1>1. UNCHANGED work => Goal
    OBVIOUS
  <1>2. ASSUME NEW v \in Workers, v # w, NEW pc, NEW d, Set(v, pc, d) PROVE Goal
    BY <1>2, <1>t DEF Set
  <1>3. ASSUME NEW pc \in {"recv", "exited", "handle", "nack", "publish"}, NEW d, Set(w, pc, d) PROVE Goal
    BY <1>3, <1>t DEF Set
  <1>4. ASSUME Handle(w) PROVE Goal
    <2>1. RetryOrDeadLetter(work[w].d) \in {"recv", "exited", "handle", "nack", "publish"}
          /\ "nack" \in {"recv", "exited", "handle", "nack", "publish"}
      BY DEF RetryOrDeadLetter
    <2>2. CASE Set(w, "ack", work[w].d) /\ handled' = handled \cup {work[w].d.event}
      BY <1>4, <2>2, <1>t DEF Set
    <2>3. QED
      BY <1>3, <1>4, <2>1, <2>2 DEF Handle
  <1>5. ASSUME NEW v \in Workers, Work(v)
        PROVE  \/ Handle(v) /\ \E pc : Set(v, pc, work[v].d)
               \/ \E pc \in {"recv", "exited", "handle", "nack", "publish"} : \E d : Set(v, pc, d)
               \/ PublishRetry(v) /\ Set(v, "ackRetry", work[v].d)
               \/ UNCHANGED work
    <2>1. CASE Handle(v)
      BY <2>1 DEF Handle
    <2>2. ASSUME NEW x \in inbox, Receive(v, x)
          PROVE  \E pc \in {"recv", "exited", "handle", "nack", "publish"} : \E d : Set(v, pc, d)
      BY <2>2 DEF Receive
    <2>3. CASE Ack(v) \/ DeadLetter(v) \/ WorkerExits(v)
      BY <2>3 DEF Ack, DeadLetter, WorkerExits, Set, Idle
    <2>4. CASE PublishRetry(v) \/ PublishRetryFails(v) \/ RetryConfirmLost(v)
      BY <2>4 DEF PublishRetry, PublishRetryFails, RetryConfirmLost
    <2>5. QED
      BY <1>5, <2>1, <2>2, <2>3, <2>4 DEF Work
  <1>6. ASSUME NEW v \in Workers, Work(v) PROVE Goal
    <2>1. CASE v # w
      BY <1>1, <1>2, <1>5, <1>6, <2>1
    <2>2. CASE v = w
      <3>1. PublishRetry(w) /\ Set(w, "ackRetry", work[w].d) => Goal
        BY <1>t DEF Set
      <3>2. QED
        BY <1>1, <1>3, <1>4, <1>5, <1>6, <2>2, <3>1
    <2>3. QED
      BY <2>1, <2>2
  <1>7. CASE Start \/ Stopped \/ Crash
    BY <1>7 DEF Start, Stopped, Crash, Down, Idle
  <1>8. QED
    BY <1>1, <1>6, <1>7 DEF Next, OutboxPublishes, RetryDelayElapses, Deliver, ConnectionDrops,
       BrokerReturns, Subscriber, Consume, DeliveriesClose, Reconnect, ReconnectFails, LoopStops,
       Close, ChannelCloses, vars

(* Only published events travel. *)
LEMMA OnlyPublished ==
  ASSUME Typed, HandsInv, FateInv, [Next]_vars
  PROVE  /\ handled' \cup dead' \subseteq published'
         /\ \A c \in Copies : msg'[c].place # "none" => msg'[c].event \in published'
         /\ \A d \in InHand' : d.event \in published'
  <1>t. BrokerTyped
    BY DEF Typed
  <1>w. \A w \in Workers : Busy(w) => work[w].d.event \in published
    BY DEF FateInv, InHand
  <1>1. handled' \cup dead' \subseteq published'
    <2>1. ASSUME NEW w \in Workers, Work(w)
          PROVE  UNCHANGED published /\ handled' \cup dead' \subseteq handled \cup dead \cup published
      BY <1>w, <2>1 DEF Work, Receive, Handle, Ack, DeadLetter, PublishRetry, PublishRetryFails,
                RetryConfirmLost, WorkerExits, broker, Busy
    <2>2. (\E w \in Workers : Work(w)) \/ UNCHANGED <<handled, dead>>
      BY DEF Next, OutboxPublishes, RetryDelayElapses, Deliver, ConnectionDrops, BrokerReturns,
                Subscriber, Consume, DeliveriesClose, Reconnect, ReconnectFails, LoopStops, Start,
                Close, ChannelCloses, Stopped, Crash, Down, vars, broker
    <2>3. QED
      BY <2>1, <2>2, FatesStay DEF FateInv
  <1>2. ASSUME NEW c \in Copies, msg'[c].place # "none" PROVE msg'[c].event \in published'
    <2>1. msg[c].place # "none" => msg[c].event \in published'
      BY FatesStay DEF FateInv
    <2>2. ASSUME NEW queue, NEW e \in published', NEW retry, Enqueue(queue, e, retry)
          PROVE  msg'[c].event \in published'
      <3>1. PICK f \in Copies : msg' = [msg EXCEPT ![f] = [event |-> e, retry |-> retry, place |-> queue]]
        BY <2>2, EnqueueIs
      <3>2. QED
        BY <1>2, <2>1, <3>1, <1>t DEF BrokerTyped
    <2>3. ASSUME NEW e \in Events, OutboxPublishes(e) PROVE msg'[c].event \in published'
      BY <2>2, <2>3 DEF OutboxPublishes
    <2>4. ASSUME NEW w \in Workers, PublishRetry(w) \/ RetryConfirmLost(w)
          PROVE  msg'[c].event \in published'
      <3>1. Busy(w) /\ Enqueue("retry", work[w].d.event, work[w].d.retry + 1)
        BY <2>4 DEF PublishRetry, RetryConfirmLost, Busy
      <3>2. work[w].d.event \in published'
        BY <1>w, <3>1, FatesStay
      <3>3. QED
        BY <2>2, <3>1, <3>2
    <2>5. ASSUME NEW w \in Workers, Ack(w) \/ DeadLetter(w) PROVE msg'[c].event \in published'
      <3>1. msg' = IF Settleable(work[w].d) THEN [msg EXCEPT ![work[w].d.copy] = NoMsg] ELSE msg
        BY <2>5 DEF Ack, DeadLetter
      <3>2. QED
        BY <1>2, <2>1, <3>1, <1>t DEF BrokerTyped, NoMsg
    <2>6. QED
      BY <1>2, <2>1, <2>3, <2>4, <2>5, StepMessages
  <1>3. \A d \in InHand' : d.event \in published'
    <2>1. ASSUME NEW c \in Copies, Deliver(c) PROVE NewDelivery(c).event \in published
      BY <2>1 DEF Deliver, NewDelivery, FateInv
    <2>2. QED
      BY <2>1, StepInHand, FatesStay DEF FateInv
  <1>4. QED
    BY <1>1, <1>2, <1>3

(* What is published, retried, acknowledged or dead-lettered is never the last trace of an event. *)
LEMMA FateStep == Typed /\ LinkInv /\ HandsInv /\ FateInv /\ [Next]_vars => FateInv'
  <1> SUFFICES ASSUME Typed, LinkInv, HandsInv, FateInv, [Next]_vars PROVE FateInv'
    OBVIOUS
  <1>t. BrokerTyped /\ WorkTyped
    BY DEF Typed
  <1>1. ASSUME NEW w \in Workers, work'[w].pc = "ack" PROVE work'[w].d.event \in handled'
    <2>1. work[w].pc = "ack" => work[w].d.event \in handled'
      BY FatesStay DEF FateInv
    <2>2. QED
      BY <1>1, <2>1, StepReports
  <1>2. ASSUME NEW w \in Workers, work'[w].pc = "ackRetry", Settleable(work[w].d)' PROVE Outlived(work[w].d)'
    <2> DEFINE d == work[w].d
    <2>1. CASE PublishRetry(w) /\ work'[w].d = d
      <3>1. PICK c \in Copies :
              msg' = [msg EXCEPT ![c] = [event |-> d.event, retry |-> d.retry + 1, place |-> "retry"]]
        BY <2>1, EnqueueIs DEF PublishRetry
      <3>2. d \in Delivery /\ d.retry \in Nat
        BY <2>1, <1>t, ConsumerAssumption DEF PublishRetry, WorkTyped, Busy, Delivery
      <3>3. msg'[c].event = d.event /\ msg'[c].retry > d.retry
        BY <3>1, <3>2, <1>t DEF BrokerTyped
      <3>4. QED
        BY <2>1, <3>3 DEF Outlived
    <2>2. CASE work'[w] = work[w]
      <3>1. PICK x \in InHand : x = d
        BY <1>2, <2>2 DEF InHand, Busy
      <3>2. Settleable(x)' /\ x \in Delivery /\ x.retry \in Nat /\ x.event \in Events
        BY <1>2, <2>2, <3>1, <1>t, ConsumerAssumption DEF Settleable, InHand, WorkTyped, Delivery
      <3>3. Outlived(x)
        BY <1>2, <2>2, <3>1, <3>2, SettleableBefore DEF FateInv
      <3>4. CASE x.event \in handled \cup dead
        BY <2>2, <3>1, <3>4, FatesStay DEF Outlived
      <3>5. ASSUME NEW c \in Copies, msg[c].event = x.event, msg[c].retry > x.retry PROVE Outlived(d)'
        <4>1. msg[c].retry \in Nat /\ x.retry + 1 \in Nat /\ msg[c].retry >= x.retry + 1
          BY <3>2, <3>5, <1>t, ConsumerAssumption DEF BrokerTyped, Msg
        <4>2. \/ x.event \in handled' \cup dead'
              \/ \E f \in Copies : msg'[f].event = x.event /\ msg'[f].retry >= x.retry + 1
          BY <3>2, <3>5, <4>1, TriesLast
        <4>3. BrokerTyped'
          BY BrokerStepTyped
        <4>4. \A f \in Copies : msg'[f].retry >= x.retry + 1 => msg'[f].retry > x.retry
          BY <3>2, <4>3, ConsumerAssumption DEF BrokerTyped, Msg
        <4>5. QED
          BY <2>2, <3>1, <4>2, <4>4 DEF Outlived
      <3>6. QED
        BY <3>3, <3>4, <3>5 DEF Outlived
    <2>3. QED
      BY <1>2, <2>1, <2>2, StepReports
  <1>3. ASSUME NEW e \in published' PROVE Live(e)' # {} \/ e \in handled' \/ e \in dead'
    <2>1. CASE e \in handled \cup dead
      BY <2>1, FatesStay
    <2>2. CASE e \in published /\ Live(e) # {}
      <3>1. PICK c \in Copies : msg[c].event = e
        BY <2>2 DEF Live
      <3>2. msg[c].retry \in Nat /\ msg[c].retry >= 0 /\ e \in Events
        BY <2>2, <1>t, ConsumerAssumption DEF BrokerTyped, Msg
      <3>3. e \in handled' \cup dead' \/ \E f \in Copies : msg'[f].event = e
        BY <3>1, <3>2, TriesLast
      <3>4. QED
        BY <3>3 DEF Live
    <2>3. CASE e \notin published
      <3>1. e \in Events /\ OutboxPublishes(e)
        <4>1. ASSUME NEW w \in Workers, Work(w) PROVE UNCHANGED published
          BY <4>1 DEF Work, Receive, Handle, Ack, DeadLetter, PublishRetry, PublishRetryFails,
                RetryConfirmLost, WorkerExits, broker
        <4>2. (\E v \in Events : OutboxPublishes(v)) \/ UNCHANGED published
          BY <4>1 DEF Next, RetryDelayElapses, Deliver, ConnectionDrops, BrokerReturns,
                Subscriber, Consume, DeliveriesClose, Reconnect, ReconnectFails, LoopStops, Start,
                Close, ChannelCloses, Stopped, Crash, Down, vars, broker
        <4>3. \A v \in Events : OutboxPublishes(v) => published' = published \cup {v}
          BY DEF OutboxPublishes
        <4>4. QED
          BY <2>3, <4>2, <4>3
      <3>2. PICK c \in Copies : msg' = [msg EXCEPT ![c] = [event |-> e, retry |-> 0, place |-> "main"]]
        BY <3>1, EnqueueIs DEF OutboxPublishes
      <3>3. msg'[c].event = e
        BY <3>2, <1>t DEF BrokerTyped
      <3>4. QED
        BY <3>3 DEF Live
    <2>4. QED
      BY <2>1, <2>2, <2>3 DEF FateInv, NoEventLost
  <1>4. QED
    BY <1>1, <1>2, <1>3, OnlyPublished DEF FateInv, NoEventLost

(* After the channel is closed nothing can be rejected. *)
LEMMA DrainStep == Typed /\ LinkInv /\ [Next]_vars => [phase = "draining" => dead' = dead]_vars
  <1> SUFFICES ASSUME Typed, LinkInv, Next, phase = "draining" PROVE dead' = dead
    OBVIOUS
  <1>1. ~chanUp
    BY DEF LinkInv
  <1>2. ASSUME NEW w \in Workers, Work(w) PROVE dead' = dead
    BY <1>1, <1>2 DEF Work, Receive, Handle, Ack, DeadLetter, PublishRetry, PublishRetryFails,
                RetryConfirmLost, WorkerExits, broker, Settleable
  <1>3. QED
    BY <1>2 DEF Next, OutboxPublishes, RetryDelayElapses, Deliver, ConnectionDrops, BrokerReturns,
                Subscriber, Consume, DeliveriesClose, Reconnect, ReconnectFails, LoopStops, Start,
                Close, ChannelCloses, Stopped, Crash, Down, vars, broker

-----------------------------------------------------------------------------
(* Without faults *)

(* What can happen as long as nothing goes wrong. *)
LEMMA WithoutFaults ==
  ASSUME Typed, LinkInv, Undisturbed, [Next]_vars, faults' = 0
  PROVE  /\ faults = 0
         /\ \/ \E e \in Events \ published : OutboxPublishes(e)
            \/ \E c \in Copies : RetryDelayElapses(c) \/ Deliver(c)
            \/ \E w \in Workers : \/ \E d \in inbox : Receive(w, d)
                                 \/ Handle(w) \/ Ack(w) \/ DeadLetter(w) \/ PublishRetry(w)
                                 \/ PublishRetryFails(w) \/ WorkerExits(w)
            \/ BrokerReturns \/ Consume \/ Start
            \/ UNCHANGED vars
  <1>f. faults \in Nat /\ ~Fault
    BY DEF Typed, LevelsTyped, Fault
  <1>1. ~ConnectionDrops /\ ~Close /\ ~Crash
    BY <1>f DEF ConnectionDrops, Close, Crash
  <1>2. \A w \in Workers : ~RetryConfirmLost(w)
    BY <1>f DEF RetryConfirmLost
  <1>3. \A e \in Events : OutboxPublishes(e) => e \notin published /\ UNCHANGED faults
    BY <1>f DEF OutboxPublishes
  <1>4. ASSUME NEW w \in Workers, Work(w) PROVE UNCHANGED faults
    BY <1>2, <1>4 DEF Work, Receive, Handle, Ack, DeadLetter, PublishRetry, PublishRetryFails, WorkerExits
  <1>5. faults = 0
    BY <1>1, <1>3, <1>4 DEF Next, RetryDelayElapses, Deliver, BrokerReturns,
                Subscriber, Consume, DeliveriesClose, Reconnect, ReconnectFails, LoopStops, Start,
                ChannelCloses, Stopped, vars
  <1>6. ~DeliveriesClose /\ ~Reconnect /\ ~ReconnectFails /\ ~LoopStops /\ ~ChannelCloses /\ ~Stopped
    BY <1>5 DEF Undisturbed, LinkInv, DeliveriesClose, Reconnect, ReconnectFails, LoopStops, ChannelCloses, Stopped
  <1>7. QED
    BY <1>1, <1>2, <1>3, <1>5, <1>6 DEF Next, Subscriber, Work

(* Without faults the consumer stays up, on its first channel. *)
LEMMA UndisturbedStep == Typed /\ LinkInv /\ Undisturbed /\ [Next]_vars => Undisturbed'
  <1> SUFFICES ASSUME Typed, LinkInv, Undisturbed, [Next]_vars, faults' = 0
               PROVE  /\ phase' \in {"down", "up"}
                      /\ phase' = "up" => chanUp'
                      /\ \A d \in InHand' : d.chan = chan'
    BY DEF Undisturbed
  <1>0. /\ phase \in {"down", "up"}
        /\ phase = "up" => chanUp
        /\ \A d \in InHand : d.chan = chan
    BY WithoutFaults DEF Undisturbed
  <1>1. CASE Start
    <2>1. inbox' = {} /\ \A w \in Workers : ~Busy(w)'
      BY <1>1 DEF Start, Idle, Busy
    <2>2. InHand' = {}
      BY <2>1 DEF InHand
    <2>3. QED
      BY <1>1, <2>2 DEF Start
  <1>2. CASE ~Start
    <2>1. ASSUME NEW w \in Workers, Work(w) PROVE UNCHANGED <<phase, chan, chanUp>>
      BY <2>1, WorkInHand DEF link
    <2>2. UNCHANGED <<phase, chan, chanUp>>
      BY <1>2, <2>1, WithoutFaults DEF OutboxPublishes, RetryDelayElapses, Deliver, BrokerReturns, Consume,
         Work, link, vars
    <2>3. \A c \in Copies : NewDelivery(c).chan = chan
      BY DEF NewDelivery
    <2>4. QED
      BY <1>0, <2>2, <2>3, StepInHand
  <1>3. QED
    BY <1>1, <1>2

(* Without faults whoever holds a delivery holds it alone, of a message that is there. *)
LEMMA HeldWithoutFaults ==
  ASSUME Typed, LinkInv, HandsInv, Undisturbed, faults = 0, NEW w \in Workers, Busy(w)
  PROVE  /\ work[w].d \in InHand /\ work[w].d \in Delivery /\ work[w].d.copy \in Copies
         /\ Settleable(work[w].d)
         /\ msg[work[w].d.copy] = Original(work[w].d)
         /\ \A v \in Workers \ {w} : Busy(v) => work[v].d.copy # work[w].d.copy
  <1>1. PICK d \in InHand : d = work[w].d
    BY DEF InHand
  <1>2. d \in Delivery /\ d.copy \in Copies
    BY <1>1 DEF Typed, WorkTyped, Delivery
  <1>3. phase # "down"
    BY DEF LinkInv
  <1>4. \A x \in InHand : Settleable(x)
    BY <1>3 DEF Undisturbed, Settleable
  <1>5. msg[d.copy] = Original(d) /\ Settleable(d)
    BY <1>4 DEF HandsInv
  <1>6. ASSUME NEW v \in Workers \ {w}, Busy(v) PROVE work[v].d.copy # work[w].d.copy
    <2>1. PICK x \in InHand : x = work[v].d
      BY <1>6 DEF InHand
    <2>2. x # d
      BY <1>1, <1>4, <1>6, <2>1 DEF HandsInv
    <2>3. QED
      BY <1>1, <1>4, <2>1, <2>2, SameDelivery
  <1>7. QED
    BY <1>1, <1>2, <1>5, <1>6

(* Reporting *)
Reports(w) == work[w].pc \in {"ack", "ackRetry"}

(* A worker that has nothing to report, before and after, leaves the reports alone. *)
LEMMA QuietWorker ==
  ASSUME WorkTyped, NEW w \in Workers, NEW pc, pc \notin {"ack", "ackRetry"}, NEW d,
         ~Reports(w), Set(w, pc, d), NEW c
  PROVE  Reported(c)' = Reported(c)
  <1>1. (\A v \in Workers \ {w} : work'[v] = work[v]) /\ work'[w].pc = pc
    BY DEF Set, WorkTyped
  <1>2. QED
    BY <1>1 DEF Reported, Reports

(* One that begins to report adds its message. *)
LEMMA BeginsToReport ==
  ASSUME WorkTyped, NEW w \in Workers, NEW pc \in {"ack", "ackRetry"},
         ~Reports(w), Set(w, pc, work[w].d), NEW c
  PROVE  Reported(c)' <=> Reported(c) \/ c = work[w].d.copy
  <1>1. (\A v \in Workers \ {w} : work'[v] = work[v]) /\ work'[w].pc = pc /\ work'[w].d = work[w].d
    BY DEF Set, WorkTyped
  <1>2. QED
    BY <1>1 DEF Reported, Reports

(* One that is done takes its message away. *)
LEMMA DoneReporting ==
  ASSUME WorkTyped, NEW w \in Workers, NEW pc, pc \notin {"ack", "ackRetry"}, NEW d,
         Set(w, pc, d), NEW c, c # work[w].d.copy
  PROVE  Reported(c)' = Reported(c)
  <1>1. (\A v \in Workers \ {w} : work'[v] = work[v]) /\ work'[w].pc = pc
    BY DEF Set, WorkTyped
  <1>2. QED
    BY <1>1 DEF Reported

(* The message of a worker that has not decided is one that decides. *)
LEMMA HeldIsUndecided ==
  ASSUME Typed, LinkInv, HandsInv, Undisturbed, faults = 0, NEW w \in Workers, Busy(w), ~Reports(w)
  PROVE  work[w].d.copy \in Undecided(work[w].d.event)
  <1>1. work[w].d.copy \in Live(work[w].d.event)
    <2>1. /\ work[w].d.copy \in Copies
          /\ msg[work[w].d.copy] = Original(work[w].d)
      BY HeldWithoutFaults
    <2>2. msg[work[w].d.copy].event = work[w].d.event
      BY <2>1 DEF Original
    <2>3. QED
      BY <2>1, <2>2 DEF Live
  <1>2. ~Reported(work[w].d.copy)
    BY HeldWithoutFaults DEF Reported, Reports, Busy
  <1>3. QED
    BY <1>1, <1>2 DEF Undecided

(* Nothing is reported of an identity that is free. *)
LEMMA FreeIsNotReported ==
  ASSUME Typed, LinkInv, HandsInv, Undisturbed, faults = 0, NEW c \in Copies, msg[c].place = "none"
  PROVE  ~Reported(c)
  <1> SUFFICES ASSUME NEW w \in Workers, work[w].pc \in {"ack", "ackRetry"}, work[w].d.copy = c
               PROVE  FALSE
    BY DEF Reported
  <1>1. Busy(w)
    BY DEF Busy
  <1>2. msg[c] = Original(work[w].d)
    BY <1>1, HeldWithoutFaults
  <1>3. QED
    BY <1>2 DEF Original

(* What leaves events, reports and outcomes alone leaves every event its fate. *)
LEMMA SameFates ==
  ASSUME \A c \in Copies : msg'[c].event = msg[c].event /\ Reported(c)' = Reported(c),
         UNCHANGED <<handled, dead>>, NEW e, OneWay(e)
  PROVE  OneWay(e)'
  <1>1. Undecided(e)' = Undecided(e)
    BY DEF Undecided, Live
  <1>2. QED
    BY <1>1 DEF OneWay

(* A step of one event leaves the others theirs. *)
LEMMA OtherFates ==
  ASSUME NEW e, NEW v, v # e,
         \A c \in Copies : (msg'[c].event = v <=> msg[c].event = v)
                          /\ (msg[c].event = v => Reported(c)' = Reported(c)),
         v \in handled' <=> v \in handled, v \in dead' <=> v \in dead, OneWay(v)
  PROVE  OneWay(v)'
  <1>1. Undecided(v)' = Undecided(v)
    BY DEF Undecided, Live
  <1>2. QED
    BY <1>1 DEF OneWay

(* A first publish gives the event the message that decides on it. *)
LEMMA PublishFates ==
  ASSUME Typed, LinkInv, HandsInv, FateInv, FatesInv, faults = 0, UNCHANGED faults,
         NEW e \in Events \ published, OutboxPublishes(e)
  PROVE  \A v \in published' : OneWay(v)'
  <1>1. PICK c \in Copies : /\ msg[c].place = "none"
                            /\ msg' = [msg EXCEPT ![c] = [event |-> e, retry |-> 0, place |-> "main"]]
    BY EnqueueIs DEF OutboxPublishes
  <1>2. /\ UNCHANGED <<handled, dead, work>> /\ published' = published \cup {e}
        /\ e \notin handled \cup dead
    BY DEF OutboxPublishes, FateInv
  <1>3. BrokerTyped /\ msg[c].event \notin Events
    BY <1>1, ConsumerAssumption DEF Typed, BrokerTyped, NoMsg
  <1>4. \A f : Reported(f)' = Reported(f)
    BY <1>2 DEF Reported
  <1>5. \A f \in Copies : IF f = c THEN msg'[f].event = e ELSE msg'[f] = msg[f]
    BY <1>1, <1>3 DEF BrokerTyped
  <1>6. OneWay(e)'
    <2>1. Live(e) = {}
      BY <1>3, ConsumerAssumption DEF Live, FateInv, BrokerTyped, NoMsg
    <2>2. Live(e)' = {c}
      BY <1>5, <2>1 DEF Live
    <2>3. ~Reported(c)'
      BY <1>1, <1>4, FreeIsNotReported DEF FatesInv
    <2>4. Undecided(e)' = {c}
      BY <2>2, <2>3 DEF Undecided
    <2>5. QED
      BY <1>2, <2>4 DEF OneWay
  <1>7. ASSUME NEW v \in published PROVE OneWay(v)'
    <2>1. v # e /\ OneWay(v) /\ v \in Events
      BY DEF FatesInv, Typed, BrokerTyped
    <2>2. Undecided(v)' = Undecided(v)
      BY <1>3, <1>4, <1>5, <2>1 DEF Undecided, Live
    <2>3. QED
      BY <1>2, <2>1, <2>2 DEF OneWay
  <1>8. QED
    BY <1>2, <1>6, <1>7

(* The one message of an event that is accepted, or rejected, was the last; *)
LEMMA DecidingFates ==
  ASSUME Typed, LinkInv, HandsInv, FateInv, FatesInv, faults = 0, UNCHANGED published,
         NEW w \in Workers, (Handle(w) /\ work'[w].pc = "ack") \/ DeadLetter(w)
  PROVE  \A v \in published' : OneWay(v)'
  <1>t. WorkTyped /\ BrokerTyped
    BY DEF Typed
  <1>1. Busy(w) /\ ~Reports(w)
    BY DEF Handle, DeadLetter, Busy, Reports
  <1>d. PICK d \in InHand : d = work[w].d
    BY <1>1 DEF InHand
  <1> DEFINE e == d.event
  <1>2. /\ d.copy \in Copies /\ Settleable(d)
        /\ msg[d.copy] = Original(d) /\ d.copy \in Undecided(e) /\ Undisturbed
    BY <1>1, <1>d, HeldWithoutFaults, HeldIsUndecided DEF FatesInv
  <1>3. msg[d.copy].event = e
    BY <1>2 DEF Original
  <1>4. OneWay(e) /\ e \in published /\ e \in Events
    BY <1>1, <1>2, <1>t DEF FateInv, FatesInv, BrokerTyped
  <1>5. Undecided(e) = {d.copy} /\ e \notin handled \cup dead
    BY <1>2, <1>4 DEF OneWay
  <1>6. CASE Handle(w) /\ work'[w].pc = "ack"
    <2>1. Set(w, "ack", d) /\ handled' = handled \cup {e} /\ UNCHANGED <<msg, dead>>
      <3>1. \A pc : Set(w, pc, d) => work'[w].pc = pc
        BY <1>t DEF Set, WorkTyped
      <3>2. RetryOrDeadLetter(d) # "ack"
        BY DEF RetryOrDeadLetter
      <3>3. QED
        BY <1>6, <1>d, <3>1, <3>2 DEF Handle, broker
    <2>2. \A c : Reported(c)' <=> Reported(c) \/ c = d.copy
      BY <1>1, <1>d, <1>t, <2>1, BeginsToReport
    <2>3. Undecided(e)' = {}
      BY <1>5, <2>1, <2>2 DEF Undecided, Live
    <2>4. OneWay(e)'
      BY <1>5, <2>1, <2>3 DEF OneWay
    <2>5. ASSUME NEW v \in published, v # e PROVE OneWay(v)'
      <3>1. Undecided(v)' = Undecided(v)
        BY <1>3, <2>1, <2>2, <2>5 DEF Undecided, Live
      <3>2. QED
        BY <2>1, <2>5, <3>1 DEF FatesInv, OneWay
    <2>6. QED
      BY <2>4, <2>5
  <1>7. CASE DeadLetter(w)
    <2>1. /\ msg' = [msg EXCEPT ![d.copy] = NoMsg] /\ dead' = dead \cup {e} /\ UNCHANGED handled
          /\ Set(w, "recv", None)
      BY <1>2, <1>7, <1>d DEF DeadLetter, Set, Idle
    <2>2. \A c : c # d.copy => Reported(c)' = Reported(c)
      BY <1>d, <1>t, <2>1, DoneReporting
    <2>3. \A c \in Copies : IF c = d.copy THEN msg'[c].event \notin Events ELSE msg'[c] = msg[c]
      BY <1>t, <2>1, ConsumerAssumption DEF BrokerTyped, NoMsg
    <2>4. Undecided(e)' = {}
      BY <1>4, <1>5, <2>2, <2>3 DEF Undecided, Live
    <2>5. OneWay(e)'
      BY <1>5, <2>1, <2>4 DEF OneWay
    <2>6. ASSUME NEW v \in published, v # e PROVE OneWay(v)'
      <3>1. Undecided(v)' = Undecided(v) /\ v \in Events
        BY <1>3, <1>t, <2>2, <2>3, <2>6 DEF Undecided, Live, BrokerTyped
      <3>2. QED
        BY <2>1, <2>6, <3>1 DEF FatesInv, OneWay
    <2>7. QED
      BY <2>5, <2>6
  <1>8. QED
    BY <1>6, <1>7

(* one that is retried leaves the decision to its copy; *)
LEMMA RetryFates ==
  ASSUME Typed, LinkInv, HandsInv, FateInv, FatesInv, faults = 0, NEW w \in Workers, PublishRetry(w)
  PROVE  \A v \in published' : OneWay(v)'
  <1>t. WorkTyped /\ BrokerTyped
    BY DEF Typed
  <1>1. Busy(w) /\ ~Reports(w) /\ UNCHANGED <<published, handled, dead>>
    BY DEF PublishRetry, Busy, Reports
  <1>d. PICK d \in InHand : d = work[w].d
    BY <1>1 DEF InHand
  <1> DEFINE e == d.event
  <1>2. /\ d.copy \in Copies /\ Set(w, "ackRetry", d)
        /\ msg[d.copy] = Original(d) /\ d.copy \in Undecided(e) /\ Undisturbed
    BY <1>1, <1>d, HeldWithoutFaults, HeldIsUndecided DEF FatesInv, PublishRetry
  <1>3. msg[d.copy].event = e /\ msg[d.copy].place = "unacked"
    BY <1>2 DEF Original
  <1>4. OneWay(e) /\ e \in published /\ e \in Events
    BY <1>1, <1>2, <1>t DEF FateInv, FatesInv, BrokerTyped
  <1>5. Undecided(e) = {d.copy} /\ e \notin handled \cup dead
    BY <1>2, <1>4 DEF OneWay
  <1>6. PICK f \in Copies : /\ msg[f].place = "none"
                            /\ msg' = [msg EXCEPT ![f] = [event |-> e, retry |-> d.retry + 1, place |-> "retry"]]
    BY <1>d, EnqueueIs DEF PublishRetry
  <1>7. /\ f # d.copy /\ ~Reported(f) /\ msg[f].event \notin Events
        /\ \A c \in Copies : IF c = f THEN msg'[c].event = e ELSE msg'[c] = msg[c]
    BY <1>2, <1>3, <1>6, <1>t, FreeIsNotReported, ConsumerAssumption DEF BrokerTyped, NoMsg
  <1>8. \A c : Reported(c)' <=> Reported(c) \/ c = d.copy
    BY <1>1, <1>2, <1>d, <1>t, BeginsToReport
  <1>9. Undecided(e)' = {f}
    BY <1>4, <1>5, <1>7, <1>8 DEF Undecided, Live
  <1>10. ASSUME NEW v \in published, v # e PROVE OneWay(v)'
    <2>1. Undecided(v)' = Undecided(v)
      BY <1>3, <1>7, <1>8, <1>10, <1>t DEF Undecided, Live, BrokerTyped
    <2>2. QED
      BY <1>1, <1>10, <2>1 DEF FatesInv, OneWay
  <1>11. QED
    BY <1>1, <1>5, <1>9, <1>10 DEF OneWay

(* and an acknowledgement takes away what no longer decides. *)
LEMMA AckFates ==
  ASSUME Typed, LinkInv, HandsInv, FateInv, FatesInv, faults = 0, NEW w \in Workers, Ack(w)
  PROVE  \A v \in published' : OneWay(v)'
  <1> DEFINE d == work[w].d
  <1>t. WorkTyped /\ BrokerTyped /\ Undisturbed
    BY DEF Typed, FatesInv
  <1>1. Busy(w) /\ Set(w, "recv", None) /\ UNCHANGED <<published, handled, dead>>
    BY DEF Ack, Busy, Set, Idle
  <1>2. Settleable(d) /\ d.copy \in Copies
    BY <1>1, <1>t, HeldWithoutFaults
  <1>3. \A c \in Copies : IF c = d.copy THEN msg'[c].event \notin Events ELSE msg'[c] = msg[c]
    BY <1>2, <1>t, ConsumerAssumption DEF Ack, BrokerTyped, NoMsg
  <1>4. \A c : c # d.copy => Reported(c)' = Reported(c)
    BY <1>1, <1>t, DoneReporting
  <1>5. Reported(d.copy)
    BY DEF Reported, Ack
  <1>6. ASSUME NEW v \in published PROVE OneWay(v)'
    <2>1. Undecided(v)' = Undecided(v)
      BY <1>3, <1>4, <1>5, <1>t DEF Undecided, Live, BrokerTyped
    <2>2. QED
      BY <1>1, <2>1 DEF FatesInv, OneWay
  <1>7. QED
    BY <1>1, <1>6

(* A handler that does not accept leaves the outcome open. *)
LEMMA OpenFates ==
  ASSUME Typed, FatesInv, faults = 0, UNCHANGED <<published, handled, dead, msg>>,
         NEW w \in Workers, ~Reports(w), NEW pc, pc \notin {"ack", "ackRetry"}, NEW d, Set(w, pc, d)
  PROVE  \A v \in published' : OneWay(v)'
  <1>1. \A c : Reported(c)' = Reported(c)
    BY QuietWorker DEF Typed
  <1>2. ASSUME NEW v \in published PROVE OneWay(v)'
    BY <1>1, SameFates DEF FatesInv
  <1>3. QED
    BY <1>2

(* Without faults every event keeps one fate. *)
LEMMA FatesStep == Typed /\ LinkInv /\ HandsInv /\ FateInv /\ FatesInv /\ [Next]_vars => FatesInv'
  <1> SUFFICES ASSUME Typed, LinkInv, HandsInv, FateInv, FatesInv, [Next]_vars, faults' = 0
               PROVE  \A e \in published' : OneWay(e)'
    BY UndisturbedStep DEF FatesInv
  <1>t. BrokerTyped /\ WorkTyped /\ Undisturbed /\ faults = 0
    BY WithoutFaults DEF Typed, FatesInv
  <1>s. ASSUME \A c \in Copies : msg'[c].event = msg[c].event, \A c \in Copies : Reported(c)' = Reported(c),
               UNCHANGED <<published, handled, dead>>
        PROVE  \A e \in published' : OneWay(e)'
    <2>1. ASSUME NEW e \in published PROVE OneWay(e)'
      BY <1>s, <1>t, SameFates DEF FatesInv
    <2>2. QED
      BY <1>s, <2>1
  <1>1. ASSUME NEW e \in Events \ published, OutboxPublishes(e) PROVE \A v \in published' : OneWay(v)'
    BY <1>1, <1>t, PublishFates
  <1>2. ASSUME NEW c \in Copies, RetryDelayElapses(c) \/ Deliver(c) PROVE \A e \in published' : OneWay(e)'
    <2>1. UNCHANGED <<work, published, handled, dead>> /\ \A f \in Copies : msg'[f].event = msg[f].event
      BY <1>2, <1>t DEF RetryDelayElapses, Deliver, BrokerTyped, Msg
    <2>2. \A f \in Copies : Reported(f)' = Reported(f)
      BY <2>1 DEF Reported
    <2>3. QED
      BY <1>s, <2>1, <2>2
  <1>3. CASE BrokerReturns \/ Consume \/ UNCHANGED vars
    <2>1. UNCHANGED <<msg, work, published, handled, dead>>
      BY <1>3 DEF BrokerReturns, Consume, vars, broker
    <2>2. \A f \in Copies : Reported(f)' = Reported(f)
      BY <2>1 DEF Reported
    <2>3. QED
      BY <1>s, <2>1, <2>2
  <1>4. CASE Start
    <2>1. UNCHANGED <<msg, published, handled, dead>> /\ \A w \in Workers : ~Busy(w) /\ ~Busy(w)'
      BY <1>4 DEF Start, LinkInv, broker, Idle, Busy
    <2>2. \A f \in Copies : Reported(f)' = Reported(f)
      BY <2>1 DEF Reported, Busy
    <2>3. QED
      BY <1>s, <2>1, <2>2
  <1>5. ASSUME NEW w \in Workers, Work(w), ~RetryConfirmLost(w) PROVE \A e \in published' : OneWay(e)'
    <2> DEFINE d == work[w].d
    <2>1. CASE (Handle(w) /\ work'[w].pc = "ack") \/ DeadLetter(w)
      BY <1>t, <2>1, DecidingFates DEF Handle, DeadLetter, broker
    <2>2. CASE Handle(w) /\ work'[w].pc # "ack"
      <3>1. ~Set(w, "ack", d)
        BY <1>t, <2>2 DEF Set, WorkTyped
      <3>2. /\ ~Reports(w) /\ UNCHANGED <<published, handled, dead, msg>>
            /\ Set(w, "nack", d) \/ Set(w, "publish", d)
        BY <2>2, <3>1 DEF Handle, RetryOrDeadLetter, broker, Reports
      <3>3. QED
        BY <1>t, <3>2, OpenFates
    <2>3. CASE Ack(w)
      BY <1>t, <2>3, AckFates
    <2>4. CASE PublishRetry(w)
      BY <1>t, <2>4, RetryFates
    <2>5. ASSUME NEW x \in inbox, Receive(w, x) PROVE \A e \in published' : OneWay(e)'
      <3>1. ~Reports(w) /\ UNCHANGED <<published, handled, dead, msg>> /\ Set(w, "handle", x)
        BY <2>5 DEF Receive, Reports, broker
      <3>2. QED
        BY <1>t, <3>1, OpenFates
    <2>6. CASE PublishRetryFails(w) \/ WorkerExits(w)
      <3>1. /\ ~Reports(w) /\ UNCHANGED <<published, handled, dead, msg>>
            /\ Set(w, "nack", d) \/ Set(w, "exited", None)
        BY <2>6 DEF PublishRetryFails, WorkerExits, Reports, broker
      <3>2. QED
        BY <1>t, <3>1, OpenFates
    <2>7. QED
      BY <1>5, <2>1, <2>2, <2>3, <2>4, <2>5, <2>6 DEF Work
  <1>6. ASSUME NEW w \in Workers, RetryConfirmLost(w) PROVE FALSE
    BY <1>6, <1>t DEF RetryConfirmLost, Fault
  <1>7. (\E w \in Workers : Work(w)) => \A e \in published' : OneWay(e)'
    BY <1>5, <1>6
  <1>8. \/ \E e \in Events \ published : OutboxPublishes(e)
        \/ \E c \in Copies : RetryDelayElapses(c) \/ Deliver(c)
        \/ \E w \in Workers : Work(w)
        \/ BrokerReturns \/ Consume \/ UNCHANGED vars \/ Start
    BY <1>t, WithoutFaults DEF Work
  <1>9. QED
    BY <1>1, <1>2, <1>3, <1>4, <1>7, <1>8

-----------------------------------------------------------------------------
(* The invariants *)

(* Nothing is published, so nothing is in anybody's hands. *)
LEMMA InitInv == Init => IndInv
  <1> SUFFICES ASSUME Init PROVE IndInv
    OBVIOUS
  <1>1. Typed
    BY InitTyped
  <1>2. InHand = {} /\ Unacked = {} /\ \A w \in Workers : ~Busy(w)
    BY DEF Init, InHand, Busy, Idle, Unacked, NoMsg
  <1>3. LinkInv /\ HandsInv
    BY <1>2 DEF Init, LinkInv, HandsInv
  <1>4. FateInv
    BY <1>2 DEF Init, FateInv, NoEventLost, NoMsg, Busy
  <1>5. FatesInv
    BY <1>2 DEF Init, FatesInv, Undisturbed
  <1>6. QED
    BY <1>1, <1>3, <1>4, <1>5 DEF IndInv

(* The inductive invariant holds of every instance. *)
THEOREM IndInvHolds == Spec => []IndInv
  <1>1. Init => IndInv
    BY InitInv
  <1>2. IndInv /\ [Next]_vars => IndInv'
    BY StepTyped, LinkStep, HandsStep, FateStep, FatesStep DEF IndInv
  <1>3. QED
    BY <1>1, <1>2, PTL DEF Spec

(* No published event disappears: whatever combination of lost confirms, broken channels,      *)
(* reconnects, shutdowns and crashes, an event not accepted and not dead is in some queue or   *)
(* unacknowledged on the channel.                                                              *)
THEOREM NoEventIsLost == Spec => []NoEventLost
  <1>1. IndInv => NoEventLost
    BY DEF IndInv, FateInv
  <1>2. QED
    BY <1>1, IndInvHolds, PTL

(* While the consumer is up every unacknowledged message is held, and what can be acknowledged *)
(* is held once and is the message the broker has.                                             *)
THEOREM NoDeliveryIsOrphaned == Spec => []NoOrphanDelivery
  <1>1. IndInv => NoOrphanDelivery
    <2> SUFFICES ASSUME IndInv PROVE NoOrphanDelivery
      OBVIOUS
    <2>1. WorkTyped /\ HandsInv
      BY DEF IndInv, Typed
    <2>2. \A w \in Workers : work[w].d # None => Busy(w)
      BY <2>1 DEF WorkTyped
    <2>3. ASSUME NEW w \in Workers, work[w].d # None, Settleable(work[w].d)
          PROVE  /\ msg[work[w].d.copy] = Original(work[w].d)
                 /\ work[w].d \notin inbox
                 /\ \A v \in Workers \ {w} : work[v].d # work[w].d
      <3>1. Busy(w) /\ work[w].d \in InHand
        BY <2>2, <2>3 DEF InHand
      <3>2. PICK d \in InHand : d = work[w].d
        BY <3>1
      <3>3. msg[d.copy] = Original(d)
        BY <2>1, <2>3, <3>2 DEF HandsInv
      <3>4. \A v \in Workers : Busy(v) \/ work[v].d = None
        BY <2>2
      <3>5. work[w].d \notin inbox /\ \A v \in Workers \ {w} : Busy(v) => work[v].d # work[w].d
        BY <2>1, <2>3, <3>1 DEF HandsInv
      <3>6. QED
        BY <2>3, <3>2, <3>3, <3>4, <3>5
    <2>4. \A d \in InHand : Held(d)
      BY DEF InHand, Held
    <2>5. QED
      BY <2>1, <2>3, <2>4 DEF NoOrphanDelivery, HandsInv, Original
  <1>2. QED
    BY <1>1, IndInvHolds, PTL

(* As long as nothing fails an event is in one place: one message that decides on it, accepted, *)
(* or dead; and no message was retried beyond the limit.                                        *)
THEOREM EventsHaveOneFate == Spec => []OneFate
  <1>1. IndInv => OneFate
    <2> SUFFICES ASSUME IndInv PROVE OneFate
      OBVIOUS
    <2>1. ASSUME faults = 0, NEW e \in published
          PROVE  Cardinality({c \in Live(e) : ~Reported(c)})
                   + Cardinality({e} \cap handled) + Cardinality({e} \cap dead) = 1
      <3>1. OneWay(e)
        BY <2>1 DEF IndInv, FatesInv
      <3>2. Cardinality({}) = 0 /\ Cardinality({e}) = 1 /\ \A c \in Copies : Cardinality({c}) = 1
        BY FS_EmptySet, FS_Singleton
      <3>3. CASE e \notin handled \cup dead /\ \E c \in Copies : Undecided(e) = {c}
        <4>1. Cardinality(Undecided(e)) = 1 /\ {e} \cap handled = {} /\ {e} \cap dead = {}
          BY <3>2, <3>3
        <4>2. QED
          BY <3>2, <4>1 DEF Undecided
      <3>4. CASE e \in handled \ dead /\ Undecided(e) = {}
        <4>1. Undecided(e) = {} /\ {e} \cap handled = {e} /\ {e} \cap dead = {}
          BY <3>4
        <4>2. QED
          BY <3>2, <4>1 DEF Undecided
      <3>5. CASE e \in dead \ handled /\ Undecided(e) = {}
        <4>1. Undecided(e) = {} /\ {e} \cap handled = {} /\ {e} \cap dead = {e}
          BY <3>5
        <4>2. QED
          BY <3>2, <4>1 DEF Undecided
      <3>6. QED
        BY <3>1, <3>3, <3>4, <3>5 DEF OneWay
    <2>2. \A c \in Copies : msg[c].retry <= MaxRetries
      BY ConsumerAssumption DEF IndInv, Typed, BrokerTyped, Msg
    <2>3. QED
      BY <2>1, <2>2 DEF OneFate, Live
  <1>2. QED
    BY <1>1, IndInvHolds, PTL

(* A shutdown rejects nothing: once the channel is closed and the workers are cancelled, no *)
(* failed publish of theirs turns into a dead letter.                                       *)
THEOREM DrainingDeadLettersNothing == Spec => DrainNeverDeadLetters
  <1>1. IndInv /\ [Next]_vars => [phase = "draining" => dead' = dead]_vars
    BY DrainStep DEF IndInv
  <1>2. QED
    BY <1>1, IndInvHolds, PTL DEF Spec, DrainNeverDeadLetters
=============================================================================
