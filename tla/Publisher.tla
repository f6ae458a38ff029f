----------------------------- MODULE Publisher -----------------------------
(***************************************************************************)
(* One RabbitMQ publisher (mq/rabbitmq/publisher.go): its goroutine, which *)
(* publishes one message at a time under p.mu and waits for the confirm,   *)
(* a channel that may close under it, the broker at the other end of that  *)
(* channel, and Close called by somebody else.                             *)
(*                                                                         *)
(* A call of Publish makes up to Attempts + 1 attempts; an attempt that    *)
(* reaches the channel is the pair <<call, attempt>>.                      *)
(***************************************************************************)
EXTENDS Naturals, Sequences

CONSTANTS
    Calls,          \* calls of Publish
    Unroutable,     \* those whose routing key has no queue
    Attempts,       \* defaultPublisherReconnectAttempts
    NoCall,
    MaxFaults       \* bound: broken channels, failed declarations, rejections

ASSUME PublisherAssumption ==
    /\ Unroutable \subseteq Calls
    /\ Attempts \in Nat \ {0}
    /\ NoCall \notin Calls
    /\ MaxFaults \in Nat

VARIABLES
    pc,         \* where the publishing goroutine is
    call,       \* the call it is in
    attempt,    \* turns of Publish's loop
    tries,      \* turns of reconnectLocked's loop
    result,     \* what the call returns
    called,     \* calls begun
    closed,     \* p.closed
    ctxDone,    \* the caller's context is done
    up,         \* p.conn is open
    channel,    \* p.ch: "none", "open", or "shut" by the other side
    returns,    \* p.returns, buffered: whose messages came back
    confirm,    \* the deferred confirm of the current attempt
    wire,       \* attempts sent on the channel and not handled by the broker yet
    routed,     \* attempts whose message the broker put into a queue
    stray,      \* an unroutable message of this channel was given up unconfirmed
    outage,     \* the broker cannot be dialled
    faults

caller == <<pc, call, attempt, tries, result, called>>
link == <<closed, up, channel>>
vars == <<pc, call, attempt, tries, result, called, closed, ctxDone, up, channel,
          returns, confirm, wire, routed, stray, outage, faults>>

Tags == Calls \X (1 .. Attempts + 1)
Current == <<call, attempt>>

Results == {"none", "ok", "returned", "nack", "timeout", "closed", "unreachable", "cancelled"}

(* p.mu is held while an attempt or a reconnection is under way. *)
Locked == pc \in {"drain", "spin", "send", "wait", "check", "dial"}

TypeOK ==
    /\ pc \in {"idle", "try", "reconnect", "done"} \cup
              {"drain", "spin", "send", "wait", "check", "dial"}
    /\ call \in Calls \cup {NoCall}
    /\ attempt \in 0 .. Attempts + 1
    /\ tries \in 0 .. Attempts
    /\ result \in Results
    /\ called \subseteq Calls
    /\ closed \in BOOLEAN /\ ctxDone \in BOOLEAN /\ up \in BOOLEAN
    /\ channel \in {"none", "open", "shut"}
    /\ returns \in Seq(Calls)
    /\ confirm \in {"none", "sent", "handled", "ack", "nack"}
    /\ wire \in Seq(Tags)
    /\ routed \subseteq Tags
    /\ stray \in BOOLEAN /\ outage \in BOOLEAN
    /\ faults \in 0 .. MaxFaults

(* NewPublisher returned: a connection, a channel in confirm mode. *)
Init ==
    /\ pc = "idle" /\ call = NoCall /\ attempt = 0 /\ tries = 0 /\ result = "none"
    /\ called = {}
    /\ closed = FALSE /\ ctxDone = FALSE /\ up = TRUE /\ channel = "open"
    /\ returns = <<>> /\ confirm = "none" /\ wire = <<>> /\ routed = {}
    /\ stray = FALSE /\ outage = FALSE /\ faults = 0

-----------------------------------------------------------------------------
(* Publish and publishOnce *)

Finish(res) == pc' = "done" /\ result' = res

(* As if every failure were worth another attempt. *)
IsClosedErrorAny(err) == TRUE

IsClosedError(err) == err = "closed"

(* What Publish does with an error of publishOnce. *)
AttemptFailed(err) ==
    IF IsClosedError(err) THEN pc' = "reconnect" /\ UNCHANGED result ELSE Finish(err)

Publish(c) ==
    /\ pc = "idle" /\ c \notin called
    /\ pc' = "try" /\ call' = c /\ attempt' = 1 /\ called' = called \cup {c}
    /\ UNCHANGED <<tries, result, link, ctxDone, returns, confirm, wire, routed, stray,
                   outage, faults>>

CheckReady == ~closed /\ up /\ channel = "open"

(* publishOnce takes the lock; a closed channel is an error that Publish reconnects on. *)
Begin ==
    /\ pc = "try"
    /\ IF CheckReady
       THEN pc' = "drain" /\ UNCHANGED result
       ELSE AttemptFailed("closed")
    /\ UNCHANGED <<call, attempt, tries, called, link, ctxDone, returns, confirm, wire,
                   routed, stray, outage, faults>>

(* drainReturnsLocked: a returns channel that was closed since the check never runs dry. *)
DrainReturns ==
    /\ pc = "drain"
    /\ IF channel = "open"
       THEN pc' = "send" /\ returns' = <<>>
       ELSE pc' = "spin" /\ UNCHANGED returns
    /\ UNCHANGED <<call, attempt, tries, result, called, link, ctxDone, confirm, wire,
                   routed, stray, outage, faults>>

Send ==
    /\ pc = "send"
    /\ IF channel = "open"
       THEN /\ pc' = "wait" /\ confirm' = "sent"
            /\ wire' = Append(wire, Current)
            /\ UNCHANGED result
       ELSE /\ AttemptFailed("closed")
            /\ UNCHANGED <<confirm, wire>>
    /\ UNCHANGED <<call, attempt, tries, called, link, ctxDone, returns, routed, stray,
                   outage, faults>>

Confirmed ==
    /\ pc = "wait" /\ confirm = "ack"
    /\ pc' = "check" /\ confirm' = "none"
    /\ UNCHANGED <<call, attempt, tries, result, called, link, ctxDone, returns, wire,
                   routed, stray, outage, faults>>

(* A rejection, or a channel that closed before the confirm came: not retried. *)
Nacked ==
    /\ pc = "wait" /\ confirm = "nack"
    /\ AttemptFailed("nack") /\ confirm' = "none"
    /\ UNCHANGED <<call, attempt, tries, called, link, ctxDone, returns, wire, routed,
                   stray, outage, faults>>

(* As if the wait had the caller's context and no timeout. *)
MayGiveUpWhenCancelled == ctxDone

(* publishCtx: the publish timeout may pass at any time. *)
MayGiveUp == TRUE

GiveUpWaiting ==
    /\ pc = "wait" /\ MayGiveUp
    /\ AttemptFailed("timeout") /\ confirm' = "none"
    /\ stray' = (stray \/ (channel = "open" /\ call \in Unroutable))
    /\ UNCHANGED <<call, attempt, tries, called, link, ctxDone, returns, wire, routed,
                   outage, faults>>

(* As if the confirm alone decided. *)
ReturnPendingNever == FALSE

(* checkReturnLocked takes whatever return is there. *)
ReturnPending == returns # <<>>

CheckReturn ==
    /\ pc = "check"
    /\ IF ReturnPending
       THEN AttemptFailed("returned") /\ returns' = Tail(returns)
       ELSE Finish("ok") /\ UNCHANGED returns
    /\ UNCHANGED <<call, attempt, tries, called, link, ctxDone, confirm, wire, routed,
                   stray, outage, faults>>

Return ==
    /\ pc = "done"
    /\ pc' = "idle" /\ call' = NoCall /\ attempt' = 0 /\ tries' = 0 /\ result' = "none"
    /\ UNCHANGED <<called, link, ctxDone, returns, confirm, wire, routed, stray, outage,
                   faults>>

-----------------------------------------------------------------------------
(* Reconnect and reconnectLocked *)

Reconnect ==
    /\ pc = "reconnect"
    /\ IF closed
       THEN Finish("closed") /\ UNCHANGED <<tries, channel, returns>>
       ELSE /\ pc' = "dial" /\ tries' = 1
            /\ channel' = "none" /\ returns' = <<>>
            /\ UNCHANGED result
    /\ UNCHANGED <<call, attempt, called, closed, up, ctxDone, confirm, wire, routed, stray,
                   outage, faults>>

(* initChannelLocked: a new channel has its own returns and nothing on its way. Publish's
   loop may be through even though the reconnection succeeded. *)
DialSucceeds ==
    /\ pc = "dial" /\ ~ctxDone
    /\ up \/ ~outage
    /\ up' = TRUE /\ channel' = "open" /\ returns' = <<>> /\ stray' = FALSE
    /\ IF attempt > Attempts
       THEN Finish("unreachable") /\ UNCHANGED attempt
       ELSE pc' = "try" /\ attempt' = attempt + 1 /\ UNCHANGED result
    /\ UNCHANGED <<call, tries, called, closed, ctxDone, confirm, wire, routed, outage,
                   faults>>

(* A dial that fails, or a new channel on which the topology is refused. *)
DialFails ==
    /\ pc = "dial" /\ ~ctxDone
    /\ \/ ~up /\ outage /\ UNCHANGED faults
       \/ faults < MaxFaults /\ faults' = faults + 1
    /\ IF tries = Attempts
       THEN Finish("unreachable") /\ UNCHANGED tries
       ELSE tries' = tries + 1 /\ UNCHANGED <<pc, result>>
    /\ UNCHANGED <<call, attempt, called, link, ctxDone, returns, confirm, wire, routed,
                   stray, outage>>

(* ctx.Err at the head of the loop, or SleepWithContext at its end. *)
DialCancelled ==
    /\ pc = "dial" /\ ctxDone
    /\ Finish("cancelled")
    /\ UNCHANGED <<call, attempt, tries, called, link, ctxDone, returns, confirm, wire,
                   routed, stray, outage, faults>>

-----------------------------------------------------------------------------
(* Others: Close, the caller's context, the broker and the network *)

(* Close waits for the lock; what was sent before reaches the broker. *)
Close ==
    /\ ~Locked /\ ~closed
    /\ closed' = TRUE /\ up' = FALSE /\ channel' = "none" /\ returns' = <<>>
    /\ UNCHANGED <<caller, ctxDone, confirm, wire, routed, stray, outage, faults>>

Cancel ==
    /\ ~ctxDone /\ ctxDone' = TRUE
    /\ UNCHANGED <<caller, link, returns, confirm, wire, routed, stray, outage, faults>>

(* The broker handles what was sent in order. The return of an unroutable message goes out
   before its confirm. *)
Handle ==
    /\ wire # <<>>
    /\ wire' = Tail(wire)
    /\ IF Head(wire)[1] \in Unroutable
       THEN /\ returns' = IF channel = "open" THEN Append(returns, Head(wire)[1]) ELSE returns
            /\ UNCHANGED routed
       ELSE /\ routed' = routed \cup {Head(wire)}
            /\ UNCHANGED returns
    /\ confirm' = IF confirm = "sent" /\ Head(wire) = Current THEN "handled" ELSE confirm
    /\ UNCHANGED <<caller, link, ctxDone, stray, outage, faults>>

Confirm ==
    /\ confirm = "handled" /\ channel = "open"
    /\ confirm' = "ack"
    /\ UNCHANGED <<caller, link, ctxDone, returns, wire, routed, stray, outage, faults>>

(* A queue at its limit: the message is refused and stored nowhere. *)
Refuse ==
    /\ faults < MaxFaults /\ faults' = faults + 1
    /\ wire # <<>>
    /\ wire' = Tail(wire)
    /\ confirm' = IF confirm = "sent" /\ Head(wire) = Current THEN "nack" ELSE confirm
    /\ UNCHANGED <<caller, link, ctxDone, returns, routed, stray, outage>>

(* The broker closes the channel, or the connection is lost: what is on the wire is gone, and
   the client library resolves the open confirm with a nack. *)
Break ==
    /\ faults < MaxFaults /\ faults' = faults + 1
    /\ channel = "open"
    /\ channel' = "shut" /\ wire' = <<>>
    /\ confirm' = IF confirm \in {"sent", "handled"} THEN "nack" ELSE confirm
    /\ \/ UNCHANGED <<up, outage>>
       \/ up' = FALSE /\ outage' \in BOOLEAN
    /\ UNCHANGED <<caller, closed, ctxDone, returns, routed, stray>>

Recover ==
    /\ outage /\ outage' = FALSE
    /\ UNCHANGED <<caller, link, ctxDone, returns, confirm, wire, routed, stray, faults>>

-----------------------------------------------------------------------------

Step ==
    \/ Begin \/ DrainReturns \/ Send \/ Confirmed \/ Nacked \/ GiveUpWaiting \/ CheckReturn
    \/ Reconnect \/ DialSucceeds \/ DialFails \/ DialCancelled \/ Return

Environment == Close \/ Cancel \/ Handle \/ Confirm \/ Refuse \/ Break \/ Recover

Next ==
    \/ \E c \in Calls : Publish(c)
    \/ Step
    \/ Environment

Spec == Init /\ [][Next]_vars

(* The goroutine runs and its timers fire; nothing is asked of the broker. *)
FairSpec == Spec /\ WF_vars(Step)

-----------------------------------------------------------------------------
(* Properties *)

Delivered(c) == \E t \in routed : t[1] = c

(* However often Publish reconnects and tries again, it puts its message into the broker once
   at most: what is retried was never sent (Publish, IsClosedError). *)
OneCopyPerCall == \A s, t \in routed : s[1] = t[1] => s = t

(* A publish reported as done was put into a queue: a confirm alone does not say so, because
   the broker confirms unroutable messages too (publishOnce, checkReturnLocked). *)
ReportedIsRouted == pc = "done" /\ result = "ok" => Delivered(call)

(* A call that failed although its message is in a queue says so with a timeout or a nack. One
   that was returned is not, unless an earlier publish on the same channel was given up before
   its own return arrived: checkReturnLocked takes that for the current message's. *)
FailureIsHonest ==
    pc = "done" /\ Delivered(call) =>
        \/ result \in {"ok", "timeout", "nack"}
        \/ result = "returned" /\ stray

(* What Publish answers can be relied on in both directions. *)
OutcomeIsHonest == ReportedIsRouted /\ FailureIsHonest

(* Publish ends, and gives up the lock, whatever the broker does; the exception is a channel
   that closes between checkReadyLocked and drainReturnsLocked. *)
PublishReturns == pc # "idle" ~> pc \in {"idle", "spin"}
=============================================================================
