-------------------------- MODULE ForwardingProofs --------------------------
(***************************************************************************)
(* What holds on the way of a notification, for any values of the bounds:  *)
(* a publisher keeps its types, puts a message into the broker once at     *)
(* most, and answers what can be relied on; the life cycle of the service  *)
(* takes no publisher from a worker and leaves nothing behind; and every   *)
(* WebSocket connection is found, or about to be closed.  The three share  *)
(* no variable.                                                            *)
(***************************************************************************)
EXTENDS Forwarding, SequenceTheorems, TLAPS

-----------------------------------------------------------------------------
(* The publisher *)

OnWire == {wire[i] : i \in DOMAIN wire}

(* Attempts that left the process and are not lost. *)
Sent == OnWire \cup routed

(* A call under way has a message and counts its attempts. *)
CallInv == pc # "idle" => call \in called /\ attempt >= 1

(* A channel is open on an open connection of an open publisher. A new one is opened only when *)
(* nothing of the old one is on its way any more.                                              *)
LinkInv ==
    /\ channel = "open" => up /\ ~closed
    /\ pc \in {"reconnect", "dial"} => channel # "open"
    /\ pc = "dial" => ~closed
    /\ channel # "open" /\ ~closed => wire = <<>>

(* An attempt that left the process is the last of its call. *)
SentInv ==
    /\ \A t \in Sent : t[1] \in called
    /\ \A t \in Sent : t[1] = call =>
          /\ t = Current
          /\ pc \in {"wait", "check", "done"}
          /\ pc = "done" => result \in {"ok", "returned", "nack", "timeout"}
    /\ \A s, t \in Sent : s[1] = t[1] => s = t
    /\ \A i, j \in DOMAIN wire : wire[i] = wire[j] => i = j
    /\ \A t \in routed : t[1] \notin Unroutable

(* What the broker did with the current attempt: a routable message is in its queue, the return *)
(* of another one has come before the confirm.                                                  *)
Answered == IF call \in Unroutable THEN returns # <<>> ELSE Current \in routed

ConfirmInv ==
    /\ confirm # "none" => pc = "wait"
    /\ confirm \in {"sent", "handled"} => channel = "open"
    /\ confirm \in {"handled", "ack"} \/ pc = "check" => Answered
    /\ pc = "done" /\ result = "ok" => Current \in routed

(* Returns that are not the current message's come from one that was given up unconfirmed. *)
ReturnsInv ==
    /\ channel = "open" => \A t \in OnWire : t[1] \in Unroutable =>
          stray \/ (t = Current /\ confirm = "sent")
    /\ pc \in {"send", "wait", "check"} /\ returns # <<>> =>
          stray \/ (pc # "send" /\ call \in Unroutable)
    /\ pc = "done" /\ result = "returned" => stray \/ call \in Unroutable

IndInv == TypeOK /\ CallInv /\ LinkInv /\ SentInv /\ ConfirmInv /\ ReturnsInv

-----------------------------------------------------------------------------
(* Sequences *)

(* What is taken off a queue without repetitions was in it and is not any more. *)
LEMMA Pop ==
  ASSUME NEW T, NEW q \in Seq(T), q # <<>>, \A i, j \in DOMAIN q : q[i] = q[j] => i = j
  PROVE  /\ Tail(q) \in Seq(T) /\ Head(q) \in T
         /\ 1 \in DOMAIN q /\ Head(q) = q[1]
         /\ \A i \in DOMAIN Tail(q) : i + 1 \in DOMAIN q /\ Tail(q)[i] = q[i + 1]
         /\ \A i \in DOMAIN Tail(q) : Tail(q)[i] # Head(q)
         /\ \A i, j \in DOMAIN Tail(q) : Tail(q)[i] = Tail(q)[j] => i = j
  <1>1. /\ Tail(q) \in Seq(T) /\ Head(q) \in T /\ 1 \in DOMAIN q /\ Head(q) = q[1]
        /\ \A i \in DOMAIN Tail(q) : i \in Nat /\ i >= 1 /\ i + 1 \in DOMAIN q /\ Tail(q)[i] = q[i + 1]
    OBVIOUS
  <1>2. \A i \in DOMAIN Tail(q) : i + 1 # 1
    BY <1>1
  <1>3. QED
    BY <1>1, <1>2

(* What is added to a queue is at its end. *)
LEMMA Push ==
  ASSUME NEW T, NEW q \in Seq(T), NEW x \in T
  PROVE  /\ Append(q, x) \in Seq(T) /\ Append(q, x) # <<>>
         /\ DOMAIN Append(q, x) = DOMAIN q \cup {Len(q) + 1}
         /\ Append(q, x)[Len(q) + 1] = x
         /\ \A i \in DOMAIN q : i # Len(q) + 1 /\ Append(q, x)[i] = q[i]
  OBVIOUS

(* Nothing is a queue of anything. *)
LEMMA NoneQueued == \A T : <<>> \in Seq(T)
  OBVIOUS

-----------------------------------------------------------------------------
(* Types *)

CallTyped ==
    /\ pc \in {"idle", "try", "reconnect", "done"} \cup
              {"drain", "spin", "send", "wait", "check", "dial"}
    /\ call \in Calls \cup {NoCall}
    /\ attempt \in 0 .. Attempts + 1 /\ tries \in 0 .. Attempts
    /\ result \in Results /\ called \subseteq Calls
    /\ CallInv

FlagsTyped ==
    /\ closed \in BOOLEAN /\ ctxDone \in BOOLEAN /\ up \in BOOLEAN
    /\ stray \in BOOLEAN /\ outage \in BOOLEAN

LevelsTyped ==
    /\ channel \in {"none", "open", "shut"}
    /\ confirm \in {"none", "sent", "handled", "ack", "nack"}
    /\ faults \in 0 .. MaxFaults

QueuesTyped == returns \in Seq(Calls) /\ wire \in Seq(Tags) /\ routed \subseteq Tags

(* TypeOK by parts, and what a call under way needs. *)
Typed == CallTyped /\ FlagsTyped /\ LevelsTyped /\ QueuesTyped

(* The parts say what TypeOK says. *)
LEMMA TypedIsTypeOK == Typed <=> TypeOK /\ CallInv
  BY DEF Typed, CallTyped, FlagsTyped, LevelsTyped, QueuesTyped, TypeOK

(* An attempt that is made is one of the attempts a call has. *)
LEMMA CurrentTyped == CallTyped /\ pc # "idle" => Current \in Tags
  BY PublisherAssumption DEF CallTyped, CallInv, Current, Tags

(* The state NewPublisher leaves is typed. *)
LEMMA InitTyped == Init => Typed
  <1> SUFFICES ASSUME Init PROVE Typed
    OBVIOUS
  <1>1. CallTyped /\ LevelsTyped
    BY PublisherAssumption DEF Init, CallTyped, CallInv, LevelsTyped, Results
  <1>2. FlagsTyped
    BY Zenon DEF Init, FlagsTyped
  <1>3. QueuesTyped
    BY NoneQueued DEF Init, QueuesTyped
  <1>4. QED
    BY <1>1, <1>2, <1>3 DEF Typed

(* A call makes Attempts + 1 attempts at most, a reconnection Attempts dials. *)
LEMMA CallStepTyped == CallTyped /\ [Next]_vars => CallTyped'
  <1> SUFFICES ASSUME CallTyped PROVE [Next]_vars => CallTyped'
    OBVIOUS
  <1> USE PublisherAssumption DEF CallTyped, CallInv, Results
  <1>1. Step => CallTyped'
    BY DEF Step, Begin, DrainReturns, Send, Confirmed, Nacked, GiveUpWaiting, CheckReturn,
           Reconnect, DialSucceeds, DialFails, DialCancelled, Return, Finish, IsClosedError,
           AttemptFailed
  <1>2. Environment \/ UNCHANGED vars => CallTyped'
    BY DEF Environment, Close, Cancel, Handle, Confirm, Refuse, Break, Recover, caller, vars
  <1>3. ASSUME NEW c \in Calls, Publish(c) PROVE CallTyped'
    BY <1>3 DEF Publish
  <1>4. QED
    BY <1>1, <1>2, <1>3 DEF Next

(* Flags are set to flags, *)
LEMMA FlagsStepTyped == FlagsTyped /\ [Next]_vars => FlagsTyped'
  <1> SUFFICES ASSUME FlagsTyped PROVE [Next]_vars => FlagsTyped'
    OBVIOUS
  <1> USE DEF FlagsTyped
  <1>1. Step => FlagsTyped'
    BY Zenon DEF Step, Begin, DrainReturns, Send, Confirmed, Nacked, GiveUpWaiting, CheckReturn,
           Reconnect, DialSucceeds, DialFails, DialCancelled, Return, link
  <1>2. Environment \/ UNCHANGED vars => FlagsTyped'
    BY Zenon DEF Environment, Close, Cancel, Handle, Confirm, Refuse, Break, Recover, link, vars
  <1>3. ASSUME NEW c \in Calls, Publish(c) PROVE FlagsTyped'
    BY <1>3, Zenon DEF Publish, link
  <1>4. QED
    BY <1>1, <1>2, <1>3 DEF Next

(* the channel and the confirm to one of their states, *)
LEMMA LevelsStepTyped == LevelsTyped /\ [Next]_vars => LevelsTyped'
  <1> SUFFICES ASSUME LevelsTyped PROVE [Next]_vars => LevelsTyped'
    OBVIOUS
  <1> USE PublisherAssumption DEF LevelsTyped
  <1>1. Step => LevelsTyped'
    BY DEF Step, Begin, DrainReturns, Send, Confirmed, Nacked, GiveUpWaiting, CheckReturn,
           Reconnect, DialSucceeds, DialFails, DialCancelled, Return, link
  <1>2. Environment \/ UNCHANGED vars => LevelsTyped'
    BY DEF Environment, Close, Cancel, Handle, Confirm, Refuse, Break, Recover, link, vars
  <1>3. ASSUME NEW c \in Calls, Publish(c) PROVE LevelsTyped'
    BY <1>3 DEF Publish, link
  <1>4. QED
    BY <1>1, <1>2, <1>3 DEF Next

(* and what is on its way are attempts and calls. *)
LEMMA QueuesStepTyped == QueuesTyped /\ CallTyped /\ [Next]_vars => QueuesTyped'
  <1> SUFFICES ASSUME QueuesTyped, CallTyped PROVE [Next]_vars => QueuesTyped'
    OBVIOUS
  <1> USE DEF QueuesTyped
  <1>1. Step => QueuesTyped'
    <2>1. pc # "idle" => Append(wire, Current) \in Seq(Tags)
      BY CurrentTyped, Push
    <2>2. returns # <<>> => Tail(returns) \in Seq(Calls)
      OBVIOUS
    <2>3. QED
      BY <2>1, <2>2, NoneQueued
         DEF Step, Begin, DrainReturns, Send, Confirmed, Nacked, GiveUpWaiting, CheckReturn,
             Reconnect, DialSucceeds, DialFails, DialCancelled, Return, ReturnPending
  <1>2. Environment \/ UNCHANGED vars => QueuesTyped'
    <2>1. wire # <<>> => Head(wire) \in Tags /\ Tail(wire) \in Seq(Tags)
      OBVIOUS
    <2>2. wire # <<>> => Append(returns, Head(wire)[1]) \in Seq(Calls)
      <3>1. wire # <<>> => Head(wire)[1] \in Calls
        BY <2>1 DEF Tags
      <3>2. QED
        BY <3>1, Push
    <2>3. QED
      BY <2>1, <2>2, NoneQueued
         DEF Environment, Close, Cancel, Handle, Confirm, Refuse, Break, Recover, vars
  <1>3. ASSUME NEW c \in Calls, Publish(c) PROVE QueuesTyped'
    BY <1>3 DEF Publish
  <1>4. QED
    BY <1>1, <1>2, <1>3 DEF Next

(* Every step keeps all of it. *)
LEMMA StepTyped == Typed /\ [Next]_vars => Typed'
  BY CallStepTyped, FlagsStepTyped, LevelsStepTyped, QueuesStepTyped DEF Typed

(* However calls, breaks and reconnections follow each other, the publisher keeps its types. *)
THEOREM TypeCorrect == Spec => []TypeOK
  <1>1. Init => Typed
    BY InitTyped
  <1>2. Typed /\ [Next]_vars => Typed'
    BY StepTyped
  <1>3. Typed => TypeOK
    BY TypedIsTypeOK
  <1>4. QED
    BY <1>1, <1>2, <1>3, PTL DEF Spec

-----------------------------------------------------------------------------
(* The link *)

(* A new channel is opened only by a publisher that is not closed and holds the lock against *)
(* Close; what was sent on the old one is gone by then.                                      *)
LEMMA LinkStep == Typed /\ LinkInv /\ [Next]_vars => LinkInv'
  <1> SUFFICES ASSUME Typed, LinkInv PROVE [Next]_vars => LinkInv'
    OBVIOUS
  <1> USE DEF LinkInv
  <1>1. closed \in BOOLEAN /\ up \in BOOLEAN /\ channel \in {"none", "open", "shut"}
    BY DEF Typed, FlagsTyped, LevelsTyped
  <1>2. Step => LinkInv'
    BY <1>1 DEF Step, Begin, DrainReturns, Send, Confirmed, Nacked, GiveUpWaiting, CheckReturn,
           Reconnect, DialSucceeds, DialFails, DialCancelled, Return, link, Finish,
           IsClosedError, AttemptFailed, CheckReady
  <1>3. Environment \/ UNCHANGED vars => LinkInv'
    BY <1>1 DEF Environment, Close, Cancel, Handle, Confirm, Refuse, Break, Recover, caller, link,
                vars, Locked
  <1>4. ASSUME NEW c \in Calls, Publish(c) PROVE LinkInv'
    BY <1>4, <1>1 DEF Publish, link
  <1>5. QED
    BY <1>2, <1>3, <1>4 DEF Next

-----------------------------------------------------------------------------
(* What was sent *)

(* A step that puts nothing on the wire leaves less on it, or as much, each attempt in one place. *)
LEMMA WireShrinks ==
  ASSUME Typed, SentInv, wire' \in {wire, <<>>} \/ (wire # <<>> /\ wire' = Tail(wire))
  PROVE  /\ OnWire' \subseteq OnWire
         /\ \A i, j \in DOMAIN wire' : wire'[i] = wire'[j] => i = j
  <1>1. CASE wire' = wire
    BY <1>1 DEF OnWire, SentInv
  <1>2. CASE wire' = <<>>
    BY <1>2 DEF OnWire
  <1>3. CASE wire # <<>> /\ wire' = Tail(wire)
    <2>1. wire \in Seq(Tags) /\ \A i, j \in DOMAIN wire : wire[i] = wire[j] => i = j
      BY DEF Typed, QueuesTyped, SentInv
    <2>2. QED
      BY <2>1, <1>3, Pop DEF OnWire
  <1>4. QED
    BY <1>1, <1>2, <1>3

(* What is sent adds the current attempt. *)
LEMMA WireGrows ==
  ASSUME Typed, SentInv, Send, channel = "open"
  PROVE  /\ OnWire' = OnWire \cup {Current}
         /\ \A i, j \in DOMAIN wire' : wire'[i] = wire'[j] => i = j
  <1>1. wire \in Seq(Tags) /\ Current \in Tags /\ wire' = Append(wire, Current)
    BY CurrentTyped DEF Typed, QueuesTyped, Send
  <1>2. \A t \in OnWire : t # Current
    BY DEF SentInv, Sent, Send, Current
  <1>3. OnWire' = OnWire \cup {Current}
    BY <1>1, Push DEF OnWire
  <1>4. \A i, j \in DOMAIN wire : wire[i] = wire[j] => i = j
    BY DEF SentInv
  <1>5. \A i \in DOMAIN wire : wire[i] # Current
    BY <1>2 DEF OnWire
  <1>6. QED
    BY <1>1, <1>3, <1>4, <1>5, Push

(* What is taken off the wire was on it, and is left there no more. *)
LEMMA WireHead ==
  ASSUME Typed, SentInv, wire # <<>>, wire' = Tail(wire)
  PROVE  Head(wire) \in OnWire /\ Head(wire) \in Tags /\ Head(wire) \notin OnWire'
  <1>1. wire \in Seq(Tags) /\ \A i, j \in DOMAIN wire : wire[i] = wire[j] => i = j
    BY DEF Typed, QueuesTyped, SentInv
  <1>2. QED
    BY <1>1, Pop DEF OnWire

(* Only an attempt that never left the process is made again: a call that was sent waits, is *)
(* answered and returns.                                                                     *)
LEMMA SentStep == Typed /\ SentInv /\ [Next]_vars => SentInv'
  <1> SUFFICES ASSUME Typed, SentInv, [Next]_vars
               PROVE  SentInv'
    OBVIOUS
  <1>t. /\ \A t \in Sent : t \in Tags /\ t[1] \in Calls
        /\ call \in Calls \cup {NoCall}
    BY DEF Typed, CallTyped, QueuesTyped, Sent, OnWire, Tags
  <1>1. CASE Send /\ channel = "open"
    <2>1. Sent' = Sent \cup {Current} /\ Current' = Current /\ Current[1] = call
      BY <1>1, WireGrows DEF Sent, Send, Current
    <2>2. pc = "send" /\ pc' = "wait" /\ UNCHANGED <<call, called, routed>>
      BY <1>1 DEF Send
    <2>3. call \in called /\ \A t \in Sent : t[1] # call
      BY <2>2 DEF SentInv, Typed, CallTyped, CallInv
    <2>4. \A s, t \in Sent' : s[1] = t[1] => s = t
      BY <2>1, <2>3 DEF SentInv
    <2>5. QED
      BY <1>1, <2>1, <2>2, <2>3, <2>4, WireGrows DEF SentInv
  <1>2. CASE Handle
    <2>1. Head(wire) \in OnWire /\ OnWire' \subseteq OnWire
          /\ \A i, j \in DOMAIN wire' : wire'[i] = wire'[j] => i = j
      BY <1>2, WireHead, WireShrinks DEF Handle
    <2>2. Sent' \subseteq Sent /\ UNCHANGED <<pc, call, attempt, result, called>>
      BY <1>2, <2>1 DEF Handle, Sent, caller
    <2>3. \A t \in routed' : t[1] \notin Unroutable
      BY <1>2 DEF Handle, SentInv
    <2>4. QED
      BY <2>1, <2>2, <2>3 DEF SentInv, Current
  <1>3. CASE ~(Send /\ channel = "open") /\ ~Handle
    <2>1. UNCHANGED routed /\ (wire' \in {wire, <<>>} \/ (wire # <<>> /\ wire' = Tail(wire)))
      BY <1>3 DEF Next, Publish, Step, Begin, DrainReturns, Send, Confirmed, Nacked,
              GiveUpWaiting, CheckReturn, Reconnect, DialSucceeds, DialFails, DialCancelled,
              Return, Environment, Close, Cancel, Confirm, Refuse, Break, Recover, vars
    <2>2. /\ Sent' \subseteq Sent /\ UNCHANGED routed
          /\ \A i, j \in DOMAIN wire' : wire'[i] = wire'[j] => i = j
      BY <2>1, WireShrinks DEF Sent
    <2>3. ASSUME NEW t \in Sent'
          PROVE  /\ t[1] \in called'
                 /\ t[1] = call' =>
                       /\ t = Current'
                       /\ pc' \in {"wait", "check", "done"}
                       /\ pc' = "done" => result' \in {"ok", "returned", "nack", "timeout"}
      <3>1. t[1] \in called /\ t[1] \in Calls /\ t[1] # NoCall
        BY <2>2, <1>t, PublisherAssumption DEF SentInv
      <3>2. t[1] = call =>
              /\ t = Current
              /\ pc \in {"wait", "check", "done"}
              /\ pc = "done" => result \in {"ok", "returned", "nack", "timeout"}
        BY <2>2 DEF SentInv
      <3>3. CASE Step
        BY <1>3, <3>1, <3>2, <3>3
           DEF Step, Begin, DrainReturns, Send, Confirmed, Nacked, GiveUpWaiting, CheckReturn,
               Reconnect, DialSucceeds, DialFails, DialCancelled, Return, Current, Finish,
               IsClosedError, AttemptFailed
      <3>4. CASE Environment \/ UNCHANGED vars
        BY <1>3, <3>1, <3>2, <3>4
           DEF Environment, Close, Cancel, Confirm, Refuse, Break, Recover, caller, vars, Current
      <3>5. ASSUME NEW c \in Calls, Publish(c)
            PROVE  t[1] \in called' /\ t[1] # call'
        BY <3>1, <3>5 DEF Publish
      <3>6. QED
        BY <3>3, <3>4, <3>5 DEF Next
    <2>4. QED
      BY <2>2, <2>3 DEF SentInv
  <1>4. QED
    BY <1>1, <1>2, <1>3

-----------------------------------------------------------------------------
(* What came back *)

(* While a call waits, the broker has its attempt on the wire, or has dealt with it. *)
LEMMA ConfirmStep == Typed /\ LinkInv /\ SentInv /\ ConfirmInv /\ [Next]_vars => ConfirmInv'
  <1> SUFFICES ASSUME Typed, LinkInv, SentInv, ConfirmInv
               PROVE  [Next]_vars => ConfirmInv'
    OBVIOUS
  <1> USE DEF ConfirmInv, Answered, Current
  <1>1. Step => ConfirmInv'
    BY DEF Step, Begin, DrainReturns, Send, Confirmed, Nacked, GiveUpWaiting, CheckReturn,
           Reconnect, DialSucceeds, DialFails, DialCancelled, Return, link, Finish,
           IsClosedError, AttemptFailed, ReturnPending
  <1>2. CASE Handle
    <2>1. Head(wire) \in Tags /\ Append(returns, Head(wire)[1]) # <<>>
      BY <1>2, Push DEF Handle, Typed, QueuesTyped, Tags
    <2>2. confirm = "sent" => channel = "open" /\ pc = "wait"
      OBVIOUS
    <2>3. QED
      BY <1>2, <2>1, <2>2 DEF Handle, link, caller
  <1>3. Close \/ Cancel \/ Confirm \/ Refuse \/ Break \/ Recover \/ UNCHANGED vars => ConfirmInv'
    BY DEF Close, Cancel, Confirm, Refuse, Break, Recover, caller, link, vars, Locked
  <1>4. ASSUME NEW c \in Calls, Publish(c) PROVE ConfirmInv'
    BY <1>4 DEF Publish, link
  <1>5. QED
    BY <1>1, <1>2, <1>3, <1>4 DEF Next, Environment

(* A return a call finds is its own, or that of one given up on the same channel. *)
LEMMA ReturnsStep ==
  Typed /\ LinkInv /\ SentInv /\ ConfirmInv /\ ReturnsInv /\ [Next]_vars => ReturnsInv'
  <1> SUFFICES ASSUME Typed, LinkInv, SentInv, ConfirmInv, ReturnsInv, [Next]_vars
               PROVE  ReturnsInv'
    OBVIOUS
  <1>1. CASE Send /\ channel = "open"
    BY <1>1, WireGrows DEF Send, ReturnsInv, link, Current
  <1>2. CASE Handle
    BY <1>2, WireHead, WireShrinks DEF Handle, ReturnsInv, link, caller, Current, ConfirmInv
  <1>3. CASE ~(Send /\ channel = "open") /\ ~Handle
    <2>1. OnWire' \subseteq OnWire
      BY <1>3, WireShrinks
         DEF Next, Publish, Step, Begin, DrainReturns, Send, Confirmed, Nacked,
             GiveUpWaiting, CheckReturn, Reconnect, DialSucceeds, DialFails, DialCancelled,
             Return, Environment, Close, Cancel, Confirm, Refuse, Break, Recover, vars
    <2>2. CASE Step
      <3>1. wire = <<>> => OnWire = {}
        BY DEF OnWire
      <3>2. CASE DialSucceeds
        BY <2>1, <3>1, <3>2 DEF DialSucceeds, Finish, ReturnsInv, LinkInv
      <3>3. CASE Return
        BY <2>1, <3>3 DEF Return, link, ReturnsInv, ConfirmInv
      <3>4. CASE GiveUpWaiting
        <4>1. stray \/ (channel = "open" /\ call \in Unroutable) => stray'
          BY <3>4, Zenon DEF GiveUpWaiting
        <4>2. UNCHANGED <<channel, call>> /\ pc' = "done" /\ result' = "timeout"
          BY <3>4 DEF GiveUpWaiting, link, Finish, IsClosedError, AttemptFailed
        <4>3. \A t \in OnWire : t[1] \in Unroutable => (channel = "open" => stray')
          BY <4>1 DEF ReturnsInv, Current
        <4>4. QED
          BY <2>1, <4>2, <4>3 DEF ReturnsInv
      <3>5. QED
        BY <1>3, <2>1, <2>2, <3>2, <3>3, <3>4
           DEF Step, Begin, DrainReturns, Send, Confirmed, Nacked, CheckReturn, Reconnect,
               DialFails, DialCancelled, Current, Finish, link, IsClosedError, AttemptFailed,
               ReturnPending, ReturnsInv, LinkInv, ConfirmInv
    <2>3. CASE Environment \/ UNCHANGED vars
      <3>1. wire' = <<>> => OnWire' = {}
        BY DEF OnWire
      <3>2. wire # <<>> /\ wire' = Tail(wire) => Head(wire) \notin OnWire'
        BY WireHead
      <3>3. QED
        BY <1>3, <2>1, <2>3, <3>1, <3>2
           DEF Environment, Close, Cancel, Confirm, Refuse, Break, Recover, caller, link, vars,
               Locked, Current, ReturnsInv, LinkInv, ConfirmInv
    <2>4. ASSUME NEW c \in Calls, Publish(c) PROVE ReturnsInv'
      BY <2>1, <2>4 DEF Publish, link, ReturnsInv, ConfirmInv
    <2>5. QED
      BY <2>2, <2>3, <2>4 DEF Next
  <1>4. QED
    BY <1>1, <1>2, <1>3

-----------------------------------------------------------------------------
(* Theorems *)

(* The inductive invariant: where the attempt of the current call can be at each step of the call, *)
(* and whose the returns are that it may find.                                                     *)
THEOREM IndInvHolds == Spec => []IndInv
  <1> DEFINE All == Typed /\ LinkInv /\ SentInv /\ ConfirmInv /\ ReturnsInv
  <1>1. Init => All
    <2> SUFFICES ASSUME Init PROVE All
      OBVIOUS
    <2>1. Typed
      BY InitTyped
    <2>2. OnWire = {} /\ Sent = {} /\ wire = <<>>
      BY DEF Init, OnWire, Sent
    <2>3. LinkInv /\ ConfirmInv /\ ReturnsInv
      BY <2>2 DEF Init, LinkInv, ConfirmInv, ReturnsInv
    <2>4. SentInv
      BY <2>2 DEF Init, SentInv
    <2>5. QED
      BY <2>1, <2>3, <2>4
  <1>2. All /\ [Next]_vars => All'
    BY StepTyped, LinkStep, SentStep, ConfirmStep, ReturnsStep
  <1>3. All => IndInv
    BY TypedIsTypeOK DEF IndInv
  <1>4. QED
    BY <1>1, <1>2, <1>3, PTL DEF Spec

(* However often a call reconnects and tries again, its message enters the broker once at most *)
(* (OneCopyPerCall), for any number of calls and attempts.                                     *)
THEOREM MessagesEnterOnce == Spec => []OneCopyPerCall
  <1>1. IndInv => OneCopyPerCall
    BY DEF IndInv, SentInv, Sent, OneCopyPerCall
  <1>2. QED
    BY <1>1, IndInvHolds, PTL

(* What Publish answers is what happened: done means that the message was put into a queue, a *)
(* failure that it was not, or that nobody can tell (OutcomeIsHonest).                        *)
THEOREM AnswersAreHonest == Spec => []OutcomeIsHonest
  <1>1. IndInv => OutcomeIsHonest
    <2> SUFFICES ASSUME IndInv PROVE OutcomeIsHonest
      OBVIOUS
    <2>1. ReportedIsRouted
      BY DEF IndInv, ConfirmInv, ReportedIsRouted, Delivered, Current
    <2>2. FailureIsHonest
      BY DEF IndInv, SentInv, ReturnsInv, Sent, FailureIsHonest, Delivered
    <2>3. QED
      BY <2>1, <2>2 DEF OutcomeIsHonest
  <1>2. QED
    BY <1>1, IndInvHolds, PTL

-----------------------------------------------------------------------------
(* The life cycle of the service *)

(* What a manager has, by where the goroutine is that runs its Start. *)
ManagerInv(m) ==
    /\ starter[m] \in {"none", "launched", "blocked", "clearing"}
    /\ starter[m] \in {"none", "launched"} =>
          ~running[m] /\ ~publisher[m] /\ worker[m] = "none"
    /\ starter[m] = "blocked" => running[m] /\ publisher[m]
    /\ starter[m] = "clearing" => ~publisher[m] /\ worker[m] = "none"

LifeInv ==
    /\ DOMAIN starter = Life!Managers /\ DOMAIN running = Life!Managers
    /\ DOMAIN publisher = Life!Managers /\ DOMAIN worker = Life!Managers
    /\ \A m \in Life!Managers : ManagerInv(m)
    /\ subscriber => starter["consumer"] = "blocked"
    /\ service = "stopped" => Life!StartersDone

LEMMA LifeInit == Life!Init => LifeInv
BY DEF Life!Init, LifeInv, ManagerInv, Life!Managers, Life!StartersDone

(* Steps of the service and of its Close, which touch no manager but to cancel it. *)
LEMMA ServiceStep ==
    ASSUME LifeInv,
           \/ Life!Start \/ Life!Close \/ Life!Stopped \/ Life!StopTimesOut
           \/ \E m \in Life!Managers : Life!CloseManager(m) \/ Life!ManagerClosed(m)
    PROVE  LifeInv'
<1> USE DEF LifeInv, ManagerInv
<1>1. CASE Life!Start
  BY <1>1 DEF Life!Start, Life!StartersDone, Life!Managers
<1>2. CASE Life!Close \/ Life!StopTimesOut
  BY <1>2 DEF Life!Close, Life!StopTimesOut, Life!StartersDone
<1>3. CASE Life!Stopped
  BY <1>3 DEF Life!Stopped, Life!StartersDone
<1>4. ASSUME NEW m \in Life!Managers, Life!CloseManager(m) PROVE LifeInv'
  <2>1. /\ UNCHANGED <<service, starter, running, publisher, worker>>
        /\ subscriber' => subscriber
    BY <1>4 DEF Life!CloseManager
  <2> QED
    BY <2>1 DEF Life!StartersDone
<1>5. ASSUME NEW m \in Life!Managers, Life!ManagerClosed(m) PROVE LifeInv'
  BY <1>5 DEF Life!ManagerClosed, Life!StartersDone
<1> QED
  BY <1>1, <1>2, <1>3, <1>4, <1>5

(* Steps of a manager's Start: the others keep what they have. *)
LEMMA StarterStep ==
    ASSUME LifeInv, NEW m \in Life!Managers, Life!ManagerStep(m)
    PROVE  LifeInv'
<1> USE DEF LifeInv, ManagerInv
<1>1. starter[m] # "none" /\ service' = service
  BY DEF Life!ManagerStep, Life!StartDisabled, Life!StartFails, Life!StartSucceeds,
     Life!CloseResources, Life!ClearManager
<1>2. service # "stopped"
  BY <1>1 DEF Life!StartersDone
<1>3. CASE Life!StartDisabled(m)
  BY <1>1, <1>2, <1>3 DEF Life!StartDisabled
<1>4. CASE Life!StartFails(m)
  <2>1. /\ starter[m] = "launched" /\ starter' = [starter EXCEPT ![m] = "none"]
        /\ UNCHANGED <<running, publisher, subscriber, worker>>
    BY <1>4 DEF Life!StartFails
  <2> QED
    BY <1>1, <1>2, <2>1
<1>5. CASE Life!StartSucceeds(m)
  BY <1>1, <1>2, <1>5 DEF Life!StartSucceeds, Life!Managers
<1>6. CASE Life!CloseResources(m)
  BY <1>1, <1>2, <1>6 DEF Life!CloseResources, Life!WorkersDone, Life!Managers
<1>7. CASE Life!ClearManager(m)
  BY <1>1, <1>2, <1>7 DEF Life!ClearManager
<1> QED
  BY <1>3, <1>4, <1>5, <1>6, <1>7 DEF Life!ManagerStep

(* A worker only works while its manager's Start waits for it. *)
LEMMA WorkerStep ==
    ASSUME LifeInv, NEW m \in Life!Managers, Life!WorkerWorks(m) \/ Life!WorkerExits(m)
    PROVE  LifeInv'
<1> USE DEF LifeInv, ManagerInv
<1>1. worker[m] # "none" /\ UNCHANGED <<service, starter, running, publisher, subscriber>>
  BY DEF Life!WorkerWorks, Life!WorkerExits
<1>2. starter[m] = "blocked"
  BY <1>1
<1>3. DOMAIN worker' = Life!Managers /\ \A n \in Life!Managers : n # m => worker'[n] = worker[n]
  BY DEF Life!WorkerWorks, Life!WorkerExits
<1> QED
  BY <1>1, <1>2, <1>3 DEF Life!StartersDone

LEMMA LifeNext ==
    ASSUME LifeInv, [Life!Next]_(Life!vars)
    PROVE  LifeInv'
<1>1. CASE UNCHANGED Life!vars
  BY <1>1 DEF Life!vars, LifeInv, ManagerInv, Life!StartersDone
<1>2. CASE Life!Next
  BY <1>2, ServiceStep, StarterStep, WorkerStep DEF Life!Next, Life!CloserStep
<1> QED
  BY <1>1, <1>2

(* Start and Close of NotificationForwardService and of its managers: a worker has its publisher
   as long as it runs, and once the service calls itself stopped nothing of it runs. *)
THEOREM ShutdownIsOrderly == Life!Spec => []OrderlyShutdown
<1>1. Life!Init => LifeInv
  BY LifeInit
<1>2. LifeInv /\ [Life!Next]_(Life!vars) => LifeInv'
  BY LifeNext
<1>3. LifeInv => OrderlyShutdown
  BY DEF LifeInv, ManagerInv, OrderlyShutdown, Life!OrderlyShutdown, Life!PublishersOutliveWorkers,
     Life!QuietWhenStopped, Life!StartersDone, Life!Managers
<1> QED
  BY <1>1, <1>2, <1>3, PTL DEF Life!Spec

-----------------------------------------------------------------------------
(* The connections *)

RegistryTyped ==
    /\ registry \in [Users -> Clients \cup {None}]
    /\ newest \in [Users -> Clients \cup {None}]
    /\ stage \in [Clients -> {"none", "created", "registered", "serving"}]
    /\ evicted \in [Clients -> Clients \cup {None}]
    /\ online \in [Clients -> BOOLEAN]
    /\ sendOpen \in [Clients -> BOOLEAN]
    /\ alive \in [Clients -> BOOLEAN]
    /\ pump \in [Clients -> [Ws!Pumps -> {"off", "on", "leaving", "closing", "ended"}]]

(* How far a client has come. A pump gives up only a connection that is gone; a send channel is
   closed together with its connection, so that one that is closed and empty says the same. *)
ClientInv(c) ==
    /\ evicted[c] # None => stage[c] = "registered"
    /\ stage[c] # "serving" => \A p \in Ws!Pumps : pump[c][p] = "off"
    /\ Ws!Reachable(c) \/ newest[UserOf[c]] = c => Ws!Registered(c)
    /\ alive[c] => sendOpen[c]
    /\ \A p \in Ws!Pumps : pump[c][p] \in {"leaving", "closing", "ended"} => ~alive[c]

NewestInv(c) ==
    Ws!Registered(c) /\ newest[UserOf[c]] = c /\ alive[c] => Ws!Reachable(c) /\ online[c]

OrphanInv(c) ==
    online[c] /\ ~Ws!Reachable(c) =>
        \/ \E d \in Clients : evicted[d] = c
        \/ \E p \in Ws!Pumps : pump[c][p] = "closing"

TrackedInv(c) == ClientInv(c) /\ NewestInv(c) /\ OrphanInv(c)

RegistryInv == RegistryTyped /\ \A c \in Clients : TrackedInv(c)

LEMMA RegistryInit == ASSUME Ws!Init PROVE RegistryInv
BY ForwardingAssumption DEF Ws!Init, RegistryInv, RegistryTyped, TrackedInv, ClientInv, NewestInv,
   OrphanInv, Ws!Reachable, Ws!Registered

(* Steps that leave the connections alone. *)
LEMMA Unmoved ==
    ASSUME RegistryInv,
           UNCHANGED <<registry, stage, evicted, online, sendOpen, alive, pump, newest>>
    PROVE  RegistryInv'
BY DEF RegistryInv, RegistryTyped, TrackedInv, ClientInv, NewestInv, OrphanInv, Ws!Reachable,
   Ws!Registered

LEMMA ConnectStep ==
    ASSUME RegistryInv, NEW c \in Clients, Ws!Connect(c)
    PROVE  RegistryInv'
<1> USE ForwardingAssumption
<1>1. RegistryTyped'
  BY DEF Ws!Connect, RegistryInv, RegistryTyped
<1>2. ASSUME NEW d \in Clients PROVE TrackedInv(d)'
  <2>1. TrackedInv(d)
    BY DEF RegistryInv
  <2>2. CASE d = c
    BY <2>1, <2>2 DEF Ws!Connect, RegistryInv, RegistryTyped, TrackedInv, ClientInv, NewestInv,
       OrphanInv, Ws!Reachable, Ws!Registered
  <2>3. CASE d # c
    BY <2>1, <2>3 DEF Ws!Connect, RegistryInv, RegistryTyped, TrackedInv, ClientInv, NewestInv,
       OrphanInv, Ws!Reachable, Ws!Registered
  <2> QED
    BY <2>2, <2>3
<1> QED
  BY <1>1, <1>2 DEF RegistryInv

(* The client that is replaced is still to be closed, by the one that replaces it: that one had
   nobody to close before. *)
LEMMA RegisterStep ==
    ASSUME RegistryInv, NEW c \in Clients, Ws!Register(c)
    PROVE  RegistryInv'
<1> USE ForwardingAssumption
<1>1. RegistryTyped'
  BY DEF Ws!Register, Ws!Replaced, RegistryInv, RegistryTyped
<1>2. evicted[c] = None /\ TrackedInv(c)
  BY DEF RegistryInv, TrackedInv, ClientInv, Ws!Register
<1>3. ASSUME NEW d \in Clients PROVE TrackedInv(d)'
  <2>1. TrackedInv(d)
    BY DEF RegistryInv
  <2>2. CASE d = c
    <3>1. /\ stage'[c] = "registered" /\ online'[c] /\ Ws!Reachable(c)'
      BY DEF Ws!Register, RegistryInv, RegistryTyped, Ws!Reachable
    <3>2. /\ UNCHANGED <<sendOpen, alive, pump>>
          /\ \A p \in Ws!Pumps : pump[c][p] = "off"
      BY <1>2 DEF Ws!Register, TrackedInv, ClientInv
    <3> QED
      BY <1>2, <2>2, <3>1, <3>2 DEF TrackedInv, ClientInv, NewestInv, OrphanInv, Ws!Registered
  <2>3. CASE d # c
    <3>1. ClientInv(d)' /\ NewestInv(d)'
      BY <1>2, <2>1, <2>3 DEF Ws!Register, RegistryInv, RegistryTyped, TrackedInv,
         ClientInv, NewestInv, Ws!Reachable, Ws!Registered
    <3>2. ASSUME online'[d], ~Ws!Reachable(d)' PROVE \/ \E e \in Clients : evicted'[e] = d
                                                     \/ \E p \in Ws!Pumps : pump'[d][p] = "closing"
      <4>1. online[d] /\ pump' = pump
        BY <2>3, <3>2 DEF Ws!Register, RegistryInv, RegistryTyped
      <4>2. CASE Ws!Reachable(d)
        <5>1. UserOf[d] = UserOf[c]
          BY <3>2, <4>2 DEF Ws!Register, RegistryInv, RegistryTyped, Ws!Reachable
        <5>2. evicted'[c] = d
          BY <2>3, <4>2, <5>1 DEF Ws!Register, Ws!Replaced, RegistryInv, RegistryTyped,
             Ws!Reachable
        <5> QED
          BY <5>2
      <4>3. CASE ~Ws!Reachable(d)
        <5>1. CASE \E p \in Ws!Pumps : pump[d][p] = "closing"
          BY <4>1, <5>1
        <5>2. ASSUME NEW e \in Clients, evicted[e] = d PROVE \E b \in Clients : evicted'[b] = d
          BY <1>2, <5>2 DEF Ws!Register, RegistryInv, RegistryTyped
        <5> QED
          BY <2>1, <4>1, <4>3, <5>1, <5>2 DEF TrackedInv, OrphanInv
      <4> QED
        BY <4>2, <4>3
    <3>3. OrphanInv(d)'
      BY <3>2 DEF OrphanInv
    <3> QED
      BY <3>1, <3>3 DEF TrackedInv
  <2> QED
    BY <2>2, <2>3
<1> QED
  BY <1>1, <1>3 DEF RegistryInv

(* Client.Close of a client: it is offline, and whoever is registered stays so. *)
LEMMA ClosingKeeps ==
    ASSUME RegistryInv, NEW c \in Clients, Ws!CloseClient(c),
           UNCHANGED <<registry, stage, newest>>,
           evicted' \in [Clients -> Clients \cup {None}],
           \A d \in Clients : evicted'[d] = evicted[d] \/ (evicted[d] = c /\ evicted'[d] = None),
           pump' \in [Clients -> [Ws!Pumps -> {"off", "on", "leaving", "closing", "ended"}]],
           \A d \in Clients : d # c => pump'[d] = pump[d],
           \A p \in Ws!Pumps : pump'[c][p] = pump[c][p] \/ stage[c] = "serving"
    PROVE  RegistryInv'
<1> USE ForwardingAssumption
<1>1. RegistryTyped'
  BY DEF Ws!CloseClient, RegistryInv, RegistryTyped
<1>2. ~alive'[c] /\ ~online'[c]
  BY DEF Ws!CloseClient, RegistryInv, RegistryTyped
<1>3. ASSUME NEW d \in Clients PROVE TrackedInv(d)'
  <2>1. TrackedInv(d)
    BY DEF RegistryInv
  <2>2. CASE d = c
    BY <1>2, <2>1, <2>2 DEF TrackedInv, ClientInv, NewestInv, OrphanInv, Ws!Reachable,
       Ws!Registered
  <2>3. CASE d # c
    <3>1. /\ alive'[d] = alive[d] /\ online'[d] = online[d] /\ sendOpen'[d] = sendOpen[d]
          /\ pump'[d] = pump[d]
      BY <2>3 DEF Ws!CloseClient, RegistryInv, RegistryTyped
    <3>2. ClientInv(d)' /\ NewestInv(d)'
      BY <2>1, <2>3, <3>1 DEF TrackedInv, ClientInv, NewestInv, Ws!Reachable, Ws!Registered
    <3>3. OrphanInv(d)'
      BY <2>1, <2>3, <3>1 DEF TrackedInv, OrphanInv, Ws!Reachable
    <3> QED
      BY <3>2, <3>3 DEF TrackedInv
  <2> QED
    BY <2>2, <2>3
<1> QED
  BY <1>1, <1>3 DEF RegistryInv

LEMMA CloseReplacedStep ==
    ASSUME RegistryInv, NEW c \in Clients, Ws!CloseReplaced(c)
    PROVE  RegistryInv'
<1>1. evicted[c] \in Clients /\ evicted' = [evicted EXCEPT ![c] = None]
  BY DEF Ws!CloseReplaced, RegistryInv, RegistryTyped
<1>2. UNCHANGED <<registry, stage, newest, pump>> /\ Ws!CloseClient(evicted[c])
  BY DEF Ws!CloseReplaced
<1>3. evicted' \in [Clients -> Clients \cup {None}]
  BY <1>1 DEF RegistryInv, RegistryTyped
<1>4. \A d \in Clients :
         evicted'[d] = evicted[d] \/ (evicted[d] = evicted[c] /\ evicted'[d] = None)
  BY <1>1 DEF RegistryInv, RegistryTyped
<1>5. pump' \in [Clients -> [Ws!Pumps -> {"off", "on", "leaving", "closing", "ended"}]]
  BY <1>2 DEF RegistryInv, RegistryTyped
<1> DEFINE e == evicted[c]
<1>6. e \in Clients /\ Ws!CloseClient(e)
  BY <1>1, <1>2
<1>7. \A d \in Clients : evicted'[d] = evicted[d] \/ (evicted[d] = e /\ evicted'[d] = None)
  BY <1>4
<1> HIDE DEF e
<1> QED
  BY <1>2, <1>3, <1>5, <1>6, <1>7, ClosingKeeps

LEMMA PumpEndsStep ==
    ASSUME RegistryInv, NEW c \in Clients, NEW p \in Ws!Pumps,
           Ws!PumpEnds(c, p)
    PROVE  RegistryInv'
<1>1. /\ Ws!CloseClient(c) /\ UNCHANGED <<registry, stage, evicted, newest>>
      /\ pump' = [pump EXCEPT ![c][p] = "ended"] /\ pump[c][p] = "closing"
  BY DEF Ws!PumpEnds
<1>2. evicted' \in [Clients -> Clients \cup {None}]
  BY <1>1 DEF RegistryInv, RegistryTyped
<1>3. pump' \in [Clients -> [Ws!Pumps -> {"off", "on", "leaving", "closing", "ended"}]]
  BY <1>1 DEF RegistryInv, RegistryTyped
<1>4. \A d \in Clients : d # c => pump'[d] = pump[d]
  BY <1>1 DEF RegistryInv, RegistryTyped
<1>5. stage[c] = "serving"
  BY <1>1 DEF RegistryInv, TrackedInv, ClientInv
<1> QED
  BY <1>1, <1>2, <1>3, <1>4, <1>5, ClosingKeeps

LEMMA StartPumpsStep ==
    ASSUME RegistryInv, NEW c \in Clients, Ws!StartPumps(c)
    PROVE  RegistryInv'
<1> USE ForwardingAssumption
<1>1. RegistryTyped'
  BY DEF Ws!StartPumps, RegistryInv, RegistryTyped
<1>2. ASSUME NEW d \in Clients PROVE TrackedInv(d)'
  <2>1. TrackedInv(d)
    BY DEF RegistryInv
  <2>2. CASE d = c
    <3>1. /\ stage[c] = "registered" /\ stage'[c] = "serving"
          /\ \A p \in Ws!Pumps : pump[c][p] = "off" /\ pump'[c][p] = "on"
      BY <2>1, <2>2 DEF Ws!StartPumps, RegistryInv, RegistryTyped, TrackedInv, ClientInv
    <3>2. evicted'[c] = None /\ UNCHANGED <<registry, evicted, online, sendOpen, alive, newest>>
      BY DEF Ws!StartPumps
    <3> QED
      BY <2>1, <2>2, <3>1, <3>2 DEF TrackedInv, ClientInv, NewestInv,
         OrphanInv, Ws!Reachable, Ws!Registered
  <2>3. CASE d # c
    BY <2>1, <2>3 DEF Ws!StartPumps, RegistryInv, RegistryTyped, TrackedInv, ClientInv, NewestInv,
       OrphanInv, Ws!Reachable, Ws!Registered
  <2> QED
    BY <2>2, <2>3
<1> QED
  BY <1>1, <1>2 DEF RegistryInv

LEMMA DisconnectStep ==
    ASSUME RegistryInv, NEW c \in Clients, Ws!Disconnect(c)
    PROVE  RegistryInv'
<1> USE ForwardingAssumption
<1>1. RegistryTyped'
  BY DEF Ws!Disconnect, RegistryInv, RegistryTyped
<1>2. ASSUME NEW d \in Clients PROVE TrackedInv(d)'
  <2>1. TrackedInv(d)
    BY DEF RegistryInv
  <2>2. alive'[d] => alive[d]
    BY DEF Ws!Disconnect, RegistryInv, RegistryTyped
  <2> QED
    BY <2>1, <2>2 DEF Ws!Disconnect, TrackedInv, ClientInv, NewestInv, OrphanInv, Ws!Reachable,
       Ws!Registered
<1> QED
  BY <1>1, <1>2 DEF RegistryInv

(* A pump that is on gives up, because the connection is gone. *)
LEMMA GivingUpKeeps ==
    ASSUME RegistryInv, NEW c \in Clients, NEW p \in Ws!Pumps,
           pump[c][p] = "on", ~alive[c], pump' = [pump EXCEPT ![c][p] = "leaving"],
           UNCHANGED <<registry, stage, evicted, online, sendOpen, alive, newest>>
    PROVE  RegistryInv'
<1> USE ForwardingAssumption
<1>1. RegistryTyped'
  BY DEF RegistryInv, RegistryTyped
<1>2. ASSUME NEW d \in Clients PROVE TrackedInv(d)'
  <2>1. TrackedInv(d)
    BY DEF RegistryInv
  <2>2. \A q \in Ws!Pumps : pump'[d][q] = pump[d][q] \/ (d = c /\ q = p /\ pump'[d][q] = "leaving")
    BY DEF RegistryInv, RegistryTyped
  <2>3. stage[c] = "serving"
    BY DEF RegistryInv, TrackedInv, ClientInv
  <2>4. ClientInv(d)' /\ NewestInv(d)'
    BY <2>1, <2>2, <2>3 DEF TrackedInv, ClientInv, NewestInv, Ws!Reachable, Ws!Registered
  <2>5. OrphanInv(d)'
    BY <2>1, <2>2 DEF TrackedInv, OrphanInv, Ws!Reachable
  <2> QED
    BY <2>4, <2>5 DEF TrackedInv
<1> QED
  BY <1>1, <1>2 DEF RegistryInv

LEMMA PushStep ==
    ASSUME RegistryInv, NEW c \in Clients, Ws!Push(c)
    PROVE  RegistryInv'
<1>1. "write" \in Ws!Pumps
  BY DEF Ws!Pumps
<1>2. /\ UNCHANGED <<registry, stage, evicted, online, sendOpen, alive, newest>>
      /\ pump[c]["write"] = "on"
      /\ pump' = [pump EXCEPT ![c]["write"] = IF alive[c] THEN "on" ELSE "leaving"]
  BY DEF Ws!Push
<1>3. CASE alive[c]
  <2>1. pump' = pump
    BY <1>1, <1>2, <1>3 DEF RegistryInv, RegistryTyped
  <2> QED
    BY <1>2, <2>1, Unmoved
<1>4. CASE ~alive[c]
  BY <1>1, <1>2, <1>4, GivingUpKeeps
<1> QED
  BY <1>3, <1>4

LEMMA PumpLeavesStep ==
    ASSUME RegistryInv, NEW c \in Clients, NEW p \in Ws!Pumps,
           Ws!PumpLeaves(c, p)
    PROVE  RegistryInv'
<1>1. ~alive[c]
  BY DEF Ws!PumpLeaves, Ws!PumpNotices, Ws!ClosedAndEmpty, RegistryInv, TrackedInv, ClientInv
<1> QED
  BY <1>1, GivingUpKeeps DEF Ws!PumpLeaves

(* UnregisterByClient takes the user's entry only if it is the client's own. *)
LEMMA UnregisterStep ==
    ASSUME RegistryInv, NEW c \in Clients, NEW p \in Ws!Pumps,
           Ws!Unregister(c, p)
    PROVE  RegistryInv'
<1> USE ForwardingAssumption
<1>1. RegistryTyped'
  BY DEF Ws!Unregister, RegistryInv, RegistryTyped
<1>2. /\ ~alive[c] /\ stage[c] = "serving" /\ pump[c][p] = "leaving"
      /\ UNCHANGED <<stage, evicted, online, sendOpen, alive, newest>>
  BY DEF Ws!Unregister, RegistryInv, TrackedInv, ClientInv
<1>3. pump'[c][p] = "closing"
  BY DEF Ws!Unregister, RegistryInv, RegistryTyped
<1>4. ASSUME NEW d \in Clients PROVE TrackedInv(d)'
  <2>1. TrackedInv(d)
    BY DEF RegistryInv
  <2>2. \A q \in Ws!Pumps :
           pump'[d][q] = pump[d][q] \/ (d = c /\ pump[d][q] = "leaving" /\ pump'[d][q] = "closing")
    BY <1>2 DEF Ws!Unregister, RegistryInv, RegistryTyped
  <2>3. /\ Ws!Reachable(d)' => Ws!Reachable(d)
        /\ d # c /\ Ws!Reachable(d) => Ws!Reachable(d)'
    BY DEF Ws!Unregister, Ws!IsCurrent, Ws!Reachable, RegistryInv, RegistryTyped
  <2>4. ClientInv(d)'
    BY <1>2, <2>1, <2>2, <2>3 DEF TrackedInv, ClientInv, Ws!Registered
  <2>5. NewestInv(d)'
    BY <1>2, <2>1, <2>3 DEF TrackedInv, NewestInv, Ws!Registered
  <2>6. OrphanInv(d)'
    <3>1. CASE d = c
      BY <1>3, <3>1 DEF OrphanInv
    <3>2. CASE d # c
      BY <1>2, <2>1, <2>2, <2>3, <3>2 DEF TrackedInv, OrphanInv
    <3> QED
      BY <3>1, <3>2
  <2> QED
    BY <2>4, <2>5, <2>6 DEF TrackedInv
<1> QED
  BY <1>1, <1>4 DEF RegistryInv

(* Whoever is registered is closed. *)
LEMMA UnregisterAllStep ==
    ASSUME RegistryInv, Ws!UnregisterAll
    PROVE  RegistryInv'
<1> USE ForwardingAssumption
<1>1. RegistryTyped'
  BY DEF Ws!UnregisterAll, RegistryInv, RegistryTyped
<1>2. ASSUME NEW d \in Clients PROVE TrackedInv(d)'
  <2>1. TrackedInv(d)
    BY DEF RegistryInv
  <2>2. ~Ws!Reachable(d)' /\ UNCHANGED <<stage, evicted, pump, newest>>
    BY DEF Ws!UnregisterAll, Ws!Reachable
  <2>3. /\ Ws!Reachable(d) => ~online'[d] /\ ~alive'[d]
        /\ ~Ws!Reachable(d) => (online'[d] => online[d]) /\ (alive'[d] => alive[d])
        /\ alive'[d] => (alive[d] /\ (sendOpen[d] => sendOpen'[d]))
    BY DEF Ws!UnregisterAll, Ws!Reachable, RegistryInv, RegistryTyped
  <2> QED
    BY <2>1, <2>2, <2>3 DEF TrackedInv, ClientInv, NewestInv, OrphanInv, Ws!Registered
<1> QED
  BY <1>1, <1>2 DEF RegistryInv

LEMMA RegistryNext ==
    ASSUME RegistryInv, [Ws!Next]_(Ws!vars)
    PROVE  RegistryInv'
<1>1. CASE UNCHANGED Ws!vars
  BY <1>1, Unmoved DEF Ws!vars
<1>2. ASSUME NEW m \in Msgs, Ws!Take(m) PROVE RegistryInv'
  BY <1>2, Unmoved DEF Ws!Take
<1>3. CASE Ws!HandlerStep
  BY <1>3, Unmoved DEF Ws!HandlerStep, Ws!TrySendChecks, Ws!TrySendSends
<1>4. ASSUME NEW c \in Clients,
             \/ Ws!Connect(c) \/ Ws!Register(c) \/ Ws!CloseReplaced(c) \/ Ws!StartPumps(c)
             \/ Ws!Disconnect(c) \/ Ws!Push(c)
      PROVE  RegistryInv'
  BY <1>4, ConnectStep, RegisterStep, CloseReplacedStep, StartPumpsStep, DisconnectStep, PushStep
<1>5. ASSUME NEW c \in Clients, NEW p \in Ws!Pumps, Ws!PumpStep(c, p) PROVE RegistryInv'
  BY <1>5, PumpLeavesStep, UnregisterStep, PumpEndsStep DEF Ws!PumpStep
<1> QED
  BY <1>1, <1>2, <1>3, <1>4, <1>5, UnregisterAllStep DEF Ws!Next

(* The registry of WebSocket connections: a user's newest connection can be found as long as it is
   there, and one that cannot be found is about to be closed, by the Register that replaced it or
   by its own pump (ConnectionsAreTracked); for any number of users and connections. *)
THEOREM RegistryTracksConnections == Ws!Spec => []ConnectionsAreTracked
<1>1. Ws!Init => RegistryInv
  BY RegistryInit
<1>2. RegistryInv /\ [Ws!Next]_(Ws!vars) => RegistryInv'
  BY RegistryNext
<1>3. RegistryInv => ConnectionsAreTracked
  BY DEF RegistryInv, TrackedInv, NewestInv, OrphanInv, ConnectionsAreTracked,
     Ws!ConnectionsAreTracked, Ws!NewestIsReachable, Ws!NoOrphan
<1> QED
  BY <1>1, <1>2, <1>3, PTL DEF Ws!Spec

(* The handler holds a message and its receiver's client while it sends. *)
HandInv ==
    /\ serving \in BOOLEAN
    /\ hand \in [step : {"idle", "found", "sending"}, msg : Msgs \cup {None},
                  client : Clients \cup {None}]
    /\ fate \in [Msgs -> {"queue", "forwarded", "offline", "dead"}]
    /\ buffer \in [Clients -> Seq(Msgs)]
    /\ RegistryTyped
    /\ hand.step # "idle" => hand.msg \in Msgs /\ hand.client \in Clients

LEMMA HandInit == ASSUME Ws!Init PROVE HandInv
<1>1. RegistryTyped
  BY RegistryInit DEF RegistryInv
<1> QED
  BY <1>1 DEF Ws!Init, Ws!Idle, HandInv

LEMMA HandlerTyped ==
    ASSUME HandInv, \/ \E m \in Msgs : Ws!Take(m)
                    \/ Ws!HandlerStep
    PROVE  HandInv'
<1> DEFINE Fates == {"queue", "forwarded", "offline", "dead"}
<1> DEFINE Hands == [step : {"idle", "found", "sending"}, msg : Msgs \cup {None},
                     client : Clients \cup {None}]
<1>1. SUFFICES /\ hand' \in Hands /\ fate' \in [Msgs -> Fates]
               /\ buffer' \in [Clients -> Seq(Msgs)]
               /\ hand'.step # "idle" => hand'.msg \in Msgs /\ hand'.client \in Clients
  BY DEF HandInv, RegistryTyped, Ws!Take, Ws!HandlerStep, Ws!TrySendChecks, Ws!TrySendSends
<1>2. /\ hand \in Hands /\ fate \in [Msgs -> Fates] /\ buffer \in [Clients -> Seq(Msgs)]
      /\ registry \in [Users -> Clients \cup {None}]
  BY DEF HandInv, RegistryTyped
<1>3. Ws!Idle \in Hands /\ Ws!Idle.step = "idle"
  BY DEF Ws!Idle
<1>4. ASSUME NEW m \in Msgs, Ws!Take(m)
      PROVE  /\ hand' \in Hands /\ fate' \in [Msgs -> Fates] /\ buffer' = buffer
             /\ hand'.step # "idle" => hand'.msg \in Msgs /\ hand'.client \in Clients
  <2> DEFINE c == registry[Receiver[m]]
  <2>1. c \in Clients \cup {None}
    BY <1>2, ForwardingAssumption
  <2>2. CASE c # None /\ online[c]
    <3>1. hand' = [step |-> "found", msg |-> m, client |-> c] /\ UNCHANGED <<fate, buffer>>
      BY <1>4, <2>2 DEF Ws!Take
    <3> QED
      BY <1>2, <2>1, <2>2, <3>1
  <2>3. CASE ~(c # None /\ online[c])
    <3>1. hand = Ws!Idle /\ fate' = [fate EXCEPT ![m] = "offline"] /\ UNCHANGED <<hand, buffer>>
      BY <1>4, <2>3 DEF Ws!Take
    <3> QED
      BY <1>2, <1>3, <3>1
  <2> QED
    BY <2>2, <2>3
<1>5. ASSUME NEW fates \in SUBSET Fates, Ws!LetGo(fates)
      PROVE  hand' \in Hands /\ fate' \in [Msgs -> Fates] /\ hand'.step = "idle"
  BY <1>2, <1>3, <1>5 DEF Ws!LetGo
<1>6. CASE Ws!TrySendChecks
  <2>1. hand.msg \in Msgs /\ hand.client \in Clients /\ buffer' = buffer
    BY <1>6 DEF Ws!TrySendChecks, HandInv
  <2>2. CASE online[hand.client]
    <3>1. hand' = [hand EXCEPT !.step = "sending"] /\ fate' = fate
      BY <1>6, <2>2 DEF Ws!TrySendChecks
    <3>2. hand' \in Hands /\ hand'.msg = hand.msg /\ hand'.client = hand.client
      BY <1>2, <3>1
    <3> QED
      BY <1>2, <2>1, <3>1, <3>2
  <2>3. CASE ~online[hand.client]
    <3>1. Ws!LetGo(Ws!NotSent)
      BY <1>6, <2>3 DEF Ws!TrySendChecks
    <3> QED
      BY <1>2, <1>5, <2>1, <3>1 DEF Ws!NotSent
  <2> QED
    BY <2>2, <2>3
<1>7. CASE Ws!TrySendSends
  <2>1. hand.msg \in Msgs /\ hand.client \in Clients
    BY <1>7 DEF Ws!TrySendSends, HandInv
  <2>2. \/ Ws!LetGo({"forwarded"})
        \/ Ws!LetGo(Ws!NotSent)
    BY <1>7 DEF Ws!TrySendSends
  <2>3. \/ buffer' = buffer
        \/ buffer' = [buffer EXCEPT ![hand.client] = Append(@, hand.msg)]
    BY <1>7 DEF Ws!TrySendSends
  <2>4. buffer' \in [Clients -> Seq(Msgs)]
    <3>1. Append(buffer[hand.client], hand.msg) \in Seq(Msgs)
      BY <1>2, <2>1
    <3> QED
      BY <1>2, <2>1, <2>3, <3>1
  <2>5. Ws!NotSent \in SUBSET Fates /\ {"forwarded"} \in SUBSET Fates
    BY DEF Ws!NotSent
  <2> QED
    BY <1>5, <2>2, <2>4, <2>5
<1> QED
  BY <1>2, <1>4, <1>6, <1>7 DEF Ws!HandlerStep

(* Steps of the connections, which leave the handler to itself. *)
LEMMA ClientsTyped ==
    ASSUME HandInv, NEW c \in Clients,
           \/ Ws!Connect(c) \/ Ws!Register(c) \/ Ws!CloseReplaced(c) \/ Ws!StartPumps(c)
           \/ Ws!Disconnect(c) \/ Ws!Push(c)
           \/ \E p \in Ws!Pumps : Ws!PumpStep(c, p)
    PROVE  HandInv'
<1> USE ForwardingAssumption DEF HandInv, RegistryTyped, Ws!work
<1>1. CASE Ws!Connect(c) \/ Ws!Disconnect(c)
  BY <1>1 DEF Ws!Connect, Ws!Disconnect
<1>6. CASE Ws!StartPumps(c)
  BY <1>6 DEF Ws!StartPumps
<1>2. CASE Ws!Register(c)
  BY <1>2 DEF Ws!Register, Ws!Replaced
<1>3. CASE Ws!CloseReplaced(c)
  BY <1>3 DEF Ws!CloseReplaced, Ws!CloseClient
<1>4. CASE Ws!Push(c)
  <2>1. Tail(buffer[c]) \in Seq(Msgs)
    BY <1>4 DEF Ws!Push
  <2>2. buffer' \in [Clients -> Seq(Msgs)]
    BY <1>4, <2>1 DEF Ws!Push
  <2>3. pump' \in [Clients -> [Ws!Pumps -> {"off", "on", "leaving", "closing", "ended"}]]
    BY <1>4 DEF Ws!Push
  <2> QED
    BY <1>4, <2>2, <2>3 DEF Ws!Push
<1>5. ASSUME NEW p \in Ws!Pumps, Ws!PumpStep(c, p) PROVE HandInv'
  <2>1. CASE Ws!PumpLeaves(c, p)
    BY <2>1 DEF Ws!PumpLeaves
  <2>2. CASE Ws!Unregister(c, p)
    BY <2>2 DEF Ws!Unregister
  <2>3. CASE Ws!PumpEnds(c, p)
    BY <2>3 DEF Ws!PumpEnds, Ws!CloseClient
  <2> QED
    BY <1>5, <2>1, <2>2, <2>3 DEF Ws!PumpStep
<1> QED
  BY <1>1, <1>2, <1>3, <1>4, <1>5, <1>6

LEMMA UnregisterAllTyped ==
    ASSUME HandInv, Ws!UnregisterAll PROVE HandInv'
BY DEF Ws!UnregisterAll, HandInv, RegistryTyped

(* The connections and the handler keep to their types. *)
THEOREM ConnectionsTyped == Ws!Spec => []Ws!TypeOK
<1>1. Ws!Init => HandInv
  BY HandInit
<1>2. HandInv /\ [Ws!Next]_(Ws!vars) => HandInv'
  <2> SUFFICES ASSUME HandInv, [Ws!Next]_(Ws!vars) PROVE HandInv'
    OBVIOUS
  <2>1. CASE UNCHANGED Ws!vars
    BY <2>1 DEF Ws!vars, Ws!work, HandInv, RegistryTyped
  <2> QED
    BY <2>1, HandlerTyped, ClientsTyped, UnregisterAllTyped DEF Ws!Next
<1>3. HandInv => Ws!TypeOK
  BY DEF HandInv, RegistryTyped, Ws!TypeOK
<1> QED
  BY <1>1, <1>2, <1>3, PTL DEF Ws!Spec

(* What the life cycle's variables can be. *)
LifeVars ==
    /\ service \in {"stopped", "started", "stopping"}
    /\ closer \in {"none", "wg", "consumer", "producer", "consumer's workers",
                   "producer's workers"}
    /\ starter \in [Life!Managers -> {"none", "launched", "blocked", "clearing"}]
    /\ disabled \subseteq Life!Managers
    /\ running \in [Life!Managers -> BOOLEAN]
    /\ cancelled \in [Life!Managers -> BOOLEAN]
    /\ leaked \in [Life!Managers -> BOOLEAN]
    /\ publisher \in [Life!Managers -> BOOLEAN]
    /\ subscriber \in BOOLEAN
    /\ worker \in [Life!Managers -> {"none", "idle", "busy"}]
    /\ starts \in 0 .. MaxStarts
    /\ failures \in 0 .. MaxFailures

LEMMA OneMore == ASSUME NEW n \in Nat, NEW k \in 0 .. n, k < n PROVE k + 1 \in 0 .. n
OBVIOUS

(* The life cycle keeps to its types. *)
THEOREM LifeTyped == Life!Spec => []Life!TypeOK
<1> USE DEF LifeVars
<1>1. Life!Init => LifeVars
  <2> SUFFICES ASSUME Life!Init PROVE LifeVars
    OBVIOUS
  <2>1. starts \in 0 .. MaxStarts /\ failures \in 0 .. MaxFailures
    BY ForwardingAssumption DEF Life!Init
  <2>2. disabled \subseteq Life!Managers
    BY DEF Life!Init
  <2> QED
    BY <2>1, <2>2 DEF Life!Init
<1>2. LifeVars /\ [Life!Next]_(Life!vars) => LifeVars'
  <2> SUFFICES ASSUME LifeVars, [Life!Next]_(Life!vars) PROVE LifeVars'
    OBVIOUS
  <2>1. CASE UNCHANGED Life!vars
    BY <2>1 DEF Life!vars
  <2>2. CASE Life!Start
    <3>1. starts' \in 0 .. MaxStarts
      <4>1. starts \in 0 .. MaxStarts /\ starts < MaxStarts /\ starts' = starts + 1
        BY <2>2 DEF Life!Start
      <4> QED
        BY <4>1, OneMore, ForwardingAssumption
    <3> QED
      BY <2>2, <3>1 DEF Life!Start
  <2>7. CASE Life!Close \/ Life!Stopped
    BY <2>7 DEF Life!Close, Life!Stopped
  <2>8. CASE Life!StopTimesOut
    <3>1. failures' \in 0 .. MaxFailures
      <4>1. /\ failures \in 0 .. MaxFailures /\ failures < MaxFailures
            /\ failures' = failures + 1
        BY <2>8 DEF Life!StopTimesOut
      <4> QED
        BY <4>1, OneMore, ForwardingAssumption
    <3> QED
      BY <2>8, <3>1 DEF Life!StopTimesOut
  <2>3. ASSUME NEW m \in Life!Managers, Life!CloseManager(m) \/ Life!ManagerClosed(m)
        PROVE  LifeVars'
    <3>1. CASE Life!CloseManager(m)
      BY <3>1 DEF Life!CloseManager, Life!AfterManager, Life!WaitsFor, Life!Managers
    <3>2. CASE Life!ManagerClosed(m)
      <4>1. failures' \in 0 .. MaxFailures
        <5>1. /\ failures \in 0 .. MaxFailures
              /\ \/ failures' = failures
                 \/ failures < MaxFailures /\ failures' = failures + 1
          BY <3>2 DEF Life!ManagerClosed
        <5>2. failures < MaxFailures => failures + 1 \in 0 .. MaxFailures
          BY <5>1, OneMore, ForwardingAssumption
        <5> QED
          BY <5>1, <5>2
      <4> QED
        BY <3>2, <4>1 DEF Life!ManagerClosed, Life!AfterManager, Life!Managers
    <3> QED
      BY <2>3, <3>1, <3>2
  <2>4. ASSUME NEW m \in Life!Managers, Life!StartDisabled(m) \/ Life!StartFails(m)
        PROVE  LifeVars'
    <3>1. \A why : Life!Leaks(m, why) \in BOOLEAN
      BY DEF Life!Leaks
    <3>2. CASE Life!StartDisabled(m)
      BY <3>1, <3>2 DEF Life!StartDisabled
    <3>3. CASE Life!StartFails(m)
      <4>1. PICK why \in {"no subscriber", "no deliveries", "no publisher"} :
               leaked' = [leaked EXCEPT ![m] = Life!Leaks(m, why)]
        BY <3>3 DEF Life!StartFails
      <4>2. leaked' \in [Life!Managers -> BOOLEAN]
        BY <3>1, <4>1
      <4>3. failures' \in 0 .. MaxFailures
        <5>1. /\ failures \in 0 .. MaxFailures
              /\ \/ failures' = failures
                 \/ failures < MaxFailures /\ failures' = failures + 1
          BY <3>3 DEF Life!StartFails
        <5>2. failures < MaxFailures => failures + 1 \in 0 .. MaxFailures
          BY <5>1, OneMore, ForwardingAssumption
        <5> QED
          BY <5>1, <5>2
      <4> QED
        BY <3>3, <4>2, <4>3 DEF Life!StartFails
    <3> QED
      BY <2>4, <3>2, <3>3
  <2>5. ASSUME NEW m \in Life!Managers,
               Life!StartSucceeds(m) \/ Life!CloseResources(m) \/ Life!ClearManager(m)
        PROVE  LifeVars'
    BY <2>5 DEF Life!StartSucceeds, Life!CloseResources, Life!ClearManager
  <2>6. ASSUME NEW m \in Life!Managers, Life!WorkerWorks(m) \/ Life!WorkerExits(m)
        PROVE  LifeVars'
    BY <2>6 DEF Life!WorkerWorks, Life!WorkerExits
  <2> QED
    BY <2>1, <2>2, <2>3, <2>4, <2>5, <2>6, <2>7, <2>8
       DEF Life!Next, Life!CloserStep, Life!ManagerStep
<1>3. LifeVars => Life!TypeOK
  BY DEF Life!TypeOK, Life!WaitsFor, Life!Managers
<1> QED
  BY <1>1, <1>2, <1>3, PTL DEF Life!Spec
=============================================================================
