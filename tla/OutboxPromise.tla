--------------------------- MODULE OutboxPromise ---------------------------
(***************************************************************************)
(* What the transactional outbox promises to the rest of the platform,     *)
(* without workers, leases or retries: an event recorded by a committed    *)
(* business transaction stays open until it is settled for good, it is     *)
(* settled as sent only when the broker has it, and the broker only ever   *)
(* gets events that were recorded (at-least-once: it may get one again,    *)
(* even after the event was settled).                                      *)
(***************************************************************************)

CONSTANT Events

VARIABLES
    fate,       \* fate[e]: unrecorded, open, sent or failed
    delivered   \* the events the broker has accepted at least once

Fate == {"unrecorded", "open", "sent", "failed"}

Init == /\ fate = [e \in Events |-> "unrecorded"]
        /\ delivered = {}

\* A business transaction commits the event together with its own rows.
Record(e) == /\ fate[e] = "unrecorded"
             /\ fate' = [fate EXCEPT ![e] = "open"]
             /\ UNCHANGED delivered

\* The broker gets the event, for the first time or once more.
Deliver(e) == /\ fate[e] # "unrecorded"
              /\ delivered' = delivered \cup {e}
              /\ UNCHANGED fate

SettleSent(e) == /\ fate[e] = "open"
                 /\ e \in delivered
                 /\ fate' = [fate EXCEPT ![e] = "sent"]
                 /\ UNCHANGED delivered

GiveUp(e) == /\ fate[e] = "open"
             /\ fate' = [fate EXCEPT ![e] = "failed"]
             /\ UNCHANGED delivered

Next == \E e \in Events : Record(e) \/ Deliver(e) \/ SettleSent(e) \/ GiveUp(e)

Spec == Init /\ [][Next]_<<fate, delivered>>
=============================================================================
