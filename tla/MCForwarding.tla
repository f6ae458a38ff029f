---------------------------- MODULE MCForwarding ----------------------------
(* Forwarding for TLC. The three parts share no variable, so a behaviour moves one of them:
   interleaving them would only multiply states. *)
EXTENDS Forwarding

CONSTANTS c1, c2, p1, p2, p3, u1, m1, m2

MCCalls == {p1, p2, p3}
MCUnroutable == {p1}
MCClients == {c1, c2}
MCUsers == {u1}
MCUserOf == [c \in MCClients |-> u1]
MCMsgs == {m1, m2}
MCReceiver == [m \in MCMsgs |-> u1]

VARIABLE part

MCInit ==
    /\ part \in {"publisher", "life cycle", "connections"}
    /\ Init /\ Life!Init /\ Ws!Init
    /\ part # "life cycle" => disabled = {}

MCNext ==
    /\ UNCHANGED part
    /\ \/ part = "publisher" /\ Next /\ UNCHANGED <<lifeVars, wsVars>>
       \/ part = "life cycle" /\ Life!Next /\ UNCHANGED <<vars, wsVars>>
       \/ part = "connections" /\ Ws!Next /\ UNCHANGED <<vars, lifeVars>>

MCSpec ==
    /\ MCInit /\ [][MCNext]_<<part, vars, lifeVars, wsVars>>
    /\ WF_vars(Step) /\ Life!Fairness /\ Ws!Fairness
=============================================================================
