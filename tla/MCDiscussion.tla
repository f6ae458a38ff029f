---------------------------- MODULE MCDiscussion ----------------------------
(* A small discussion: two tasks, three users of which one manages. *)
EXTENDS Discussion, TLC

CONSTANTS r1, r2, u1, u2, u3, t1, t2

OneCreator == [t \in Tasks |-> u1]
Symmetric == Permutations(Requests)
=============================================================================
