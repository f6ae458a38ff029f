-------------------------- MODULE MCProjectMembers --------------------------
(***************************************************************************)
(* Three users of one project, two requests at a time.                     *)
(***************************************************************************)
EXTENDS ProjectMembers, TLC

CONSTANTS u1, u2, u3, q1, q2

MCUsers == {u1, u2, u3}
MCRequests == {q1, q2}

MCSymmetry == Permutations(MCUsers) \cup Permutations(MCRequests)
=============================================================================
