----------------------------- MODULE MCDirectory -----------------------------
(* Two projects, one user to be found, two readers. *)
EXTENDS Directory, TLC

CONSTANTS p1, p2, u1, r1, r2

Symmetric == Permutations(Projects) \cup Permutations(Readers)
=============================================================================
