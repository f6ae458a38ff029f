--------------------------- MODULE MCAuthSession ---------------------------
(* Small instances of AuthSession for TLC. *)
EXTENDS AuthSession, TLC

CONSTANTS in1, in2, re1, re2, out1

MCLogins == {in1, in2}
MCRefreshes == {re1, re2}
MCLogouts == {out1}
Symmetry == Permutations(MCLogins) \cup Permutations(MCRefreshes)
=============================================================================
