--------------------------- MODULE MCOutboxWorker ---------------------------
(* Small instances of OutboxWorker for TLC. *)
EXTENDS OutboxWorker, TLC

CONSTANTS w1, w2

MCWorkers == {w1, w2}
MCMsgs == 1 .. 2
MCOneMsg == {1}
Symmetry == Permutations(MCWorkers)
=============================================================================
