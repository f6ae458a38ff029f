----------------------------- MODULE MCConsumer -----------------------------
(* Small instances of Consumer for TLC. *)
EXTENDS Consumer

CONSTANTS w1, w2, e1

MCWorkers == {w1, w2}
OneEvent == {e1}
MCCopies == 1 .. 3
=============================================================================
