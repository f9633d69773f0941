------------------------------- MODULE MCShare -------------------------------
(* Small instances of ShareCache for TLC. *)
EXTENDS ShareProps, TLC

CONSTANTS s1, t1, t2, t3

Slots == Permutations(Threads)
=============================================================================
