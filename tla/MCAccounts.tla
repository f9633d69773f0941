------------------------------ MODULE MCAccounts -------------------------------
(* Small instances of Accounts for TLC. *)
EXTENDS AccountProps, TLC

CONSTANTS e1, n1, n2, c1, t1, t2

Slots == Permutations(Threads) \cup Permutations(Nicks)
=============================================================================
