------------------------------- MODULE MCCloud -------------------------------
(* Small instances of CloudFiles for TLC. *)
EXTENDS CloudProps, TLC

CONSTANTS u1, u2, n1, n2, c1, q1, q2, jpg, i1

MCExtOf == [n \in Names |-> IF n = n1 THEN Png ELSE jpg]

\* Temporary files only: what a merged file holds is any bytes as it is.
MCMisread == {f \in LocalFile : f.id = None}

Slots == Permutations(Reqs) \cup Permutations(Users)
=============================================================================
