------------------------------ MODULE MCStorage ------------------------------
(* Small instances of Storage for TLC. *)
EXTENDS StorageProps, TLC

CONSTANTS u1, u2, f1, f2, f3, r1, r2, a, b, c1, c2, q1, q2

MCSizeOf == (c1 :> 1) @@ (c2 :> 2)
MCRootOf == [u \in Users |-> IF u = u1 THEN r1 ELSE r2]

\* Request slots are interchangeable.
Slots == Permutations(Reqs)
=============================================================================
