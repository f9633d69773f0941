------------------------------- MODULE MCChunk -------------------------------
(* Small instances of ChunkUpload for TLC. *)
EXTENDS ChunkProps, TLC

CONSTANTS s1, u1, c0, c1, c2, q1, q2

\* c0 is empty; with chunks of size 2, c1 has two chunks and c2 three, the last
\* one short.
MCSizeOf == [c \in Contents |-> IF c = c0 THEN 0 ELSE IF c = c1 THEN 4 ELSE 5]
=============================================================================
