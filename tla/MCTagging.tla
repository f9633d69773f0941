------------------------------ MODULE MCTagging -------------------------------
(* Small instances of Tagging for TLC. *)
EXTENDS TaggingProps, TLC

CONSTANTS f1, f2, f3, n1, n2, k1, k2

\* Two images share their labels, recognised in opposite orders; f3 is no image.
MCLabels == [f \in Files |-> IF f = f1 THEN <<n1, n2>> ELSE <<n2, n1>>]
=============================================================================
