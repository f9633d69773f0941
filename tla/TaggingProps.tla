----------------------------- MODULE TaggingProps ------------------------------
(***************************************************************************)
(* What automatic tags promise with several consumers and redelivery.      *)
(***************************************************************************)
EXTENDS Tagging

LabelSet(f) == {Labels[f][i] : i \in DOMAIN Labels[f]}

Linked(f) == {n \in Names : links[f][n] > 0}

Tagged(f) == Linked(f) = LabelSet(f)

\* A file has all its labels or none, whatever fails half way.
AllOrNone == \A f \in Files : Linked(f) = {} \/ Tagged(f)

\* A message delivered again, after a crash or because it was asked for twice,
\* adds no link that is there; only consumers that work on the same file at the
\* same time do, each one row.
DuplicatesBounded ==
  \A f \in Files, n \in Names : links[f][n] <= Cardinality(Consumers)

Waiting(f) == \E i \in DOMAIN queue : queue[i] = f

\* The messages that can never succeed come back to the head of the queue: as
\* many as there are consumers that still listen keep all others waiting.
Poison(f) == f \in Files \ (files \cap Images)

Stuck ==
  Cardinality({i \in DOMAIN queue : Poison(queue[i])})
    + Cardinality({c \in Consumers \ deaf : Poison(con[c].file)})
    >= Cardinality(Consumers \ deaf)

\* "The task is submitted and will be completed automatically": as long as there
\* are fewer messages that can never succeed than consumers that have not lost
\* their channel, every other file that waits is tagged, unless its download is refused.
RequestsTagged ==
  \A f \in Images :
    Waiting(f) ~> Tagged(f) \/ Poison(f) \/ f \in lost \/ Stuck
=============================================================================
