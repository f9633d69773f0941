------------------------------- MODULE ConnPool -------------------------------
(***************************************************************************)
(* A pool of database connections that waits without a timeout, and its    *)
(* clients.  A client holds a connection for its transaction; for a         *)
(* statement outside of it, in the middle of it, it needs a second one.     *)
(***************************************************************************)
EXTENDS Naturals, FiniteSets

CONSTANTS Clients, Size

\* What is assumed of the constants.
Bounded == IsFiniteSet(Clients) /\ Size \in Nat

VARIABLES need,   \* how many connections a client's next step is run with
          first,  \* the clients that hold a connection
          second  \* the clients that hold two

cvars == <<need, first, second>>

Init ==
  /\ need = [c \in Clients |-> 0]
  /\ first = {} /\ second = {}

Free == Cardinality(first) + Cardinality(second) < Size

\* A client waits as long as it holds less than it needs.
Waits(c) == \/ need[c] >= 1 /\ c \notin first
            \/ need[c] = 2 /\ c \notin second

Nested == {c \in Clients : need[c] = 2}

\* No connection is free, and none will ever be: every client that holds one
\* waits for another (or left without giving it back).
Drained == ~Free /\ \A c \in first : Waits(c) \/ need[c] = 0

TypeOK ==
  /\ need \in [Clients -> 0..2]
  /\ first \subseteq Clients
  /\ second \subseteq first

Within == Cardinality(first) + Cardinality(second) <= Size

\* The pool is drained by nesting alone: as many clients as there are
\* connections are in the middle of a transaction and want a second one.
DrainedByNesting == Drained => Size <= Cardinality(Nested)

-----------------------------------------------------------------------------

Connect(c) ==
  /\ Waits(c) /\ Free
  /\ IF c \in first THEN second' = second \cup {c} /\ UNCHANGED first
                    ELSE first' = first \cup {c} /\ UNCHANGED second
  /\ UNCHANGED need

\* A client that has what it needs takes its step: the second connection goes
\* back, the first one too unless the transaction goes on.  A new client may
\* begin a transaction.
Turn(c) ==
  /\ ~Waits(c)
  /\ \E n \in 0..2 : need' = [need EXCEPT ![c] = n]
  /\ second' = second \ {c}
  /\ \/ first' = first \ {c}
     \/ /\ c \in first \/ Free
        /\ need'[c] # 0
        /\ first' = first \cup {c}

Next == \E c \in Clients : Connect(c) \/ Turn(c)

PSpec == Init /\ [][Next]_cvars
=============================================================================
