------------------------------ MODULE PoolProofs ------------------------------
(***************************************************************************)
(* What holds of a connection pool of any size with any number of clients:  *)
(* it is never overdrawn, and it runs dry for good only when as many        *)
(* clients as it has connections are nested in a transaction of their own.  *)
(***************************************************************************)
EXTENDS ConnPool, FiniteSetTheorems, TLAPS

\* Whoever holds a connection needs it.
Needy == /\ \A c \in first : need[c] \in {1, 2}
         /\ \A c \in second : need[c] = 2

PoolInv == TypeOK /\ Needy /\ Within

-----------------------------------------------------------------------------

\* The sets of holders are finite, so that they can be counted.
LEMMA Counted ==
  ASSUME Bounded, TypeOK
  PROVE  /\ IsFiniteSet(first) /\ Cardinality(first) \in Nat
         /\ IsFiniteSet(second) /\ Cardinality(second) \in Nat
<1>1. IsFiniteSet(first)
  BY FS_Subset DEF Bounded, TypeOK
<1>2. IsFiniteSet(second)
  BY <1>1, FS_Subset DEF TypeOK
<1> QED BY <1>1, <1>2, FS_CardinalityType

\* An element added to a finite set adds one at most to its size.
LEMMA AtMostOneMore ==
  ASSUME NEW S, NEW x, IsFiniteSet(S)
  PROVE  /\ Cardinality(S \cup {x}) \in Nat
         /\ Cardinality(S \cup {x}) <= Cardinality(S) + 1
<1>1. Cardinality(S) \in Nat
  BY FS_CardinalityType
<1>2. IsFiniteSet(S \cup {x}) /\ Cardinality(S \cup {x}) \in Nat
  BY FS_AddElement, FS_CardinalityType
<1>3. Cardinality(S \cup {x}) = IF x \in S THEN Cardinality(S) ELSE Cardinality(S) + 1
  BY FS_AddElement
<1> QED BY <1>1, <1>2, <1>3

\* An element removed from a finite set leaves no more than there were.
LEMMA NoMoreLeft ==
  ASSUME NEW S, NEW x, IsFiniteSet(S)
  PROVE  Cardinality(S \ {x}) <= Cardinality(S)
BY FS_Subset, S \ {x} \in SUBSET S

LEMMA InitInv == Bounded /\ Init => PoolInv
BY FS_EmptySet DEF Bounded, Init, PoolInv, TypeOK, Needy, Within

LEMMA ConnectInv ==
  ASSUME Bounded, PoolInv, NEW c \in Clients, Connect(c)
  PROVE  PoolInv'
<1>1. TypeOK /\ Needy /\ Free
  BY DEF PoolInv, Connect
<1>2. TypeOK' /\ Needy'
  BY <1>1 DEF Connect, Waits, TypeOK, Needy
<1>3. Within'
  <2>1. CASE c \in first
    <3>1. first' = first /\ second' = second \cup {c}
      BY <2>1 DEF Connect
    <3>2. Cardinality(second') <= Cardinality(second) + 1 /\ Cardinality(second') \in Nat
      BY <3>1, <1>1, Counted, AtMostOneMore
    <3> QED BY <3>1, <3>2, <1>1, Counted DEF Bounded, Free, Within
  <2>2. CASE c \notin first
    <3>1. first' = first \cup {c} /\ second' = second
      BY <2>2 DEF Connect
    <3>2. Cardinality(first') <= Cardinality(first) + 1 /\ Cardinality(first') \in Nat
      BY <3>1, <1>1, Counted, AtMostOneMore
    <3> QED BY <3>1, <3>2, <1>1, Counted DEF Bounded, Free, Within
  <2> QED BY <2>1, <2>2
<1> QED BY <1>2, <1>3 DEF PoolInv

LEMMA TurnInv ==
  ASSUME Bounded, PoolInv, NEW c \in Clients, Turn(c)
  PROVE  PoolInv'
<1>1. TypeOK /\ Needy /\ Within
  BY DEF PoolInv
<1>2. PICK n \in 0..2 : need' = [need EXCEPT ![c] = n]
  BY DEF Turn
<1>3. second' = second \ {c} /\ first' \subseteq first \cup {c}
  BY DEF Turn
<1>4. TypeOK'
  BY <1>1, <1>2 DEF Turn, TypeOK
<1>5. Needy'
  <2>1. need'[c] = n
    BY <1>1, <1>2 DEF TypeOK
  <2>2. \A d \in Clients \ {c} : need'[d] = need[d]
    BY <1>1, <1>2 DEF TypeOK
  <2>3. c \in first' => need'[c] \in {1, 2}
    BY <2>1 DEF Turn
  <2> QED BY <2>2, <2>3, <1>1, <1>3 DEF Needy, TypeOK
<1>6. Within'
  <2>1. Cardinality(second') <= Cardinality(second)
    BY <1>1, <1>3, Counted, NoMoreLeft
  <2>2. Cardinality(first') <= Cardinality(first)
        \/ (Free /\ Cardinality(first') <= Cardinality(first) + 1)
    <3>1. CASE first' = first \ {c}
      BY <3>1, <1>1, Counted, NoMoreLeft
    <3>2. CASE first' = first \cup {c} /\ c \in first
      <4>1. first' = first
        BY <3>2
      <4> QED BY <4>1, <1>1, Counted
    <3>3. CASE first' = first \cup {c} /\ Free
      BY <3>3, <1>1, Counted, AtMostOneMore
    <3> QED BY <3>1, <3>2, <3>3 DEF Turn
  <2>3. Cardinality(first') \in Nat /\ Cardinality(second') \in Nat
    <3>1. IsFiniteSet(first') /\ IsFiniteSet(second')
      BY <1>4, FS_Subset DEF Bounded, TypeOK
    <3> QED BY <3>1, FS_CardinalityType
  <2> QED BY <2>1, <2>2, <2>3, <1>1, Counted DEF Bounded, Within, Free
<1> QED BY <1>4, <1>5, <1>6 DEF PoolInv

LEMMA NextInv == Bounded /\ PoolInv /\ [Next]_cvars => PoolInv'
<1> SUFFICES ASSUME Bounded, PoolInv, [Next]_cvars PROVE PoolInv'
  OBVIOUS
<1>1. CASE UNCHANGED cvars
  BY <1>1 DEF cvars, PoolInv, TypeOK, Needy, Within
<1> QED BY <1>1, ConnectInv, TurnInv DEF Next

-----------------------------------------------------------------------------

\* A drained pool: its holders have one connection each and wait for another.
LEMMA DrainedNests == Bounded /\ PoolInv => DrainedByNesting
<1> SUFFICES ASSUME Bounded, PoolInv, Drained PROVE Size <= Cardinality(Nested)
  BY DEF DrainedByNesting
<1>1. TypeOK /\ Needy
  BY DEF PoolInv
<1>2. first \subseteq Nested /\ second = {}
  BY <1>1 DEF Drained, Waits, Nested, TypeOK, Needy
<1>3. Cardinality(second) = 0
  BY <1>2, FS_EmptySet
<1>4. Size <= Cardinality(first)
  BY <1>1, <1>3, Counted DEF Bounded, Drained, Free
<1>5. IsFiniteSet(Nested) /\ Cardinality(Nested) \in Nat
  BY FS_Subset, FS_CardinalityType DEF Bounded, Nested
<1>6. Cardinality(first) <= Cardinality(Nested)
  BY <1>2, <1>5, FS_Subset
<1> QED BY <1>1, <1>4, <1>5, <1>6, Counted DEF Bounded

\* The pool never has more connections out than it may open, whatever its
\* clients do (SetMaxOpenConns in model.Database).
THEOREM NeverOverdrawn == ASSUME Bounded PROVE PSpec => []Within
<1>1. PoolInv => Within
  BY DEF PoolInv
<1> QED BY InitInv, NextInv, <1>1, PTL DEF PSpec

\* All wait for ever only when as many clients as there are connections are
\* inside a transaction and want a second one: fewer file deletes and saves of
\* shared files at a time than connections can never stop the process.
THEOREM OnlyNestingDrains == ASSUME Bounded PROVE PSpec => []DrainedByNesting
BY InitInv, NextInv, DrainedNests, PTL DEF PSpec

\* Some client in flight has what it needs or is given a connection.
CanMove == \E c \in Clients : need[c] # 0 /\ (~Waits(c) \/ Free)

\* As long as the pool is not drained and clients are in flight, one can move.
THEOREM SomebodyMoves ==
  ASSUME Bounded
  PROVE  PSpec => [](~Drained /\ (\E c \in Clients : need[c] # 0) => CanMove)
<1> DEFINE Moves == ~Drained /\ (\E c \in Clients : need[c] # 0) => CanMove
<1>1. PoolInv => Moves
  BY DEF PoolInv, TypeOK, Drained, CanMove
<1> QED BY InitInv, NextInv, <1>1, PTL DEF PSpec
=============================================================================
