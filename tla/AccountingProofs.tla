--------------------------- MODULE AccountingProofs ---------------------------
(***************************************************************************)
(* What holds of the storage accounting when an account has one request at *)
(* a time, for every number of users, folders, files and contents and      *)
(* every number of concurrent requests on different accounts: deleted rows *)
(* stay deleted, the tables are a ledger, the folders are a forest, stores *)
(* and folders are charged exactly what is there, or too much where        *)
(* failures cut requests short.                                            *)
(*                                                                         *)
(* Every theorem here says of the clients that they name folders of their  *)
(* own only (~Foreign).  The code does not see to it: uploads and folder   *)
(* moves look up no owner of the folder they are given                     *)
(* (file_upload_service.go:101, filefolder_update_service.go:28).  Where   *)
(* clients do name others' folders, requests of two accounts meet on one   *)
(* chain, and none of this is claimed.                                     *)
(*                                                                         *)
(* In this order: sums over finite sets; walks over folder tables; what a  *)
(* request knows of the rows it read until it commits (SoloInv); the       *)
(* ledger (LedgerInv); forests and what lies inside what in them           *)
(* (Grounded); what each write does to sizes and sums, and each operation  *)
(* to its user's numbers (CountInv); the theorems on sizes.                *)
(***************************************************************************)
EXTENDS StorageProofs

(* Sums over finite sets.  Like a walk, a sum is a recursive function; its *)
(* equation, and all that follows from it, is proved by induction over the *)
(* number of elements.                                                     *)

\* What holds for {}, and for a set if it does for the set without one of its
\* elements, holds for every finite set.
LEMMA SetInduction ==
  ASSUME NEW S, IsFiniteSet(S), NEW Z, {} \in Z,
         \A T \in SUBSET S : \A x \in T : T \ {x} \in Z => T \in Z
  PROVE  S \in Z
<1> DEFINE N == {n \in Nat : \A T \in SUBSET S : Cardinality(T) = n => T \in Z}
<1>1. 0 \in N
  BY FS_EmptySet, FS_Subset
<1>2. ASSUME NEW n \in Nat, n \in N PROVE n + 1 \in N
  <2> SUFFICES ASSUME NEW T \in SUBSET S, Cardinality(T) = n + 1 PROVE T \in Z
    OBVIOUS
  <2>1. IsFiniteSet(T)
    BY FS_Subset
  <2>n. n + 1 # 0 /\ (n + 1) - 1 = n
    OBVIOUS
  <2>2. T # {}
    BY <2>n, FS_EmptySet
  <2>3. PICK x \in T : TRUE
    BY <2>2
  <2>4. Cardinality(T \ {x}) = n
    BY <2>n, <2>1, <2>3, FS_RemoveElement
  <2>5. T \ {x} \in Z
    BY <1>2, <2>4
  <2> QED BY <2>3, <2>5
<1> HIDE DEF N
<1>3. Nat \subseteq N
  BY <1>1, <1>2, Induction
<1>4. Cardinality(S) \in N
  BY <1>3, FS_CardinalityType
<1> QED BY <1>4 DEF N

Some(S) == CHOOSE x \in S : TRUE

\* it is the sum of w over the subsets of S that are in Z.
IsSum(it, w, Z) ==
  it = [s \in Z |-> IF s = {} THEN 0 ELSE w[Some(s)] + it[s \ {Some(s)}]]

LEMMA SumExists ==
  ASSUME NEW S, IsFiniteSet(S), NEW w
  PROVE  \E it : IsSum(it, w, SUBSET S)
<1> DEFINE Small(n) == {s \in SUBSET S : Cardinality(s) <= n}
           N == {n \in Nat : \E it : IsSum(it, w, Small(n))}
<1>f. \A s \in SUBSET S : IsFiniteSet(s) /\ Cardinality(s) \in Nat
  BY FS_Subset, FS_CardinalityType
<1>e. \A s \in SUBSET S : s # {} =>
        /\ Some(s) \in s /\ s \ {Some(s)} \in SUBSET S
        /\ Cardinality(s \ {Some(s)}) = Cardinality(s) - 1
  <2> TAKE s \in SUBSET S
  <2> HAVE s # {}
  <2>1. Some(s) \in s
    BY DEF Some
  <2> QED BY <2>1, <1>f, FS_RemoveElement
<1>1. 0 \in N
  <2>1. \A s \in Small(0) : s = {}
    BY <1>f, FS_EmptySet
  <2>2. IsSum([s \in Small(0) |-> 0], w, Small(0))
    BY <2>1 DEF IsSum
  <2> QED BY <2>2
<1>2. ASSUME NEW n \in Nat, n \in N PROVE n + 1 \in N
  <2>1. PICK it : IsSum(it, w, Small(n))
    BY <1>2
  <2> DEFINE more == [s \in Small(n + 1) |->
                        IF Cardinality(s) = n + 1 THEN w[Some(s)] + it[s \ {Some(s)}] ELSE it[s]]
  <2>2. ASSUME NEW s \in Small(n + 1)
        PROVE  more[s] = IF s = {} THEN 0 ELSE w[Some(s)] + more[s \ {Some(s)}]
    <3>1. CASE s = {}
      <4>1. Cardinality(s) = 0 /\ s \in Small(n)
        BY <3>1, FS_EmptySet
      <4> QED BY <2>1, <3>1, <4>1 DEF IsSum
    <3>2. CASE s # {} /\ Cardinality(s) = n + 1
      <4>1. s \ {Some(s)} \in Small(n + 1) /\ Cardinality(s \ {Some(s)}) # n + 1
        BY <1>e, <1>f, <3>2
      <4> QED BY <3>2, <4>1
    <3>3. CASE s # {} /\ Cardinality(s) # n + 1
      <4>1. s \ {Some(s)} \in Small(n + 1) /\ Cardinality(s \ {Some(s)}) # n + 1 /\ s \in Small(n)
        BY <1>e, <1>f, <3>3
      <4>2. it[s] = w[Some(s)] + it[s \ {Some(s)}]
        BY <2>1, <3>3, <4>1 DEF IsSum
      <4> QED BY <3>3, <4>1, <4>2
    <3> QED BY <3>1, <3>2, <3>3
  <2>3. IsSum(more, w, Small(n + 1))
    BY <2>2 DEF IsSum
  <2>4. n + 1 \in Nat
    OBVIOUS
  <2> HIDE DEF more
  <2> QED BY <2>3, <2>4
<1> HIDE DEF N
<1>3. Cardinality(S) \in N
  BY <1>1, <1>2, Induction, <1>f
<1>4. Small(Cardinality(S)) = SUBSET S
  BY FS_Subset
<1> QED BY <1>3, <1>4 DEF N

\* Such a sum does not depend on the set it is taken within.
LEMMA SumUnique ==
  ASSUME NEW S, IsFiniteSet(S), NEW T \in SUBSET S, NEW w, NEW i, NEW j,
         IsSum(i, w, SUBSET S), IsSum(j, w, SUBSET T)
  PROVE  i[T] = j[T]
<1> DEFINE Z == {t \in SUBSET T : i[t] = j[t]}
<1>0. IsFiniteSet(T)
  BY FS_Subset
<1>1. {} \in Z
  BY DEF IsSum
<1>2. ASSUME NEW t \in SUBSET T, NEW x \in t, x = Some(t), t \ {x} \in Z PROVE t \in Z
  BY <1>2 DEF IsSum
<1> DEFINE N == {n \in Nat : \A t \in SUBSET T : Cardinality(t) = n => t \in Z}
<1> HIDE DEF Z
<1>3. 0 \in N
  BY <1>1, <1>0, FS_EmptySet, FS_Subset
<1>4. ASSUME NEW n \in Nat, n \in N PROVE n + 1 \in N
  <2> SUFFICES ASSUME NEW t \in SUBSET T, Cardinality(t) = n + 1 PROVE t \in Z
    OBVIOUS
  <2>1. IsFiniteSet(t)
    BY <1>0, FS_Subset
  <2>2. t # {}
    BY FS_EmptySet
  <2>3. Some(t) \in t
    BY <2>2 DEF Some
  <2>4. Cardinality(t \ {Some(t)}) = n
    BY <2>1, <2>3, FS_RemoveElement
  <2> QED BY <1>2, <1>4, <2>3, <2>4
<1> HIDE DEF N
<1>5. Cardinality(T) \in N
  BY <1>0, <1>3, <1>4, Induction, FS_CardinalityType
<1> QED BY <1>5 DEF N, Z

\* The equation of a sum.
LEMMA SumDef ==
  ASSUME NEW S, IsFiniteSet(S), NEW w
  PROVE  SumFunctionOnSet(w, S)
           = IF S = {} THEN 0 ELSE w[Some(S)] + SumFunctionOnSet(w, S \ {Some(S)})
<1> DEFINE It(X) == CHOOSE it : IsSum(it, w, SUBSET X)
<1>1. ASSUME NEW X PROVE SumFunctionOnSet(w, X) = It(X)[X]
  BY DEF SumFunctionOnSet, FoldFunctionOnSet, MapThenFoldSet, IsSum, Some
<1>2. ASSUME NEW X \in SUBSET S PROVE IsSum(It(X), w, SUBSET X)
  <2>1. IsFiniteSet(X)
    BY FS_Subset
  <2> QED BY <2>1, SumExists
<1> HIDE DEF It
<1> DEFINE R == S \ {Some(S)}
<1>3. It(S)[R] = It(R)[R]
  <2>1. IsSum(It(S), w, SUBSET S) /\ IsSum(It(R), w, SUBSET R)
    BY <1>2
  <2> HIDE DEF R
  <2>2. R \in SUBSET S
    BY DEF R
  <2> QED BY <2>1, <2>2, SumUnique
<1>4. It(S)[S] = IF S = {} THEN 0 ELSE w[Some(S)] + It(S)[R]
  <2>1. IsSum(It(S), w, SUBSET S)
    BY <1>2
  <2> QED BY <2>1 DEF IsSum
<1>5. SumFunctionOnSet(w, S) = It(S)[S] /\ SumFunctionOnSet(w, R) = It(R)[R]
  BY <1>1
<1> QED BY <1>3, <1>4, <1>5

Weighs(w, S) == \A x \in S : w[x] \in Nat

LEMMA SumNat ==
  ASSUME NEW S, IsFiniteSet(S), NEW w, Weighs(w, S)
  PROVE  SumFunctionOnSet(w, S) \in Nat
<1> DEFINE N == {n \in Nat : \A T \in SUBSET S : Cardinality(T) = n => SumFunctionOnSet(w, T) \in Nat}
<1>1. 0 \in N
  <2>1. \A T \in SUBSET S : Cardinality(T) = 0 => T = {}
    BY FS_EmptySet, FS_Subset
  <2>2. SumFunctionOnSet(w, {}) = 0
    BY SumDef, FS_EmptySet
  <2> QED BY <2>1, <2>2
<1>2. ASSUME NEW n \in Nat, n \in N PROVE n + 1 \in N
  <2> SUFFICES ASSUME NEW T \in SUBSET S, Cardinality(T) = n + 1
               PROVE  SumFunctionOnSet(w, T) \in Nat
    OBVIOUS
  <2>1. IsFiniteSet(T)
    BY FS_Subset
  <2>n. n + 1 # 0 /\ (n + 1) - 1 = n
    OBVIOUS
  <2>2. T # {}
    BY <2>n, FS_EmptySet
  <2>3. Some(T) \in T
    BY <2>2 DEF Some
  <2>4. Cardinality(T \ {Some(T)}) = n
    <3>1. Cardinality(T \ {Some(T)}) = Cardinality(T) - 1
      BY <2>1, <2>3, FS_RemoveElement
    <3> QED BY <2>n, <3>1
  <2>5. SumFunctionOnSet(w, T \ {Some(T)}) \in Nat /\ w[Some(T)] \in Nat
    BY <1>2, <2>3, <2>4 DEF Weighs
  <2>6. SumFunctionOnSet(w, T) = w[Some(T)] + SumFunctionOnSet(w, T \ {Some(T)})
    BY <2>1, <2>2, SumDef
  <2> QED BY <2>5, <2>6
<1> HIDE DEF N
<1>3. Cardinality(S) \in N
  BY <1>1, <1>2, Induction, FS_CardinalityType
<1> QED BY <1>3 DEF N

\* Which element is taken first does not matter.
LEMMA SumRemove ==
  ASSUME NEW S, IsFiniteSet(S), NEW w, Weighs(w, S), NEW e \in S
  PROVE  SumFunctionOnSet(w, S) = SumFunctionOnSet(w, S \ {e}) + w[e]
<1> DEFINE Sum(T) == SumFunctionOnSet(w, T)
           N == {n \in Nat : \A T \in SUBSET S : Cardinality(T) = n =>
                               \A x \in T : Sum(T) = Sum(T \ {x}) + w[x]}
<1>t. \A T \in SUBSET S : IsFiniteSet(T) /\ Sum(T) \in Nat /\ \A x \in T : w[x] \in Nat
  <2> TAKE T \in SUBSET S
  <2>1. IsFiniteSet(T) /\ Weighs(w, T)
    BY FS_Subset DEF Weighs
  <2> QED BY <2>1, SumNat DEF Weighs
<1>s. \A T \in SUBSET S : T # {} => Some(T) \in T /\ Sum(T) = w[Some(T)] + Sum(T \ {Some(T)})
  <2> TAKE T \in SUBSET S
  <2> HAVE T # {}
  <2>1. Some(T) \in T
    BY DEF Some
  <2> QED BY <2>1, <1>t, SumDef
<1> HIDE DEF Sum
<1>1. 0 \in N
  BY <1>t, FS_EmptySet
<1>2. ASSUME NEW n \in Nat, n \in N PROVE n + 1 \in N
  <2> SUFFICES ASSUME NEW T \in SUBSET S, Cardinality(T) = n + 1, NEW x \in T
               PROVE  Sum(T) = Sum(T \ {x}) + w[x]
    OBVIOUS
  <2>n. n + 1 # 0 /\ (n + 1) - 1 = n
    OBVIOUS
  <2> DEFINE y == Some(T)
  <2>1. y \in T /\ Sum(T) = w[y] + Sum(T \ {y})
    BY <1>s
  <2> HIDE DEF y
  <2>2. Cardinality(T \ {y}) = n /\ Cardinality(T \ {x}) = n
    BY <2>n, <1>t, <2>1, FS_RemoveElement
  <2>3. CASE x = y
    BY <1>t, <2>1, <2>3
  <2>4. CASE x # y
    <3>1. Sum(T \ {y}) = Sum((T \ {y}) \ {x}) + w[x]
      BY <1>2, <2>2, <2>4
    <3>2. Sum(T \ {x}) = Sum((T \ {x}) \ {y}) + w[y]
      BY <1>2, <2>1, <2>2, <2>4
    <3>3. (T \ {x}) \ {y} = (T \ {y}) \ {x}
      OBVIOUS
    <3>4. w[x] \in Nat /\ w[y] \in Nat /\ Sum((T \ {y}) \ {x}) \in Nat
      BY <1>t, <2>1
    <3> QED BY <2>1, <3>1, <3>2, <3>3, <3>4
  <2> QED BY <2>3, <2>4
<1> HIDE DEF N
<1>3. Cardinality(S) \in N
  BY <1>1, <1>2, Induction, FS_CardinalityType
<1> QED BY <1>3 DEF N, Sum

LEMMA SumEmpty == \A w : SumFunctionOnSet(w, {}) = 0
BY SumDef, FS_EmptySet

LEMMA SumAdd ==
  ASSUME NEW S, IsFiniteSet(S), NEW e, e \notin S, NEW w, Weighs(w, S \cup {e})
  PROVE  SumFunctionOnSet(w, S \cup {e}) = SumFunctionOnSet(w, S) + w[e]
<1>1. IsFiniteSet(S \cup {e}) /\ (S \cup {e}) \ {e} = S /\ e \in S \cup {e}
  BY FS_AddElement
<1> QED BY <1>1, SumRemove

LEMMA SumOne ==
  ASSUME NEW e, NEW w, w[e] \in Nat
  PROVE  SumFunctionOnSet(w, {e}) = w[e]
<1>1. {} \cup {e} = {e} /\ IsFiniteSet({}) /\ Weighs(w, {e})
  BY FS_EmptySet DEF Weighs
<1>2. SumFunctionOnSet(w, {e}) = SumFunctionOnSet(w, {}) + w[e]
  BY <1>1, SumAdd
<1> QED BY <1>2, SumEmpty

\* A sum depends on the weights of its elements only.
LEMMA SumSame ==
  ASSUME NEW S, IsFiniteSet(S), NEW w, NEW v, Weighs(w, S), \A x \in S : w[x] = v[x]
  PROVE  SumFunctionOnSet(w, S) = SumFunctionOnSet(v, S)
<1> DEFINE Z == {T \in SUBSET S : SumFunctionOnSet(w, T) = SumFunctionOnSet(v, T)}
<1>1. {} \in Z
  BY SumEmpty
<1>2. ASSUME NEW T \in SUBSET S, NEW x \in T, T \ {x} \in Z PROVE T \in Z
  <2>1. IsFiniteSet(T) /\ Weighs(w, T) /\ Weighs(v, T)
    BY FS_Subset DEF Weighs
  <2>2. /\ SumFunctionOnSet(w, T) = SumFunctionOnSet(w, T \ {x}) + w[x]
        /\ SumFunctionOnSet(v, T) = SumFunctionOnSet(v, T \ {x}) + v[x]
    BY <2>1, SumRemove
  <2> QED BY <1>2, <2>2
<1> HIDE DEF Z
<1>3. S \in Z
  BY <1>1, <1>2, SetInduction
<1> QED BY <1>3 DEF Z

LEMMA SumUnion ==
  ASSUME NEW S, IsFiniteSet(S), NEW T, IsFiniteSet(T), S \cap T = {},
         NEW w, Weighs(w, S \cup T)
  PROVE  SumFunctionOnSet(w, S \cup T) = SumFunctionOnSet(w, S) + SumFunctionOnSet(w, T)
<1> DEFINE Sum(X) == SumFunctionOnSet(w, X)
           Z == {X \in SUBSET T : IsFiniteSet(S \cup X) /\ Sum(S \cup X) = Sum(S) + Sum(X)}
<1>0. Sum(S) \in Nat
  BY SumNat DEF Weighs
<1>1. {} \in Z
  <2>1. S \cup {} = S
    OBVIOUS
  <2>2. Sum({}) = 0
    BY SumEmpty
  <2> HIDE DEF Sum
  <2> QED BY <1>0, <2>1, <2>2
<1>2. ASSUME NEW X \in SUBSET T, NEW x \in X, X \ {x} \in Z PROVE X \in Z
  <2>1. IsFiniteSet(X) /\ Weighs(w, X) /\ IsFiniteSet(X \ {x}) /\ Weighs(w, X \ {x})
    BY FS_Subset DEF Weighs
  <2>2. S \cup X = (S \cup (X \ {x})) \cup {x} /\ x \notin S \cup (X \ {x})
    OBVIOUS
  <2>3. IsFiniteSet(S \cup X) /\ Weighs(w, S \cup X)
    BY <1>2, <2>2, FS_AddElement DEF Weighs
  <2>4. Sum(S \cup X) = Sum(S \cup (X \ {x})) + w[x]
    BY <1>2, <2>2, <2>3, SumAdd
  <2>5. Sum(X) = Sum(X \ {x}) + w[x]
    BY <2>1, SumRemove
  <2>6. Sum(X \ {x}) \in Nat /\ w[x] \in Nat
    BY <2>1, SumNat DEF Weighs
  <2>7. Sum(S \cup (X \ {x})) = Sum(S) + Sum(X \ {x})
    BY <1>2
  <2> HIDE DEF Sum
  <2> QED BY <1>0, <2>3, <2>4, <2>5, <2>6, <2>7
<1> HIDE DEF Z
<1>3. T \in Z
  BY <1>1, <1>2, SetInduction
<1> QED BY <1>3 DEF Z

\* A sum over distinct names of the elements.
LEMMA SumImage ==
  ASSUME NEW S, IsFiniteSet(S), NEW k, \A x, y \in S : k[x] = k[y] => x = y,
         NEW w, Weighs(w, S), NEW v, \A x \in S : v[k[x]] = w[x]
  PROVE  /\ IsFiniteSet({k[x] : x \in S})
         /\ SumFunctionOnSet(v, {k[x] : x \in S}) = SumFunctionOnSet(w, S)
<1> DEFINE Im(T) == {k[x] : x \in T}
           Z == {T \in SUBSET S : IsFiniteSet(Im(T)) /\ SumFunctionOnSet(v, Im(T)) = SumFunctionOnSet(w, T)}
<1>1. {} \in Z
  <2>1. Im({}) = {}
    OBVIOUS
  <2> HIDE DEF Im
  <2> QED BY <2>1, SumEmpty, FS_EmptySet
<1>2. ASSUME NEW T \in SUBSET S, NEW x \in T, T \ {x} \in Z PROVE T \in Z
  <2>1. IsFiniteSet(T) /\ Weighs(w, T)
    BY FS_Subset DEF Weighs
  <2> DEFINE I == Im(T \ {x})
             e == k[x]
  <2>2. Im(T) = I \cup {e} /\ e \notin I /\ Weighs(v, I \cup {e}) /\ v[e] = w[x]
    BY DEF Weighs
  <2>3. IsFiniteSet(I) /\ SumFunctionOnSet(v, I) = SumFunctionOnSet(w, T \ {x})
    BY <1>2
  <2> HIDE DEF Im, I, e
  <2>4. IsFiniteSet(I \cup {e})
    BY <2>3, FS_AddElement
  <2>5. SumFunctionOnSet(v, I \cup {e}) = SumFunctionOnSet(v, I) + v[e]
    BY <2>2, <2>3, SumAdd
  <2>6. SumFunctionOnSet(w, T) = SumFunctionOnSet(w, T \ {x}) + w[x]
    BY <2>1, SumRemove
  <2> QED BY <2>2, <2>3, <2>4, <2>5, <2>6
<1> HIDE DEF Z
<1>3. S \in Z
  BY <1>1, <1>2, SetInduction
<1> QED BY <1>3 DEF Z

LEMMA SumMonotonic ==
  ASSUME NEW S, IsFiniteSet(S), NEW T \in SUBSET S, NEW w, Weighs(w, S)
  PROVE  SumFunctionOnSet(w, T) <= SumFunctionOnSet(w, S)
<1> DEFINE R == S \ T
<1>1. IsFiniteSet(T) /\ IsFiniteSet(R) /\ Weighs(w, T) /\ Weighs(w, R) /\ T \cup R = S
  BY FS_Subset DEF Weighs
<1>2. T \cap R = {}
  OBVIOUS
<1> HIDE DEF R
<1>3. SumFunctionOnSet(w, S) = SumFunctionOnSet(w, T) + SumFunctionOnSet(w, R)
  BY <1>1, <1>2, SumUnion
<1>4. SumFunctionOnSet(w, T) \in Nat /\ SumFunctionOnSet(w, R) \in Nat
  BY <1>1, SumNat
<1> QED BY <1>3, <1>4

-----------------------------------------------------------------------------
(* One request at a time on an account.                                      *)

\* No two requests have the same user.
Solo == \A r, x \in Reqs : req[r].user # None /\ req[x].user = req[r].user => x = r

\* A request is accepted for a user, who had fewer than PerUser.
\* What the accounting is about: the tables, and the history but for the links.
books == <<files, folders, stores, born, granted, tainted>>

LEMMA ArriveUser ==
  ASSUME TypeInv, NEW r \in Reqs, Arrive(r)
  PROVE  /\ req'[r].user \in Users /\ Cardinality(Busy(req'[r].user)) < PerUser
         /\ req[r].pc = "idle" /\ req'[r].op \in Ops
         /\ req'[r].pc \notin {"refund", "commit"} /\ UNCHANGED books
<1>r. req \in [Reqs -> Request] /\ born \in [Files \cup Folders -> Users \cup {None}]
  BY DEF TypeInv, TypeOK
<1>1. ASSUME NEW u \in Users, NEW g \in Folders, NEW c \in Contents, UploadCheck(r, u, g, c)
      PROVE  req'[r].user = u /\ req'[r].op = "upload" /\ Accept(r, u, "upload")
             /\ req'[r].pc \notin {"refund", "commit"} /\ UNCHANGED books
  BY <1>1, <1>r DEF UploadCheck, Idle, tables, history, books
<1>2. ASSUME NEW u \in Users, NEW f \in Files, DeleteRead(r, u, f)
      PROVE  req'[r].user = u /\ req'[r].op = "deletefile" /\ Accept(r, u, "deletefile")
             /\ req'[r].pc \notin {"refund", "commit"} /\ UNCHANGED books
  BY <1>2, <1>r DEF DeleteRead, Idle, tables, history, books
<1>3. ASSUME NEW u \in Users, NEW f \in Files, NEW to \in Folders, MoveFileRead(r, u, f, to)
      PROVE  req'[r].user = u /\ req'[r].op = "movefile" /\ Accept(r, u, "movefile")
             /\ req'[r].pc \notin {"refund", "commit"} /\ UNCHANGED books
  BY <1>3, <1>r DEF MoveFileRead, Idle, tables, history, books
<1>4. ASSUME NEW u \in Users, NEW g \in Folders, CreateFolderCheck(r, u, g)
      PROVE  req'[r].user = u /\ req'[r].op = "createfolder" /\ Accept(r, u, "createfolder")
             /\ req'[r].pc \notin {"refund", "commit"} /\ UNCHANGED books
  BY <1>4, <1>r DEF CreateFolderCheck, Idle, tables, history, books
<1>5. ASSUME NEW u \in Users, NEW g \in Folders, NEW to \in Folders \cup {Top},
             MoveFolderRead(r, u, g, to)
      PROVE  req'[r].user = u /\ req'[r].op = "movefolder" /\ Accept(r, u, "movefolder")
             /\ req'[r].pc \notin {"refund", "commit"} /\ UNCHANGED books
  BY <1>5, <1>r DEF MoveFolderRead, Idle, tables, history, books
<1>6. ASSUME NEW u \in Users, NEW g \in Folders, DeleteFolderCheck(r, u, g)
      PROVE  req'[r].user = u /\ req'[r].op = "deletefolder" /\ Accept(r, u, "deletefolder")
             /\ req'[r].pc \notin {"refund", "commit"} /\ UNCHANGED books
  BY <1>6, <1>r DEF DeleteFolderCheck, Idle, tables, history, books
<1>7. ASSUME NEW u \in Users, NEW f \in Files, NEW to \in Folders, ShareRead(r, u, f, to)
      PROVE  req'[r].user = u /\ req'[r].op = "sharesave" /\ Accept(r, u, "sharesave")
             /\ req'[r].pc \notin {"refund", "commit"} /\ UNCHANGED books
  BY <1>7, <1>r DEF ShareRead, Idle, tables, history, books
<1>8. ASSUME NEW u \in Users, NEW v \in Volumes, SetVolumeRead(r, u, v)
      PROVE  req'[r].user = u /\ req'[r].op = "setvolume" /\ Accept(r, u, "setvolume")
             /\ req'[r].pc \notin {"refund", "commit"} /\ UNCHANGED books
  BY <1>8, <1>r DEF SetVolumeRead, Idle, tables, history, books
<1>9. ASSUME NEW f \in Files, AdminDeleteRead(r, f)
      PROVE  req'[r].user = born[f] /\ born[f] \in Users /\ req'[r].op = "admindelete"
             /\ Accept(r, born[f], "admindelete") /\ req'[r].pc \notin {"refund", "commit"}
             /\ UNCHANGED books
  BY <1>9, <1>r DEF AdminDeleteRead, Idle, tables, history, books
<1> QED BY <1>1, <1>2, <1>3, <1>4, <1>5, <1>6, <1>7, <1>8, <1>9 DEF Arrive, Accept

\* A request in flight stays its user's and what it is, or ends.
LEMMA ContinueUser ==
  ASSUME TypeInv, NEW r \in Reqs, Continue(r)
  PROVE  \/ Done(r)
         \/ req'[r].user = req[r].user /\ req'[r].op = req[r].op
<1> DEFINE q == req[r]
           Goal == Done(r) \/ (req'[r].user = q.user /\ req'[r].op = q.op)
<1>q. q \in Request /\ req \in [Reqs -> Request]
  BY DEF TypeInv, TypeOK
<1>p. ASSUME NEW held, NEW o, NEW whole, NEW next, Prepare(r, held, o, whole, next)
      PROVE  Goal
  BY <1>q, <1>p DEF Prepare, Request
<1>1. CASE UploadTx(r) \/ MoveFileTx(r)
  BY <1>1, <1>p DEF UploadTx, UploadSaves, MoveFileTx
<1>2. CASE MoveFolderTx(r) \/ ShareTx(r)
  BY <1>2, <1>p DEF MoveFolderTx, ShareTx
<1>3. CASE DeleteFolderTx(r)
  BY <1>3, <1>p DEF DeleteFolderTx
<1>4. CASE MoveFileRead2(r) \/ MoveFileRead3(r) \/ MoveFolderRead2(r) \/ MoveFolderRead3(r)
  BY <1>4, <1>q DEF MoveFileRead2, MoveFileRead3, MoveFolderRead2, MoveFolderRead3, Request
<1>5. CASE ShareRead2(r) \/ ShareRead3(r) \/ AdminDeleteFind(r) \/ LockChain(r)
  BY <1>5, <1>q DEF ShareRead2, ShareRead3, AdminDeleteFind, LockChain, Request
<1>6. CASE DeleteRow(r) \/ DeleteRefund(r) \/ ShareCreate(r)
  BY <1>6, <1>q DEF DeleteRow, DeleteRefund, ShareCreate, Request
<1>7. CASE CreateFolder(r) \/ SetVolume(r) \/ AdminDelete(r) \/ Commit(r)
  BY <1>7 DEF CreateFolder, SetVolume, AdminDelete, Commit
<1> QED BY <1>1, <1>2, <1>3, <1>4, <1>5, <1>6, <1>7 DEF Continue

Acts(r) == Arrive(r) \/ Continue(r) \/ Fail(r) \/ LockTimeout(r)

\* With one request at a time on an account there is none of the user's when one
\* is accepted.
LEMMA ArriveAlike ==
  ASSUME TypeInv, PerUser = 1, NEW r \in Reqs, Arrive(r), NEW x \in Reqs
  PROVE  req[x].user # req'[r].user
<1> DEFINE B == Busy(req'[r].user)
<1>1. IsFiniteSet(B) /\ Cardinality(B) \in Nat
  BY StorageAssumption, FS_Subset, FS_CardinalityType DEF Busy
<1>2. Cardinality(B) < 1
  BY ArriveUser
<1> HIDE DEF B
<1>3. B = {}
  BY <1>1, <1>2, FS_EmptySet
<1> QED BY <1>3 DEF B, Busy

LEMMA SoloStep ==
  ASSUME TypeInv, PerUser = 1, Solo, NEW r \in Reqs, Acts(r)
  PROVE  Solo'
<1>r. req \in [Reqs -> Request]
  BY DEF TypeInv, TypeOK
<1>1. \A x \in Reqs \ {r} : req'[x] = req[x]
  BY OneActs DEF Acts
<1>2. CASE Arrive(r)
  <2>1. \A x \in Reqs : req[x].user # req'[r].user
    BY <1>2, ArriveAlike
  <2> QED BY <1>1, <2>1 DEF Solo
<1>3. CASE req'[r].user = None \/ req'[r].user = req[r].user
  BY <1>1, <1>3 DEF Solo
<1>4. CASE Continue(r) \/ Fail(r) \/ LockTimeout(r)
  <2>1. Done(r) => req'[r].user = None
    BY <1>r DEF Done, Idle
  <2> QED BY <1>3, <1>4, <2>1, ContinueUser DEF Fail, LockTimeout
<1> QED BY <1>2, <1>4 DEF Acts

-----------------------------------------------------------------------------
(* Clients that name no other account's folders.  Then every class is one     *)
(* account, and a folder, the folder above it and what a request reads, walks *)
(* along and writes there are one user's.  The handlers do not see to it: an  *)
(* upload and a folder move take any folder's id.  B stands for born.         *)

\* A row of u's, below a folder of u's.
Suits(B, u, row) == row.owner = u /\ (row.parent \in Folders => B[row.parent] = u)

\* u's folders in a table are u's rows; writes are of u's folders only.
Matched(B, u, v) == \A g \in Folders : v[g] # None /\ B[g] = u => Suits(B, u, v[g])
Matches(B, u, w) == \A g \in Folders : w[g] # None => B[g] = u /\ Suits(B, u, w[g])

Has(B, u, g) == g \in Folders /\ B[g] = u

\* What belongs together in a request's local variables.
Keeps(B, q) ==
  q.pc # "idle" =>
    /\ Matches(B, q.user, q.out.folders)
    /\ \A g \in q.out.drop : Has(B, q.user, g)
    /\ \A g \in {q.from, q.g} \cap Folders : Has(B, q.user, g)
    /\ q.op \in {"movefolder", "sharesave"} /\ q.to \in Folders => Has(B, q.user, q.to)
    /\ q.src # None => Suits(B, q.user, q.src)
    /\ q.dst # None => Has(B, q.user, q.to) /\ Suits(B, q.user, q.dst)
    /\ q.dir # None => Suits(B, q.user, q.dir)
    /\ q.op = "movefile" => q.file.owner = q.user /\ (q.pc = "tx" => q.dst # None)
    /\ q.out.insert # None => /\ q.op = "upload" /\ q.out.insert.owner = q.user
                              /\ Has(B, q.user, q.out.insert.folder)
    /\ q.out.moved # None => /\ q.out.moved.owner = q.user
                             /\ Has(B, q.user, q.out.moved.folder)

\* Clients name no other account's folders, and no two accounts share any.
Separate == ~Foreign /\ linked = [u \in Users |-> {u}]

\* The rows of the tables, and the requests.
KeptInv ==
  /\ Separate
  /\ \A g \in Folders : folders[g] # None =>
       born[g] = folders[g].owner /\ Suits(born, born[g], folders[g])
  /\ \A f \in Files : files[f] # None /\ files[f].owner # None =>
       Has(born, files[f].owner, files[f].folder)
  /\ \A r \in Reqs : Keeps(born, req[r])

KeptIdInv == KinIdInv /\ KeptInv /\ IdInv

\* The class of one user.
LEMMA OneClass ==
  ASSUME NEW B, NEW u
  PROVE  /\ \A v : Matched(B, u, v) <=> Mated(B, {u}, v)
         /\ \A v : Matches(B, u, v) <=> Mates(B, {u}, v)
         /\ \A g : Has(B, u, g) <=> Own(B, {u}, g)
         /\ \A g, row : Fit(B, {u}, g, row) <=> B[g] = u /\ Suits(B, u, row)
<1>1. \A g, row : Fit(B, {u}, g, row) <=> B[g] = u /\ Suits(B, u, row)
  BY DEF Fit, Suits
<1>2. \A g : Has(B, u, g) <=> Own(B, {u}, g)
  BY DEF Has, Own
<1>3. \A v : Matched(B, u, v) <=> Mated(B, {u}, v)
  BY <1>1 DEF Matched, Mated
<1>4. \A v : Matches(B, u, v) <=> Mates(B, {u}, v)
  BY <1>1 DEF Matches, Mates
<1> QED BY <1>1, <1>2, <1>3, <1>4

\* With every account in a class of its own.
LEMMA SoloKeeps == TypeInv /\ KinIdInv /\ Separate => KeptIdInv
<1> SUFFICES ASSUME TypeInv, KinIdInv, Separate PROVE KeptIdInv
  OBVIOUS
<1>1. KinInv /\ IdInv /\ ~Foreign /\ linked = [u \in Users |-> {u}]
  BY DEF KinIdInv, Separate
<1>2. ASSUME NEW g \in Folders, folders[g] # None
      PROVE  born[g] = folders[g].owner /\ Suits(born, born[g], folders[g])
  <2>1. born[g] \in Users /\ Fit(born, {born[g]}, g, folders[g])
    BY <1>1, <1>2 DEF KinInv
  <2> QED BY <2>1 DEF Fit, Suits
<1>3. ASSUME NEW f \in Files, files[f] # None, files[f].owner # None
      PROVE  Has(born, files[f].owner, files[f].folder)
  <2>1. files[f].owner \in Users
    BY <1>3 DEF TypeInv, TypeOK, FileRow
  <2>2. Own(born, {files[f].owner}, files[f].folder)
    BY <1>1, <1>3, <2>1 DEF KinInv
  <2> QED BY <2>2 DEF Own, Has
<1>4. ASSUME NEW r \in Reqs PROVE Keeps(born, req[r])
  <2> SUFFICES ASSUME req[r].pc # "idle" PROVE Keeps(born, req[r])
    BY DEF Keeps
  <2> DEFINE q == req[r]
             u == q.user
  <2>1. u \in Users /\ linked[u] = {u}
    BY <1>1 DEF TypeInv, ReqOK
  <2>2. Kin(born, {u}, q) /\ ~Astray(q)
    BY <1>1, <2>1 DEF KinInv, Astray
  <2>3. /\ Matches(born, u, q.out.folders) <=> Mates(born, {u}, q.out.folders)
        /\ \A g : Has(born, u, g) <=> Own(born, {u}, g)
        /\ \A g, row : Fit(born, {u}, g, row) <=> born[g] = u /\ Suits(born, u, row)
    BY OneClass
  <2> HIDE DEF u
  <2> QED BY <2>2, <2>3 DEF Kin, Keeps, u
<1> QED BY <1>1, <1>2, <1>3, <1>4 DEF KeptInv, KeptIdInv

LEMMA InitKept == Init /\ ~Foreign => KeptIdInv
<1> SUFFICES ASSUME Init, ~Foreign PROVE KeptIdInv
  OBVIOUS
<1>1. TypeInv /\ KinIdInv
  BY InitType, InitKin
<1> QED BY <1>1, SoloKeeps DEF Init, Separate

\* A link to oneself is none.
LEMMA NextKept == TypeInv /\ KeptIdInv /\ [Next]_vars => KeptIdInv'
<1> SUFFICES ASSUME TypeInv, KeptIdInv, [Next]_vars PROVE KeptIdInv'
  OBVIOUS
<1>b. KinIdInv /\ ~Foreign /\ linked = [u \in Users |-> {u}]
  BY DEF KeptIdInv, KeptInv, Separate
<1>1. TypeInv' /\ KinIdInv'
  BY <1>b, NextType, NextKin
<1>l. ASSUME NEW u \in Users, NEW g, g \in Folders => born[g] = u, Link(u, g) PROVE linked' = linked
  <2> DEFINE all == IF g \in Folders THEN linked[u] \cup linked[born[g]] ELSE linked[u]
  <2>1. all = {u}
    BY <1>b, <1>l
  <2>2. linked' = [v \in Users |-> IF v \in all THEN all ELSE linked[v]]
    BY <1>l DEF Link
  <2> HIDE DEF all
  <2> QED BY <1>b, <2>1, <2>2
<1>2. linked' = linked
  <2>1. CASE UNCHANGED vars
    BY <2>1 DEF vars
  <2>2. ASSUME NEW r \in Reqs, NEW u \in Users, NEW g \in Folders, NEW c \in Contents,
               UploadCheck(r, u, g, c)
        PROVE  linked' = linked
    BY <2>2, <1>b, <1>l DEF UploadCheck, Named
  <2>3. ASSUME NEW r \in Reqs, NEW u \in Users, NEW g \in Folders, NEW to \in Folders \cup {Top},
               MoveFolderRead(r, u, g, to)
        PROVE  linked' = linked
    <3> DEFINE mine(x) == IF folders[x] # None /\ folders[x].owner = u THEN folders[x] ELSE None
               at == IF mine(g) = None THEN Top ELSE to
    <3>1. Link(u, at) /\ (to = Top \/ born[to] = u)
      BY <2>3, <1>b DEF MoveFolderRead, Named
    <3>2. at \in Folders => born[at] = u
      BY <3>1, FoldersAssumption
    <3> HIDE DEF at
    <3> QED BY <3>1, <3>2, <1>l
  <2>4. ASSUME NEW r \in Reqs, Arrive(r) PROVE linked' = linked
    BY <2>2, <2>3, <2>4 DEF Arrive, DeleteRead, MoveFileRead, CreateFolderCheck, DeleteFolderCheck,
       ShareRead, SetVolumeRead, AdminDeleteRead, history
  <2>5. ASSUME NEW r \in Reqs, Continue(r) \/ Fail(r) \/ LockTimeout(r) PROVE linked' = linked
    BY <2>5 DEF Continue, Fail, LockTimeout, UploadTx, UploadSaves, LockChain, DeleteRow,
       DeleteRefund, MoveFileRead2, MoveFileRead3, MoveFileTx, CreateFolder, MoveFolderRead2,
       MoveFolderRead3, MoveFolderTx, DeleteFolderTx, ShareRead2, ShareRead3, ShareTx, ShareCreate,
       SetVolume, AdminDeleteFind, AdminDelete, Commit, history
  <2> QED BY <2>1, <2>4, <2>5 DEF Next
<1>3. Separate'
  BY <1>b, <1>2 DEF Separate
<1> QED BY <1>1, <1>3, SoloKeeps, PTL

\* What walks of a class do, for the class of one user.
LEMMA ChainKeeps ==
  ASSUME NEW B, NEW u, NEW v \in View, Matched(B, u, v), NEW f \in Folders, B[f] = u,
         NEW k \in 0..Depth
  PROVE  \A g \in Chain(v, f, k) : g \in Folders /\ v[g] # None /\ B[g] = u
<1>1. Mated(B, {u}, v) /\ B[f] \in {u}
  BY OneClass
<1>2. \A g \in Chain(v, f, k) : g \in Folders /\ v[g] # None /\ B[g] \in {u}
  BY <1>1, ChainKin
<1> QED BY <1>2

LEMMA WalkKeeps ==
  ASSUME NEW B, NEW u, NEW v \in View, Matched(B, u, v), NEW f,
         NEW row \in FolderRow \cup {None},
         row # None => f \in Folders /\ B[f] = u /\ Suits(B, u, row),
         NEW s \in Nat, NEW k \in 0..Depth
  PROVE  /\ Matches(B, u, AddFileFolderSize(v, f, row, s, k))
         /\ Matches(B, u, SubFileFolderSize(v, f, row, s, k))
<1>1. Mated(B, {u}, v) /\ (row # None => f \in Folders /\ Fit(B, {u}, f, row))
  BY OneClass
<1>2. /\ Mates(B, {u}, AddFileFolderSize(v, f, row, s, k))
      /\ Mates(B, {u}, SubFileFolderSize(v, f, row, s, k))
  BY <1>1, WalkKin
<1> QED BY <1>2, OneClass

LEMMA OverlayKeeps ==
  ASSUME NEW B, NEW u, NEW v, NEW w, Matches(B, u, w)
  PROVE  /\ Matched(B, u, v) => Matched(B, u, Overlay(v, w))
         /\ Matches(B, u, v) => Matches(B, u, Overlay(v, w))
BY DEF Matched, Matches, Overlay

-----------------------------------------------------------------------------
(* Walks of a user's see the user's folders only: tables that agree on them  *)
(* give the same walks.                                                      *)

Agree(B, u, P, Q) == \A g \in Folders : B[g] = u => P[g] = Q[g]

LEMMA MatchedAgree ==
  ASSUME NEW B, NEW u, NEW P, NEW Q, Matched(B, u, P), Agree(B, u, P, Q)
  PROVE  Matched(B, u, Q)
BY DEF Matched, Agree

\* One step of a walk.
LEMMA ClimbStep ==
  ASSUME NEW v, NEW f
  PROVE  /\ Climb(v, f) = [n \in 0..Depth |-> Climb(v, f)[n]]
         /\ \A n \in 0..Depth : Climb(v, f)[n] = IF n = 0 THEN f ELSE Up(v, Climb(v, f)[n - 1])
<1> DEFINE at == Climb(v, f)
<1>1. at = [n \in 0..Depth |-> IF n = 0 THEN f ELSE Up(v, at[n - 1])]
  BY ClimbDef
<1> HIDE DEF at
<1>2. at = [n \in 0..Depth |-> at[n]] /\ \A n \in 0..Depth : at[n] = IF n = 0 THEN f ELSE Up(v, at[n - 1])
  BY <1>1
<1> QED BY <1>2 DEF at

\* Two tables that lead the same way from every place a walk can come to.
LEMMA ClimbSame ==
  ASSUME NEW P, NEW Q, NEW f, NEW S, f \in S,
         \A g \in S : Up(P, g) \in S /\ Up(Q, g) = Up(P, g)
  PROVE  Climb(P, f) = Climb(Q, f) /\ \A n \in 0..Depth : Climb(P, f)[n] \in S
<1> DEFINE T == {n \in Nat : n <= Depth => Climb(P, f)[n] = Climb(Q, f)[n]}
<1>3. \A n \in 0..Depth : Climb(P, f)[n] \in S
  BY ClimbWithin
<1>4. \A n \in 0..Depth : /\ Climb(P, f)[n] = IF n = 0 THEN f ELSE Up(P, Climb(P, f)[n - 1])
                          /\ Climb(Q, f)[n] = IF n = 0 THEN f ELSE Up(Q, Climb(Q, f)[n - 1])
  BY ClimbStep
<1>5. 0 \in T
  BY <1>4, DepthType
<1>6. ASSUME NEW n \in Nat, n \in T PROVE n + 1 \in T
  <2> SUFFICES ASSUME n + 1 <= Depth PROVE Climb(P, f)[n + 1] = Climb(Q, f)[n + 1]
    OBVIOUS
  <2>1. n <= Depth /\ n \in 0..Depth /\ n + 1 \in 0..Depth /\ n + 1 # 0 /\ (n + 1) - 1 = n
    BY DepthType
  <2>2. Climb(P, f)[n] = Climb(Q, f)[n]
    BY <1>6, <2>1
  <2> QED BY <1>3, <1>4, <2>1, <2>2
<1> HIDE DEF T
<1>7. Nat \subseteq T
  BY <1>5, <1>6, Induction
<1>8. \A n \in 0..Depth : Climb(P, f)[n] = Climb(Q, f)[n]
  BY <1>7, DepthType DEF T
<1>9. /\ Climb(P, f) = [n \in 0..Depth |-> Climb(P, f)[n]]
      /\ Climb(Q, f) = [n \in 0..Depth |-> Climb(Q, f)[n]]
  BY ClimbStep
<1> QED BY <1>3, <1>8, <1>9

LEMMA ClimbAgree ==
  ASSUME NEW B, NEW u, NEW P \in View, NEW Q \in View, Matched(B, u, P), Agree(B, u, P, Q),
         NEW f, f = Top \/ Has(B, u, f)
  PROVE  /\ Climb(P, f) = Climb(Q, f)
         /\ \A n \in 0..Depth : Climb(P, f)[n] = Top \/ Has(B, u, Climb(P, f)[n])
<1> DEFINE S == {g \in Folders : B[g] = u} \cup {Top}
<1>1. ASSUME NEW g \in S PROVE Up(P, g) \in S /\ Up(Q, g) = Up(P, g)
  <2>1. CASE g \in Folders /\ P[g] # None
    <3>1. B[g] = u /\ P[g] = Q[g]
      BY <2>1, FoldersAssumption DEF Agree
    <3>2. P[g] \in FolderRow /\ Suits(B, u, P[g])
      BY <2>1, <3>1 DEF View, Matched
    <3> QED BY <2>1, <3>1, <3>2 DEF Up, Suits, FolderRow
  <2>2. CASE ~(g \in Folders /\ P[g] # None)
    BY <2>2, FoldersAssumption DEF Up, Agree
  <2> QED BY <2>1, <2>2
<1>2. f \in S
  BY DEF Has
<1> HIDE DEF S
<1>3. Climb(P, f) = Climb(Q, f) /\ \A n \in 0..Depth : Climb(P, f)[n] \in S
  BY <1>1, <1>2, ClimbSame
<1> QED BY <1>3 DEF S, Has

LEMMA ChainAgree ==
  ASSUME NEW B, NEW u, NEW P \in View, NEW Q \in View, Matched(B, u, P), Agree(B, u, P, Q),
         NEW f, f = Top \/ Has(B, u, f), NEW k \in 0..Depth
  PROVE  Chain(P, f, k) = Chain(Q, f, k) /\ (Spins(P, f) <=> Spins(Q, f))
<1>1. /\ Climb(P, f) = Climb(Q, f)
      /\ \A n \in 0..Depth : Climb(P, f)[n] = Top \/ Has(B, u, Climb(P, f)[n])
  BY ClimbAgree
<1>2. \A g \in Folders : g = Top \/ Has(B, u, g) => P[g] = Q[g]
  BY FoldersAssumption DEF Agree, Has
<1>3. \A n \in 0..(k - 1) : n \in 0..Depth
  BY DepthType
<1>4. Chain(P, f, k) = Chain(Q, f, k)
  BY <1>1, <1>2, <1>3 DEF Chain
<1>5. Depth \in 0..Depth
  BY DepthType
<1> QED BY <1>1, <1>2, <1>4, <1>5 DEF Spins

LEMMA WalkAgree ==
  ASSUME NEW B, NEW u, NEW P \in View, NEW Q \in View, Matched(B, u, P), Agree(B, u, P, Q),
         NEW f, NEW row \in FolderRow \cup {None}, row # None => Has(B, u, f) /\ Suits(B, u, row),
         NEW s \in Nat, NEW k \in 0..Depth
  PROVE  /\ AddFileFolderSize(P, f, row, s, k) = AddFileFolderSize(Q, f, row, s, k)
         /\ SubFileFolderSize(P, f, row, s, k) = SubFileFolderSize(Q, f, row, s, k)
         /\ WalkSpins(P, f, row, k) <=> WalkSpins(Q, f, row, k)
<1>1. CASE row = None
  BY <1>1 DEF AddFileFolderSize, SubFileFolderSize, WalkSpins
<1>2. CASE row # None
  <2> DEFINE p == [P EXCEPT ![f] = row]
             q == [Q EXCEPT ![f] = row]
  <2>1. p \in View /\ q \in View /\ Matched(B, u, p) /\ Agree(B, u, p, q)
    BY <1>2 DEF View, Matched, Agree, Has
  <2> HIDE DEF p, q
  <2>2. Chain(p, f, k) = Chain(q, f, k) /\ (Spins(p, f) <=> Spins(q, f))
    BY <1>2, <2>1, ChainAgree
  <2>3. \A g \in Chain(p, f, k) : g \in Folders /\ p[g] = q[g]
    BY <1>2, <2>1, ChainKeeps DEF Agree, Has
  <2>4. /\ AddFileFolderSize(P, f, row, s, k)
             = [g \in Folders |-> IF g \in Chain(p, f, k) THEN [p[g] EXCEPT !.size = @ + s] ELSE None]
        /\ AddFileFolderSize(Q, f, row, s, k)
             = [g \in Folders |-> IF g \in Chain(q, f, k) THEN [q[g] EXCEPT !.size = @ + s] ELSE None]
    BY <1>2 DEF AddFileFolderSize, p, q
  <2>5. /\ SubFileFolderSize(P, f, row, s, k)
             = [g \in Folders |-> IF g \in Chain(p, f, k) THEN SubSize(p[g], s) ELSE None]
        /\ SubFileFolderSize(Q, f, row, s, k)
             = [g \in Folders |-> IF g \in Chain(q, f, k) THEN SubSize(q[g], s) ELSE None]
    BY <1>2 DEF SubFileFolderSize, p, q
  <2>6. /\ WalkSpins(P, f, row, k) <=> k = Depth /\ Spins(p, f)
        /\ WalkSpins(Q, f, row, k) <=> k = Depth /\ Spins(q, f)
    BY <1>2 DEF WalkSpins, p, q
  <2> QED BY <2>2, <2>3, <2>4, <2>5, <2>6
<1> QED BY <1>1, <1>2

LEMMA OverlayAgree ==
  ASSUME NEW B, NEW u, NEW P, NEW Q, Agree(B, u, P, Q), NEW w
  PROVE  Agree(B, u, Overlay(P, w), Overlay(Q, w))
BY DEF Agree, Overlay

LEMMA TransferAgree ==
  ASSUME NEW B, NEW u, NEW P \in View, NEW Q \in View, Matched(B, u, P), Agree(B, u, P, Q),
         NEW from, NEW src \in FolderRow \cup {None},
         src # None => Has(B, u, from) /\ Suits(B, u, src),
         NEW to, NEW dst \in FolderRow \cup {None},
         dst # None => Has(B, u, to) /\ Suits(B, u, dst),
         NEW s \in Nat, NEW k \in 0..Depth
  PROVE  /\ Transfer(P, from, src, to, dst, s, k) = Transfer(Q, from, src, to, dst, s, k)
         /\ TransferSpins(P, from, src, to, dst, s, k) <=> TransferSpins(Q, from, src, to, dst, s, k)
<1> DEFINE sub == SubFileFolderSize(P, from, src, s, Depth)
           p == Overlay(P, sub)
           q == Overlay(Q, sub)
<1>1. Depth \in 0..Depth
  BY DepthType
<1>2. sub = SubFileFolderSize(Q, from, src, s, Depth)
  BY <1>1, WalkAgree
<1>3. sub \in View /\ Matches(B, u, sub)
  BY <1>1, SubType, WalkKeeps DEF Has
<1>4. p \in View /\ q \in View /\ Matched(B, u, p) /\ Agree(B, u, p, q)
  <2> HIDE DEF sub
  <2> QED BY <1>3, OverlayType, OverlayKeeps, OverlayAgree
<1>5. WalkSpins(P, from, src, Depth) <=> WalkSpins(Q, from, src, Depth)
  BY <1>1, WalkAgree
<1> HIDE DEF sub
<1>6. /\ AddFileFolderSize(p, to, dst, s, k) = AddFileFolderSize(q, to, dst, s, k)
      /\ WalkSpins(p, to, dst, k) <=> WalkSpins(q, to, dst, k)
  <2> HIDE DEF p, q
  <2> QED BY <1>4, WalkAgree
<1>7. /\ Transfer(P, from, src, to, dst, s, k) = Overlay(sub, AddFileFolderSize(p, to, dst, s, k))
      /\ TransferSpins(P, from, src, to, dst, s, k)
           <=> WalkSpins(P, from, src, Depth) \/ WalkSpins(p, to, dst, k)
  BY DEF Transfer, TransferSpins, sub
<1>8. /\ Transfer(Q, from, src, to, dst, s, k) = Overlay(sub, AddFileFolderSize(q, to, dst, s, k))
      /\ TransferSpins(Q, from, src, to, dst, s, k)
           <=> WalkSpins(Q, from, src, Depth) \/ WalkSpins(q, to, dst, k)
  BY <1>2 DEF Transfer, TransferSpins
<1> HIDE DEF p, q
<1> QED BY <1>5, <1>6, <1>7, <1>8

\* What lies below a folder of u's is u's.
Down(B, u, P) ==
  \A g \in Folders : P[g] # None /\ Has(B, u, P[g].parent) => B[g] = u

LEMMA DoomedNext ==
  ASSUME NEW v, NEW f \in Folders, NEW n \in Nat, n # 0
  PROVE  Doomed(v, f, n + 1) = Doomed(v, f, n) \cup
           {g \in Folders : v[g] # None /\ v[g].parent \in Doomed(v, f, n)}
<1>1. n \in Nat \ {0}
  OBVIOUS
<1> QED BY <1>1, DoomedRounds

LEMMA DoomedAgree ==
  ASSUME NEW B, NEW u, NEW P, NEW Q, Down(B, u, P), Down(B, u, Q), Agree(B, u, P, Q),
         NEW f \in Folders, B[f] = u
  PROVE  \A n \in Nat : Doomed(P, f, n) = Doomed(Q, f, n) /\ \A g \in Doomed(P, f, n) : Has(B, u, g)
<1> DEFINE T == {n \in Nat : /\ Doomed(P, f, n) = Doomed(Q, f, n)
                             /\ \A g \in Doomed(P, f, n) : Has(B, u, g)}
<1>1. 0 \in T
  BY DoomedRounds
<1>2. ASSUME NEW n \in Nat, n \in T PROVE n + 1 \in T
  <2>1. CASE n = 0
    <3>1. n + 1 = 1 /\ Has(B, u, f)
      BY <2>1 DEF Has
    <3>2. Doomed(P, f, 1) = {f} /\ Doomed(Q, f, 1) = {f}
      BY DoomedRounds
    <3> QED BY <3>1, <3>2
  <2>2. CASE n # 0
    <3> DEFINE D == Doomed(P, f, n)
    <3>1. Doomed(P, f, n + 1) = D \cup {g \in Folders : P[g] # None /\ P[g].parent \in D}
      <4>1. Doomed(P, f, n + 1) = Doomed(P, f, n) \cup
              {g \in Folders : P[g] # None /\ P[g].parent \in Doomed(P, f, n)}
        BY <2>2, DoomedNext
      <4> QED BY <4>1
    <3>2. Doomed(Q, f, n + 1) = D \cup {g \in Folders : Q[g] # None /\ Q[g].parent \in D}
      <4>1. Doomed(Q, f, n) = D
        BY <1>2
      <4>2. Doomed(Q, f, n + 1) = Doomed(Q, f, n) \cup
              {g \in Folders : Q[g] # None /\ Q[g].parent \in Doomed(Q, f, n)}
        BY <2>2, DoomedNext
      <4> QED BY <4>1, <4>2
    <3>3. \A g \in D : Has(B, u, g)
      BY <1>2
    <3> HIDE DEF D
    <3>4. \A g \in Folders : P[g] # None /\ P[g].parent \in D => Has(B, u, g) /\ P[g] = Q[g]
      BY <3>3 DEF Down, Has, Agree
    <3>5. \A g \in Folders : Q[g] # None /\ Q[g].parent \in D => Has(B, u, g) /\ P[g] = Q[g]
      BY <3>3 DEF Down, Has, Agree
    <3>6. Doomed(P, f, n + 1) = Doomed(Q, f, n + 1)
      BY <3>1, <3>2, <3>4, <3>5
    <3>7. \A g \in Doomed(P, f, n + 1) : Has(B, u, g)
      BY <3>1, <3>3, <3>4
    <3> QED BY <3>6, <3>7
  <2> QED BY <2>1, <2>2
<1> HIDE DEF T
<1>3. Nat \subseteq T
  BY <1>1, <1>2, Induction
<1> QED BY <1>3 DEF T

-----------------------------------------------------------------------------
(* What a request that is alone on its account still knows of the folders.    *)

\* The folder a move saves, and all the move writes when the last walk is cut
\* after k folders.
Saved(q) == IF q.dir = None THEN NoWrites
            ELSE [NoWrites EXCEPT ![q.g] = [q.dir EXCEPT !.parent = q.to]]

MoveSize(q) == IF q.dir = None THEN 0 ELSE q.dir.size

MoveWrites(P, q, k) ==
  IF Moving(q)
  THEN Overlay(Saved(q),
         Transfer(Overlay(P, Saved(q)), q.from, q.src, q.to, q.dst, MoveSize(q), k))
  ELSE Saved(q)

MoveSpins(P, q, k) ==
  Moving(q) /\ TransferSpins(Overlay(P, Saved(q)), q.from, q.src, q.to, q.dst, MoveSize(q), k)

\* What a folder delete leaves, and what it writes there.
Left(P, g) == [x \in Folders |-> IF x \in Doomed(P, g, Depth) THEN None ELSE P[x]]

DropWrites(P, q, k) ==
  SubFileFolderSize(Left(P, q.g), q.from, Left(P, q.g)[q.from], q.dir.size, k)

\* What a file move writes.
FileMoveWrites(P, q) ==
  IF Moving(q) THEN Transfer(P, q.from, q.src, q.to, q.dst, Length(q.file.md5), Depth)
  ELSE NoWrites

\* The rows q has read are those of P, and its writes are computed from P.
UploadDir(P, q) ==
  q.pc = "commit" => q.out.folders = AddFileFolderSize(P, q.g, P[q.g], Length(q.c), Depth)

DeleteFileDir(B, P, q) ==
  /\ q.file \in FileRow /\ Has(B, q.user, q.file.folder)
  /\ q.out.folders = SubFileFolderSize(P, q.file.folder, P[q.file.folder], Length(q.c), Depth)

MoveFileDir(P, q) ==
  /\ q.from = q.file.folder
  /\ q.pc # "read2" => q.src = P[q.from]
  /\ q.pc \in {"tx", "commit"} => q.dst # None /\ q.dst = P[q.to]
  /\ q.pc = "commit" => q.out.folders = FileMoveWrites(P, q)

MoveFolderDir(P, q) ==
  /\ q.dir = P[q.g]
  /\ q.from = IF q.dir = None THEN None ELSE q.dir.parent
  /\ q.pc # "read2" => q.dst = RowAt(P, q.to)
  /\ q.pc \in {"tx", "commit"} => q.src = RowAt(P, q.from)
  /\ q.pc = "commit" => \E k \in Cuts : ~MoveSpins(P, q, k) /\ q.out.folders = MoveWrites(P, q, k)

DeleteFolderDir(P, q) ==
  /\ q.dir = P[q.g] /\ q.from = q.dir.parent /\ q.from \in Folders
  /\ q.pc = "commit" =>
       \/ /\ q.out.drop = Doomed(P, q.g, Depth) /\ q.out.purge = Doomed(P, q.g, Depth)
          /\ \E k \in Cuts : q.out.folders = DropWrites(P, q, k)
       \/ /\ Failures /\ q.out.folders = NoWrites
          /\ \E n \in 0..Depth : q.out.drop = Doomed(P, q.g, n)
          /\ \E n \in 0..Depth : q.out.purge = Doomed(P, q.g, n)

ShareDir(P, q) ==
  /\ q.pc # "read2" => q.dst = P[q.to]
  /\ q.pc \in {"chain", "create", "commit"} =>
       \E k \in Cuts : q.out.folders = AddFileFolderSize(P, q.to, q.dst, Length(q.c), k)

DirFresh(B, P, q) ==
  /\ q.op # "deletefolder" => q.out.drop = {} /\ q.out.purge = {}
  /\ q.op = "upload" => UploadDir(P, q)
  /\ q.op = "deletefile" => DeleteFileDir(B, P, q)
  /\ q.op = "movefile" => MoveFileDir(P, q)
  /\ q.op = "movefolder" => MoveFolderDir(P, q)
  /\ q.op = "deletefolder" => DeleteFolderDir(P, q)
  /\ q.op = "sharesave" => ShareDir(P, q)
  /\ q.op \notin {"upload", "deletefile", "movefile", "movefolder", "deletefolder", "sharesave"}
       => q.pc # "commit"

LEMMA CutsType == Cuts \subseteq 0..Depth /\ (~Failures => Cuts = {Depth})
BY DepthType DEF Cuts

LEMMA SavedKeeps ==
  ASSUME NEW B, NEW q \in Request, ReqOK(q), Keeps(B, q), q.op = "movefolder", q.pc # "idle"
  PROVE  Saved(q) \in View /\ Matches(B, q.user, Saved(q)) /\ MoveSize(q) \in Nat
<1>1. CASE q.dir = None
  BY <1>1 DEF Saved, MoveSize, NoWrites, View, Matches
<1>2. CASE q.dir # None
  <2> DEFINE row == [q.dir EXCEPT !.parent = q.to]
  <2>1. /\ q.g \in Folders /\ q.to \in Folders \cup {Top} /\ Has(B, q.user, q.g)
        /\ (q.to \in Folders => Has(B, q.user, q.to))
        /\ Suits(B, q.user, q.dir) /\ q.dir \in FolderRow
    BY <1>2 DEF ReqOK, Keeps, Request
  <2>2. row \in FolderRow /\ Suits(B, q.user, row) /\ q.dir.size \in Nat
    BY <2>1 DEF FolderRow, Suits, Has
  <2> HIDE DEF row
  <2>3. Saved(q) = [g \in Folders |-> IF g = q.g THEN row ELSE None]
    BY <1>2, <2>1 DEF Saved, NoWrites, row
  <2> QED BY <1>2, <2>1, <2>2, <2>3 DEF View, Matches, MoveSize, Has
<1> QED BY <1>1, <1>2

LEMMA LeftAgree ==
  ASSUME NEW B, NEW u, NEW P \in View, NEW Q \in View, Matched(B, u, P), Agree(B, u, P, Q),
         Down(B, u, P), Down(B, u, Q), NEW f \in Folders, B[f] = u
  PROVE  /\ Left(P, f) \in View /\ Left(Q, f) \in View
         /\ Matched(B, u, Left(P, f)) /\ Agree(B, u, Left(P, f), Left(Q, f))
<1>1. Doomed(P, f, Depth) = Doomed(Q, f, Depth)
  BY DoomedAgree, DepthType
<1> QED BY <1>1 DEF Left, View, Matched, Agree

\* What it knows is about its user's folders, and is not changed by what
\* happens to others'.
LEMMA DirFrame ==
  ASSUME NEW B, NEW B2, NEW q \in Request, ReqOK(q), Keeps(B, q), q.pc # "idle",
         \A g \in Folders : B[g] = q.user <=> B2[g] = q.user,
         NEW P \in View, NEW Q \in View, Matched(B, q.user, P), Agree(B, q.user, P, Q),
         Down(B, q.user, P), Down(B, q.user, Q), DirFresh(B, P, q)
  PROVE  DirFresh(B2, Q, q)
<1> DEFINE u == q.user
<1>a. /\ \A g \in Folders : Has(B, u, g) => P[g] = Q[g]
      /\ \A g : Has(B, u, g) <=> Has(B2, u, g)
  BY DEF Has, Agree
<1>d. Depth \in 0..Depth /\ Cuts \subseteq 0..Depth
  BY DepthType, CutsType
<1>l. \A c : Length(c) \in Nat
  BY LengthType
<1>p. \A g \in Folders : Has(B, u, g) /\ P[g] # None => P[g] \in FolderRow /\ Suits(B, u, P[g])
  BY DEF View, Matched, Has
<1>1. ASSUME q.op = "upload", UploadDir(P, q) PROVE UploadDir(Q, q)
  <2>1. q.g \in Folders /\ Has(B, u, q.g)
    BY <1>1 DEF ReqOK, Keeps
  <2>2. P[q.g] = Q[q.g] /\ P[q.g] \in FolderRow \cup {None}
    BY <1>a, <2>1 DEF View
  <2>3. AddFileFolderSize(P, q.g, P[q.g], Length(q.c), Depth)
          = AddFileFolderSize(Q, q.g, P[q.g], Length(q.c), Depth)
    BY <1>d, <1>l, <1>p, <2>1, <2>2, WalkAgree
  <2> QED BY <1>1, <2>2, <2>3 DEF UploadDir
<1>2. ASSUME q.op = "deletefile", DeleteFileDir(B, P, q) PROVE DeleteFileDir(B2, Q, q)
  <2> DEFINE g == q.file.folder
  <2>1. g \in Folders /\ Has(B, u, g)
    BY <1>2 DEF DeleteFileDir, FileRow
  <2>2. P[g] = Q[g] /\ P[g] \in FolderRow \cup {None}
    BY <1>a, <2>1 DEF View
  <2>3. SubFileFolderSize(P, g, P[g], Length(q.c), Depth)
          = SubFileFolderSize(Q, g, P[g], Length(q.c), Depth)
    <3> HIDE DEF g
    <3> QED BY <1>d, <1>l, <1>p, <2>1, <2>2, WalkAgree
  <2> QED BY <1>2, <1>a, <2>2, <2>3 DEF DeleteFileDir
<1>3. ASSUME q.op = "movefile", MoveFileDir(P, q) PROVE MoveFileDir(Q, q)
  <2>1. q.from \in Folders /\ Has(B, u, q.from) /\ q.to \in Folders
    BY <1>3 DEF ReqOK, Keeps
  <2>2. q.pc \in {"tx", "commit"} => Has(B, u, q.to)
    BY <1>3 DEF Keeps, MoveFileDir
  <2>4. q.src # None => Suits(B, u, q.src)
    BY DEF Keeps
  <2>5. q.dst # None => Suits(B, u, q.dst) /\ Has(B, u, q.to)
    BY DEF Keeps
  <2>6. q.src \in FolderRow \cup {None} /\ q.dst \in FolderRow \cup {None}
    BY DEF Request
  <2>7. FileMoveWrites(P, q) = FileMoveWrites(Q, q)
    BY <1>d, <1>l, <2>1, <2>4, <2>5, <2>6, TransferAgree DEF FileMoveWrites
  <2>8. q.pc \in {"tx", "commit"} => q.dst # None /\ q.dst = Q[q.to]
    BY <1>3, <1>a, <2>1, <2>2 DEF MoveFileDir
  <2> QED BY <1>3, <1>a, <2>1, <2>7, <2>8 DEF MoveFileDir
<1>4. ASSUME q.op = "movefolder", MoveFolderDir(P, q) PROVE MoveFolderDir(Q, q)
  <2>1. q.g \in Folders /\ Has(B, u, q.g) /\ (q.to \in Folders => Has(B, u, q.to))
    BY <1>4 DEF ReqOK, Keeps, Has
  <2>2. q.from \in Folders => Has(B, u, q.from)
    BY DEF Keeps
  <2>3. /\ q.src # None => q.from \in Folders /\ Suits(B, u, q.src)
        /\ q.dst # None => Has(B, u, q.to) /\ Suits(B, u, q.dst)
        /\ q.src \in FolderRow \cup {None} /\ q.dst \in FolderRow \cup {None}
    BY DEF Keeps, Request, ReqOK
  <2> DEFINE p == Overlay(P, Saved(q))
             r == Overlay(Q, Saved(q))
  <2>4. Saved(q) \in View /\ Matches(B, u, Saved(q)) /\ MoveSize(q) \in Nat
    BY <1>4, SavedKeeps
  <2>5. p \in View /\ r \in View /\ Matched(B, u, p) /\ Agree(B, u, p, r)
    BY <2>4, OverlayType, OverlayKeeps, OverlayAgree
  <2> HIDE DEF p, r
  <2>6. ASSUME NEW k \in Cuts
        PROVE  /\ Transfer(p, q.from, q.src, q.to, q.dst, MoveSize(q), k)
                    = Transfer(r, q.from, q.src, q.to, q.dst, MoveSize(q), k)
               /\ TransferSpins(p, q.from, q.src, q.to, q.dst, MoveSize(q), k)
                    <=> TransferSpins(r, q.from, q.src, q.to, q.dst, MoveSize(q), k)
    <3>1. k \in 0..Depth
      BY <1>d
    <3>2. q.src # None => Has(B, u, q.from) /\ Suits(B, u, q.src)
      BY <2>2, <2>3
    <3> QED BY <2>1, <2>3, <2>4, <2>5, <3>1, <3>2, TransferAgree
  <2>7. /\ \A k \in Cuts : MoveWrites(P, q, k) = MoveWrites(Q, q, k)
        /\ \A k \in Cuts : MoveSpins(P, q, k) <=> MoveSpins(Q, q, k)
    BY <2>6 DEF MoveWrites, MoveSpins, p, r
  <2>8. q.dir = Q[q.g] /\ (q.pc # "read2" => q.dst = RowAt(Q, q.to))
    BY <1>4, <1>a, <2>1 DEF MoveFolderDir, RowAt
  <2>9. RowAt(P, q.from) = RowAt(Q, q.from)
    BY <1>a, <2>2 DEF RowAt
  <2> QED BY <1>4, <2>7, <2>8, <2>9 DEF MoveFolderDir
<1>5. ASSUME q.op = "deletefolder", DeleteFolderDir(P, q) PROVE DeleteFolderDir(Q, q)
  <2>1. q.g \in Folders /\ Has(B, u, q.g) /\ q.from \in Folders /\ Has(B, u, q.from)
        /\ q.dir \in FolderRow
    BY <1>5 DEF ReqOK, Keeps, Has, DeleteFolderDir
  <2> DEFINE p == Left(P, q.g)
             r == Left(Q, q.g)
  <2>2. p \in View /\ r \in View /\ Matched(B, u, p) /\ Agree(B, u, p, r)
    BY <2>1, LeftAgree DEF Has
  <2>3. \A n \in Nat : Doomed(P, q.g, n) = Doomed(Q, q.g, n)
    BY <2>1, DoomedAgree DEF Has
  <2>4. p[q.from] = r[q.from] /\ p[q.from] \in FolderRow \cup {None}
        /\ (p[q.from] # None => Suits(B, u, p[q.from]))
    BY <2>1, <2>2 DEF Agree, Has, View, Matched
  <2>5. q.dir.size \in Nat
    BY <2>1 DEF FolderRow
  <2>6. ASSUME NEW k \in Cuts PROVE DropWrites(P, q, k) = DropWrites(Q, q, k)
    <3> HIDE DEF p, r
    <3>1. SubFileFolderSize(p, q.from, p[q.from], q.dir.size, k)
            = SubFileFolderSize(r, q.from, p[q.from], q.dir.size, k)
      BY <1>d, <2>1, <2>2, <2>4, <2>5, WalkAgree
    <3> QED BY <2>4, <3>1 DEF DropWrites, p, r
  <2>7. q.dir = Q[q.g]
    BY <1>5, <1>a, <2>1 DEF DeleteFolderDir
  <2>8. \A n \in 0..Depth : Doomed(P, q.g, n) = Doomed(Q, q.g, n)
    BY <2>3, DepthType
  <2>9. Doomed(P, q.g, Depth) = Doomed(Q, q.g, Depth)
    BY <2>3, DepthType
  <2> QED BY <1>5, <2>6, <2>7, <2>8, <2>9 DEF DeleteFolderDir
<1>6. ASSUME q.op = "sharesave", ShareDir(P, q) PROVE ShareDir(Q, q)
  <2>1. q.to \in Folders /\ Has(B, u, q.to)
    BY <1>6 DEF ReqOK, Keeps, Has
  <2>2. q.dst \in FolderRow \cup {None} /\ (q.dst # None => Suits(B, u, q.dst))
    BY DEF Request, Keeps
  <2>3. ASSUME NEW k \in Cuts
        PROVE  AddFileFolderSize(P, q.to, q.dst, Length(q.c), k)
                 = AddFileFolderSize(Q, q.to, q.dst, Length(q.c), k)
    BY <1>d, <1>l, <2>1, <2>2, WalkAgree
  <2>4. q.pc # "read2" => q.dst = Q[q.to]
    BY <1>6, <1>a, <2>1 DEF ShareDir
  <2> QED BY <1>6, <2>3, <2>4 DEF ShareDir
<1> QED BY <1>1, <1>2, <1>3, <1>4, <1>5, <1>6 DEF DirFresh

\* A slot that is free holds nothing.
Settled == \A r \in Reqs : req[r].pc = "idle" => req[r] = Idle

DirInv == \A r \in Reqs : DirFresh(born, folders, req[r])

LEMMA IdleDir == \A B, P : DirFresh(B, P, Idle)
BY DEF DirFresh, Idle, Nothing

\* A request is accepted with the rows of now.
LEMMA ArriveDir ==
  ASSUME TypeInv, KeptInv, NEW r \in Reqs, Arrive(r)
  PROVE  DirFresh(born, folders, req'[r]) /\ req'[r].pc # "idle"
<1>r. req \in [Reqs -> Request]
  BY DEF TypeInv, TypeOK
<1>t. /\ \A f \in Files : files[f] \in FileRow \cup {None}
      /\ \A g \in Folders : folders[g] \in FolderRow \cup {None}
  BY DEF TypeInv, TypeOK, View
<1>1. ASSUME NEW u \in Users, NEW g \in Folders, NEW c \in Contents, UploadCheck(r, u, g, c)
      PROVE  DirFresh(born, folders, req'[r]) /\ req'[r].pc # "idle"
  BY <1>1, <1>r DEF UploadCheck, Idle, Nothing, DirFresh, UploadDir
<1>2. ASSUME NEW u \in Users, NEW f \in Files, DeleteRead(r, u, f)
      PROVE  DirFresh(born, folders, req'[r]) /\ req'[r].pc # "idle"
  <2> DEFINE row == files[f]
             o == [Nothing EXCEPT
                     !.folders = SubFileFolderSize(folders, row.folder, folders[row.folder],
                                                   Length(row.md5), Depth),
                     !.spin = WalkSpins(folders, row.folder, folders[row.folder], Depth)]
             q == req'[r]
  <2>1. row \in FileRow /\ row.owner = u /\ Has(born, u, row.folder)
    BY <1>2, <1>t, StorageAssumption DEF DeleteRead, KeptInv
  <2>2. /\ q.op = "deletefile" /\ q.user = u /\ q.file = row /\ q.c = row.md5 /\ q.out = o
        /\ q.pc = "chain"
    BY <1>2, <1>r DEF DeleteRead, Idle
  <2>3. /\ o.folders = SubFileFolderSize(folders, row.folder, folders[row.folder],
                                         Length(row.md5), Depth)
        /\ o.drop = {} /\ o.purge = {}
    BY DEF Nothing
  <2> HIDE DEF o, q, row
  <2> QED BY <2>1, <2>2, <2>3 DEF DirFresh, DeleteFileDir, q
<1>3. ASSUME NEW u \in Users, NEW f \in Files, NEW to \in Folders, MoveFileRead(r, u, f, to)
      PROVE  DirFresh(born, folders, req'[r]) /\ req'[r].pc # "idle"
  BY <1>3, <1>r DEF MoveFileRead, Idle, Nothing, DirFresh, MoveFileDir
<1>4. ASSUME NEW u \in Users, NEW g \in Folders, CreateFolderCheck(r, u, g)
      PROVE  DirFresh(born, folders, req'[r]) /\ req'[r].pc # "idle"
  BY <1>4, <1>r DEF CreateFolderCheck, Idle, Nothing, DirFresh
<1>5. ASSUME NEW u \in Users, NEW g \in Folders, NEW to \in Folders \cup {Top},
             MoveFolderRead(r, u, g, to)
      PROVE  DirFresh(born, folders, req'[r]) /\ req'[r].pc # "idle"
  <2> DEFINE mine == IF folders[g] # None /\ folders[g].owner = u THEN folders[g] ELSE None
             q == req'[r]
  <2>1. mine = folders[g]
    BY <1>5 DEF MoveFolderRead, Named, KeptInv, Separate
  <2>2. /\ q.op = "movefolder" /\ q.pc = "read2" /\ q.g = g /\ q.to = to /\ q.dir = mine
        /\ q.from = (IF mine = None THEN None ELSE mine.parent) /\ q.out = Nothing
    BY <1>5, <1>r DEF MoveFolderRead, Idle
  <2> HIDE DEF mine, q
  <2> QED BY <2>1, <2>2 DEF DirFresh, MoveFolderDir, Nothing, q
<1>6. ASSUME NEW u \in Users, NEW g \in Folders, DeleteFolderCheck(r, u, g)
      PROVE  DirFresh(born, folders, req'[r]) /\ req'[r].pc # "idle"
  <2>1. folders[g] \in FolderRow /\ folders[g].parent \in Folders
    BY <1>6, <1>t DEF DeleteFolderCheck, FolderRow
  <2> QED BY <1>6, <1>r, <2>1 DEF DeleteFolderCheck, Idle, Nothing, DirFresh, DeleteFolderDir
<1>7. ASSUME NEW u \in Users, NEW f \in Files, NEW to \in Folders, ShareRead(r, u, f, to)
      PROVE  DirFresh(born, folders, req'[r]) /\ req'[r].pc # "idle"
  BY <1>7, <1>r DEF ShareRead, Idle, Nothing, DirFresh, ShareDir
<1>8. ASSUME NEW u \in Users, NEW v \in Volumes, SetVolumeRead(r, u, v)
      PROVE  DirFresh(born, folders, req'[r]) /\ req'[r].pc # "idle"
  BY <1>8, <1>r DEF SetVolumeRead, Idle, Nothing, DirFresh
<1>9. ASSUME NEW f \in Files, AdminDeleteRead(r, f)
      PROVE  DirFresh(born, folders, req'[r]) /\ req'[r].pc # "idle"
  BY <1>9, <1>r DEF AdminDeleteRead, Idle, Nothing, DirFresh
<1> QED BY <1>1, <1>2, <1>3, <1>4, <1>5, <1>6, <1>7, <1>8, <1>9 DEF Arrive

\* What a request has read decides what it writes.
SameReads(q, w) ==
  /\ w.op = q.op /\ w.user = q.user /\ w.g = q.g /\ w.to = q.to /\ w.from = q.from
  /\ w.c = q.c /\ w.file = q.file /\ w.dir = q.dir /\ w.src = q.src /\ w.dst = q.dst

LEMMA SameWrites ==
  ASSUME NEW q, NEW w, SameReads(q, w), NEW P
  PROVE  /\ FileMoveWrites(P, w) = FileMoveWrites(P, q)
         /\ \A k : MoveWrites(P, w, k) = MoveWrites(P, q, k)
         /\ \A k : MoveSpins(P, w, k) <=> MoveSpins(P, q, k)
         /\ \A k : DropWrites(P, w, k) = DropWrites(P, q, k)
<1>1. Moving(w) <=> Moving(q)
  BY DEF SameReads, Moving
<1>2. Saved(w) = Saved(q) /\ MoveSize(w) = MoveSize(q)
  BY DEF SameReads, Saved, MoveSize
<1> QED BY <1>1, <1>2 DEF SameReads, FileMoveWrites, MoveWrites, MoveSpins, DropWrites

LEMMA PrepareReads ==
  ASSUME TypeInv, NEW r \in Reqs, NEW held, NEW o, NEW whole, NEW next,
         Prepare(r, held, o, whole, next)
  PROVE  /\ SameReads(req[r], req'[r]) /\ req'[r].out = o
         /\ req'[r].held = held /\ req'[r].f = req[r].f /\ req'[r].store = req[r].store
         /\ req'[r].pc = IF o.spin /\ next = "commit" THEN "spin" ELSE next
<1>1. req \in [Reqs -> Request]
  BY DEF TypeInv, TypeOK
<1> DEFINE pc == IF o.spin /\ next = "commit" THEN "spin" ELSE next
<1>2. req' = [req EXCEPT ![r].held = held, ![r].out = o, ![r].whole = whole, ![r].pc = pc]
  BY DEF Prepare
<1> HIDE DEF pc
<1>3. SameReads(req[r], req'[r]) /\ req'[r].out = o /\ req'[r].held = held /\ req'[r].pc = pc
      /\ req'[r].f = req[r].f /\ req'[r].store = req[r].store
  BY <1>1, <1>2 DEF Request, SameReads
<1> QED BY <1>3 DEF pc

\* A request goes on with the rows of now, and ends with nothing.
LEMMA ContinueDir ==
  ASSUME TypeInv, KeptInv, IdInv, NEW r \in Reqs, DirFresh(born, folders, req[r]), Continue(r)
  PROVE  Done(r) \/ ( /\ DirFresh(born, folders, req'[r]) /\ req'[r].pc # "idle"
                      /\ UNCHANGED folders /\ \A g \in Folders : born'[g] = born[g] )
<1> DEFINE q == req[r]
           Goal(w) == Done(r) \/ ( /\ DirFresh(born, folders, w) /\ w.pc # "idle"
                                /\ UNCHANGED folders /\ \A g \in Folders : born'[g] = born[g] )
<1>q. q \in Request /\ ReqOK(q) /\ Keeps(born, q) /\ req \in [Reqs -> Request]
  BY DEF TypeInv, TypeOK, KeptInv
<1>d. DirFresh(born, folders, q)
  OBVIOUS
<1> SUFFICES ASSUME NEW w, w = req'[r] PROVE Goal(w)
  OBVIOUS
<1>l. Depth \in 0..Depth /\ Depth \in Cuts
  BY DepthType DEF Cuts
<1>n. NoWrites = Nothing.folders /\ Nothing.drop = {} /\ Nothing.purge = {}
  BY DEF Nothing
<1>1. CASE UploadTx(r)
  <2> DEFINE s == Length(q.c)
             o == [Nothing EXCEPT
                     !.insert = [owner |-> q.user, md5 |-> q.c, folder |-> q.g],
                     !.store = AddCurrentSize(q.store, s),
                     !.folders = AddFileFolderSize(folders, q.g, RowAt(folders, q.g), s, Depth),
                     !.spin = WalkSpins(folders, q.g, RowAt(folders, q.g), Depth)]
  <2>1. q.g \in Folders /\ q.op = "upload" /\ UNCHANGED <<folders, born>>
    BY <1>1, <1>q DEF UploadTx, UploadSaves, At, ReqOK, tables, history
  <2>2. CASE Done(r)
    BY <2>2
  <2>3. CASE Prepare(r, {q.user, q.c}, o, TRUE, "commit")
    <3>1. o.folders = AddFileFolderSize(folders, q.g, folders[q.g], s, Depth)
          /\ o.drop = {} /\ o.purge = {}
      BY <2>1 DEF Nothing, RowAt
    <3> HIDE DEF o
    <3>2. /\ SameReads(q, w) /\ w.out = o
          /\ w.pc = IF o.spin /\ "commit" = "commit" THEN "spin" ELSE "commit"
      <4>1. ASSUME NEW whole, Prepare(r, {q.user, q.c}, o, whole, "commit")
            PROVE  /\ SameReads(q, w) /\ w.out = o
                   /\ w.pc = IF o.spin /\ "commit" = "commit" THEN "spin" ELSE "commit"
        BY <4>1, PrepareReads
      <4> QED BY <2>3, <4>1
    <3>3. w.pc \in {"spin", "commit"}
      BY <3>2
    <3> QED BY <2>1, <3>1, <3>2, <3>3 DEF DirFresh, UploadDir, SameReads
  <2> QED BY <1>1, <2>2, <2>3 DEF UploadTx, UploadSaves
<1>2. CASE LockChain(r)
  <2>1. /\ SameReads(q, w) /\ w.out = q.out /\ w.pc \in {"spin", "delete", "create"}
        /\ q.pc = "chain" /\ (w.pc = "create" => q.op # "deletefile")
        /\ UNCHANGED <<folders, born>>
    BY <1>2, <1>q DEF LockChain, Request, SameReads, tables, history
  <2> QED BY <1>d, <2>1, SameWrites DEF DirFresh, UploadDir, DeleteFileDir, MoveFileDir,
        MoveFolderDir, DeleteFolderDir, ShareDir, SameReads
<1>3. CASE DeleteRow(r) \/ DeleteRefund(r)
  <2>1. /\ SameReads(q, w) /\ w.out = q.out /\ w.pc # "idle" /\ q.op = "deletefile"
        /\ UNCHANGED <<folders, born>>
    BY <1>3, <1>q DEF DeleteRow, DeleteRefund, At, Request, SameReads, history
  <2> QED BY <1>d, <2>1 DEF DirFresh, DeleteFileDir, SameReads
<1>4. CASE MoveFileRead2(r)
  <2>1. /\ w.op = "movefile" /\ w.from = q.from /\ w.file = q.file /\ w.out = q.out
        /\ w.pc = "read3" /\ w.src = folders[q.from] /\ UNCHANGED <<folders, born>>
        /\ q.op = "movefile"
    BY <1>4, <1>q DEF MoveFileRead2, At, Request, tables, history
  <2> QED BY <1>d, <2>1 DEF DirFresh, MoveFileDir
<1>5. CASE MoveFileRead3(r) /\ ~Done(r)
  <2>1. /\ w.op = "movefile" /\ w.from = q.from /\ w.file = q.file /\ w.out = q.out
        /\ w.pc = "tx" /\ w.src = q.src /\ w.to = q.to /\ w.dst = folders[q.to] /\ w.dst # None
        /\ q.op = "movefile" /\ q.pc = "read3" /\ UNCHANGED <<folders, born>>
    BY <1>5, <1>q DEF MoveFileRead3, At, Request, tables, history
  <2> QED BY <1>d, <2>1 DEF DirFresh, MoveFileDir
<1>6. CASE MoveFileTx(r)
  <2> DEFINE s == Length(q.file.md5)
             o == [Nothing EXCEPT
                     !.moved = [q.file EXCEPT !.folder = q.to],
                     !.folders = IF Moving(q)
                                 THEN Transfer(folders, q.from, q.src, q.to, q.dst, s, Depth)
                                 ELSE NoWrites,
                     !.spin = Moving(q) /\ TransferSpins(folders, q.from, q.src, q.to, q.dst, s, Depth)]
  <2>1. o.folders = FileMoveWrites(folders, q) /\ o.drop = {} /\ o.purge = {}
    BY DEF Nothing, FileMoveWrites
  <2>2. /\ Prepare(r, Wants(q), o, TRUE, "commit") /\ q.op = "movefile" /\ q.pc = "tx"
        /\ UNCHANGED <<folders, born>>
    BY <1>6 DEF MoveFileTx, At, tables, history
  <2> HIDE DEF o
  <2>3. /\ SameReads(q, w) /\ w.out = o
        /\ w.pc = IF o.spin /\ "commit" = "commit" THEN "spin" ELSE "commit"
    <3>1. ASSUME NEW whole, Prepare(r, Wants(q), o, whole, "commit")
          PROVE  /\ SameReads(q, w) /\ w.out = o
                 /\ w.pc = IF o.spin /\ "commit" = "commit" THEN "spin" ELSE "commit"
      BY <3>1, PrepareReads
    <3> QED BY <2>2, <3>1
  <2>4. w.pc \in {"spin", "commit"}
    BY <2>3
  <2> QED BY <1>d, <2>1, <2>2, <2>3, <2>4, SameWrites DEF DirFresh, MoveFileDir, SameReads
<1>7. CASE MoveFolderRead2(r)
  <2> DEFINE dst == RowAt(folders, q.to)
  <2>1. q.op = "movefolder" /\ q.pc = "read2" /\ (q.to \in Folders => born[q.to] = q.user)
    BY <1>7, <1>q DEF MoveFolderRead2, At, Keeps, Has
  <2>2. (IF dst # None /\ dst.owner = q.user THEN dst ELSE None) = dst
    BY <2>1 DEF KeptInv, RowAt
  <2>3. /\ w.op = "movefolder" /\ w.g = q.g /\ w.from = q.from /\ w.dir = q.dir /\ w.out = q.out
        /\ w.to = q.to /\ w.pc = "read3" /\ w.dst = dst /\ UNCHANGED <<folders, born>>
    BY <1>7, <1>q, <2>1, <2>2 DEF MoveFolderRead2, Request, tables, history
  <2> QED BY <1>d, <2>1, <2>3 DEF DirFresh, MoveFolderDir
<1>8. CASE MoveFolderRead3(r)
  <2>1. /\ w.op = "movefolder" /\ w.g = q.g /\ w.from = q.from /\ w.dir = q.dir /\ w.out = q.out
        /\ w.to = q.to /\ w.pc = "tx" /\ w.dst = q.dst /\ w.src = RowAt(folders, q.from)
        /\ q.op = "movefolder" /\ q.pc = "read3" /\ UNCHANGED <<folders, born>>
    BY <1>8, <1>q DEF MoveFolderRead3, At, Request, tables, history
  <2> QED BY <1>d, <2>1 DEF DirFresh, MoveFolderDir
<1>9. CASE MoveFolderTx(r)
  <2> DEFINE size == IF q.dir = None THEN 0 ELSE q.dir.size
             saved == IF q.dir = None THEN NoWrites
                      ELSE [NoWrites EXCEPT ![q.g] = [q.dir EXCEPT !.parent = q.to]]
             seen == Overlay(folders, saved)
             o(k) == [Nothing EXCEPT
                !.folders = IF Moving(q)
                            THEN Overlay(saved, Transfer(seen, q.from, q.src, q.to, q.dst, size, k))
                            ELSE saved,
                !.spin = Moving(q) /\ TransferSpins(seen, q.from, q.src, q.to, q.dst, size, k)]
  <2>1. PICK k \in Cuts : Prepare(r, Wants(q), o(k), k = Depth, "commit")
    BY <1>9 DEF MoveFolderTx
  <2>2. q.op = "movefolder" /\ q.pc = "tx" /\ UNCHANGED <<folders, born>>
    BY <1>9 DEF MoveFolderTx, At, tables, history
  <2>3. /\ o(k).folders = MoveWrites(folders, q, k) /\ o(k).spin = MoveSpins(folders, q, k)
        /\ o(k).drop = {} /\ o(k).purge = {}
    BY DEF Nothing, MoveWrites, MoveSpins, Saved, MoveSize
  <2> HIDE DEF o
  <2>4. /\ SameReads(q, w) /\ w.out = o(k)
        /\ w.pc = IF o(k).spin /\ "commit" = "commit" THEN "spin" ELSE "commit"
    BY <2>1, PrepareReads
  <2>5. w.pc # "idle" /\ (w.pc = "commit" => ~MoveSpins(folders, q, k))
    BY <2>3, <2>4
  <2>6. w.pc = "commit" => \E j \in Cuts : /\ ~MoveSpins(folders, w, j)
                                           /\ w.out.folders = MoveWrites(folders, w, j)
    BY <2>3, <2>4, <2>5, SameWrites
  <2>7. w.pc \in {"spin", "commit"} /\ w.out.drop = {} /\ w.out.purge = {}
    BY <2>3, <2>4
  <2> QED BY <1>d, <2>2, <2>4, <2>6, <2>7 DEF DirFresh, MoveFolderDir, SameReads
<1>10. CASE DeleteFolderTx(r)
  <2> DEFINE down(n) == Doomed(folders, q.g, n)
             left == [g \in Folders |-> IF g \in down(Depth) THEN None ELSE folders[g]]
             cut(n, m) == [Nothing EXCEPT !.drop = down(n), !.purge = down(m)]
             up(k) == [cut(Depth, Depth) EXCEPT
                         !.folders = SubFileFolderSize(left, q.from, RowAt(left, q.from), q.dir.size, k),
                         !.spin = WalkSpins(left, q.from, RowAt(left, q.from), k)]
             full == [up(Depth) EXCEPT !.store = SubCurrentSize(stores[q.user], q.dir.size)]
  <2>1. q.op = "deletefolder" /\ q.pc = "tx" /\ UNCHANGED <<folders, born>>
    BY <1>10 DEF DeleteFolderTx, At, tables, history
  <2>2. q.from \in Folders /\ q.dir = folders[q.g] /\ q.from = q.dir.parent
    BY <1>d, <2>1 DEF DirFresh, DeleteFolderDir
  <2>3. \A n, m : /\ cut(n, m).drop = Doomed(folders, q.g, n)
                  /\ cut(n, m).purge = Doomed(folders, q.g, m)
                  /\ cut(n, m).folders = NoWrites
    BY DEF Nothing
  <2>4. \A k : /\ up(k).drop = Doomed(folders, q.g, Depth)
               /\ up(k).purge = Doomed(folders, q.g, Depth)
               /\ up(k).folders = DropWrites(folders, q, k)
    BY <2>2 DEF Nothing, DropWrites, Left, RowAt
  <2>5. /\ full.drop = Doomed(folders, q.g, Depth)
        /\ full.purge = Doomed(folders, q.g, Depth)
        /\ full.folders = DropWrites(folders, q, Depth)
    BY <2>2 DEF Nothing, DropWrites, Left, RowAt
  <2>6. \/ Prepare(r, {}, full, TRUE, "commit")
        \/ Failures /\ \E n \in 1..Depth, m \in {0, 1} :
                           Prepare(r, {}, cut(n, n - m), FALSE, "commit")
        \/ Failures /\ \E k \in 0..Depth : Prepare(r, {}, up(k), FALSE, "commit")
    BY <1>10 DEF DeleteFolderTx
  <2> HIDE DEF full, cut, up
  <2>7. ASSUME NEW o, NEW whole, Prepare(r, {}, o, whole, "commit"),
               \/ /\ o.drop = Doomed(folders, q.g, Depth) /\ o.purge = Doomed(folders, q.g, Depth)
                  /\ \E k \in Cuts : o.folders = DropWrites(folders, q, k)
               \/ /\ Failures /\ o.folders = NoWrites
                  /\ \E n \in 0..Depth : o.drop = Doomed(folders, q.g, n)
                  /\ \E n \in 0..Depth : o.purge = Doomed(folders, q.g, n)
        PROVE  Goal(w)
    <3>1. SameReads(q, w) /\ w.out = o /\ w.pc \in {"spin", "commit"}
      BY <2>7, PrepareReads
    <3>2. DeleteFolderDir(folders, w)
      BY <2>2, <2>7, <3>1, SameWrites DEF DeleteFolderDir, SameReads
    <3> QED BY <2>1, <3>1, <3>2 DEF DirFresh, SameReads
  <2>8. CASE Prepare(r, {}, full, TRUE, "commit")
    BY <1>l, <2>5, <2>7, <2>8
  <2>9. ASSUME Failures, NEW n \in 1..Depth, NEW m \in {0, 1},
               Prepare(r, {}, cut(n, n - m), FALSE, "commit")
        PROVE  Goal(w)
    <3>1. n \in 0..Depth /\ n - m \in 0..Depth
      BY DepthType
    <3> QED BY <2>3, <2>7, <2>9, <3>1
  <2>10. ASSUME Failures, NEW k \in 0..Depth, Prepare(r, {}, up(k), FALSE, "commit")
         PROVE  Goal(w)
    <3>1. k \in Cuts
      BY <2>10 DEF Cuts
    <3> QED BY <2>4, <2>7, <2>10, <3>1
  <2> QED BY <2>6, <2>8, <2>9, <2>10
<1>11. CASE ShareRead2(r)
  <2>1. q.to \in Folders /\ born[q.to] = q.user /\ q.op = "sharesave" /\ q.pc = "read2"
    BY <1>11, <1>q DEF ShareRead2, At, Keeps, Has, ReqOK
  <2>2. (IF folders[q.to] # None /\ folders[q.to].owner = q.user THEN folders[q.to] ELSE None)
          = folders[q.to]
    BY <2>1 DEF KeptInv
  <2>3. /\ w.op = "sharesave" /\ w.out = q.out /\ w.to = q.to /\ w.pc = "read3"
        /\ w.dst = folders[q.to] /\ UNCHANGED <<folders, born>>
    BY <1>11, <1>q, <2>1, <2>2 DEF ShareRead2, Request, tables, history
  <2> QED BY <1>d, <2>1, <2>3 DEF DirFresh, ShareDir
<1>14. CASE ShareRead3(r) /\ ~Done(r)
  <2>1. /\ w.op = "sharesave" /\ w.out = q.out /\ w.to = q.to /\ w.pc = "tx" /\ w.dst = q.dst
        /\ q.op = "sharesave" /\ q.pc = "read3" /\ UNCHANGED <<folders, born>>
    BY <1>14, <1>q DEF ShareRead3, At, Request, tables, history
  <2> QED BY <1>d, <2>1 DEF DirFresh, ShareDir
<1>15. CASE ShareTx(r)
  <2> DEFINE s == Length(q.c)
             o(k) == [Nothing EXCEPT
                !.store = IF q.store = None THEN None ELSE AddCurrentSize(q.store, s),
                !.folders = AddFileFolderSize(folders, q.to, q.dst, s, k),
                !.spin = WalkSpins(folders, q.to, q.dst, k)]
  <2>1. PICK k \in Cuts : Prepare(r, Wants(q), o(k), k = Depth, IF k = Depth THEN "chain" ELSE "commit")
    BY <1>15 DEF ShareTx
  <2>2. q.op = "sharesave" /\ q.pc = "tx" /\ UNCHANGED <<folders, born>>
    BY <1>15 DEF ShareTx, At, tables, history
  <2>3. /\ o(k).folders = AddFileFolderSize(folders, q.to, q.dst, s, k)
        /\ o(k).drop = {} /\ o(k).purge = {}
    BY DEF Nothing
  <2> DEFINE next == IF k = Depth THEN "chain" ELSE "commit"
  <2>4. next \in {"chain", "commit"} /\ Prepare(r, Wants(q), o(k), k = Depth, next)
    BY <2>1
  <2> HIDE DEF o, next
  <2>5. SameReads(q, w) /\ w.out = o(k) /\ w.pc \in {"spin", "chain", "commit"}
    BY <2>4, PrepareReads
  <2> QED BY <1>d, <2>2, <2>3, <2>5 DEF DirFresh, ShareDir, SameReads
<1>16. CASE ShareCreate(r)
  <2>1. /\ w.op = "sharesave" /\ w.out = q.out /\ w.to = q.to /\ w.pc = "commit"
        /\ w.dst = q.dst /\ w.c = q.c /\ q.op = "sharesave" /\ q.pc = "create" /\ UNCHANGED folders
    BY <1>16, <1>q DEF ShareCreate, At, Request
  <2>2. \A g \in Folders : born'[g] = born[g]
    <3>1. born' # born => born' = [born EXCEPT ![NewId(Files)] = q.user] /\ NewId(Files) \in Files
      <4>1. born' # born => r \in Pending(Inserting)
        BY <1>16, <1>q DEF ShareCreate, At, Pending, Inserting
      <4> QED BY <1>16, <4>1, NewIdFree DEF ShareCreate, IdInv, Free
    <3> QED BY <3>1, StorageAssumption DEF TypeInv, TypeOK
  <2> QED BY <1>d, <2>1, <2>2 DEF DirFresh, ShareDir
<1>12. CASE CreateFolder(r) \/ SetVolume(r) \/ AdminDelete(r) \/ Commit(r)
  BY <1>12 DEF CreateFolder, SetVolume, AdminDelete, Commit
<1>13. CASE AdminDeleteFind(r) /\ ~Done(r)
  <2>1. /\ w.op = "admindelete" /\ w.pc = "tx" /\ w.out = q.out /\ q.op = "admindelete"
        /\ UNCHANGED <<folders, born>>
    BY <1>13, <1>q DEF AdminDeleteFind, At, Request, tables, history
  <2> QED BY <1>d, <2>1 DEF DirFresh
<1> QED BY <1>1, <1>2, <1>3, <1>4, <1>5, <1>6, <1>7, <1>8, <1>9, <1>10, <1>11, <1>12, <1>13,
           <1>14, <1>15, <1>16 DEF Continue

\* What a request does to the folders and stores of a user who is not its own:
\* nothing, the folders that are gone included.
LEMMA FolderFrame ==
  ASSUME TypeInv, KeptIdInv, NEW r \in Reqs, Acts(r), NEW u \in Users, u # req[r].user
  PROVE  /\ \A g \in Folders : born'[g] = u <=> born[g] = u
         /\ Agree(born, u, folders, folders')
         /\ stores'[u] = stores[u]
<1> DEFINE q == req[r]
<1>q. q \in Request /\ ReqOK(q) /\ Keeps(born, q) /\ KeptInv /\ IdInv
  BY DEF TypeInv, TypeOK, KeptIdInv, KeptInv
<1>t. /\ folders \in [Folders -> FolderRow \cup {None}]
      /\ born \in [Files \cup Folders -> Users \cup {None}]
  BY DEF TypeInv, TypeOK, View
<1>s. stores'[u] = stores[u]
  <2>1. Arrive(r) => UNCHANGED stores
    BY ArriveUser DEF books
  <2>2. Fail(r) \/ LockTimeout(r) => UNCHANGED stores
    BY DEF Fail, LockTimeout, tables
  <2>3. DeleteRefund(r) \/ SetVolume(r) \/ Commit(r) => stores'[u] = stores[u]
    BY DEF DeleteRefund, SetVolume, Commit, TypeInv, TypeOK
  <2> QED BY <2>1, <2>2, <2>3
          DEF Acts, Continue, UploadTx, UploadSaves, LockChain, DeleteRow, MoveFileRead2,
              MoveFileRead3, MoveFileTx, MoveFolderRead2, MoveFolderRead3, MoveFolderTx, CreateFolder,
              DeleteFolderTx, ShareRead2, ShareRead3, ShareTx, ShareCreate,
              AdminDeleteFind, AdminDelete, tables
<1>1. CASE UNCHANGED <<folders, born>>
  BY <1>1, <1>s DEF Agree
<1>2. CASE CreateFolder(r)
  <2>1. r \in Pending({"createfolder"})
    BY <1>2 DEF CreateFolder, Pending, At
  <2>2. NewId(Folders) \in Folders /\ born[NewId(Folders)] = None
    BY <1>q, <2>1, NewIdFree DEF IdInv, Free
  <2> QED BY <1>2, <1>s, <1>t, <2>2, StorageAssumption DEF CreateFolder, Agree
<1>3. CASE ShareCreate(r) \/ Commit(r)
  <2>1. \A g \in Folders : born'[g] = born[g]
    <3>1. born' # born => born' = [born EXCEPT ![NewId(Files)] = q.user] /\ NewId(Files) \in Files
      <4>1. born' # born => r \in Pending(Inserting)
        <5>1. CASE ShareCreate(r)
          BY <5>1, <1>q DEF ShareCreate, At, Pending, Inserting
        <5>2. CASE Commit(r)
          <6>1. born' # born => q.op = "upload"
            BY <5>2, <1>q DEF Commit, Keeps
          <6> QED BY <6>1 DEF Pending, Inserting, At
        <5> QED BY <1>3, <5>1, <5>2
      <4> QED BY <1>3, <1>q, <4>1, NewIdFree DEF ShareCreate, Commit, IdInv, Free
    <3> QED BY <3>1, <1>t, StorageAssumption
  <2>2. CASE ShareCreate(r)
    BY <1>s, <2>1, <2>2 DEF ShareCreate, Agree
  <2>3. CASE Commit(r)
    <3>1. ASSUME NEW g \in Folders, born[g] = u PROVE g \notin q.out.drop /\ q.out.folders[g] = None
      BY <1>q, <2>3, <3>1 DEF Commit, Keeps, Matches, Has
    <3> QED BY <1>s, <2>1, <2>3, <3>1 DEF Commit, Overlay, Agree
  <2> QED BY <1>3, <2>2, <2>3
<1>4. UNCHANGED <<folders, born>> \/ CreateFolder(r) \/ ShareCreate(r) \/ Commit(r)
  <2>1. Arrive(r) => UNCHANGED <<folders, born>>
    BY ArriveUser DEF books
  <2>2. Fail(r) \/ LockTimeout(r) => UNCHANGED <<folders, born>>
    BY DEF Fail, LockTimeout, tables, history
  <2> QED BY <2>1, <2>2
          DEF Acts, Continue, UploadTx, UploadSaves, LockChain, DeleteRow, DeleteRefund, MoveFileRead2,
              MoveFileRead3, MoveFileTx, MoveFolderRead2, MoveFolderRead3, MoveFolderTx,
              DeleteFolderTx, ShareRead2, ShareRead3, ShareTx, SetVolume,
              AdminDeleteFind, AdminDelete, tables, history
<1> QED BY <1>1, <1>2, <1>3, <1>4

\* A folder's id stays its user's.
LEMMA FoldersStay ==
  ASSUME TypeInv, KeptIdInv, NEW r \in Reqs, Acts(r), NEW g \in Folders, born[g] # None
  PROVE  born'[g] = born[g]
<1>t. born \in [Files \cup Folders -> Users \cup {None}] /\ KeptInv /\ IdInv
  BY DEF TypeInv, TypeOK, KeptIdInv
<1>1. CASE born[g] # req[r].user
  <2>1. born[g] \in Users
    BY <1>t
  <2> QED BY <1>1, <2>1, FolderFrame
<1>2. ASSUME NEW x, born' = [born EXCEPT ![x] = req[r].user], born[g] = req[r].user
      PROVE  born'[g] = born[g]
  BY <1>2, <1>t
<1>4. \/ UNCHANGED born \/ born' = [born EXCEPT ![NewId(Files)] = req[r].user]
      \/ born' = [born EXCEPT ![NewId(Folders)] = req[r].user]
  <2>1. Arrive(r) => UNCHANGED born
    BY ArriveUser DEF books
  <2>2. Fail(r) \/ LockTimeout(r) => UNCHANGED born
    BY DEF Fail, LockTimeout, history
  <2> QED BY <2>1, <2>2
          DEF Acts, Continue, UploadTx, UploadSaves, LockChain, DeleteRow, DeleteRefund, MoveFileRead2,
              MoveFileRead3, MoveFileTx, MoveFolderRead2, MoveFolderRead3, MoveFolderTx, CreateFolder,
              DeleteFolderTx, ShareRead2, ShareRead3, ShareTx, SetVolume, ShareCreate, Commit,
              AdminDeleteFind, AdminDelete, history
<1> QED BY <1>1, <1>2, <1>4

\* A request on one account is not the one that acts on another's.
LEMMA OthersUser ==
  ASSUME TypeInv, Settled, Solo, PerUser = 1, NEW r \in Reqs, Acts(r), NEW x \in Reqs \ {r},
         req[x].pc # "idle"
  PROVE  req[x].user \in Users /\ req[x].user \notin {req[r].user, req'[r].user}
<1>1. ReqOK(req[x]) /\ req[x].user \in Users /\ req[x].user # None
  BY StorageAssumption DEF TypeInv, ReqOK
<1>2. req[x].user # req[r].user
  BY <1>1 DEF Solo
<1>3. req[x].user # req'[r].user
  <2>1. CASE Arrive(r)
    BY <2>1, ArriveAlike
  <2>2. CASE ~Arrive(r)
    <3>1. Done(r) => req'[r].user = None
      BY DEF Done, Idle, TypeInv, TypeOK
    <3>2. Continue(r) => Done(r) \/ req'[r].user = req[r].user
      BY ContinueUser
    <3>3. Fail(r) \/ LockTimeout(r) => Done(r)
      BY DEF Fail, LockTimeout
    <3> QED BY <1>1, <1>2, <2>2, <3>1, <3>2, <3>3 DEF Acts
  <2> QED BY <2>1, <2>2
<1> QED BY <1>1, <1>2, <1>3

\* The folders of a user, as belonging together keeps them.
LEMMA KeptFolders ==
  ASSUME TypeInv, KeptInv, NEW u \in Users
  PROVE  folders \in View /\ Matched(born, u, folders) /\ Down(born, u, folders)
<1>1. folders \in View
  BY DEF TypeInv, TypeOK
<1>2. Matched(born, u, folders)
  BY DEF KeptInv, Matched
<1>3. Down(born, u, folders)
  BY DEF KeptInv, Down, Has, Suits
<1> QED BY <1>1, <1>2, <1>3

\* With one request at a time on an account, what each has read stays true until
\* it commits, whatever the others do and wherever they fail.
LEMMA DirStep ==
  ASSUME TypeInv, KeptIdInv, Settled, Solo, DirInv, PerUser = 1, TypeInv', KeptIdInv',
         NEW r \in Reqs, Acts(r)
  PROVE  DirInv' /\ Settled'
<1>k. KeptInv /\ IdInv /\ KeptInv'
  BY DEF KeptIdInv
<1>r. req \in [Reqs -> Request] /\ req' \in [Reqs -> Request]
  BY DEF TypeInv, TypeOK
<1>1. ASSUME NEW x \in Reqs \ {r}
      PROVE  DirFresh(born', folders', req'[x]) /\ (req'[x].pc = "idle" => req'[x] = Idle)
  <2>1. req'[x] = req[x]
    BY OneActs DEF Acts
  <2>2. CASE req[x].pc = "idle"
    <3>1. req'[x] = Idle
      BY <2>1, <2>2 DEF Settled
    <3> QED BY <3>1, IdleDir
  <2>3. CASE req[x].pc # "idle"
    <3> DEFINE q == req[x]
    <3>1. q \in Request /\ ReqOK(q) /\ Keeps(born, q) /\ DirFresh(born, folders, q)
      BY <1>k, <1>r DEF TypeInv, KeptInv, DirInv
    <3>2. q.user \in Users /\ q.user # req[r].user
      BY <2>3, OthersUser
    <3>3. /\ \A g \in Folders : born'[g] = q.user <=> born[g] = q.user
          /\ Agree(born, q.user, folders, folders')
      BY <3>2, FolderFrame
    <3>4. folders \in View /\ Matched(born, q.user, folders) /\ Down(born, q.user, folders)
      BY <1>k, <3>2, KeptFolders
    <3>5. folders' \in View
      BY DEF TypeInv, TypeOK
    <3>6. Down(born, q.user, folders')
      BY <1>k, <3>2, <3>3 DEF KeptInv, Down, Has, Suits
    <3> HIDE DEF q
    <3>7. DirFresh(born', folders', q)
      BY <2>3, <3>1, <3>3, <3>4, <3>5, <3>6, DirFrame DEF q
    <3> QED BY <2>1, <2>3, <3>7 DEF q
  <2> QED BY <2>2, <2>3
<1>2. DirFresh(born', folders', req'[r]) /\ (req'[r].pc = "idle" => req'[r] = Idle)
  <2>1. CASE Done(r)
    <3>1. req'[r] = Idle
      BY <1>r, <2>1 DEF Done
    <3> QED BY <3>1, IdleDir
  <2>2. CASE Arrive(r)
    <3>1. DirFresh(born, folders, req'[r]) /\ req'[r].pc # "idle" /\ UNCHANGED <<folders, born>>
      BY <1>k, <2>2, ArriveDir, ArriveUser DEF books
    <3> QED BY <3>1
  <2>3. CASE Continue(r) /\ ~Done(r)
    <3>1. DirFresh(born, folders, req[r])
      BY DEF DirInv
    <3>2. /\ DirFresh(born, folders, req'[r]) /\ req'[r].pc # "idle"
          /\ UNCHANGED folders /\ \A g \in Folders : born'[g] = born[g]
      BY <1>k, <2>3, <3>1, ContinueDir
    <3>3. \A g, u : Has(born', u, g) <=> Has(born, u, g)
      BY <3>2 DEF Has
    <3> QED BY <3>2, <3>3 DEF DirFresh, DeleteFileDir
  <2>4. Fail(r) \/ LockTimeout(r) => Done(r)
    BY DEF Fail, LockTimeout
  <2> QED BY <2>1, <2>2, <2>3, <2>4 DEF Acts
<1> QED BY <1>1, <1>2 DEF DirInv, Settled

-----------------------------------------------------------------------------
(* What a request that is alone on its account still knows of its files and   *)
(* its store.  B, F and S stand for born, files and stores.                   *)

UploadKnows(S, q) ==
  /\ q.c \in Contents /\ q.store = S[q.user] /\ q.store.current + Length(q.c) <= q.store.max
  /\ q.pc = "commit" =>
       /\ q.out.insert = [owner |-> q.user, md5 |-> q.c, folder |-> q.g] /\ q.c \in q.held
       /\ q.out.store = AddCurrentSize(q.store, Length(q.c))

DeleteKnows(B, F, S, q) ==
  /\ q.f \in Files /\ B[q.f] = q.user
  /\ q.file \in FileRow /\ q.file.owner = q.user /\ q.c = q.file.md5
  /\ F[q.f] = IF q.pc \in {"refund", "commit"} THEN None ELSE q.file
  /\ q.pc # "commit" => q.store = S[q.user]

MoveKnows(B, F, q) ==
  /\ q.f \in Files /\ B[q.f] = q.user
  /\ q.file \in FileRow /\ q.file.owner = q.user /\ F[q.f] = q.file
  /\ q.pc = "commit" => q.out.moved = [q.file EXCEPT !.folder = q.to]

DropKnows(S, q) ==
  q.pc = "commit" => \/ Failures /\ q.out.store = None
                     \/ q.out.store = SubCurrentSize(S[q.user], q.dir.size)

GrantKnows(S, q) == q.store = S[q.user] /\ q.vol \in Volumes

\* The file an administrator names is its owner's, or there is none.
AdminKnows(B, F, q) ==
  /\ q.pc = "read2" => \/ q.c = Blank
                       \/ \E f \in Files : F[f] # None /\ F[f].md5 = q.c /\ B[f] = q.user
  /\ q.pc = "tx" => q.f \in Files /\ B[q.f] = q.user
  /\ q.pc \in {"read2", "tx"}

Knows(B, F, S, q) ==
  /\ q.op \in Ops \cup {"none"}
  /\ q.op # "upload" => q.out.insert = None
  /\ q.op # "movefile" => q.out.moved = None
  /\ q.op \notin {"upload", "deletefolder", "sharesave"} => q.out.store = None
  /\ q.op = "upload" => UploadKnows(S, q)
  /\ q.op = "deletefile" => DeleteKnows(B, F, S, q)
  /\ q.op = "movefile" => MoveKnows(B, F, q)
  /\ q.op = "deletefolder" => DropKnows(S, q)
  /\ q.op = "setvolume" => GrantKnows(S, q)
  /\ q.op = "admindelete" => AdminKnows(B, F, q)

\* A file row belongs, with its folder, to whoever's request inserted it; no
\* two have the same md5; and only a saved share can be nobody's or empty.
RowsOK(B, F) ==
  /\ \A f \in Files : F[f] # None => /\ B[f] # None /\ F[f].owner \in {B[f], None}
                                     /\ Has(B, B[f], F[f].folder)
  /\ \A f, x \in Files : F[f] # None /\ F[x] # None /\ F[f].md5 = F[x].md5 => f = x
  /\ "sharesave" \notin Ops =>
       \A f \in Files : F[f] # None => F[f].md5 \in Contents /\ F[f].owner = B[f]

\* Nobody else has inserted, or is about to insert, what an upload inserts.
UploadsOK ==
  \A r \in Reqs : At(r, "upload", "commit") =>
    /\ ~Taken(req[r].c)
    /\ \A x \in Reqs \ {r} : At(x, "upload", "commit") => req[x].c # req[r].c

FileInv ==
  /\ RowsOK(born, files) /\ UploadsOK
  /\ \A r \in Reqs : Knows(born, files, stores, req[r])

\* What an administrator deletes by its md5 can be a saved share of another
\* account's.
Tame == "sharesave" \notin Ops \/ "admindelete" \notin Ops

LEMMA IdleKnows == \A B, F, S : Knows(B, F, S, Idle)
BY DEF Knows, Idle, Nothing

LEMMA NoneIsNoFile == None \notin FileRow
BY StorageAssumption DEF FileRow

\* What it knows is about its user's files and store.
LEMMA KnowsFrame ==
  ASSUME NEW B, NEW B2, NEW F, NEW F2, NEW S, NEW S2, NEW q, Knows(B, F, S, q),
         \A f \in Files : B[f] = q.user => B2[f] = q.user /\ F2[f] = F[f],
         S2[q.user] = S[q.user]
  PROVE  Knows(B2, F2, S2, q)
<1>1. q.op = "upload" => UploadKnows(S2, q)
  BY DEF Knows, UploadKnows
<1>2. q.op = "deletefile" => DeleteKnows(B2, F2, S2, q)
  BY DEF Knows, DeleteKnows
<1>3. q.op = "movefile" => MoveKnows(B2, F2, q)
  BY DEF Knows, MoveKnows
<1>4. q.op = "deletefolder" => DropKnows(S2, q)
  BY DEF Knows, DropKnows
<1>5. q.op = "setvolume" => GrantKnows(S2, q)
  BY DEF Knows, GrantKnows
<1>6. q.op = "admindelete" => AdminKnows(B2, F2, q)
  BY DEF Knows, AdminKnows
<1> QED BY <1>1, <1>2, <1>3, <1>4, <1>5, <1>6 DEF Knows

\* What a step can do to the file rows: drop some of its user's (or nothing),
\* insert one of its user's, or give one of its user's another folder.
Dropping(r) ==
  \E D \in SUBSET Files :
    /\ \A f \in D : born[f] = req[r].user
    /\ files' = [f \in Files |-> IF f \in D THEN None ELSE files[f]]
    /\ \A f \in Files : born'[f] = born[f]

InsertingRow(r, x, row) ==
  /\ born[x] = None /\ files[x] = None
  /\ ~Taken(row.md5) /\ \A y \in Reqs \ {r} : At(y, "upload", "commit") => req[y].c # row.md5
  /\ row.owner \in {req[r].user, None} /\ Has(born, req[r].user, row.folder)
  /\ "sharesave" \notin Ops => row.md5 \in Contents /\ row.owner = req[r].user
  /\ files' = [files EXCEPT ![x] = row] /\ born' = [born EXCEPT ![x] = req[r].user]

Refiling(r, f, to) ==
  /\ files[f] # None /\ born[f] = req[r].user /\ Has(born, req[r].user, to)
  /\ files' = [files EXCEPT ![f] = [files[f] EXCEPT !.folder = to]]
  /\ \A x \in Files : born'[x] = born[x]

FileSteps(r) ==
  \/ Dropping(r)
  \/ \E x \in Files, row \in FileRow : InsertingRow(r, x, row)
  \/ \E f \in Files, to \in Folders : Refiling(r, f, to)

\* A free id has no row.
LEMMA FreshFile ==
  ASSUME TypeInv, IdInv, FileInv, NEW r \in Pending(Inserting)
  PROVE  /\ NewId(Files) \in Files /\ born[NewId(Files)] = None /\ files[NewId(Files)] = None
         /\ \A x \in Folders : x # NewId(Files)
<1>1. NewId(Files) \in Free(Files)
  BY NewIdFree DEF IdInv
<1>2. NewId(Files) \in Files /\ born[NewId(Files)] = None
  BY <1>1 DEF Free
<1> HIDE DEF NewId
<1> QED BY <1>2, StorageAssumption DEF FileInv, RowsOK

\* What lies below a folder of u's is u's.
LEMMA BelowKeeps ==
  ASSUME KeptInv, NEW f \in Folders, NEW n \in Nat, NEW u, born[f] = u
  PROVE  \A g \in Doomed(folders, f, n) : Has(born, u, g)
<1>1. \A g \in Folders : folders[g] # None /\ folders[g].parent \in Folders
                           /\ born[folders[g].parent] \in {u} => born[g] \in {u}
  BY DEF KeptInv, Suits
<1>2. f \in Folders /\ born[f] \in {u} /\ n \in Nat
  OBVIOUS
<1>3. \A g \in Doomed(folders, f, n) : g \in Folders /\ born[g] \in {u}
  BY <1>1, <1>2, DoomedKin
<1> QED BY <1>3 DEF Has

LEMMA FileStep ==
  ASSUME TypeInv, KeptIdInv, FileInv, NEW r \in Reqs, DirFresh(born, folders, req[r]), Acts(r)
  PROVE  FileSteps(r)
<1> DEFINE q == req[r]
           u == q.user
<1>q. q \in Request /\ ReqOK(q) /\ Keeps(born, q) /\ KeptInv /\ IdInv
  BY DEF TypeInv, TypeOK, KeptIdInv, KeptInv
<1>t. /\ files \in [Files -> FileRow \cup {None}]
      /\ born \in [Files \cup Folders -> Users \cup {None}]
  BY DEF TypeInv, TypeOK
<1>i. Knows(born, files, stores, q) /\ RowsOK(born, files) /\ UploadsOK
  BY DEF FileInv
<1>n. ASSUME UNCHANGED files, \A f \in Files : born'[f] = born[f] PROVE FileSteps(r)
  <2> DEFINE D == {}
  <2>1. D \in SUBSET Files /\ \A f \in D : born[f] = u
    OBVIOUS
  <2>2. files' = [f \in Files |-> IF f \in D THEN None ELSE files[f]]
    BY <1>n, <1>t
  <2> HIDE DEF D
  <2> QED BY <1>n, <2>1, <2>2 DEF FileSteps, Dropping
<1>1. CASE UNCHANGED <<files, born>>
  BY <1>1, <1>n
<1>d. ASSUME NEW f \in Files, born[f] = u, files' = [files EXCEPT ![f] = None], UNCHANGED born
      PROVE  FileSteps(r)
  <2>1. files' = [x \in Files |-> IF x \in {f} THEN None ELSE files[x]]
    BY <1>d, <1>t
  <2> QED BY <1>d, <2>1 DEF FileSteps, Dropping
<1>2. CASE DeleteRow(r)
  <2>1. DeleteKnows(born, files, stores, q) /\ files' = [files EXCEPT ![q.f] = None] /\ UNCHANGED born
    BY <1>2, <1>i DEF DeleteRow, At, Knows, history
  <2> QED BY <1>d, <2>1 DEF DeleteKnows
<1>3. CASE AdminDelete(r)
  <2>1. AdminKnows(born, files, q) /\ q.pc = "tx" /\ files' = [files EXCEPT ![q.f] = None]
        /\ UNCHANGED born
    BY <1>3, <1>i DEF AdminDelete, At, Knows, history
  <2> QED BY <1>d, <2>1 DEF AdminKnows
<1>4. CASE CreateFolder(r)
  <2>1. r \in Pending({"createfolder"})
    BY <1>4 DEF CreateFolder, Pending, At
  <2>2. NewId(Folders) \in Folders
    BY <1>q, <2>1, NewIdFree DEF IdInv, Free
  <2>3. \A f \in Files : born'[f] = born[f]
    BY <1>4, <1>t, <2>2, StorageAssumption DEF CreateFolder
  <2>4. UNCHANGED files
    BY <1>4 DEF CreateFolder
  <2> QED BY <1>n, <2>3, <2>4
<1>5. CASE ShareCreate(r) /\ ~Taken(q.c)
  <2> DEFINE row == [owner |-> IF q.dst = None THEN None ELSE q.user, md5 |-> q.c, folder |-> q.to]
             x == NewId(Files)
  <2>1. q.op = "sharesave" /\ q.pc = "create" /\ Unblocked(r)
        /\ files' = [files EXCEPT ![x] = row] /\ born' = [born EXCEPT ![x] = u]
    BY <1>5 DEF ShareCreate, At
  <2>2. u \in Users /\ q.c \in Contents \cup {Blank} /\ Has(born, u, q.to) /\ "sharesave" \in Ops
    BY <1>i, <1>q, <2>1 DEF ReqOK, Keeps, Knows
  <2>3. row \in FileRow /\ row.md5 = q.c /\ row.owner \in {u, None} /\ row.folder = q.to
    BY <2>2 DEF FileRow, Has
  <2>4. x \in Files /\ born[x] = None /\ files[x] = None
    <3>1. r \in Pending(Inserting)
      BY <2>1 DEF Pending, Inserting, At
    <3> QED BY <3>1, <1>q, FreshFile
  <2>5. ASSUME NEW y \in Reqs \ {r}, At(y, "upload", "commit") PROVE req[y].c # row.md5
    <3>1. req[y].c \in req[y].held
      BY <2>5 DEF FileInv, Knows, UploadKnows, At
    <3>2. q.c \in Wants(q)
      BY <2>1 DEF Wants
    <3>3. Wants(req[r]) = Wants(q)
      OBVIOUS
    <3> HIDE DEF q
    <3> QED BY <2>1, <2>3, <2>5, <3>1, <3>2, <3>3 DEF Unblocked
  <2> HIDE DEF x, row
  <2>6. InsertingRow(r, x, row)
    BY <1>5, <2>1, <2>2, <2>3, <2>4, <2>5 DEF InsertingRow
  <2> QED BY <2>3, <2>4, <2>6 DEF FileSteps
<1>6. CASE ShareCreate(r) /\ Taken(q.c)
  BY <1>1, <1>6 DEF ShareCreate
<1>7. CASE Commit(r) /\ q.op = "upload"
  <2> DEFINE row == [owner |-> q.user, md5 |-> q.c, folder |-> q.g]
             x == NewId(Files)
  <2>1. /\ q.out.insert = row /\ q.out.purge = {} /\ q.c \in Contents /\ q.pc = "commit"
        /\ q.g \in Folders
    BY <1>7, <1>i, <1>q DEF Knows, UploadKnows, Commit, DirFresh, ReqOK
  <2>2. u \in Users
    BY <1>q, <2>1 DEF ReqOK
  <2>3. row \in FileRow /\ row.md5 = q.c /\ row.owner = u /\ row.folder = q.g
    BY <2>1, <2>2 DEF FileRow
  <2>4. row # None
    BY <2>3, NoneIsNoFile
  <2>5. Has(born, u, q.g)
    BY <1>q, <2>1 DEF Keeps, Has
  <2>6. x \in Files /\ born[x] = None /\ files[x] = None
    <3>1. r \in Pending(Inserting)
      BY <1>7 DEF Pending, Inserting, At
    <3> QED BY <3>1, <1>q, FreshFile
  <2>7. files' = [files EXCEPT ![x] = row] /\ born' = [born EXCEPT ![x] = u]
    <3>1. [f \in Files |-> IF files[f] # None /\ files[f].folder \in q.out.purge
                           THEN None ELSE files[f]] = files
      BY <1>t, <2>1
    <3> HIDE DEF row, x
    <3>2. born' = [born EXCEPT ![NewId(Files)] = u]
      BY <1>7, <2>1, <2>4 DEF Commit
    <3>3. files' = [[f \in Files |-> IF files[f] # None /\ files[f].folder \in q.out.purge
                           THEN None ELSE files[f]] EXCEPT ![NewId(Files)] = row]
      BY <1>7, <2>1, <2>4 DEF Commit
    <3> QED BY <3>1, <3>2, <3>3 DEF x
  <2>8. ~Taken(q.c) /\ \A y \in Reqs \ {r} : At(y, "upload", "commit") => req[y].c # q.c
    BY <1>7, <1>i, <2>1 DEF UploadsOK, At
  <2> HIDE DEF row, x
  <2>9. InsertingRow(r, x, row)
    BY <2>1, <2>3, <2>5, <2>6, <2>7, <2>8 DEF InsertingRow
  <2> QED BY <2>3, <2>6, <2>9 DEF FileSteps
<1>8. CASE Commit(r) /\ q.op = "movefile"
  <2> DEFINE row == [q.file EXCEPT !.folder = q.to]
  <2>1. /\ q.f \in Files /\ born[q.f] = u /\ files[q.f] = q.file /\ q.file \in FileRow
        /\ q.out.moved = row /\ q.out.insert = None /\ q.out.purge = {} /\ q.to \in Folders
    BY <1>8, <1>i, <1>q DEF Knows, MoveKnows, Commit, DirFresh, ReqOK
  <2>2. row \in FileRow /\ row.folder = q.to
    BY <2>1 DEF FileRow
  <2>3. files[q.f] # None /\ row # None
    BY <2>1, <2>2, NoneIsNoFile
  <2>4. SaveTarget(q.f, row) = q.f
    BY <2>3 DEF SaveTarget
  <2>5. files' = [files EXCEPT ![q.f] = row] /\ UNCHANGED born
    <3>1. [f \in Files |-> IF files[f] # None /\ files[f].folder \in q.out.purge
                           THEN None ELSE files[f]] = files
      BY <1>t, <2>1
    <3> HIDE DEF row
    <3> QED BY <1>8, <2>1, <2>3, <2>4, <3>1 DEF Commit
  <2>6. Has(born, u, q.to)
    BY <1>8, <1>q, <2>1, <2>2, <2>3 DEF Keeps, Commit
  <2> QED BY <2>1, <2>3, <2>5, <2>6 DEF FileSteps, Refiling
<1>9. CASE Commit(r) /\ q.op \notin {"upload", "movefile"}
  <2> DEFINE D == {f \in Files : files[f] # None /\ files[f].folder \in q.out.purge}
  <2>1. q.out.insert = None /\ q.out.moved = None
    BY <1>9, <1>i DEF Knows
  <2>2. files' = [f \in Files |-> IF f \in D THEN None ELSE files[f]] /\ UNCHANGED born
    BY <1>9, <2>1 DEF Commit
  <2>3. \A g \in q.out.purge : Has(born, u, g)
    <3>1. CASE q.op # "deletefolder"
      BY <3>1 DEF DirFresh
    <3>2. CASE q.op = "deletefolder"
      <4>1. PICK n \in 0..Depth : q.out.purge = Doomed(folders, q.g, n)
        BY <1>9, <3>2, DepthType DEF DirFresh, DeleteFolderDir, Commit
      <4>2. q.g \in Folders /\ Has(born, u, q.g)
        BY <1>9, <1>q, <3>2 DEF ReqOK, Keeps, Commit
      <4>3. n \in Nat /\ KeptInv /\ born[q.g] = u
        BY <1>q, <4>2, DepthType DEF Has
      <4> QED BY <4>1, <4>2, <4>3, BelowKeeps
    <3> QED BY <3>1, <3>2
  <2>4. \A f \in D : born[f] = u
    BY <1>i, <2>3 DEF RowsOK, Has
  <2> QED BY <2>2, <2>4 DEF FileSteps, Dropping
<1>10. \/ UNCHANGED <<files, born>> \/ CreateFolder(r) \/ ShareCreate(r) \/ Commit(r)
       \/ DeleteRow(r) \/ AdminDelete(r)
  <2>1. Arrive(r) => UNCHANGED <<files, born>>
    BY ArriveUser DEF books
  <2>2. Fail(r) \/ LockTimeout(r) => UNCHANGED <<files, born>>
    BY DEF Fail, LockTimeout, tables, history
  <2> QED BY <2>1, <2>2
          DEF Acts, Continue, UploadTx, UploadSaves, LockChain, DeleteRefund, MoveFileRead2,
              MoveFileRead3, MoveFileTx, MoveFolderRead2, MoveFolderRead3, MoveFolderTx,
              DeleteFolderTx, ShareRead2, ShareRead3, ShareTx, SetVolume,
              AdminDeleteFind, tables, history
<1> QED BY <1>1, <1>2, <1>3, <1>4, <1>5, <1>6, <1>7, <1>8, <1>9, <1>10

\* A request leaves the file rows of other users alone.
LEMMA FileFrame ==
  ASSUME TypeInv, NEW r \in Reqs, FileSteps(r), NEW u \in Users, u # req[r].user
  PROVE  \A f \in Files : born[f] = u => born'[f] = u /\ files'[f] = files[f]
<1>t. /\ files \in [Files -> FileRow \cup {None}]
      /\ born \in [Files \cup Folders -> Users \cup {None}] /\ u # None
  BY StorageAssumption DEF TypeInv, TypeOK
<1>1. CASE Dropping(r)
  BY <1>1, <1>t DEF Dropping
<1>2. ASSUME NEW x \in Files, NEW row \in FileRow, InsertingRow(r, x, row)
      PROVE  \A f \in Files : born[f] = u => born'[f] = u /\ files'[f] = files[f]
  BY <1>2, <1>t DEF InsertingRow
<1>3. ASSUME NEW f \in Files, NEW to \in Folders, Refiling(r, f, to)
      PROVE  \A x \in Files : born[x] = u => born'[x] = u /\ files'[x] = files[x]
  BY <1>3, <1>t DEF Refiling
<1> QED BY <1>1, <1>2, <1>3 DEF FileSteps

LEMMA RowsStep ==
  ASSUME TypeInv, RowsOK(born, files), NEW r \in Reqs, FileSteps(r), req[r].pc = "idle" \/ req[r].user \in Users,
         req[r].pc = "idle" => UNCHANGED <<files, born>>,
         \A g \in Folders, u \in Users : born[g] = u => born'[g] = u
  PROVE  RowsOK(born', files')
<1>t. /\ files \in [Files -> FileRow \cup {None}]
      /\ born \in [Files \cup Folders -> Users \cup {None}]
  BY DEF TypeInv, TypeOK
<1>n. None \notin Users
  BY StorageAssumption
<1>o. \A u \in Users : \A g : Has(born, u, g) => Has(born', u, g)
  BY DEF Has
<1>1. CASE Dropping(r)
  <2>1. PICK D \in SUBSET Files : /\ files' = [f \in Files |-> IF f \in D THEN None ELSE files[f]]
                                  /\ \A f \in Files : born'[f] = born[f]
    BY <1>1 DEF Dropping
  <2>2. \A f \in Files : files'[f] # None => files'[f] = files[f] /\ files[f] # None
    BY <2>1
  <2> QED BY <1>o, <1>t, <2>1, <2>2 DEF RowsOK
<1>2. ASSUME NEW x \in Files, NEW row \in FileRow, InsertingRow(r, x, row), req[r].user \in Users
      PROVE  RowsOK(born', files')
  <2>1. /\ \A f \in Files \ {x} : files'[f] = files[f] /\ born'[f] = born[f]
        /\ files'[x] = row /\ born'[x] = req[r].user
    BY <1>2, <1>t DEF InsertingRow
  <2>2. \A f \in Files : files[f] # None => files[f].md5 # row.md5
    BY <1>2 DEF InsertingRow, Taken
  <2>3. /\ row.owner \in {born'[x], None} /\ Has(born', born'[x], row.folder) /\ born'[x] # None
        /\ "sharesave" \notin Ops => row.md5 \in Contents /\ row.owner = born'[x]
    BY <1>2, <1>n, <1>o, <2>1 DEF InsertingRow
  <2>4. \A f \in Files : files'[f] # None =>
          /\ born'[f] # None /\ files'[f].owner \in {born'[f], None}
          /\ Has(born', born'[f], files'[f].folder)
          /\ "sharesave" \notin Ops => files'[f].md5 \in Contents /\ files'[f].owner = born'[f]
    BY <1>o, <1>t, <2>1, <2>3 DEF RowsOK
  <2>5. \A f, y \in Files : files'[f] # None /\ files'[y] # None /\ files'[f].md5 = files'[y].md5 => f = y
    BY <2>1, <2>2 DEF RowsOK
  <2> QED BY <2>4, <2>5 DEF RowsOK
<1>3. ASSUME NEW x \in Files, NEW to \in Folders, Refiling(r, x, to), req[r].user \in Users
      PROVE  RowsOK(born', files')
  <2> DEFINE row == [files[x] EXCEPT !.folder = to]
  <2>1. files[x] \in FileRow /\ born[x] = req[r].user /\ Has(born, req[r].user, to)
    BY <1>3, <1>t DEF Refiling
  <2>2. row.owner = files[x].owner /\ row.md5 = files[x].md5 /\ row.folder = to
    BY <2>1 DEF FileRow
  <2> HIDE DEF row
  <2>3. /\ \A f \in Files \ {x} : files'[f] = files[f]
        /\ files'[x] = row /\ \A f \in Files : born'[f] = born[f]
    BY <1>3, <1>t DEF Refiling, row
  <2>4. \A f \in Files : files'[f] # None =>
          /\ born'[f] # None /\ files'[f].owner \in {born'[f], None}
          /\ Has(born', born'[f], files'[f].folder)
          /\ "sharesave" \notin Ops => files'[f].md5 \in Contents /\ files'[f].owner = born'[f]
    BY <1>3, <1>n, <1>o, <1>t, <2>1, <2>2, <2>3 DEF RowsOK, Refiling
  <2>5. \A f \in Files : files'[f] # None => files[f] # None /\ files'[f].md5 = files[f].md5
    BY <1>3, <2>2, <2>3 DEF Refiling
  <2> QED BY <2>4, <2>5 DEF RowsOK
<1>4. CASE req[r].pc = "idle"
  <2>1. UNCHANGED <<files, born>>
    BY <1>4
  <2> QED BY <2>1
<1> QED BY <1>1, <1>2, <1>3, <1>4 DEF FileSteps

\* A request is accepted with the rows of now.
LEMMA ArriveKnows ==
  ASSUME TypeInv, RowsOK(born, files), NEW r \in Reqs, Arrive(r)
  PROVE  Knows(born, files, stores, req'[r])
<1>r. req \in [Reqs -> Request]
  BY DEF TypeInv, TypeOK
<1>t. \A f \in Files : files[f] \in FileRow \cup {None}
  BY DEF TypeInv, TypeOK
<1>o. req'[r].op \in Ops
  BY ArriveUser
<1> SUFFICES ASSUME NEW w, w = req'[r] PROVE Knows(born, files, stores, w)
  OBVIOUS
<1>1. ASSUME NEW u \in Users, NEW g \in Folders, NEW c \in Contents, UploadCheck(r, u, g, c)
      PROVE  Knows(born, files, stores, w)
  <2>1. /\ w.op = "upload" /\ w.user = u /\ w.c = c /\ w.store = stores[u] /\ w.pc = "tx"
        /\ w.out = Nothing /\ stores[u].current + Length(c) <= stores[u].max
    BY <1>1, <1>r DEF UploadCheck, Idle
  <2> QED BY <1>o, <2>1 DEF Knows, UploadKnows, Nothing
<1>2. ASSUME NEW u \in Users, NEW f \in Files, DeleteRead(r, u, f)
      PROVE  Knows(born, files, stores, w)
  <2>1. files[f] \in FileRow /\ files[f].owner = u /\ born[f] = u
    BY <1>2, <1>t, StorageAssumption DEF DeleteRead, RowsOK
  <2>2. /\ w.op = "deletefile" /\ w.user = u /\ w.f = f /\ w.c = files[f].md5 /\ w.file = files[f]
        /\ w.store = stores[u] /\ w.pc = "chain"
        /\ w.out.insert = None /\ w.out.moved = None /\ w.out.store = None
    BY <1>2, <1>r DEF DeleteRead, Idle, Nothing
  <2> QED BY <1>o, <2>1, <2>2 DEF Knows, DeleteKnows
<1>3. ASSUME NEW u \in Users, NEW f \in Files, NEW to \in Folders, MoveFileRead(r, u, f, to)
      PROVE  Knows(born, files, stores, w)
  <2>1. files[f] \in FileRow /\ files[f].owner = u /\ born[f] = u
    BY <1>3, <1>t, StorageAssumption DEF MoveFileRead, RowsOK
  <2>2. /\ w.op = "movefile" /\ w.user = u /\ w.f = f /\ w.file = files[f] /\ w.pc = "read2"
        /\ w.out = Nothing
    BY <1>3, <1>r DEF MoveFileRead, Idle
  <2> QED BY <1>o, <2>1, <2>2 DEF Knows, MoveKnows, Nothing
<1>4. ASSUME NEW u \in Users, NEW g \in Folders, CreateFolderCheck(r, u, g)
      PROVE  Knows(born, files, stores, w)
  BY <1>4, <1>o, <1>r DEF CreateFolderCheck, Idle, Nothing, Knows
<1>5. ASSUME NEW u \in Users, NEW g \in Folders, NEW to \in Folders \cup {Top},
             MoveFolderRead(r, u, g, to)
      PROVE  Knows(born, files, stores, w)
  BY <1>5, <1>o, <1>r DEF MoveFolderRead, Idle, Nothing, Knows
<1>6. ASSUME NEW u \in Users, NEW g \in Folders, DeleteFolderCheck(r, u, g)
      PROVE  Knows(born, files, stores, w)
  BY <1>6, <1>o, <1>r DEF DeleteFolderCheck, Idle, Nothing, Knows, DropKnows
<1>7. ASSUME NEW u \in Users, NEW f \in Files, NEW to \in Folders, ShareRead(r, u, f, to)
      PROVE  Knows(born, files, stores, w)
  BY <1>7, <1>o, <1>r DEF ShareRead, Idle, Nothing, Knows
<1>8. ASSUME NEW u \in Users, NEW v \in Volumes, SetVolumeRead(r, u, v)
      PROVE  Knows(born, files, stores, w)
  <2>1. /\ w.op = "setvolume" /\ w.user = u /\ w.vol = v /\ w.store = stores[u]
        /\ w.out = Nothing
    BY <1>8, <1>r DEF SetVolumeRead, Idle
  <2> QED BY <1>o, <2>1 DEF Knows, GrantKnows, Nothing
<1>9. ASSUME NEW f \in Files, AdminDeleteRead(r, f)
      PROVE  Knows(born, files, stores, w)
  <2>1. /\ w.op = "admindelete" /\ w.user = born[f] /\ w.pc = "read2" /\ w.out = Nothing
        /\ w.c = IF files[f] = None THEN Blank ELSE files[f].md5
    BY <1>9, <1>r DEF AdminDeleteRead, Idle
  <2> QED BY <1>o, <2>1 DEF Knows, AdminKnows, Nothing
<1> QED BY <1>1, <1>2, <1>3, <1>4, <1>5, <1>6, <1>7, <1>8, <1>9 DEF Arrive

\* A request goes on with the rows of now, and ends with nothing.
LEMMA ContinueKnows ==
  ASSUME TypeInv, RowsOK(born, files), Tame, NEW r \in Reqs, Continue(r), ~Done(r),
         Knows(born, files, stores, req[r])
  PROVE  Knows(born', files', stores', req'[r])
<1> DEFINE q == req[r]
<1> SUFFICES ASSUME NEW w, w = req'[r] PROVE Knows(born', files', stores', w)
  OBVIOUS
<1>q. q \in Request /\ ReqOK(q) /\ req \in [Reqs -> Request]
  BY DEF TypeInv, TypeOK
<1>t. /\ files \in [Files -> FileRow \cup {None}] /\ stores \in [Users -> StoreRow]
      /\ born \in [Files \cup Folders -> Users \cup {None}]
  BY DEF TypeInv, TypeOK
<1>i. Knows(born, files, stores, q)
  OBVIOUS
<1>n. Nothing.insert = None /\ Nothing.moved = None /\ Nothing.store = None
  BY DEF Nothing
<1>1. CASE UploadTx(r)
  <2> DEFINE s == Length(q.c)
             o == [Nothing EXCEPT
                     !.insert = [owner |-> q.user, md5 |-> q.c, folder |-> q.g],
                     !.store = AddCurrentSize(q.store, s),
                     !.folders = AddFileFolderSize(folders, q.g, RowAt(folders, q.g), s, Depth),
                     !.spin = WalkSpins(folders, q.g, RowAt(folders, q.g), Depth)]
  <2>1. q.op = "upload" /\ UNCHANGED <<files, stores, born>>
    BY <1>1 DEF UploadTx, UploadSaves, At, tables, history
  <2>2. Prepare(r, {q.user, q.c}, o, TRUE, "commit")
    BY <1>1 DEF UploadTx, UploadSaves
  <2>3. /\ o.insert = [owner |-> q.user, md5 |-> q.c, folder |-> q.g]
        /\ o.store = AddCurrentSize(q.store, s) /\ o.moved = None
    BY DEF Nothing
  <2> HIDE DEF o
  <2>4. ASSUME NEW whole, Prepare(r, {q.user, q.c}, o, whole, "commit")
        PROVE  SameReads(q, w) /\ w.out = o /\ w.held = {q.user, q.c} /\ w.store = q.store
    BY <2>4, PrepareReads
  <2>5. SameReads(q, w) /\ w.out = o /\ w.held = {q.user, q.c} /\ w.store = q.store
    BY <2>2, <2>4
  <2> QED BY <1>i, <2>1, <2>3, <2>5 DEF Knows, UploadKnows, SameReads
<1>2. CASE LockChain(r)
  <2>1. /\ SameReads(q, w) /\ w.out = q.out /\ w.pc \in {"spin", "delete", "create"}
        /\ w.f = q.f /\ w.store = q.store /\ w.vol = q.vol
        /\ q.pc = "chain" /\ UNCHANGED <<files, stores, born>>
    BY <1>2, <1>q DEF LockChain, Request, SameReads, tables, history
  <2> QED BY <1>i, <2>1 DEF Knows, UploadKnows, DeleteKnows, MoveKnows, DropKnows, GrantKnows,
        AdminKnows, SameReads
<1>3. CASE DeleteRow(r)
  <2>1. /\ SameReads(q, w) /\ w.out = q.out /\ w.pc = "refund" /\ w.f = q.f /\ w.store = q.store
        /\ q.op = "deletefile" /\ q.pc = "delete"
        /\ UNCHANGED <<stores, born>> /\ files' = [files EXCEPT ![q.f] = None]
    BY <1>3, <1>q DEF DeleteRow, At, Request, SameReads, history
  <2>2. DeleteKnows(born, files, stores, q)
    BY <1>i, <2>1 DEF Knows
  <2>3. files'[q.f] = None
    BY <1>t, <2>1, <2>2 DEF DeleteKnows
  <2>4. DeleteKnows(born', files', stores', w)
    BY <2>1, <2>2, <2>3 DEF DeleteKnows, SameReads
  <2> QED BY <1>i, <2>1, <2>4 DEF Knows, SameReads
<1>4. CASE DeleteRefund(r)
  <2>1. /\ SameReads(q, w) /\ w.out = q.out /\ w.pc = "commit" /\ w.f = q.f
        /\ q.op = "deletefile" /\ q.pc = "refund" /\ UNCHANGED <<files, born>>
    BY <1>4, <1>q DEF DeleteRefund, At, Request, SameReads, history
  <2> QED BY <1>i, <2>1 DEF Knows, DeleteKnows, SameReads
<1>5. CASE MoveFileRead2(r) \/ MoveFileRead3(r)
  <2>1. /\ w.op = "movefile" /\ w.user = q.user /\ w.file = q.file /\ w.out = q.out
        /\ w.pc \in {"read3", "tx"} /\ w.f = q.f /\ UNCHANGED <<files, stores, born>>
        /\ q.op = "movefile"
    BY <1>5, <1>q DEF MoveFileRead2, MoveFileRead3, At, Request, tables, history
  <2> QED BY <1>i, <2>1 DEF Knows, MoveKnows
<1>6. CASE MoveFileTx(r)
  <2> DEFINE s == Length(q.file.md5)
             o == [Nothing EXCEPT
                     !.moved = [q.file EXCEPT !.folder = q.to],
                     !.folders = IF Moving(q)
                                 THEN Transfer(folders, q.from, q.src, q.to, q.dst, s, Depth)
                                 ELSE NoWrites,
                     !.spin = Moving(q) /\ TransferSpins(folders, q.from, q.src, q.to, q.dst, s, Depth)]
  <2>1. o.moved = [q.file EXCEPT !.folder = q.to] /\ o.insert = None /\ o.store = None
    BY DEF Nothing
  <2>2. /\ Prepare(r, Wants(q), o, TRUE, "commit") /\ q.op = "movefile"
        /\ UNCHANGED <<files, stores, born>>
    BY <1>6 DEF MoveFileTx, At, tables, history
  <2> HIDE DEF o
  <2>3. ASSUME NEW whole, Prepare(r, Wants(q), o, whole, "commit")
        PROVE  SameReads(q, w) /\ w.out = o /\ w.f = q.f
    BY <2>3, PrepareReads
  <2>4. SameReads(q, w) /\ w.out = o /\ w.f = q.f
    BY <2>2, <2>3
  <2> QED BY <1>i, <2>1, <2>2, <2>4 DEF Knows, MoveKnows, SameReads
<1>7. CASE MoveFolderRead2(r) \/ MoveFolderRead3(r)
  <2>1. /\ w.op = "movefolder" /\ w.out = q.out /\ q.op = "movefolder"
    BY <1>7, <1>q DEF MoveFolderRead2, MoveFolderRead3, At, Request
  <2> QED BY <1>i, <2>1 DEF Knows
<1>p. ASSUME NEW o, NEW held, NEW whole, NEW next, Prepare(r, held, o, whole, next),
             q.op \in {"movefolder", "sharesave"}, o.insert = None, o.moved = None,
             q.op = "movefolder" => o.store = None
      PROVE  Knows(born', files', stores', w)
  <2>1. w.op = q.op /\ w.out = o
    BY <1>p, PrepareReads DEF SameReads
  <2> QED BY <1>i, <1>p, <2>1 DEF Knows
<1>8. CASE MoveFolderTx(r)
  <2> DEFINE size == IF q.dir = None THEN 0 ELSE q.dir.size
             saved == IF q.dir = None THEN NoWrites
                      ELSE [NoWrites EXCEPT ![q.g] = [q.dir EXCEPT !.parent = q.to]]
             seen == Overlay(folders, saved)
             o(k) == [Nothing EXCEPT
                !.folders = IF Moving(q)
                            THEN Overlay(saved, Transfer(seen, q.from, q.src, q.to, q.dst, size, k))
                            ELSE saved,
                !.spin = Moving(q) /\ TransferSpins(seen, q.from, q.src, q.to, q.dst, size, k)]
  <2>1. PICK k \in Cuts : Prepare(r, Wants(q), o(k), k = Depth, "commit")
    BY <1>8 DEF MoveFolderTx
  <2>2. o(k).insert = None /\ o(k).moved = None /\ o(k).store = None /\ q.op = "movefolder"
    BY <1>8, <1>n DEF MoveFolderTx, At
  <2> HIDE DEF o
  <2> QED BY <1>p, <2>1, <2>2
<1>9. CASE DeleteFolderTx(r)
  <2> DEFINE down(n) == Doomed(folders, q.g, n)
             left == [g \in Folders |-> IF g \in down(Depth) THEN None ELSE folders[g]]
             cut(n, m) == [Nothing EXCEPT !.drop = down(n), !.purge = down(m)]
             up(k) == [cut(Depth, Depth) EXCEPT
                         !.folders = SubFileFolderSize(left, q.from, RowAt(left, q.from), q.dir.size, k),
                         !.spin = WalkSpins(left, q.from, RowAt(left, q.from), k)]
             full == [up(Depth) EXCEPT !.store = SubCurrentSize(stores[q.user], q.dir.size)]
  <2>1. q.op = "deletefolder" /\ UNCHANGED <<files, stores, born>>
    BY <1>9 DEF DeleteFolderTx, At, tables, history
  <2>2. \A n, m : cut(n, m).insert = None /\ cut(n, m).moved = None /\ cut(n, m).store = None
    BY <1>n DEF Nothing
  <2>3. \A k : up(k).insert = None /\ up(k).moved = None /\ up(k).store = None
    BY <1>n DEF Nothing
  <2>4. /\ full.insert = None /\ full.moved = None
        /\ full.store = SubCurrentSize(stores[q.user], q.dir.size)
    BY <1>n DEF Nothing
  <2>5. \/ Prepare(r, {}, full, TRUE, "commit")
        \/ Failures /\ \E n \in 1..Depth, m \in {0, 1} :
                           Prepare(r, {}, cut(n, n - m), FALSE, "commit")
        \/ Failures /\ \E k \in 0..Depth : Prepare(r, {}, up(k), FALSE, "commit")
    BY <1>9 DEF DeleteFolderTx
  <2> HIDE DEF full, cut, up
  <2>6. ASSUME NEW o, NEW whole, Prepare(r, {}, o, whole, "commit"),
               o.insert = None, o.moved = None,
               \/ Failures /\ o.store = None
               \/ o.store = SubCurrentSize(stores[q.user], q.dir.size)
        PROVE  Knows(born', files', stores', w)
    <3>1. SameReads(q, w) /\ w.out = o
      BY <2>6, PrepareReads
    <3> QED BY <1>i, <2>1, <2>6, <3>1 DEF Knows, DropKnows, SameReads
  <2>7. CASE Prepare(r, {}, full, TRUE, "commit")
    BY <2>4, <2>6, <2>7
  <2>8. ASSUME Failures, NEW n \in 1..Depth, NEW m \in {0, 1},
               Prepare(r, {}, cut(n, n - m), FALSE, "commit")
        PROVE  Knows(born', files', stores', w)
    BY <2>2, <2>6, <2>8
  <2>9. ASSUME Failures, NEW k \in 0..Depth, Prepare(r, {}, up(k), FALSE, "commit")
        PROVE  Knows(born', files', stores', w)
    BY <2>3, <2>6, <2>9
  <2> QED BY <2>5, <2>7, <2>8, <2>9
<1>10. CASE ShareRead2(r) \/ ShareRead3(r) \/ ShareCreate(r)
  <2>1. w.op = "sharesave" /\ w.out = q.out /\ q.op = "sharesave"
    BY <1>10, <1>q DEF ShareRead2, ShareRead3, ShareCreate, At, Request
  <2> QED BY <1>i, <2>1 DEF Knows
<1>11. CASE ShareTx(r)
  <2> DEFINE s == Length(q.c)
             o(k) == [Nothing EXCEPT
                !.store = IF q.store = None THEN None ELSE AddCurrentSize(q.store, s),
                !.folders = AddFileFolderSize(folders, q.to, q.dst, s, k),
                !.spin = WalkSpins(folders, q.to, q.dst, k)]
  <2>1. PICK k \in Cuts : Prepare(r, Wants(q), o(k), k = Depth, IF k = Depth THEN "chain" ELSE "commit")
    BY <1>11 DEF ShareTx
  <2>2. o(k).insert = None /\ o(k).moved = None /\ q.op = "sharesave"
    BY <1>11, <1>n DEF ShareTx, At
  <2> HIDE DEF o
  <2> QED BY <1>p, <2>1, <2>2
<1>12. CASE AdminDeleteFind(r)
  <2> DEFINE same == {x \in Files : files[x] # None /\ files[x].md5 = q.c}
             f == CHOOSE x \in same : TRUE
  <2>1. /\ same # {} /\ q.op = "admindelete" /\ q.pc = "read2" /\ UNCHANGED <<files, stores, born>>
        /\ req' = [req EXCEPT ![r].f = f, ![r].pc = "tx"]
    BY <1>12 DEF AdminDeleteFind, At, tables, history
  <2>2. f \in Files /\ files[f] # None /\ files[f].md5 = q.c
    BY <2>1
  <2> HIDE DEF f, same
  <2>3. w.op = "admindelete" /\ w.pc = "tx" /\ w.f = f /\ w.user = q.user /\ w.out = q.out
    BY <1>q, <2>1 DEF Request
  <2>4. "sharesave" \notin Ops
    BY <1>i, <2>1 DEF Knows, Tame
  <2>5. q.c # Blank
    BY <2>2, <2>4, StorageAssumption DEF RowsOK
  <2>6. PICK x \in Files : files[x] # None /\ files[x].md5 = q.c /\ born[x] = q.user
    BY <1>i, <2>1, <2>5 DEF Knows, AdminKnows
  <2>7. x = f
    BY <2>2, <2>6 DEF RowsOK
  <2>8. AdminKnows(born', files', w)
    BY <2>1, <2>2, <2>3, <2>6, <2>7 DEF AdminKnows
  <2> QED BY <1>i, <2>1, <2>3, <2>8 DEF Knows
<1>13. CASE CreateFolder(r) \/ SetVolume(r) \/ AdminDelete(r) \/ Commit(r)
  BY <1>13 DEF CreateFolder, SetVolume, AdminDelete, Commit
<1> QED BY <1>1, <1>2, <1>3, <1>4, <1>5, <1>6, <1>7, <1>8, <1>9, <1>10, <1>11, <1>12, <1>13
        DEF Continue

\* An upload that is about to commit has just found its content nowhere, and
\* nobody in its way.
LEMMA ReachCommit ==
  ASSUME TypeInv, NEW r \in Reqs, Acts(r), At(r, "upload", "commit")'
  PROVE  /\ UNCHANGED files /\ ~Taken(req[r].c) /\ Unblocked(r)
         /\ req'[r].c = req[r].c /\ req[r].c \in Wants(req[r])
<1> DEFINE q == req[r]
<1>r. req \in [Reqs -> Request] /\ q \in Request
  BY DEF TypeInv, TypeOK
<1>1. ~Done(r)
  BY <1>r DEF Done, Idle, At
<1>2. ~Arrive(r)
  BY ArriveUser DEF At
<1>3. Continue(r) /\ q.op = "upload"
  BY <1>1, <1>2, ContinueUser DEF Acts, Fail, LockTimeout, At
<1>4. ~LockChain(r)
  BY <1>r DEF LockChain, At, Request
<1>5. UploadTx(r)
  BY <1>1, <1>3, <1>4 DEF Continue, DeleteRow, DeleteRefund, MoveFileRead2, MoveFileRead3,
        MoveFileTx, CreateFolder, MoveFolderRead2, MoveFolderRead3, MoveFolderTx, DeleteFolderTx,
        ShareRead2, ShareRead3, ShareTx, ShareCreate, SetVolume, AdminDeleteFind, AdminDelete,
        Commit, At
<1>6. /\ UNCHANGED files /\ ~Taken(q.c) /\ Unblocked(r) /\ q.pc = "tx"
      /\ \E held, o, whole, next : Prepare(r, held, o, whole, next)
  BY <1>1, <1>5 DEF UploadTx, UploadSaves, At, tables
<1>7. req'[r].c = q.c
  BY <1>6, PrepareReads DEF SameReads
<1>8. q.c \in Wants(q)
  BY <1>3, <1>6 DEF Wants
<1> QED BY <1>6, <1>7, <1>8

LEMMA UploadsStep ==
  ASSUME TypeInv, FileInv, NEW r \in Reqs, Acts(r), FileSteps(r)
  PROVE  UploadsOK'
<1>1. \A x \in Reqs \ {r} : req'[x] = req[x]
  BY OneActs DEF Acts
<1>2. ASSUME NEW x \in Reqs \ {r}, At(x, "upload", "commit") PROVE ~Taken(req[x].c)'
  <2>1. ~Taken(req[x].c)
    BY <1>2 DEF FileInv, UploadsOK
  <2>2. \A f \in Files : files'[f] # None =>
          files'[f].md5 # req[x].c
    <3>1. CASE Dropping(r)
      BY <2>1, <3>1 DEF Dropping, Taken, TypeInv, TypeOK
    <3>2. ASSUME NEW y \in Files, NEW row \in FileRow, InsertingRow(r, y, row)
          PROVE  \A f \in Files : files'[f] # None => files'[f].md5 # req[x].c
      BY <1>2, <2>1, <3>2 DEF InsertingRow, Taken, TypeInv, TypeOK
    <3>3. ASSUME NEW y \in Files, NEW to \in Folders, Refiling(r, y, to)
          PROVE  \A f \in Files : files'[f] # None => files'[f].md5 # req[x].c
      <4>1. files[y] \in FileRow
        BY <3>3 DEF Refiling, TypeInv, TypeOK
      <4>2. [files[y] EXCEPT !.folder = to].md5 = files[y].md5
        BY <4>1 DEF FileRow
      <4> QED BY <2>1, <3>3, <4>2 DEF Refiling, Taken, TypeInv, TypeOK
    <3> QED BY <3>1, <3>2, <3>3 DEF FileSteps
  <2> QED BY <1>1, <2>2 DEF Taken
<1>3. ASSUME NEW x \in Reqs \ {r}, At(x, "upload", "commit"), At(r, "upload", "commit")'
      PROVE  req'[r].c # req[x].c
  <2>1. req[x].c \in req[x].held
    BY <1>3 DEF FileInv, Knows, UploadKnows, At
  <2>2. Unblocked(r) /\ req'[r].c = req[r].c /\ req[r].c \in Wants(req[r])
    BY <1>3, ReachCommit
  <2> QED BY <2>1, <2>2 DEF Unblocked
<1>4. ASSUME At(r, "upload", "commit")' PROVE ~Taken(req[r].c)'
  <2>1. UNCHANGED files /\ ~Taken(req[r].c) /\ req'[r].c = req[r].c
    BY <1>4, ReachCommit
  <2> QED BY <2>1 DEF Taken
<1> SUFFICES ASSUME NEW x \in Reqs, At(x, "upload", "commit")'
             PROVE  /\ ~Taken(req[x].c)'
                    /\ \A y \in Reqs \ {x} : At(y, "upload", "commit")' => req'[y].c # req'[x].c
  BY DEF UploadsOK
<1>5. \A y \in Reqs \ {r} : At(y, "upload", "commit")' => At(y, "upload", "commit") /\ req'[y] = req[y]
  BY <1>1 DEF At
<1>6. CASE x = r
  BY <1>3, <1>4, <1>5, <1>6
<1>7. CASE x # r
  <2>1. At(x, "upload", "commit") /\ req'[x] = req[x]
    BY <1>5, <1>7
  <2>2. \A y \in Reqs \ {x} : At(y, "upload", "commit") => req[y].c # req[x].c
    BY <2>1 DEF FileInv, UploadsOK
  <2> QED BY <1>2, <1>3, <1>5, <1>7, <2>1, <2>2
<1> QED BY <1>6, <1>7

\* What the requests of one account after another know, they know until they
\* commit, whatever the others do and wherever they fail.
SoloInv == Settled /\ Solo /\ DirInv /\ FileInv

LEMMA SoloNext ==
  ASSUME TypeInv, KeptIdInv, SoloInv, PerUser = 1, Tame, TypeInv', KeptIdInv',
         NEW r \in Reqs, Acts(r)
  PROVE  SoloInv' /\ FileSteps(r)
<1>k. /\ KeptInv /\ Settled /\ Solo /\ DirInv /\ FileInv /\ RowsOK(born, files)
      /\ DirFresh(born, folders, req[r]) /\ Knows(born, files, stores, req[r])
  BY DEF KeptIdInv, SoloInv, DirInv, FileInv
<1>r. req \in [Reqs -> Request] /\ req' \in [Reqs -> Request]
  BY DEF TypeInv, TypeOK
<1>1. FileSteps(r)
  BY <1>k, FileStep
<1>2. Settled' /\ DirInv'
  BY <1>k, DirStep
<1>3. Solo'
  BY <1>k, SoloStep
<1>4. UploadsOK'
  BY <1>1, <1>k, UploadsStep
<1>i. req[r].pc = "idle" => UNCHANGED <<files, folders, born>>
  <2> SUFFICES ASSUME req[r].pc = "idle" PROVE UNCHANGED <<files, folders, born>>
    OBVIOUS
  <2>1. req[r].op = "none"
    BY <1>k DEF Settled, Idle
  <2>2. ~Continue(r)
    BY <2>1 DEF Continue, UploadTx, UploadSaves, LockChain, DeleteRow, DeleteRefund,
          MoveFileRead2, MoveFileRead3, MoveFileTx, CreateFolder, MoveFolderRead2, MoveFolderRead3,
          MoveFolderTx, DeleteFolderTx, ShareRead2, ShareRead3, ShareTx, ShareCreate, SetVolume,
          AdminDeleteFind, AdminDelete, Commit, At
  <2> QED BY <2>2, ArriveUser DEF Acts, Fail, LockTimeout, tables, history, books
<1>u. req[r].pc # "idle" => req[r].user \in Users
  BY DEF TypeInv, ReqOK
<1>5. RowsOK(born', files')
  <2>1. \A g \in Folders, u \in Users : born[g] = u => born'[g] = u
    <3> SUFFICES ASSUME NEW g \in Folders, NEW u \in Users, born[g] = u PROVE born'[g] = u
      OBVIOUS
    <3> QED BY FoldersStay, StorageAssumption
  <2> QED BY <1>1, <1>i, <1>k, <1>u, <2>1, RowsStep
<1>6. ASSUME NEW x \in Reqs PROVE Knows(born', files', stores', req'[x])
  <2>1. CASE x # r
    <3>1. req'[x] = req[x] /\ Knows(born, files, stores, req[x])
      BY <1>k, <2>1, OneActs DEF Acts, FileInv
    <3>2. CASE req[x].pc = "idle"
      BY <1>k, <3>1, <3>2, IdleKnows DEF Settled
    <3>3. CASE req[x].pc # "idle"
      <4>1. req[x].user \in Users /\ req[x].user # req[r].user
        BY <1>k, <2>1, <3>3, OthersUser
      <4>2. \A f \in Files : born[f] = req[x].user => born'[f] = req[x].user /\ files'[f] = files[f]
        BY <1>1, <4>1, FileFrame
      <4>3. stores'[req[x].user] = stores[req[x].user]
        BY <4>1, FolderFrame
      <4> QED BY <3>1, <4>2, <4>3, KnowsFrame
    <3> QED BY <3>2, <3>3
  <2>2. CASE x = r
    <3>1. CASE Done(r)
      BY <1>r, <2>2, <3>1, IdleKnows DEF Done
    <3>2. CASE Arrive(r)
      <4>1. Knows(born, files, stores, req'[r]) /\ UNCHANGED <<files, stores, born>>
        BY <1>k, <3>2, ArriveKnows, ArriveUser DEF books
      <4> QED BY <2>2, <4>1
    <3>3. CASE Continue(r) /\ ~Done(r)
      BY <1>k, <2>2, <3>3, ContinueKnows
    <3> QED BY <3>1, <3>2, <3>3 DEF Acts, Fail, LockTimeout
  <2> QED BY <2>1, <2>2
<1> QED BY <1>1, <1>2, <1>3, <1>4, <1>5, <1>6 DEF SoloInv, FileInv

LEMMA SoloInit == Init => SoloInv
<1> SUFFICES ASSUME Init PROVE SoloInv
  OBVIOUS
<1>1. \A r \in Reqs : req[r] = Idle
  BY DEF Init
<1>2. Settled /\ Solo
  <2>1. Idle.user = None
    BY DEF Idle
  <2> QED BY <1>1, <2>1 DEF Settled, Solo
<1>3. DirInv
  BY <1>1, IdleDir DEF DirInv
<1>4. RowsOK(born, files)
  BY DEF Init, RowsOK
<1>5. UploadsOK
  BY <1>1 DEF UploadsOK, At, Idle
<1>6. \A r \in Reqs : Knows(born, files, stores, req[r])
  BY <1>1, IdleKnows
<1> QED BY <1>2, <1>3, <1>4, <1>5, <1>6 DEF SoloInv, FileInv

\* The inductive invariant of everything below.
BaseInv == TypeInv /\ KeptIdInv /\ SoloInv

LEMMA BaseInit == ~Foreign /\ Init => BaseInv
BY InitType, InitKept, SoloInit DEF BaseInv

LEMMA BaseNext ==
  ASSUME PerUser = 1, Tame, BaseInv, [Next]_vars
  PROVE  BaseInv'
<1>1. TypeInv' /\ KeptIdInv'
  BY NextType, NextKept DEF BaseInv
<1>2. CASE UNCHANGED vars
  <2>1. SoloInv'
    <3>1. Settled' /\ Solo' /\ DirInv'
      BY <1>2 DEF vars, BaseInv, SoloInv, Settled, Solo, DirInv
    <3>2. FileInv'
      BY <1>2 DEF vars, BaseInv, SoloInv, FileInv, UploadsOK, At, Taken
    <3> QED BY <3>1, <3>2 DEF SoloInv
  <2> QED BY <1>1, <2>1 DEF BaseInv
<1>3. CASE Next
  BY <1>1, <1>3, SoloNext DEF Next, Acts, BaseInv
<1> QED BY <1>2, <1>3

LEMMA BaseHolds ==
  ASSUME ~Foreign, PerUser = 1, Tame
  PROVE  Spec => []BaseInv
<1>1. BaseInv /\ [Next]_vars => BaseInv'
  BY BaseNext
<1> QED BY <1>1, BaseInit, PTL DEF Spec

-----------------------------------------------------------------------------
(* A row that was deleted does not come back.                                *)

\* Every row that is written is there.
Lives(P, w) == \A g \in Folders : w[g] # None => P[g] # None

LEMMA WalkLives ==
  ASSUME NEW P \in View, NEW f, NEW row, row # None => P[f] # None, NEW s, NEW k
  PROVE  Lives(P, AddFileFolderSize(P, f, row, s, k)) /\ Lives(P, SubFileFolderSize(P, f, row, s, k))
<1> DEFINE seen == [P EXCEPT ![f] = row]
<1>1. CASE row = None
  BY <1>1 DEF Lives, AddFileFolderSize, SubFileFolderSize, NoWrites
<1>2. CASE row # None
  <2>1. \A g \in Chain(seen, f, k) : g \in Folders /\ seen[g] # None
    BY DEF Chain
  <2>2. \A g \in Folders : seen[g] # None => P[g] # None
    BY <1>2 DEF View
  <2> HIDE DEF seen
  <2>3. /\ AddFileFolderSize(P, f, row, s, k) = [g \in Folders |-> IF g \in Chain(seen, f, k)
                              THEN [seen[g] EXCEPT !.size = @ + s] ELSE None]
        /\ SubFileFolderSize(P, f, row, s, k) = [g \in Folders |-> IF g \in Chain(seen, f, k)
                              THEN SubSize(seen[g], s) ELSE None]
    BY <1>2 DEF AddFileFolderSize, SubFileFolderSize, seen
  <2> QED BY <2>1, <2>2, <2>3 DEF Lives
<1> QED BY <1>1, <1>2

LEMMA OverlayLives ==
  ASSUME NEW P, NEW w, Lives(P, w)
  PROVE  /\ Lives(P, Overlay(P, w))
         /\ \A x : Lives(P, x) => Lives(P, Overlay(w, x))
BY DEF Lives, Overlay

LEMMA TransferLives ==
  ASSUME NEW P \in View, NEW from, NEW src \in FolderRow \cup {None}, src # None => P[from] # None,
         NEW to, NEW dst, dst # None => to \in Folders /\ P[to] # None, NEW s \in Nat, NEW k
  PROVE  Lives(P, Transfer(P, from, src, to, dst, s, k))
<1> DEFINE sub == SubFileFolderSize(P, from, src, s, Depth)
           over == Overlay(P, sub)
<1>1. Lives(P, sub) /\ sub \in View
  BY WalkLives, SubType
<1> HIDE DEF sub
<1>2. over \in View /\ Lives(P, over)
  BY <1>1, OverlayType, OverlayLives
<1>3. dst # None => over[to] # None
  BY DEF Overlay, View
<1> HIDE DEF over
<1>4. Lives(over, AddFileFolderSize(over, to, dst, s, k))
  BY <1>2, <1>3, WalkLives
<1>5. Lives(P, AddFileFolderSize(over, to, dst, s, k))
  BY <1>2, <1>4 DEF Lives
<1>6. Transfer(P, from, src, to, dst, s, k) = Overlay(sub, AddFileFolderSize(over, to, dst, s, k))
  BY DEF Transfer, sub, over
<1> QED BY <1>1, <1>5, <1>6, OverlayLives

\* At its commit a request writes folders that are there.
LEMMA WritesLive ==
  ASSUME NEW B, NEW P \in View, NEW q \in Request, ReqOK(q), DirFresh(B, P, q), q.pc = "commit"
  PROVE  Lives(P, q.out.folders)
<1>n. Lives(P, NoWrites)
  BY DEF Lives, NoWrites
<1>l. \A c : Length(c) \in Nat
  BY LengthType
<1>s. q.src \in FolderRow \cup {None} /\ q.dst \in FolderRow \cup {None} /\ q.dir \in FolderRow \cup {None}
  BY DEF Request
<1>1. CASE q.op = "upload"
  BY <1>1, WalkLives DEF DirFresh, UploadDir
<1>2. CASE q.op = "deletefile"
  BY <1>2, WalkLives DEF DirFresh, DeleteFileDir
<1>3. CASE q.op = "movefile"
  <2>1. MoveFileDir(P, q) /\ q.to \in Folders
    BY <1>3 DEF DirFresh, ReqOK
  <2>2. Lives(P, Transfer(P, q.from, q.src, q.to, q.dst, Length(q.file.md5), Depth))
    BY <1>l, <1>s, <2>1, TransferLives DEF MoveFileDir
  <2> QED BY <1>n, <2>1, <2>2 DEF MoveFileDir, FileMoveWrites
<1>4. CASE q.op = "movefolder"
  <2>1. MoveFolderDir(P, q) /\ q.to \in Folders \cup {Top} /\ q.g \in Folders
    BY <1>4 DEF DirFresh, ReqOK
  <2>2. PICK k \in Cuts : q.out.folders = MoveWrites(P, q, k)
    BY <2>1 DEF MoveFolderDir
  <2>3. Lives(P, Saved(q)) /\ Saved(q) \in View /\ MoveSize(q) \in Nat
    <3>1. CASE q.dir = None
      BY <1>n, <3>1 DEF Saved, MoveSize, NoWrites, View
    <3>2. CASE q.dir # None
      <4> DEFINE row == [q.dir EXCEPT !.parent = q.to]
      <4>1. row \in FolderRow /\ q.dir.size \in Nat
        BY <1>s, <2>1, <3>2 DEF FolderRow
      <4> HIDE DEF row
      <4>2. Saved(q) = [g \in Folders |-> IF g = q.g THEN row ELSE None]
        BY <2>1, <3>2 DEF Saved, NoWrites, row
      <4> QED BY <2>1, <3>2, <4>1, <4>2 DEF MoveFolderDir, Lives, View, MoveSize
    <3> QED BY <3>1, <3>2
  <2> DEFINE seen == Overlay(P, Saved(q))
             t == Transfer(seen, q.from, q.src, q.to, q.dst, MoveSize(q), k)
  <2>4. seen \in View /\ Lives(P, seen)
    BY <2>3, OverlayType, OverlayLives
  <2>5. /\ q.src # None => seen[q.from] # None
        /\ q.dst # None => q.to \in Folders /\ seen[q.to] # None
    BY <2>1, <2>3 DEF MoveFolderDir, RowAt, Overlay, View
  <2>6. MoveWrites(P, q, k) = IF Moving(q) THEN Overlay(Saved(q), t) ELSE Saved(q)
    BY DEF MoveWrites
  <2> HIDE DEF seen
  <2>7. Lives(seen, t)
    BY <1>s, <2>1, <2>3, <2>4, <2>5, TransferLives
  <2>8. Lives(P, t)
    BY <2>4, <2>7 DEF Lives
  <2> HIDE DEF t
  <2> QED BY <2>2, <2>3, <2>6, <2>8, OverlayLives
<1>5. CASE q.op = "deletefolder"
  <2>1. DeleteFolderDir(P, q)
    BY <1>5 DEF DirFresh
  <2>2. Left(P, q.g) \in View /\ Lives(P, Left(P, q.g))
    BY DEF Left, View, Lives
  <2>3. \A k : Lives(P, DropWrites(P, q, k))
    <3> DEFINE L == Left(P, q.g)
    <3>1. \A k : Lives(L, SubFileFolderSize(L, q.from, L[q.from], q.dir.size, k))
      <4> HIDE DEF L
      <4> QED BY <2>2, WalkLives DEF L
    <3>2. \A k : DropWrites(P, q, k) = SubFileFolderSize(L, q.from, L[q.from], q.dir.size, k)
      BY DEF DropWrites
    <3> HIDE DEF L
    <3> QED BY <2>2, <3>1, <3>2 DEF Lives, L
  <2> QED BY <1>n, <2>1, <2>3 DEF DeleteFolderDir
<1>6. CASE q.op = "sharesave"
  BY <1>6, WalkLives DEF DirFresh, ShareDir
<1>7. q.op \in {"upload", "deletefile", "movefile", "movefolder", "deletefolder", "sharesave"}
  BY DEF DirFresh
<1> QED BY <1>1, <1>2, <1>3, <1>4, <1>5, <1>6, <1>7

\* Only a created folder and a commit change the folders.
LEMMA FolderActs ==
  ASSUME TypeInv, NEW r \in Reqs, Acts(r)
  PROVE  UNCHANGED folders \/ CreateFolder(r) \/ Commit(r)
<1>1. Arrive(r) => UNCHANGED folders
  BY ArriveUser DEF books
<1>2. Fail(r) \/ LockTimeout(r) => UNCHANGED folders
  BY DEF Fail, LockTimeout, tables
<1>3. CASE UploadTx(r) \/ LockChain(r) \/ DeleteRow(r) \/ DeleteRefund(r)
  BY <1>3 DEF UploadTx, UploadSaves, LockChain, DeleteRow, DeleteRefund, tables
<1>4. CASE MoveFileRead2(r) \/ MoveFileRead3(r)
  BY <1>4 DEF MoveFileRead2, MoveFileRead3, tables
<1>5. CASE MoveFileTx(r)
  BY <1>5 DEF MoveFileTx, tables
<1>6. CASE MoveFolderRead2(r) \/ MoveFolderRead3(r)
  BY <1>6 DEF MoveFolderRead2, MoveFolderRead3, tables
<1>7. CASE MoveFolderTx(r)
  BY <1>7 DEF MoveFolderTx, tables
<1>8. CASE DeleteFolderTx(r)
  BY <1>8, Zenon DEF DeleteFolderTx, tables
<1>9. CASE ShareRead2(r) \/ ShareRead3(r)
  BY <1>9 DEF ShareRead2, ShareRead3, tables
<1>10. CASE ShareTx(r) \/ ShareCreate(r)
  <2>1. ShareTx(r) => UNCHANGED folders
    BY DEF ShareTx, tables
  <2>2. ShareCreate(r) => UNCHANGED folders
    BY DEF ShareCreate
  <2> QED BY <1>10, <2>1, <2>2
<1>11. CASE SetVolume(r) \/ AdminDeleteFind(r) \/ AdminDelete(r)
  BY <1>11 DEF SetVolume, AdminDeleteFind, AdminDelete, tables
<1> QED BY <1>1, <1>2, <1>3, <1>4, <1>5, <1>6, <1>7, <1>8, <1>9, <1>10, <1>11 DEF Acts, Continue

\* With one request at a time on an account and clients that name their own
\* folders only, a deleted row stays deleted, for all operations, wherever requests
\* fail.  (An upload into a folder that its owner is deleting writes the folder
\* back.)  It takes that no administrator
\* deletes while shares are saved: a saved share of a deleted file has the
\* empty md5, by which an administrator deletes another account's file while
\* that account moves it.
THEOREM DeletedStaysDeleted ==
  ASSUME ~Foreign, PerUser = 1, Tame
  PROVE  Spec => NoResurrection
<1> DEFINE Step ==
      /\ \A f \in Files : born[f] # None /\ files[f] = None => files'[f] = None
      /\ \A g \in Folders : born[g] # None /\ folders[g] = None => folders'[g] = None
<1>1. BaseInv /\ [Next]_vars => [Step]_vars
  <2> SUFFICES ASSUME BaseInv, Next PROVE Step
    OBVIOUS
  <2>1. PICK r \in Reqs : Acts(r)
    BY DEF Next, Acts
  <2>t. /\ TypeInv /\ KeptIdInv /\ SoloInv /\ KeptInv /\ IdInv
        /\ files \in [Files -> FileRow \cup {None}] /\ folders \in View
        /\ req \in [Reqs -> Request]
    BY DEF BaseInv, TypeInv, TypeOK, KeptIdInv
  <2>2. FileSteps(r)
    BY <2>t, <2>1, FileStep DEF SoloInv, DirInv
  <2>3. \A f \in Files : born[f] # None /\ files[f] = None => files'[f] = None
    BY <2>t, <2>2 DEF FileSteps, Dropping, InsertingRow, Refiling
  <2>4. \A g \in Folders : born[g] # None /\ folders[g] = None => folders'[g] = None
    <3>1. CASE UNCHANGED folders
      BY <3>1
    <3>2. CASE CreateFolder(r)
      <4>1. r \in Pending({"createfolder"})
        BY <3>2 DEF CreateFolder, Pending, At
      <4>2. born[NewId(Folders)] = None
        BY <2>t, <4>1, NewIdFree DEF IdInv, Free
      <4> QED BY <2>t, <3>2, <4>2 DEF CreateFolder, View
    <3>3. CASE Commit(r)
      <4>1. Lives(folders, req[r].out.folders)
        BY <2>t, <3>3, WritesLive DEF SoloInv, DirInv, Commit, TypeInv
      <4> QED BY <3>3, <4>1 DEF Commit, Overlay, Lives
    <3>4. UNCHANGED folders \/ CreateFolder(r) \/ Commit(r)
      BY <2>t, <2>1, FolderActs
    <3> QED BY <3>1, <3>2, <3>3, <3>4
  <2> QED BY <2>3, <2>4
<1>2. NoResurrection <=> [][Step]_vars
  BY DEF NoResurrection
<1>3. Spec => []BaseInv
  BY BaseHolds
<1> HIDE DEF Step
<1> QED BY <1>1, <1>2, <1>3, PTL DEF Spec

-----------------------------------------------------------------------------
(* What a step does to the tables, for all operations but those that leave a  *)
(* file without its charge or a charge without its file.                      *)

\* Operations that pay for what they insert and refund what they delete.
Paying == OpNames \ {"sharesave", "admindelete"}

\* A file delete whose row is gone, and the part of it that is still to be
\* refunded to the store.
Gone(q) == q.op = "deletefile" /\ q.pc \in {"refund", "commit"}
Owes(q) == IF q.op = "deletefile" /\ q.pc = "refund" THEN Length(q.c) ELSE 0

LEMMA StepEffects ==
  ASSUME TypeInv, NEW r \in Reqs, Acts(r), req[r].op \notin {"sharesave", "admindelete"}
  PROVE  \/ UNCHANGED books /\ ~Gone(req[r]) /\ ~Gone(req'[r])
         \/ UNCHANGED books /\ Gone(req[r]) /\ Failures /\ Done(r)
         \/ DeleteRow(r) \/ DeleteRefund(r) \/ CreateFolder(r) \/ SetVolume(r) \/ Commit(r)
<1> DEFINE q == req[r]
           w == req'[r]
           Goal1 == UNCHANGED books /\ ~Gone(q) /\ ~Gone(w)
<1>q. q \in Request /\ req \in [Reqs -> Request]
  BY DEF TypeInv, TypeOK
<1>d. Done(r) => ~Gone(w)
  BY <1>q DEF Done, Idle, Gone
<1>1. CASE Arrive(r)
  <2>1. q.pc = "idle" /\ w.pc \notin {"refund", "commit"} /\ UNCHANGED books
    BY <1>1, ArriveUser
  <2>2. Goal1
    BY <2>1 DEF Gone
  <2> QED BY <2>2
<1>2. CASE Fail(r) \/ LockTimeout(r)
  BY <1>2, <1>d DEF Fail, LockTimeout,
         tables, history, books
<1>p. ASSUME Continue(r), q.op # "deletefile", UNCHANGED books PROVE Goal1
  <2>1. Done(r) \/ w.op = q.op
    BY <1>p, ContinueUser
  <2> QED BY <1>d, <1>p, <2>1 DEF Gone
<1>3. CASE LockChain(r)
  <2>1. w.pc \in {"spin", "delete", "create"} /\ q.pc = "chain" /\ UNCHANGED books
    BY <1>3, <1>q DEF LockChain, Request,
         tables, history, books
  <2> QED BY <2>1 DEF Gone
<1>4. CASE UploadTx(r) \/ MoveFileTx(r)
  <2>1. q.op # "deletefile" /\ UNCHANGED books /\ Continue(r)
    BY <1>4 DEF UploadTx, UploadSaves, MoveFileTx, At, Continue,
         tables, history, books
  <2> QED BY <1>p, <2>1
<1>5. CASE MoveFileRead2(r) \/ MoveFileRead3(r) \/ MoveFolderRead2(r) \/ MoveFolderRead3(r)
  <2>1. q.op # "deletefile" /\ UNCHANGED books /\ Continue(r)
    BY <1>5 DEF MoveFileRead2, MoveFileRead3, MoveFolderRead2, MoveFolderRead3, At, Continue,
         tables, history, books
  <2> QED BY <1>p, <2>1
<1>6. CASE MoveFolderTx(r) \/ DeleteFolderTx(r)
  <2>1. q.op # "deletefile" /\ UNCHANGED books /\ Continue(r)
    BY <1>6 DEF MoveFolderTx, DeleteFolderTx, At, Continue,
         tables, history, books
  <2> QED BY <1>p, <2>1
<1>7. ~(ShareRead2(r) \/ ShareRead3(r) \/ ShareTx(r) \/ ShareCreate(r)
        \/ AdminDeleteFind(r) \/ AdminDelete(r))
  BY DEF ShareRead2, ShareRead3, ShareTx, ShareCreate, AdminDeleteFind, AdminDelete, At
<1> QED BY <1>1, <1>2, <1>3, <1>4, <1>5, <1>6, <1>7 DEF Acts, Continue

-----------------------------------------------------------------------------
(* What a user holds and what the files of a user take up, in a table F.      *)

OwnedIn(F, u) == {f \in Files : F[f] # None /\ F[f].owner = u}
SizesIn(F) == [f \in Files |-> IF F[f] # None THEN Length(F[f].md5) ELSE 0]
UsedIn(F, u) == SumFunctionOnSet(SizesIn(F), OwnedIn(F, u))
HoldsIn(F, u) == {F[f].md5 : f \in OwnedIn(F, u)}

LEMMA SizesType == \A F : \A S \in SUBSET Files : IsFiniteSet(S) /\ Weighs(SizesIn(F), S)
<1> TAKE F
<1> TAKE S \in SUBSET Files
<1>1. IsFiniteSet(S)
  BY StorageAssumption, FS_Subset
<1>2. \A f \in Files : SizesIn(F)[f] \in Nat
  BY LengthType DEF SizesIn
<1> QED BY <1>1, <1>2 DEF Weighs

LEMMA UsedNat == \A F, u : UsedIn(F, u) \in Nat
<1> TAKE F, u
<1>1. OwnedIn(F, u) \in SUBSET Files
  BY DEF OwnedIn
<1> QED BY <1>1, SizesType, SumNat DEF UsedIn

\* A table that has the same files of u's, wherever they are.
LEMMA OwnedSame ==
  ASSUME NEW F, NEW G, NEW u, OwnedIn(G, u) = OwnedIn(F, u),
         \A f \in OwnedIn(F, u) : G[f].md5 = F[f].md5
  PROVE  UsedIn(G, u) = UsedIn(F, u) /\ HoldsIn(G, u) = HoldsIn(F, u)
<1> DEFINE S == OwnedIn(F, u)
<1>1. S \in SUBSET Files /\ \A f \in S : F[f] # None /\ G[f] # None
  BY DEF OwnedIn
<1>2. \A f \in S : SizesIn(G)[f] = SizesIn(F)[f]
  BY <1>1 DEF SizesIn
<1>3. IsFiniteSet(S) /\ Weighs(SizesIn(G), S)
  BY <1>1, SizesType
<1>4. HoldsIn(G, u) = HoldsIn(F, u)
  BY DEF HoldsIn
<1> HIDE DEF S
<1>5. SumFunctionOnSet(SizesIn(G), S) = SumFunctionOnSet(SizesIn(F), S)
  BY <1>2, <1>3, SumSame
<1> QED BY <1>4, <1>5 DEF UsedIn, S

\* A new row, and one that is gone.
LEMMA OwnedAdd ==
  ASSUME NEW F, NEW x \in Files, F[x] = None, NEW row \in FileRow, NEW u, row.owner = u,
         NEW G, G[x] = row, \A f \in Files \ {x} : G[f] = F[f]
  PROVE  /\ UsedIn(G, u) = UsedIn(F, u) + Length(row.md5)
         /\ HoldsIn(G, u) = HoldsIn(F, u) \cup {row.md5}
<1> DEFINE S == OwnedIn(F, u)
<1>1. G[x] = row /\ row # None /\ \A f \in Files \ {x} : G[f] = F[f]
  BY NoneIsNoFile
<1>2. OwnedIn(G, u) = S \cup {x} /\ x \notin S /\ S \in SUBSET Files
  BY <1>1 DEF OwnedIn
<1>3. HoldsIn(G, u) = HoldsIn(F, u) \cup {row.md5}
  <2>1. HoldsIn(G, u) = {G[f].md5 : f \in S \cup {x}}
    BY <1>2 DEF HoldsIn
  <2>2. \A f \in S : G[f] = F[f]
    BY <1>1, <1>2
  <2>3. HoldsIn(F, u) = {F[f].md5 : f \in S}
    BY DEF HoldsIn
  <2>4. {G[f].md5 : f \in S \cup {x}} = {G[f].md5 : f \in S} \cup {G[x].md5}
    OBVIOUS
  <2>5. {G[f].md5 : f \in S} = {F[f].md5 : f \in S}
    BY <2>2
  <2> QED BY <1>1, <2>1, <2>3, <2>4, <2>5
<1>4. S \cup {x} \in SUBSET Files
  BY <1>2
<1>5. \A f \in S : SizesIn(G)[f] = SizesIn(F)[f]
  BY <1>1, <1>2 DEF SizesIn
<1>6. SizesIn(G)[x] = Length(row.md5)
  BY <1>1 DEF SizesIn
<1> HIDE DEF S
<1>7. SumFunctionOnSet(SizesIn(G), S \cup {x}) = SumFunctionOnSet(SizesIn(G), S) + SizesIn(G)[x]
  BY <1>2, <1>4, SizesType, SumAdd
<1>8. SumFunctionOnSet(SizesIn(G), S) = SumFunctionOnSet(SizesIn(F), S)
  BY <1>2, <1>5, SizesType, SumSame
<1>9. UsedIn(G, u) = UsedIn(F, u) + Length(row.md5)
  BY <1>2, <1>6, <1>7, <1>8 DEF UsedIn, S
<1> QED BY <1>3, <1>9

LEMMA OwnedDrop ==
  ASSUME NEW F, NEW x \in Files, F[x] # None, NEW u, F[x].owner = u,
         NEW G, G[x] = None, \A f \in Files \ {x} : G[f] = F[f],
         \A f, y \in Files : F[f] # None /\ F[y] # None /\ F[f].md5 = F[y].md5 => f = y
  PROVE  /\ UsedIn(F, u) = UsedIn(G, u) + Length(F[x].md5)
         /\ HoldsIn(G, u) = HoldsIn(F, u) \ {F[x].md5}
         /\ F[x].md5 \in HoldsIn(F, u)
<1> DEFINE S == OwnedIn(G, u)
<1>1. G[x] = None /\ \A f \in Files \ {x} : G[f] = F[f]
  OBVIOUS
<1>2. OwnedIn(F, u) = S \cup {x} /\ x \notin S /\ S \in SUBSET Files /\ S \cup {x} \in SUBSET Files
  BY <1>1 DEF OwnedIn
<1>3. \A f \in S : G[f] = F[f] /\ F[f].md5 # F[x].md5
  BY <1>1, <1>2 DEF OwnedIn
<1>4. HoldsIn(G, u) = HoldsIn(F, u) \ {F[x].md5} /\ F[x].md5 \in HoldsIn(F, u)
  <2>1. HoldsIn(F, u) = {F[f].md5 : f \in S \cup {x}}
    BY <1>2 DEF HoldsIn
  <2>2. HoldsIn(G, u) = {G[f].md5 : f \in S}
    BY DEF HoldsIn
  <2>s. \A f \in S : G[f] = F[f]
    BY <1>3
  <2> HIDE DEF S
  <2>3. {G[f].md5 : f \in S} = {F[f].md5 : f \in S}
    BY <2>s
  <2>4. {F[f].md5 : f \in S \cup {x}} = {F[f].md5 : f \in S} \cup {F[x].md5}
    OBVIOUS
  <2>5. F[x].md5 \notin {F[f].md5 : f \in S}
    BY <1>3
  <2> QED BY <2>1, <2>2, <2>3, <2>4, <2>5
<1>5. \A f \in S : SizesIn(G)[f] = SizesIn(F)[f]
  BY <1>2, <1>3 DEF SizesIn
<1>6. SizesIn(F)[x] = Length(F[x].md5)
  BY DEF SizesIn
<1> HIDE DEF S
<1>7. SumFunctionOnSet(SizesIn(F), S \cup {x}) = SumFunctionOnSet(SizesIn(F), S) + SizesIn(F)[x]
  BY <1>2, SizesType, SumAdd
<1>8. SumFunctionOnSet(SizesIn(G), S) = SumFunctionOnSet(SizesIn(F), S)
  BY <1>2, <1>5, SizesType, SumSame
<1>9. UsedIn(F, u) = UsedIn(G, u) + Length(F[x].md5)
  BY <1>2, <1>6, <1>7, <1>8 DEF UsedIn, S
<1> QED BY <1>4, <1>9

\* What is owed to a user by requests Q.
RefundIn(Q, u) ==
  SumFunctionOnSet([r \in Reqs |-> Length(Q[r].c)],
                   {r \in Reqs : Q[r].op = "deletefile" /\ Q[r].pc = "refund" /\ Q[r].user = u})

LEMMA RefundNone ==
  ASSUME NEW Q, NEW u, \A x \in Reqs : Q[x].user # u
  PROVE  RefundIn(Q, u) = 0
<1>1. {r \in Reqs : Q[r].op = "deletefile" /\ Q[r].pc = "refund" /\ Q[r].user = u} = {}
  OBVIOUS
<1> QED BY <1>1, SumEmpty DEF RefundIn

LEMMA RefundOne ==
  ASSUME NEW Q, NEW r \in Reqs, NEW u, Q[r].user = u, \A x \in Reqs : Q[x].user = u => x = r
  PROVE  RefundIn(Q, u) = Owes(Q[r])
<1> DEFINE S == {x \in Reqs : Q[x].op = "deletefile" /\ Q[x].pc = "refund" /\ Q[x].user = u}
           w == [x \in Reqs |-> Length(Q[x].c)]
<1>1. CASE Q[r].op = "deletefile" /\ Q[r].pc = "refund"
  <2>1. S = {r}
    BY <1>1
  <2>2. w[r] = Length(Q[r].c) /\ w[r] \in Nat
    BY LengthType
  <2> HIDE DEF w, S
  <2>3. SumFunctionOnSet(w, S) = Length(Q[r].c)
    BY <2>1, <2>2, SumOne
  <2> QED BY <1>1, <2>3 DEF RefundIn, Owes, w, S
<1>2. CASE ~(Q[r].op = "deletefile" /\ Q[r].pc = "refund")
  <2>1. S = {}
    BY <1>2
  <2> HIDE DEF w, S
  <2>2. SumFunctionOnSet(w, S) = 0
    BY <2>1, SumEmpty
  <2> QED BY <1>2, <2>2 DEF RefundIn, Owes, w, S
<1> QED BY <1>1, <1>2

\* Only the acting request's user can be owed more or less.
LEMMA RefundStep ==
  ASSUME TypeInv, Settled, Solo, PerUser = 1, NEW r \in Reqs, Acts(r), NEW v \in Users
  PROVE  IF v = req[r].user
         THEN RefundIn(req, v) = Owes(req[r]) /\ RefundIn(req', v) = Owes(req'[r])
         ELSE RefundIn(req', v) = RefundIn(req, v)
<1>r. req \in [Reqs -> Request] /\ v # None
  BY StorageAssumption DEF TypeInv, TypeOK
<1>s. Solo'
  BY SoloStep
<1>o. \A x \in Reqs \ {r} : req'[x] = req[x]
  BY OneActs DEF Acts
<1>1. CASE v = req[r].user
  <2>1. \A x \in Reqs : req[x].user = v => x = r
    BY <1>1, <1>r DEF Solo
  <2>2. RefundIn(req, v) = Owes(req[r])
    BY <1>1, <2>1, RefundOne
  <2>3. CASE req'[r].user = v
    <3>1. \A x \in Reqs : req'[x].user = v => x = r
      BY <1>o, <2>1
    <3>2. RefundIn(req', v) = Owes(req'[r])
      BY <2>3, <3>1, RefundOne
    <3> QED BY <1>1, <2>2, <3>2
  <2>4. CASE req'[r].user # v
    <3>1. ~Arrive(r)
      BY <1>1, <1>r, ArriveUser DEF Settled, Idle
    <3>2. Done(r)
      BY <1>1, <2>4, <3>1, ContinueUser DEF Acts, Fail, LockTimeout
    <3>3. Owes(req'[r]) = 0
      BY <1>r, <3>2 DEF Done, Idle, Owes
    <3>4. \A x \in Reqs : req'[x].user # v
      BY <1>o, <2>1, <2>4
    <3> QED BY <1>1, <2>2, <3>3, <3>4, RefundNone
  <2> QED BY <2>3, <2>4
<1>2. CASE v # req[r].user /\ v = req'[r].user
  <2>1. Arrive(r)
    <3>1. Done(r) => req'[r].user = None
      BY <1>r DEF Done, Idle
    <3> QED BY <1>2, <1>r, <3>1, ContinueUser DEF Acts, Fail, LockTimeout
  <2>2. \A x \in Reqs : req[x].user # v
    BY <1>2, <2>1, ArriveAlike
  <2>3. \A x \in Reqs : req'[x].user = v => x = r
    BY <1>o, <2>2
  <2>4. RefundIn(req', v) = Owes(req'[r])
    BY <1>2, <2>3, RefundOne
  <2>5. Owes(req'[r]) = 0
    BY <2>1, ArriveUser DEF Owes
  <2>6. RefundIn(req, v) = 0
    BY <2>2, RefundNone
  <2> QED BY <1>2, <2>4, <2>5, <2>6
<1>3. CASE v # req[r].user /\ v # req'[r].user
  <2> DEFINE S(Q) == {x \in Reqs : Q[x].op = "deletefile" /\ Q[x].pc = "refund" /\ Q[x].user = v}
             w(Q) == [x \in Reqs |-> Length(Q[x].c)]
  <2>1. S(req') = S(req)
    BY <1>3, <1>o
  <2>2. \A x \in S(req) : w(req)[x] = w(req')[x]
    BY <1>3, <1>o
  <2>3. IsFiniteSet(S(req)) /\ Weighs(w(req), S(req))
    BY StorageAssumption, FS_Subset, LengthType DEF Weighs
  <2>4. RefundIn(req, v) = SumFunctionOnSet(w(req), S(req))
        /\ RefundIn(req', v) = SumFunctionOnSet(w(req'), S(req'))
    BY DEF RefundIn
  <2> HIDE DEF S, w
  <2>5. SumFunctionOnSet(w(req), S(req)) = SumFunctionOnSet(w(req'), S(req))
    BY <2>2, <2>3, SumSame
  <2> QED BY <1>3, <2>1, <2>4, <2>5
<1> QED BY <1>1, <1>2, <1>3

LEMMA OwesNat == \A q : Owes(q) \in Nat
BY LengthType DEF Owes

\* The files of another user stay where they are.
LEMMA OthersFiles ==
  ASSUME TypeInv, "sharesave" \notin Ops, RowsOK(born, files), RowsOK(born', files'),
         NEW r \in Reqs, FileSteps(r), NEW v \in Users, v # req[r].user
  PROVE  /\ OwnedIn(files', v) = OwnedIn(files, v)
         /\ \A f \in OwnedIn(files, v) : files'[f] = files[f]
<1>t. /\ files \in [Files -> FileRow \cup {None}]
      /\ born \in [Files \cup Folders -> Users \cup {None}]
  BY DEF TypeInv, TypeOK
<1>1. \A f \in Files : born[f] = v => born'[f] = v /\ files'[f] = files[f]
  BY FileFrame
<1>2. \A f \in Files : born'[f] = v => born[f] = v
  BY <1>t DEF FileSteps, Dropping, InsertingRow, Refiling
<1>3. \A f \in Files : /\ files[f] # None => files[f].owner = born[f]
                       /\ files'[f] # None => files'[f].owner = born'[f]
  BY DEF RowsOK
<1> QED BY <1>1, <1>2, <1>3 DEF OwnedIn

-----------------------------------------------------------------------------
(* The ledger.                                                               *)

\* The operations whose every step, wherever it fails, is one of the ledger.
Booking == Paying \ {"deletefolder"}

\* A user is charged for what the user's files take up and for what is still to
\* be refunded; and what a delete has given up is not there again.
Covered == \A u \in Users : stores[u].current >= UsedIn(files, u) + RefundIn(req, u)

GivenUp ==
  \A r \in Reqs : Gone(req[r]) =>
    /\ req[r].c \in Contents
    /\ \A f \in Files : files[f] # None /\ born[f] = req[r].user => files[f].md5 # req[r].c

LedgerInv == Covered /\ GivenUp

\* What the step of a request on u's account does to u's entry of the ledger.
Stays(u) ==
  /\ HoldsIn(files', u) = HoldsIn(files, u) /\ stores'[u].max = stores[u].max
  /\ stores'[u].current - RefundIn(req', u) = stores[u].current - RefundIn(req, u)

Stores(u) ==
  \E c \in Contents :
    /\ \A v \in Users : c \notin HoldsIn(files, v)
    /\ stores[u].current - RefundIn(req, u) + SizeOf[c] <= stores[u].max
    /\ HoldsIn(files', u) = HoldsIn(files, u) \cup {c} /\ stores'[u].max = stores[u].max
    /\ stores'[u].current - RefundIn(req', u) = stores[u].current - RefundIn(req, u) + SizeOf[c]

Discards(u) ==
  \E S \in SUBSET HoldsIn(files, u) :
    /\ HoldsIn(files', u) = HoldsIn(files, u) \ S /\ stores'[u].max = stores[u].max
    /\ stores'[u].current - RefundIn(req', u)
         = stores[u].current - RefundIn(req, u) - SumFunctionOnSet(SizeOf, S)

Forfeits(u) ==
  /\ Failures
  /\ \E c \in Contents :
       /\ c \notin HoldsIn(files, u)
       /\ HoldsIn(files', u) = HoldsIn(files, u) /\ stores'[u].max = stores[u].max
       /\ stores'[u].current - RefundIn(req', u) = stores[u].current - RefundIn(req, u) + SizeOf[c]

Grants(u) ==
  \E v \in Volumes :
    /\ HoldsIn(files', u) = HoldsIn(files, u) /\ stores'[u].max = v
    /\ stores'[u].current - RefundIn(req', u) = stores[u].current - RefundIn(req, u)

Books(u) == Stays(u) \/ Stores(u) \/ Discards(u) \/ Forfeits(u) \/ Grants(u)

\* The step in terms of what u's files take up.
Balances(u) == stores'[u].current >= UsedIn(files', u) + RefundIn(req', u)

\* The commit of a folder delete, where there is one, is a step of the ledger.
FolderBooks(r) ==
  Commit(r) /\ req[r].op = "deletefolder" => Discards(req[r].user) /\ Balances(req[r].user)

LEMMA OthersBooks ==
  ASSUME BaseInv, BaseInv', Covered, PerUser = 1, "sharesave" \notin Ops,
         NEW r \in Reqs, Acts(r), FileSteps(r), NEW v \in Users, v # req[r].user
  PROVE  Stays(v) /\ Balances(v)
<1>b. TypeInv /\ KeptIdInv /\ Settled /\ Solo /\ RowsOK(born, files) /\ RowsOK(born', files')
  BY DEF BaseInv, SoloInv, FileInv
<1>1. OwnedIn(files', v) = OwnedIn(files, v) /\ \A f \in OwnedIn(files, v) : files'[f] = files[f]
  BY <1>b, OthersFiles
<1>2. UsedIn(files', v) = UsedIn(files, v) /\ HoldsIn(files', v) = HoldsIn(files, v)
  BY <1>1, OwnedSame
<1>3. stores'[v] = stores[v]
  BY <1>b, FolderFrame
<1>4. RefundIn(req', v) = RefundIn(req, v)
  BY <1>b, RefundStep
<1> QED BY <1>2, <1>3, <1>4 DEF Stays, Balances, Covered

\* What a commit does to the file rows and the store of its user.
LEMMA CommitBooks ==
  ASSUME BaseInv, NEW r \in Reqs, Commit(r), req[r].op \in Booking
  PROVE  LET u == req[r].user
         IN  /\ UsedIn(files', u) + stores[u].current = UsedIn(files, u) + stores'[u].current
             /\ \/ Stores(u) \/ Stays(u)
<1> DEFINE q == req[r]
           u == q.user
<1>b. /\ TypeInv /\ Settled /\ Solo /\ RowsOK(born, files) /\ KeptInv /\ IdInv /\ FileInv
      /\ Knows(born, files, stores, q) /\ DirFresh(born, folders, q) /\ q \in Request /\ ReqOK(q)
      /\ UploadsOK
  BY DEF BaseInv, SoloInv, FileInv, DirInv, TypeInv, TypeOK, KeptIdInv
<1>t. /\ files \in [Files -> FileRow \cup {None}] /\ stores \in [Users -> StoreRow]
  BY <1>b DEF TypeInv, TypeOK
<1>c. q.pc = "commit" /\ u \in Users /\ Done(r)
  BY <1>b DEF Commit, ReqOK
<1>o. q.op \in Booking
  OBVIOUS
<1>n. ASSUME TypeInv PROVE Solo /\ u # None
  BY <1>b, <1>c, StorageAssumption
<1>r. RefundIn(req, u) = 0 /\ RefundIn(req', u) = 0
  <2>1. Owes(q) = 0
    BY <1>c DEF Owes
  <2>2. RefundIn(req, u) = 0
    BY <2>1, <1>b, <1>c, <1>n, RefundOne DEF Solo
  <2>3. \A x \in Reqs : req'[x].user # u
    BY <1>b, <1>c, <1>n DEF Done, Idle, Solo, TypeInv, TypeOK
  <2> QED BY <2>2, <2>3, RefundNone
<1>k. files = [f \in Files |-> IF files[f] # None /\ files[f].folder \in q.out.purge
                               THEN None ELSE files[f]]
  <2>1. q.out.purge = {}
    BY <1>b, <1>o DEF DirFresh, Booking
  <2> QED BY <1>t, <2>1
<1>s. UsedIn(files, u) \in Nat /\ stores[u].current \in Nat /\ stores[u] \in StoreRow
  BY <1>t, <1>c, UsedNat DEF StoreRow
<1>1. CASE q.op = "upload"
  <2> DEFINE row == [owner |-> u, md5 |-> q.c, folder |-> q.g]
             x == NewId(Files)
  <2>1. /\ q.out.insert = row /\ q.c \in Contents /\ q.g \in Folders
        /\ q.out.store = AddCurrentSize(stores[u], Length(q.c))
        /\ stores[u].current + Length(q.c) <= stores[u].max
    BY <1>1, <1>b, <1>c DEF Knows, UploadKnows, ReqOK
  <2>2. row \in FileRow /\ row.owner = u /\ row.md5 = q.c /\ row # None
    BY <1>c, <2>1, NoneIsNoFile DEF FileRow
  <2>3. x \in Files /\ files[x] = None
    <3>1. r \in Pending(Inserting)
      BY <1>1 DEF Pending, Inserting, At
    <3> QED BY <3>1, <1>b, FreshFile
  <2> HIDE DEF x, row
  <2>a. files' = [files EXCEPT ![x] = row]
    BY <1>k, <2>1, <2>2 DEF Commit, x
  <2>4. files'[x] = row /\ \A f \in Files \ {x} : files'[f] = files[f]
    BY <1>t, <2>3, <2>a
  <2>5. /\ UsedIn(files', u) = UsedIn(files, u) + Length(q.c)
        /\ HoldsIn(files', u) = HoldsIn(files, u) \cup {q.c}
    <3>1. /\ UsedIn(files', u) = UsedIn(files, u) + Length(row.md5)
          /\ HoldsIn(files', u) = HoldsIn(files, u) \cup {row.md5}
      <4> HIDE DEF u
      <4> QED BY <2>2, <2>3, <2>4, OwnedAdd
    <3> QED BY <2>2, <3>1
  <2>6. ~Taken(q.c)
    BY <1>1, <1>b, <1>c DEF UploadsOK, At
  <2>7. \A v \in Users : q.c \notin HoldsIn(files, v)
    BY <2>6 DEF Taken, HoldsIn, OwnedIn
  <2>8. Length(q.c) = SizeOf[q.c] /\ Length(q.c) \in Nat
    BY <2>1, LengthType DEF Length
  <2>9. stores'[u] = [stores[u] EXCEPT !.current = @ + Length(q.c)]
    <3>1. q.out.store # None
      BY <1>s, <2>1, <2>8, ChargeType, StoreIsARow
    <3>2. stores' = [stores EXCEPT ![u] = q.out.store]
      BY <3>1 DEF Commit
    <3>3. AddCurrentSize(stores[u], Length(q.c)) = [stores[u] EXCEPT !.current = @ + Length(q.c)]
      BY <1>s, <2>1, <2>8 DEF AddCurrentSize, StoreRow
    <3> QED BY <1>c, <1>t, <2>1, <3>2, <3>3
  <2>10. stores'[u].current = stores[u].current + Length(q.c) /\ stores'[u].max = stores[u].max
    BY <1>s, <2>9 DEF StoreRow
  <2>11. Stores(u)
    BY <1>r, <1>s, <2>1, <2>5, <2>7, <2>8, <2>10 DEF Stores
  <2> QED BY <1>s, <2>5, <2>8, <2>10, <2>11
<1>2. CASE q.op # "upload"
  <2>1. q.out.insert = None /\ q.out.store = None
    BY <1>2, <1>b, <1>o DEF Knows, Booking, Paying
  <2>2. UNCHANGED stores
    BY <2>1 DEF Commit
  <2>3. UsedIn(files', u) = UsedIn(files, u) /\ HoldsIn(files', u) = HoldsIn(files, u)
    <3>1. CASE q.op # "movefile"
      <4>1. q.out.moved = None
        BY <3>1, <1>b DEF Knows
      <4>2. files' = files
        BY <1>k, <2>1, <4>1 DEF Commit
      <4> QED BY <4>2
    <3>2. CASE q.op = "movefile"
      <4> DEFINE row == [q.file EXCEPT !.folder = q.to]
      <4>1. /\ q.f \in Files /\ files[q.f] = q.file /\ q.file \in FileRow
            /\ q.out.moved = row
        BY <3>2, <1>b, <1>c DEF Knows, MoveKnows
      <4>2. row.owner = q.file.owner /\ row.md5 = q.file.md5 /\ row \in FileRow
        BY <3>2, <4>1, <1>b, <1>c DEF FileRow, ReqOK
      <4> HIDE DEF row
      <4>3. SaveTarget(q.f, q.out.moved) = q.f
        BY <4>1, NoneIsNoFile DEF SaveTarget
      <4>4. files' = [files EXCEPT ![q.f] = row]
        BY <1>k, <2>1, <4>1, <4>2, <4>3, NoneIsNoFile DEF Commit
      <4>5. OwnedIn(files', u) = OwnedIn(files, u) /\ \A f \in OwnedIn(files, u) : files'[f].md5 = files[f].md5
        BY <1>t, <4>1, <4>2, <4>4, NoneIsNoFile DEF OwnedIn
      <4> QED BY <4>5, OwnedSame
    <3> QED BY <3>1, <3>2
  <2> QED BY <1>r, <1>s, <2>2, <2>3 DEF Stays
<1> QED BY <1>1, <1>2

LEMMA OwnBooks ==
  ASSUME BaseInv, LedgerInv, PerUser = 1, Ops \subseteq Paying,
         NEW r \in Reqs, Acts(r), FolderBooks(r), req[r].user \in Users
  PROVE  Books(req[r].user) /\ Balances(req[r].user)
<1> DEFINE q == req[r]
           u == q.user
<1>b. /\ TypeInv /\ Settled /\ Solo /\ RowsOK(born, files) /\ KeptIdInv /\ FileInv
      /\ Knows(born, files, stores, q) /\ q \in Request /\ ReqOK(q) /\ req \in [Reqs -> Request]
      /\ Covered /\ GivenUp
  BY DEF BaseInv, SoloInv, FileInv, DirInv, TypeInv, TypeOK, LedgerInv
<1>t. /\ files \in [Files -> FileRow \cup {None}] /\ stores \in [Users -> StoreRow]
  BY <1>b DEF TypeInv, TypeOK
<1>r. /\ RefundIn(req, u) = Owes(q) /\ RefundIn(req', u) = Owes(req'[r])
      /\ Owes(q) \in Nat /\ Owes(req'[r]) \in Nat
  BY <1>b, RefundStep, OwesNat
<1>s. /\ UsedIn(files, u) \in Nat /\ UsedIn(files', u) \in Nat
      /\ stores[u].current \in Nat /\ stores[u] \in StoreRow
      /\ stores[u].current >= UsedIn(files, u) + Owes(q)
  BY <1>b, <1>r, <1>t, UsedNat DEF StoreRow, Covered
<1>d. Done(r) => Owes(req'[r]) = 0
  BY <1>b DEF Done, Idle, Owes
<1>o. q.op \notin {"sharesave", "admindelete"}
  BY <1>b DEF Knows, Paying
<1>1. CASE UNCHANGED books /\ ~Gone(q) /\ ~Gone(req'[r])
  <2>1. Owes(q) = 0 /\ Owes(req'[r]) = 0
    BY <1>1 DEF Owes, Gone
  <2> QED BY <1>1, <1>r, <1>s, <2>1 DEF books, Books, Stays, Balances
<1>2. CASE UNCHANGED books /\ Gone(q) /\ Failures /\ Done(r)
  <2>1. CASE q.pc = "refund"
    <3>1. q.c \in Contents /\ \A f \in Files : files[f] # None /\ born[f] = u => files[f].md5 # q.c
      BY <1>2, <1>b DEF GivenUp
    <3>2. "sharesave" \notin Ops
      BY DEF Paying
    <3>3. q.c \notin HoldsIn(files, u)
      BY <1>b, <3>1, <3>2 DEF HoldsIn, OwnedIn, RowsOK
    <3>4. Owes(q) = SizeOf[q.c]
      BY <1>2, <2>1, <3>1 DEF Owes, Gone, Length
    <3>5. Forfeits(u)
      BY <1>2, <1>d, <1>r, <1>s, <3>1, <3>3, <3>4 DEF Forfeits, books
    <3> QED BY <1>2, <1>d, <1>r, <1>s, <3>5 DEF Books, Balances, books
  <2>2. CASE q.pc # "refund"
    BY <1>2, <1>d, <1>r, <1>s, <2>2 DEF Owes, Books, Stays, Balances, books
  <2> QED BY <2>1, <2>2
<1>3. CASE DeleteRow(r)
  <2>1. /\ q.op = "deletefile" /\ q.pc = "delete" /\ UNCHANGED stores
        /\ files' = [files EXCEPT ![q.f] = None]
        /\ req'[r].op = "deletefile" /\ req'[r].pc = "refund" /\ req'[r].c = q.c
    BY <1>3, <1>b DEF DeleteRow, At, Request
  <2>2. /\ q.f \in Files /\ files[q.f] = q.file /\ q.file \in FileRow /\ q.file.owner = u
        /\ q.c = q.file.md5
    BY <1>b, <2>1 DEF Knows, DeleteKnows
  <2>3. \A f, y \in Files : files[f] # None /\ files[y] # None /\ files[f].md5 = files[y].md5 => f = y
    BY <1>b DEF RowsOK
  <2>4. /\ UsedIn(files, u) = UsedIn(files', u) + Length(q.c)
        /\ HoldsIn(files', u) = HoldsIn(files, u) \ {q.c} /\ q.c \in HoldsIn(files, u)
    <3>0. files'[q.f] = None /\ \A f \in Files \ {q.f} : files'[f] = files[f]
      BY <1>t, <2>1, <2>2
    <3>1. files[q.f] # None /\ files[q.f].owner = u /\ files[q.f].md5 = q.c
      BY <2>2, NoneIsNoFile
    <3>2. /\ UsedIn(files, u) = UsedIn(files', u) + Length(files[q.f].md5)
          /\ HoldsIn(files', u) = HoldsIn(files, u) \ {files[q.f].md5}
          /\ files[q.f].md5 \in HoldsIn(files, u)
      <4> HIDE DEF u
      <4> QED BY <2>2, <2>3, <3>1, <3>0, OwnedDrop
    <3> QED BY <3>1, <3>2
  <2>5. q.c \in Contents
    BY <1>b, <2>2, NoneIsNoFile DEF RowsOK, Paying
  <2>6. Owes(q) = 0 /\ Owes(req'[r]) = Length(q.c) /\ Length(q.c) = SizeOf[q.c]
    BY <2>1, <2>5 DEF Owes, Length
  <2>7. Discards(u)
    <3>1. /\ stores'[u].max = stores[u].max
          /\ stores'[u].current - RefundIn(req', u) = stores[u].current - RefundIn(req, u) - SizeOf[q.c]
      BY <1>r, <1>s, <2>1, <2>6
    <3>2. SumFunctionOnSet(SizeOf, {q.c}) = SizeOf[q.c]
      BY <2>5, StorageAssumption, SumOne
    <3>3. {q.c} \in SUBSET HoldsIn(files, u)
      BY <2>4
    <3> HIDE DEF u
    <3> QED BY <2>4, <3>1, <3>2, <3>3 DEF Discards
  <2> QED BY <1>r, <1>s, <2>1, <2>4, <2>6, <2>7 DEF Books, Balances
<1>4. CASE DeleteRefund(r)
  <2>1. /\ q.op = "deletefile" /\ q.pc = "refund" /\ UNCHANGED files
        /\ stores' = [stores EXCEPT ![u] = SubCurrentSize(q.store, Length(q.c))]
        /\ req'[r].pc = "commit"
    BY <1>4, <1>b DEF DeleteRefund, At, Request
  <2>2. q.store = stores[u]
    BY <1>b, <2>1 DEF Knows, DeleteKnows
  <2>3. Owes(q) = Length(q.c) /\ Owes(req'[r]) = 0
    BY <2>1 DEF Owes
  <2>4. stores'[u] = [stores[u] EXCEPT !.current = @ - Length(q.c)]
    BY <1>r, <1>s, <1>t, <2>1, <2>2, <2>3 DEF SubCurrentSize, StoreRow
  <2>5. stores'[u].current = stores[u].current - Length(q.c) /\ stores'[u].max = stores[u].max
    BY <1>s, <2>4 DEF StoreRow
  <2> QED BY <1>r, <1>s, <2>1, <2>3, <2>5 DEF Books, Stays, Balances
<1>5. CASE CreateFolder(r)
  <2>1. UNCHANGED <<files, stores>> /\ Owes(q) = 0 /\ Owes(req'[r]) = 0
    BY <1>5, <1>d DEF CreateFolder, At, Owes
  <2> QED BY <1>r, <1>s, <2>1 DEF Books, Stays, Balances
<1>6. CASE SetVolume(r)
  <2>1. /\ q.op = "setvolume" /\ UNCHANGED files /\ Owes(q) = 0 /\ Owes(req'[r]) = 0
        /\ stores' = [stores EXCEPT ![u] = [q.store EXCEPT !.max = q.vol]]
    BY <1>6, <1>d DEF SetVolume, At, Owes
  <2>2. q.store = stores[u] /\ q.vol \in Volumes
    BY <1>b, <2>1 DEF Knows, GrantKnows
  <2>3. stores'[u] = [stores[u] EXCEPT !.max = q.vol]
    BY <1>t, <2>1, <2>2
  <2>4. stores'[u].current = stores[u].current /\ stores'[u].max = q.vol
    BY <1>s, <2>3 DEF StoreRow
  <2>5. Grants(u)
    BY <1>r, <1>s, <2>1, <2>2, <2>4 DEF Grants
  <2> QED BY <1>r, <1>s, <2>1, <2>4, <2>5 DEF Books, Balances
<1>7. CASE Commit(r) /\ q.op = "deletefolder"
  BY <1>7 DEF FolderBooks, Books
<1>8. CASE Commit(r) /\ q.op # "deletefolder"
  <2>1. /\ UsedIn(files', u) + stores[u].current = UsedIn(files, u) + stores'[u].current
        /\ Stores(u) \/ Stays(u)
    <3>1. q.op \in Booking
      BY <1>8, <1>b DEF Commit, Knows, BaseInv, SoloInv, DirInv, DirFresh, Booking
    <3> QED BY <1>8, <1>b, <3>1, CommitBooks
  <2>2. Owes(q) = 0 /\ Owes(req'[r]) = 0 /\ stores'[u].current \in Nat
    <3>1. TypeInv'
      BY <1>b, NextType DEF Acts, Next
    <3> QED BY <1>8, <1>d, <3>1 DEF Commit, Owes, TypeInv, TypeOK, StoreRow
  <2> QED BY <1>r, <1>s, <2>1, <2>2 DEF Books, Balances
<1> QED BY <1>1, <1>2, <1>3, <1>4, <1>5, <1>6, <1>7, <1>8, <1>b, <1>o, StepEffects

\* What a delete has given up stays away until the delete is over.
LEMMA GivenUpStep ==
  ASSUME BaseInv, BaseInv', LedgerInv, PerUser = 1, Ops \subseteq Paying,
         NEW r \in Reqs, Acts(r), FileSteps(r)
  PROVE  GivenUp'
<1> DEFINE q == req[r]
<1>b. /\ TypeInv /\ Settled /\ Solo /\ RowsOK(born, files) /\ KeptIdInv /\ FileInv
      /\ Knows(born, files, stores, q) /\ q \in Request /\ ReqOK(q) /\ req \in [Reqs -> Request]
      /\ Covered /\ GivenUp /\ ReqOK(q)
  BY DEF BaseInv, SoloInv, FileInv, DirInv, TypeInv, TypeOK, LedgerInv
<1>t. /\ files \in [Files -> FileRow \cup {None}]
      /\ born \in [Files \cup Folders -> Users \cup {None}]
  BY <1>b DEF TypeInv, TypeOK
<1> SUFFICES ASSUME NEW x \in Reqs, Gone(req'[x])
             PROVE  /\ req'[x].c \in Contents
                    /\ \A f \in Files : files'[f] # None /\ born'[f] = req'[x].user
                         => files'[f].md5 # req'[x].c
  BY DEF GivenUp
<1>1. CASE x # r
  <2>1. req'[x] = req[x] /\ Gone(req[x])
    BY <1>1, <1>b, OneActs DEF Acts
  <2>2. req[x].user \in Users /\ req[x].user # q.user
    BY <1>1, <1>b, <2>1, OthersUser DEF Gone
  <2>3. \A f \in Files : born[f] = req[x].user => born'[f] = req[x].user /\ files'[f] = files[f]
    BY <1>b, <2>2, FileFrame
  <2>4. \A f \in Files : born'[f] = req[x].user => born[f] = req[x].user
    BY <1>t, <2>2 DEF FileSteps, Dropping, InsertingRow, Refiling
  <2> QED BY <1>b, <2>1, <2>3, <2>4 DEF GivenUp
<1>2. CASE x = r
  <2>o. q.op \notin {"sharesave", "admindelete"}
    BY <1>b DEF Knows, Paying
  <2>d. ~Done(r)
    BY <1>2, <1>b DEF Done, Idle, Gone
  <2>1. CASE DeleteRow(r)
    <3>1. /\ q.op = "deletefile" /\ q.pc = "delete" /\ UNCHANGED born
          /\ files' = [files EXCEPT ![q.f] = None]
          /\ req'[r].c = q.c
      BY <2>1, <1>b DEF DeleteRow, At, Request, history
    <3>2. /\ q.f \in Files /\ files[q.f] = q.file /\ q.file \in FileRow /\ q.c = q.file.md5
      BY <1>b, <3>1 DEF Knows, DeleteKnows
    <3>3. q.c \in Contents /\ \A f \in Files : files[f] # None /\ files[f].md5 = q.c => f = q.f
      BY <1>b, <3>2, NoneIsNoFile DEF RowsOK, Paying
    <3> QED BY <1>2, <1>t, <3>1, <3>2, <3>3
  <2>2. CASE DeleteRefund(r)
    <3>1. /\ Gone(q) /\ UNCHANGED <<files, born>> /\ req'[r].c = q.c /\ req'[r].user = q.user
      BY <2>2, <1>b DEF DeleteRefund, At, Request, history, Gone
    <3> QED BY <1>2, <1>b, <3>1 DEF GivenUp
  <2> QED BY <1>2, <1>b, <2>o, <2>d, <2>1, <2>2, StepEffects DEF CreateFolder, SetVolume, Commit
<1> QED BY <1>1, <1>2

LEMMA BooksNext ==
  ASSUME PerUser = 1, Ops \subseteq Paying, BaseInv, LedgerInv, BaseInv',
         NEW r \in Reqs, Acts(r), FolderBooks(r)
  PROVE  /\ LedgerInv'
         /\ \A v \in Users : v # req[r].user => Stays(v)
         /\ req[r].user \in Users => Books(req[r].user)
<1>b. /\ TypeInv /\ KeptIdInv /\ FileInv /\ DirFresh(born, folders, req[r]) /\ Covered
      /\ "sharesave" \notin Ops
  BY DEF BaseInv, SoloInv, DirInv, LedgerInv, Paying
<1>1. FileSteps(r)
  BY <1>b, FileStep
<1>2. \A v \in Users : v # req[r].user => Stays(v) /\ Balances(v)
  <2> SUFFICES ASSUME NEW v \in Users, v # req[r].user PROVE Stays(v) /\ Balances(v)
    OBVIOUS
  <2> QED BY <1>1, <1>b, OthersBooks
<1>3. req[r].user \in Users => Books(req[r].user) /\ Balances(req[r].user)
  BY OwnBooks
<1>4. Covered'
  BY <1>2, <1>3 DEF Covered, Balances
<1>5. GivenUp'
  BY <1>1, GivenUpStep
<1> QED BY <1>2, <1>3, <1>4, <1>5 DEF LedgerInv

LEMMA LedgerInit == Init => LedgerInv
<1> SUFFICES ASSUME Init PROVE LedgerInv
  OBVIOUS
<1>1. \A r \in Reqs : req[r] = Idle
  BY DEF Init
<1>2. GivenUp
  BY <1>1 DEF GivenUp, Gone, Idle
<1>3. ASSUME NEW u \in Users PROVE stores[u].current >= UsedIn(files, u) + RefundIn(req, u)
  <2>1. OwnedIn(files, u) = {}
    BY DEF Init, OwnedIn
  <2>2. UsedIn(files, u) = 0
    BY <2>1, SumEmpty DEF UsedIn
  <2>3. \A x \in Reqs : req[x].user # u
    BY <1>1, StorageAssumption DEF Idle
  <2>4. RefundIn(req, u) = 0
    BY <2>3, RefundNone
  <2>5. stores[u].current = 0
    BY DEF Init
  <2> QED BY <2>2, <2>4, <2>5
<1> QED BY <1>2, <1>3 DEF LedgerInv, Covered

\* Without folder deletes there is nothing to show of them.
LEMMA NoFolderBooks ==
  ASSUME Ops \subseteq Booking, BaseInv, NEW r \in Reqs
  PROVE  Ops \subseteq Paying /\ FolderBooks(r)
<1>1. Knows(born, files, stores, req[r])
  BY DEF BaseInv, SoloInv, FileInv
<1>2. req[r].op # "deletefolder"
  BY <1>1 DEF Knows, Booking
<1> QED BY <1>2 DEF FolderBooks, Booking

LEMMA LedgerNext ==
  ASSUME PerUser = 1, Ops \subseteq Booking, BaseInv, LedgerInv, [Next]_vars
  PROVE  LedgerInv'
<1>1. CASE UNCHANGED vars
  <2>1. Covered' /\ GivenUp'
    BY <1>1 DEF vars, LedgerInv, Covered, GivenUp
  <2> QED BY <2>1 DEF LedgerInv
<1>2. CASE Next
  <2>1. BaseInv'
    BY BaseNext DEF Tame, Booking, Paying
  <2>2. PICK r \in Reqs : Acts(r)
    BY <1>2 DEF Next, Acts
  <2> QED BY <2>1, <2>2, BooksNext, NoFolderBooks
<1> QED BY <1>1, <1>2

LEMMA LedgerHolds ==
  ASSUME ~Foreign, PerUser = 1, Ops \subseteq Booking
  PROVE  Spec => []BaseInv /\ []LedgerInv
<1>1. BaseInv /\ LedgerInv /\ [Next]_vars => LedgerInv'
  BY LedgerNext
<1>2. Spec => []BaseInv
  BY BaseHolds DEF Tame, Booking, Paying
<1> QED BY <1>1, <1>2, LedgerInit, PTL DEF Spec

\* An entry of a table changes, and no other does.
LEMMA OneEntry ==
  ASSUME NEW S, NEW f, f = [x \in S |-> f[x]], NEW g, g = [x \in S |-> g[x]], NEW u \in S, NEW e,
         \A x \in S : x # u => g[x] = f[x], g[u] = e
  PROVE  g = [f EXCEPT ![u] = e]
OBVIOUS

\* The first state is one of the ledger's.
LEMMA LedgerFirst == Init => Accounts!LInit
<1> SUFFICES ASSUME Init PROVE Accounts!LInit
  OBVIOUS
<1> DEFINE H == [u \in Users |-> HoldsIn(files, u)]
           C == [u \in Users |-> stores[u].current - RefundIn(req, u)]
           M == [u \in Users |-> stores[u].max]
<1>h. /\ [u \in Users |-> {files[f].md5 : f \in OwnedBy(u)}] = H
      /\ [u \in Users |-> stores[u].current - Refund(u)] = C
  BY DEF HoldsIn, OwnedIn, OwnedBy, Live, Refund, RefundIn, At
<1>1. \A u \in Users : OwnedIn(files, u) = {}
  BY DEF Init, OwnedIn
<1>2. H = [u \in Users |-> {}]
  BY <1>1 DEF HoldsIn
<1>3. \A u \in Users : RefundIn(req, u) = 0
  <2>1. \A u \in Users, x \in Reqs : req[x].user # u
    BY StorageAssumption DEF Init, Idle
  <2> QED BY <2>1, RefundNone
<1>4. C = [u \in Users |-> 0] /\ M = [u \in Users |-> InitialVolume]
  BY <1>3 DEF Init
<1> HIDE DEF H, C
<1> QED BY <1>h, <1>2, <1>4 DEF Accounts!LInit

\* A step that keeps the others' entries and books u's is the ledger's.
LEMMA LedgerStep ==
  ASSUME NEW u, \A v \in Users : v # u => Stays(v), u \in Users => Books(u)
  PROVE  [Accounts!LNext]_(Accounts!ledger)
<1> DEFINE H == [v \in Users |-> HoldsIn(files, v)]
           C == [v \in Users |-> stores[v].current - RefundIn(req, v)]
           M == [v \in Users |-> stores[v].max]
<1>h. /\ [v \in Users |-> {files[f].md5 : f \in OwnedBy(v)}] = H
      /\ [v \in Users |-> stores[v].current - Refund(v)] = C
  BY DEF HoldsIn, OwnedIn, OwnedBy, Live, Refund, RefundIn, At
<1>p. /\ [v \in Users |-> {files[f].md5 : f \in OwnedBy(v)}]' = H'
      /\ [v \in Users |-> stores[v].current - Refund(v)]' = C'
  BY DEF HoldsIn, OwnedIn, OwnedBy, Live, Refund, RefundIn, At
<1>e. UNCHANGED <<H, C, M>> => UNCHANGED Accounts!ledger
  <2> HIDE DEF H, C
  <2> QED BY <1>h, <1>p DEF Accounts!ledger
<1>4. CASE u \notin Users \/ Stays(u)
  <2>1. \A v \in Users : Stays(v)
    BY <1>4
  <2>2. UNCHANGED <<H, C, M>>
    BY <2>1 DEF Stays
  <2> QED BY <1>e, <2>2
<1>o. ASSUME u \in Users
      PROVE  /\ \A e : HoldsIn(files', u) = e => H' = [H EXCEPT ![u] = e]
             /\ \A e : stores'[u].current - RefundIn(req', u) = e => C' = [C EXCEPT ![u] = e]
             /\ \A e : stores'[u].max = e => M' = [M EXCEPT ![u] = e]
  <2>1. \A v \in Users : v # u => H'[v] = H[v] /\ C'[v] = C[v] /\ M'[v] = M[v]
    BY DEF Stays
  <2>2. H'[u] = HoldsIn(files', u) /\ C'[u] = stores'[u].current - RefundIn(req', u)
        /\ M'[u] = stores'[u].max
    BY <1>o
  <2>3. /\ H' = [v \in Users |-> H'[v]] /\ H = [v \in Users |-> H[v]]
        /\ C' = [v \in Users |-> C'[v]] /\ C = [v \in Users |-> C[v]]
        /\ M' = [v \in Users |-> M'[v]] /\ M = [v \in Users |-> M[v]]
    OBVIOUS
  <2> HIDE DEF H, C, M
  <2> QED BY <1>o, <2>1, <2>2, <2>3, OneEntry
<1>v. u \in Users => H[u] = HoldsIn(files, u) /\ C[u] = stores[u].current - RefundIn(req, u)
                     /\ M[u] = stores[u].max
  OBVIOUS
<1>w. \A v \in Users : H[v] = HoldsIn(files, v)
  OBVIOUS
<1>5. ASSUME u \in Users, Stores(u) PROVE Accounts!LNext
  <2>1. PICK c \in Contents :
          /\ \A v \in Users : c \notin HoldsIn(files, v)
          /\ stores[u].current - RefundIn(req, u) + SizeOf[c] <= stores[u].max
          /\ HoldsIn(files', u) = HoldsIn(files, u) \cup {c} /\ stores'[u].max = stores[u].max
          /\ stores'[u].current - RefundIn(req', u)
               = stores[u].current - RefundIn(req, u) + SizeOf[c]
    BY <1>5 DEF Stores
  <2>2. /\ H' = [H EXCEPT ![u] = H[u] \cup {c}] /\ C' = [C EXCEPT ![u] = C[u] + SizeOf[c]]
        /\ M' = M /\ (\A v \in Users : c \notin H[v]) /\ C[u] + SizeOf[c] <= M[u]
    <3>1. \A v \in Users : M'[v] = M[v]
      BY <2>1 DEF Stays
    <3>2. M' = M
      BY <3>1
    <3> HIDE DEF H, C, M
    <3> QED BY <1>5, <1>o, <1>v, <1>w, <2>1, <3>2
  <2> HIDE DEF H, C
  <2>3. Accounts!Store(u, c)
    BY <1>h, <1>p, <2>2 DEF Accounts!Store, M
  <2> QED BY <1>5, <2>3 DEF Accounts!LNext
<1>m. stores'[u].max = stores[u].max => M' = M
  <2> SUFFICES ASSUME stores'[u].max = stores[u].max PROVE M' = M
    OBVIOUS
  <2>1. \A v \in Users : M'[v] = M[v]
    BY DEF Stays
  <2> QED BY <2>1
<1>6. ASSUME u \in Users, Discards(u) PROVE Accounts!LNext
  <2>1. PICK S \in SUBSET HoldsIn(files, u) :
          /\ HoldsIn(files', u) = HoldsIn(files, u) \ S /\ stores'[u].max = stores[u].max
          /\ stores'[u].current - RefundIn(req', u)
               = stores[u].current - RefundIn(req, u) - SumFunctionOnSet(SizeOf, S)
    BY <1>6 DEF Discards
  <2>2. /\ H' = [H EXCEPT ![u] = H[u] \ S]
        /\ C' = [C EXCEPT ![u] = C[u] - SumFunctionOnSet(SizeOf, S)]
        /\ M' = M /\ S \subseteq H[u]
    <3> HIDE DEF H, C, M
    <3> QED BY <1>6, <1>m, <1>o, <1>v, <2>1
  <2> HIDE DEF H, C
  <2>3. Accounts!Total(S) = SumFunctionOnSet(SizeOf, S)
    BY DEF Accounts!Total, Accounts!SumFunctionOnSet, Accounts!FoldFunctionOnSet,
           Accounts!MapThenFoldSet, SumFunctionOnSet, FoldFunctionOnSet, MapThenFoldSet
  <2>4. Accounts!Discard(u, S)
    BY <1>h, <1>p, <2>2, <2>3 DEF Accounts!Discard, M
  <2>5. S \in SUBSET [x \in Users |-> {files[f].md5 : f \in OwnedBy(x)}][u]
    BY <1>h, <2>2
  <2> QED BY <1>6, <2>4, <2>5 DEF Accounts!LNext
<1>7. ASSUME u \in Users, Forfeits(u) PROVE Accounts!LNext
  <2>1. PICK c \in Contents :
          /\ c \notin HoldsIn(files, u)
          /\ HoldsIn(files', u) = HoldsIn(files, u) /\ stores'[u].max = stores[u].max
          /\ stores'[u].current - RefundIn(req', u)
               = stores[u].current - RefundIn(req, u) + SizeOf[c]
    BY <1>7 DEF Forfeits
  <2>2. /\ H' = H /\ C' = [C EXCEPT ![u] = C[u] + SizeOf[c]]
        /\ M' = M /\ c \notin H[u]
    <3>1. \A v \in Users : H'[v] = H[v]
      BY <2>1 DEF Stays
    <3>2. H' = H
      BY <3>1
    <3> HIDE DEF H, C, M
    <3> QED BY <1>7, <1>m, <1>o, <1>v, <2>1, <3>2
  <2>f. Failures
    BY <1>7 DEF Forfeits
  <2> HIDE DEF H, C
  <2>3. Accounts!Forfeit(u, c)
    BY <1>h, <1>p, <2>f, <2>2 DEF Accounts!Forfeit, M
  <2> QED BY <1>7, <2>3 DEF Accounts!LNext
<1>8. ASSUME u \in Users, Grants(u) PROVE Accounts!LNext
  <2>1. PICK v \in Volumes :
          /\ HoldsIn(files', u) = HoldsIn(files, u) /\ stores'[u].max = v
          /\ stores'[u].current - RefundIn(req', u) = stores[u].current - RefundIn(req, u)
    BY <1>8 DEF Grants
  <2>2. H' = H /\ C' = C /\ M' = [M EXCEPT ![u] = v]
    <3>1. \A x \in Users : H'[x] = H[x] /\ C'[x] = C[x]
      BY <2>1 DEF Stays
    <3>2. H' = H /\ C' = C
      BY <3>1
    <3> HIDE DEF H, C, M
    <3> QED BY <1>8, <1>o, <2>1, <3>2
  <2> HIDE DEF H, C
  <2>3. Accounts!Grant(u, v)
    BY <1>h, <1>p, <2>2 DEF Accounts!Grant, M
  <2> QED BY <1>8, <2>3 DEF Accounts!LNext
<1> QED BY <1>4, <1>5, <1>6, <1>7, <1>8 DEF Books

LEMMA LedgerStutters == UNCHANGED vars => UNCHANGED Accounts!ledger
BY DEF vars, Accounts!ledger, OwnedBy, Live, Refund, At

\* With one request at a time on an account, any number of accounts, and clients
\* that name their own folders only, every step of every upload, file delete, move,
\* folder creation and volume change is a step of the ledger, also when it fails.
THEOREM LedgerImplemented ==
  ASSUME ~Foreign, PerUser = 1, Ops \subseteq Booking
  PROVE  Spec => ImplementsLedger
<1>1. BaseInv /\ LedgerInv /\ [Next]_vars => [Accounts!LNext]_(Accounts!ledger)
  <2> SUFFICES ASSUME BaseInv, LedgerInv, [Next]_vars
               PROVE  [Accounts!LNext]_(Accounts!ledger)
    OBVIOUS
  <2>1. CASE UNCHANGED vars
    BY <2>1, LedgerStutters
  <2>2. CASE Next
    <3>1. BaseInv'
      BY <2>2, BaseNext DEF Tame, Booking, Paying
    <3>2. PICK r \in Reqs : Acts(r)
      BY <2>2 DEF Next, Acts
    <3>3. /\ \A v \in Users : v # req[r].user => Stays(v)
          /\ req[r].user \in Users => Books(req[r].user)
      BY <3>1, <3>2, BooksNext, NoFolderBooks
    <3> QED BY <3>3, LedgerStep
  <2> QED BY <2>1, <2>2
<1>2. Spec => []BaseInv /\ []LedgerInv
  BY LedgerHolds
<1> QED BY <1>1, <1>2, LedgerFirst, PTL DEF Spec, ImplementsLedger, Accounts!LSpec

-----------------------------------------------------------------------------
(* Two folder tables with the same folders below the same parents; only sizes *)
(* and owners may differ.  What a walk or a file move writes is such a table. *)

SameTree(P, Q) ==
  \A g \in Folders : (P[g] = None <=> Q[g] = None) /\ (P[g] # None => Q[g].parent = P[g].parent)

LEMMA SameTreeWalks ==
  ASSUME NEW P, NEW Q, SameTree(P, Q), NEW f
  PROVE  /\ Climb(Q, f) = Climb(P, f)
         /\ \A k : Chain(Q, f, k) = Chain(P, f, k)
         /\ Spins(Q, f) <=> Spins(P, f)
<1> DEFINE S == {x \in {f} \cup Folders \cup {Top} \cup {Up(P, g) : g \in Folders} : TRUE}
<1>1. \A g : Up(Q, g) = Up(P, g)
  BY DEF SameTree, Up
<1>2. f \in S /\ \A g \in S : Up(P, g) \in S
  BY DEF Up
<1> HIDE DEF S
<1>3. Climb(P, f) = Climb(Q, f)
  BY <1>1, <1>2, ClimbSame
<1> QED BY <1>3 DEF SameTree, Chain, Spins

LEMMA SameTreeTwice ==
  ASSUME NEW P, NEW Q, NEW R, SameTree(P, Q), SameTree(Q, R)
  PROVE  SameTree(P, R)
BY DEF SameTree

\* A row that is, but for its size, folder f's in P.
RowOf(P, f, row) == row # None => f \in Folders /\ P[f] # None /\ row.parent = P[f].parent

\* A walk that starts from such a row goes along the table, and changes sizes.
LEMMA WalkChain ==
  ASSUME NEW P \in View, NEW f, NEW row \in FolderRow \cup {None}, RowOf(P, f, row), row # None
  PROVE  LET seen == [P EXCEPT ![f] = row]
         IN  /\ seen \in View /\ SameTree(P, seen)
             /\ \A k : Chain(seen, f, k) = Chain(P, f, k)
             /\ Spins(seen, f) <=> Spins(P, f)
<1> DEFINE seen == [P EXCEPT ![f] = row]
<1>1. seen \in View /\ SameTree(P, seen)
  BY DEF View, SameTree, RowOf
<1> HIDE DEF seen
<1>2. /\ \A k : Chain(seen, f, k) = Chain(P, f, k)
      /\ Spins(seen, f) <=> Spins(P, f)
  BY <1>1, SameTreeWalks
<1> QED BY <1>1, <1>2 DEF seen

LEMMA WalkTree ==
  ASSUME NEW P \in View, NEW f, NEW row \in FolderRow \cup {None}, RowOf(P, f, row),
         NEW s \in Nat, NEW k
  PROVE  /\ SameTree(P, Overlay(P, AddFileFolderSize(P, f, row, s, k)))
         /\ SameTree(P, Overlay(P, SubFileFolderSize(P, f, row, s, k)))
<1>1. CASE row = None
  BY <1>1 DEF AddFileFolderSize, SubFileFolderSize, NoWrites, Overlay, SameTree
<1>2. CASE row # None
  <2> DEFINE seen == [P EXCEPT ![f] = row]
  <2>1. seen \in View /\ SameTree(P, seen)
    BY <1>2, WalkChain
  <2>2. \A g \in Chain(seen, f, k) : g \in Folders /\ seen[g] # None
    BY DEF Chain
  <2>3. /\ AddFileFolderSize(P, f, row, s, k) = [g \in Folders |-> IF g \in Chain(seen, f, k)
                              THEN [seen[g] EXCEPT !.size = @ + s] ELSE None]
        /\ SubFileFolderSize(P, f, row, s, k) = [g \in Folders |-> IF g \in Chain(seen, f, k)
                              THEN SubSize(seen[g], s) ELSE None]
    BY <1>2 DEF AddFileFolderSize, SubFileFolderSize
  <2> HIDE DEF seen
  <2>4. ASSUME NEW g \in Folders, seen[g] # None
        PROVE  /\ [seen[g] EXCEPT !.size = @ + s].parent = seen[g].parent
               /\ SubSize(seen[g], s).parent = seen[g].parent
               /\ [seen[g] EXCEPT !.size = @ + s] # None /\ SubSize(seen[g], s) # None
    <3>1. seen[g] \in FolderRow
      BY <2>1, <2>4 DEF View
    <3>2. [seen[g] EXCEPT !.size = @ + s] \in FolderRow /\ SubSize(seen[g], s) \in FolderRow
      BY <3>1 DEF FolderRow, SubSize
    <3> QED BY <3>1, <3>2, NoneIsNoRow DEF FolderRow, SubSize
  <2> QED BY <2>1, <2>2, <2>3, <2>4 DEF Overlay, SameTree
<1> QED BY <1>1, <1>2

LEMMA OverlayTwice ==
  ASSUME NEW P, NEW v, NEW w
  PROVE  Overlay(Overlay(P, v), w) = Overlay(P, Overlay(v, w))
BY DEF Overlay

LEMMA TransferTree ==
  ASSUME NEW P \in View, NEW from, NEW src \in FolderRow \cup {None}, RowOf(P, from, src),
         NEW to, NEW dst \in FolderRow \cup {None}, RowOf(P, to, dst), NEW s \in Nat, NEW k
  PROVE  SameTree(P, Overlay(P, Transfer(P, from, src, to, dst, s, k)))
<1> DEFINE sub == SubFileFolderSize(P, from, src, s, Depth)
           Q == Overlay(P, sub)
           add == AddFileFolderSize(Q, to, dst, s, k)
<1>1. sub \in View /\ Q \in View
  BY SubType, OverlayType
<1>2. SameTree(P, Q)
  BY WalkTree
<1>3. Transfer(P, from, src, to, dst, s, k) = Overlay(sub, add)
  BY DEF Transfer
<1> HIDE DEF sub, add
<1>4. Overlay(P, Transfer(P, from, src, to, dst, s, k)) = Overlay(Q, add)
  BY <1>3, OverlayTwice
<1> HIDE DEF Q
<1>5. RowOf(Q, to, dst)
  BY <1>2 DEF SameTree, RowOf
<1>6. SameTree(Q, Overlay(Q, add))
  BY <1>1, <1>5, WalkTree DEF add
<1> QED BY <1>2, <1>4, <1>6, SameTreeTwice

-----------------------------------------------------------------------------
(* The hierarchy stays a forest.  Its invariant is a height of every folder   *)
(* that grows from a parent to its children.                                  *)

Descends(P, h) ==
  \A g \in Folders : P[g] # None /\ P[g].parent \in Folders /\ P[P[g].parent] # None
                       => h[P[g].parent] < h[g]

Grounded(P) == \E h \in [Folders -> Nat] : Descends(P, h)

\* Where a walk is live it has been live before.
LEMMA LiveBefore ==
  ASSUME NEW P, NEW f, NEW n \in 0..Depth, Climb(P, f)[n] \in Folders, P[Climb(P, f)[n]] # None,
         NEW m \in 0..n
  PROVE  Climb(P, f)[m] \in Folders /\ P[Climb(P, f)[m]] # None
<1> DEFINE at == Climb(P, f)
           There(g) == g \in Folders /\ P[g] # None
           S == {g \in {at[i] : i \in 0..Depth} \cup {Top} : TRUE}
           N == {i \in Nat : i <= n => There(at[n - i])}
<1>1. \A i \in 0..Depth : at[i] = IF i = 0 THEN f ELSE Up(P, at[i - 1])
  BY ClimbStep
<1>2. There(at[n])
  OBVIOUS
<1> HIDE DEF at
<1>3. 0 \in N
  BY <1>2
<1>4. ASSUME NEW i \in Nat, i \in N PROVE i + 1 \in N
  <2> SUFFICES ASSUME i + 1 <= n PROVE There(at[n - (i + 1)])
    OBVIOUS
  <2>1. n - i \in 0..Depth /\ n - i # 0 /\ (n - i) - 1 = n - (i + 1) /\ i <= n
    BY DepthType
  <2>2. There(at[n - i])
    BY <1>4, <2>1
  <2>3. at[n - i] = Up(P, at[n - (i + 1)])
    BY <1>1, <2>1
  <2> QED BY <2>2, <2>3, FoldersAssumption DEF Up
<1> HIDE DEF N
<1>5. n - m \in N
  BY <1>3, <1>4, Induction
<1> QED BY <1>5 DEF N, at

\* No walk in a forest goes on for ever: it would come down to the same height
\* twice.
LEMMA GroundedAcyclic ==
  ASSUME NEW P, Grounded(P)
  PROVE  Acyclic(P)
<1> SUFFICES ASSUME NEW f \in Folders, Spins(P, f) PROVE FALSE
  BY DEF Acyclic
<1> DEFINE at == Climb(P, f)
<1>d. Depth \in Nat /\ Depth \in 0..Depth
  BY DepthType
<1>1. \A n \in 0..Depth : at[n] \in Folders /\ P[at[n]] # None
  BY <1>d, LiveBefore DEF Spins
<1>2. \A n \in 0..Depth : at[n] = IF n = 0 THEN f ELSE Up(P, at[n - 1])
  BY ClimbStep
<1>3. PICK h \in [Folders -> Nat] : Descends(P, h)
  BY DEF Grounded
<1> HIDE DEF at
<1>4. \A n \in 0..Depth : n + 1 <= Depth => h[at[n + 1]] < h[at[n]]
  <2> SUFFICES ASSUME NEW n \in 0..Depth, n + 1 <= Depth PROVE h[at[n + 1]] < h[at[n]]
    OBVIOUS
  <2>1. n + 1 \in 0..Depth /\ n + 1 # 0 /\ (n + 1) - 1 = n
    BY <1>d
  <2>2. at[n + 1] = P[at[n]].parent
    BY <1>1, <1>2, <2>1 DEF Up
  <2> QED BY <1>1, <1>3, <2>1, <2>2 DEF Descends
<1>5. \A m, n \in 0..Depth : m < n => h[at[n]] < h[at[m]]
  <2> SUFFICES ASSUME NEW m \in 0..Depth PROVE \A n \in 0..Depth : m < n => h[at[n]] < h[at[m]]
    OBVIOUS
  <2> DEFINE N == {n \in Nat : n <= Depth /\ m < n => h[at[n]] < h[at[m]]}
  <2>1. 0 \in N
    OBVIOUS
  <2>2. ASSUME NEW n \in Nat, n \in N PROVE n + 1 \in N
    <3> SUFFICES ASSUME n + 1 <= Depth, m < n + 1 PROVE h[at[n + 1]] < h[at[m]]
      OBVIOUS
    <3>1. n \in 0..Depth /\ n + 1 \in 0..Depth
      BY <1>d
    <3>2. h[at[n + 1]] \in Nat /\ h[at[n]] \in Nat /\ h[at[m]] \in Nat
      BY <1>1, <1>3, <3>1
    <3>3. h[at[n + 1]] < h[at[n]]
      BY <1>4, <3>1
    <3>4. m = n \/ (m < n /\ n <= Depth)
      BY <3>1
    <3> QED BY <2>2, <3>2, <3>3, <3>4
  <2> HIDE DEF N
  <2>3. Nat \subseteq N
    BY <2>1, <2>2, Induction
  <2> QED BY <2>3, <1>d DEF N
<1>6. IsFiniteSet(0..Depth) /\ Cardinality(0..Depth) = Depth + 1
  <2>1. 0 \in Int /\ Depth \in Int /\ ~(0 > Depth) /\ Depth - 0 + 1 = Depth + 1
    BY <1>d
  <2> QED BY <2>1, FS_Interval
<1>7. IsFiniteSet(Folders) /\ Cardinality(Folders) < Cardinality(0..Depth)
  BY <1>d, <1>6, FoldersAssumption DEF Depth
<1>8. [n \in 0..Depth |-> at[n]] \in [0..Depth -> Folders]
  BY <1>1
<1>9. \E m, n \in 0..Depth : m # n /\ at[m] = at[n]
  <2> DEFINE D == 0..Depth
             fun == [n \in D |-> at[n]]
  <2>1. IsFiniteSet(D) /\ fun \in [D -> Folders] /\ Cardinality(Folders) < Cardinality(D)
    BY <1>6, <1>7, <1>8
  <2>2. \A n \in D : fun[n] = at[n]
    OBVIOUS
  <2> HIDE DEF D, fun
  <2>3. \E m, n \in D : m # n /\ fun[m] = fun[n]
    BY <1>7, <2>1, FS_PigeonHole
  <2> QED BY <2>2, <2>3 DEF D
<1>10. \A n \in 0..Depth : h[at[n]] \in Nat
  BY <1>1, <1>3
<1> QED BY <1>5, <1>9, <1>10

LEMMA GroundedSame ==
  ASSUME NEW P, NEW Q, SameTree(P, Q), Grounded(P)
  PROVE  Grounded(Q)
<1> PICK h \in [Folders -> Nat] : Descends(P, h)
  BY DEF Grounded
<1>1. Descends(Q, h)
  BY DEF Descends, SameTree
<1> QED BY <1>1 DEF Grounded

\* Fewer folders are a forest too.
LEMMA GroundedPruned ==
  ASSUME NEW P, Grounded(P), NEW D
  PROVE  Grounded([g \in Folders |-> IF g \in D THEN None ELSE P[g]])
<1> PICK h \in [Folders -> Nat] : Descends(P, h)
  BY DEF Grounded
<1>1. Descends([g \in Folders |-> IF g \in D THEN None ELSE P[g]], h)
  BY DEF Descends
<1> QED BY <1>1 DEF Grounded

\* So is a new folder below which there is nothing.
LEMMA GroundedLeaf ==
  ASSUME NEW P \in View, Grounded(P), NEW x \in Folders, P[x] = None,
         \A g \in Folders : P[g] # None => P[g].parent # x,
         NEW to \in Folders, to # x, NEW row \in FolderRow, row.parent = to
  PROVE  Grounded([P EXCEPT ![x] = row])
<1> PICK h \in [Folders -> Nat] : Descends(P, h)
  BY DEF Grounded
<1> DEFINE Q == [P EXCEPT ![x] = row]
           i == [h EXCEPT ![x] = h[to] + 1]
<1>1. Q[x] = row /\ \A g \in Folders \ {x} : Q[g] = P[g]
  BY DEF View
<1>2. i \in [Folders -> Nat] /\ i[x] = h[to] + 1 /\ \A g \in Folders \ {x} : i[g] = h[g]
  OBVIOUS
<1>3. h[to] \in Nat
  OBVIOUS
<1> HIDE DEF Q, i
<1>4. Descends(Q, i)
  BY <1>1, <1>2, <1>3 DEF Descends
<1> QED BY <1>2, <1>4 DEF Grounded, Q

\* A folder that is moved: the walk from the target in the moved table would
\* never end if the target were below the folder.
LEMMA GroundedMove ==
  ASSUME NEW P, Grounded(P), NEW g \in Folders, P[g] # None, NEW to,
         NEW Q, \A x \in Folders : P[x] = None <=> Q[x] = None,
         \A x \in Folders \ {g} : P[x] # None => Q[x].parent = P[x].parent,
         Q[g].parent = to, to \in Folders /\ P[to] # None => ~Spins(Q, to)
  PROVE  Grounded(Q)
<1> PICK h \in [Folders -> Nat] : Descends(P, h)
  BY DEF Grounded
<1>1. CASE ~(to \in Folders /\ P[to] # None)
  <2>1. Descends(Q, h)
    BY <1>1 DEF Descends
  <2> QED BY <2>1 DEF Grounded
<1>2. CASE to \in Folders /\ P[to] # None
  <2> DEFINE at == Climb(Q, to)
             A == {at[n] : n \in 0..Depth}
  <2>d. Depth \in Nat /\ 0 \in 0..Depth /\ Depth \in 0..Depth
    BY DepthType
  <2>1. \A n \in 0..Depth : at[n] = IF n = 0 THEN to ELSE Up(Q, at[n - 1])
    BY ClimbStep
  <2>2. ~(at[Depth] \in Folders /\ Q[at[Depth]] # None)
    BY <1>2 DEF Spins
  <2>3. \A n \in 0..Depth : at[n] \in Folders /\ Q[at[n]] # None =>
          \A m \in 0..n : at[m] \in Folders /\ Q[at[m]] # None
    BY LiveBefore
  <2>w. ASSUME NEW S, to \in S, \A x \in S : Up(Q, x) \in S PROVE at[Depth] \in S
    BY <2>d, <2>w, ClimbWithin
  <2> HIDE DEF at
  <2>4. to \in A
    BY <2>1, <2>d
  <2>5. \A x \in A \cap Folders : Q[x] # None => Q[x].parent \in A
    <3> SUFFICES ASSUME NEW n \in 0..Depth, at[n] \in Folders, Q[at[n]] # None
                 PROVE  Q[at[n]].parent \in A
      OBVIOUS
    <3>1. n # Depth
      BY <2>2
    <3>2. n + 1 \in 0..Depth /\ n + 1 # 0 /\ (n + 1) - 1 = n
      BY <2>d, <3>1
    <3>3. at[n + 1] = Q[at[n]].parent
      BY <2>1, <3>2 DEF Up
    <3> QED BY <3>2, <3>3
  <2>6. g \notin A
    <3> SUFFICES ASSUME NEW n \in 0..Depth, at[n] = g PROVE FALSE
      OBVIOUS
    <3> DEFINE W == {at[m] : m \in 0..n}
    <3>1. Q[g] # None
      OBVIOUS
    <3>2. \A x \in W : x \in Folders /\ Q[x] # None
      BY <2>3, <3>1
    <3>3. to \in W
      BY <2>1, <2>d
    <3>4. ASSUME NEW m \in 0..n PROVE Up(Q, at[m]) \in W
      <4>1. CASE m = n
        BY <3>1, <3>3, <4>1 DEF Up
      <4>2. CASE m # n
        <5>1. m + 1 \in 0..n /\ m + 1 \in 0..Depth /\ m + 1 # 0 /\ (m + 1) - 1 = m
          BY <2>d, <4>2
        <5> QED BY <2>1, <5>1
      <4> QED BY <4>1, <4>2
    <3>5. \A x \in W : Up(Q, x) \in W
      BY <3>4
    <3> HIDE DEF W
    <3> QED BY <2>2, <2>w, <3>2, <3>3, <3>5
  <2> DEFINE i == [x \in Folders |-> IF x \in A THEN h[x] ELSE h[x] + h[to] + 1]
  <2>7. h[to] \in Nat /\ i \in [Folders -> Nat]
    BY <1>2
  <2>8. ASSUME NEW x \in Folders, Q[x] # None, Q[x].parent \in Folders, Q[Q[x].parent] # None
        PROVE  i[Q[x].parent] < i[x]
    <3>1. CASE x = g
      <4>1. i[x] = h[g] + h[to] + 1 /\ i[to] = h[to] /\ h[g] \in Nat /\ h[to] \in Nat
        BY <1>2, <2>4, <2>6, <3>1
      <4> QED BY <3>1, <4>1
    <3>2. CASE x # g
      <4> DEFINE p == P[x].parent
      <4>1. p \in Folders /\ P[p] # None /\ Q[x].parent = p /\ P[x] # None
        BY <2>8, <3>2
      <4> HIDE DEF p
      <4>2. h[p] < h[x] /\ h[p] \in Nat /\ h[x] \in Nat /\ h[to] \in Nat
        BY <2>7, <4>1 DEF Descends, p
      <4>3. x \in A => p \in A
        BY <2>5, <2>8, <4>1
      <4> HIDE DEF A
      <4> QED BY <4>1, <4>2, <4>3
    <3> QED BY <3>1, <3>2
  <2> HIDE DEF i
  <2>9. Descends(Q, i)
    BY <2>8 DEF Descends
  <2> QED BY <2>7, <2>9 DEF Grounded
<1> QED BY <1>1, <1>2

\* A move of a folder, all its writes committed: a walk from the target that
\* comes to an end shows that the target is not below the folder.
LEMMA MoveForest ==
  ASSUME NEW P \in View, Grounded(P), NEW q \in Request, ReqOK(q), q.op = "movefolder",
         q.pc = "commit", MoveFolderDir(P, q), ~MoveSpins(P, q, Depth)
  PROVE  Grounded(Overlay(P, MoveWrites(P, q, Depth)))
<1> DEFINE saved == Saved(q)
           seen == Overlay(P, saved)
           s == MoveSize(q)
           sub == SubFileFolderSize(seen, q.from, q.src, s, Depth)
           over == Overlay(seen, sub)
           add == AddFileFolderSize(over, q.to, q.dst, s, Depth)
           moved == Transfer(seen, q.from, q.src, q.to, q.dst, s, Depth)
<1>q. /\ q.g \in Folders /\ q.to \in Folders \cup {Top} /\ q.dir = P[q.g]
      /\ q.dst = RowAt(P, q.to)
      /\ q.from = (IF q.dir = None THEN None ELSE q.dir.parent) /\ q.src = RowAt(P, q.from)
      /\ q.src \in FolderRow \cup {None} /\ q.dst \in FolderRow \cup {None}
      /\ q.dir \in FolderRow \cup {None}
  BY DEF ReqOK, MoveFolderDir, Request
<1>o. Overlay(P, MoveWrites(P, q, Depth)) = IF Moving(q) THEN Overlay(seen, moved) ELSE seen
  BY OverlayTwice DEF MoveWrites
<1>s. s \in Nat
  BY <1>q DEF MoveSize, FolderRow
<1>1. CASE q.dir = None
  <2>1. saved = NoWrites
    BY <1>1 DEF Saved
  <2>2. seen = P
    BY <2>1 DEF Overlay, NoWrites, View
  <2>3. q.src = None /\ RowOf(P, q.from, q.src) /\ RowOf(P, q.to, q.dst)
    BY <1>1, <1>q, FoldersAssumption DEF RowAt, RowOf
  <2> HIDE DEF s, seen, saved
  <2>4. SameTree(P, Overlay(P, Transfer(P, q.from, q.src, q.to, q.dst, s, Depth)))
    BY <1>q, <1>s, <2>3, TransferTree
  <2> QED BY <1>o, <2>2, <2>4, GroundedSame
<1>2. CASE q.dir # None
  <2> DEFINE row == [q.dir EXCEPT !.parent = q.to]
  <2>1. q.dir \in FolderRow /\ row \in FolderRow /\ row.parent = q.to /\ q.from = q.dir.parent
    BY <1>2, <1>q DEF FolderRow
  <2>2. saved = [x \in Folders |-> IF x = q.g THEN row ELSE None]
    BY <1>2, <1>q DEF Saved, NoWrites
  <2> HIDE DEF row
  <2>3. seen \in View /\ seen[q.g] = row /\ \A x \in Folders \ {q.g} : seen[x] = P[x]
    BY <1>q, <2>1, <2>2, NoneIsNoRow DEF Overlay, View
  <2> HIDE DEF seen, saved, s
  <2>4. P[q.g] # None /\ seen[q.g] # None /\ seen[q.g].parent = q.to
    BY <1>2, <1>q, <2>1, <2>3, NoneIsNoRow
  <2>5. q.from # q.g
    <3>1. PICK h \in [Folders -> Nat] : Descends(P, h)
      BY DEF Grounded
    <3> SUFFICES ASSUME q.from = q.g PROVE FALSE
      OBVIOUS
    <3>2. h[q.g] < h[q.g] /\ h[q.g] \in Nat
      BY <1>q, <2>1, <2>4, <3>1 DEF Descends
    <3> QED BY <3>2
  <2>6. RowOf(seen, q.from, q.src)
    BY <1>q, <2>3, <2>5 DEF RowOf, RowAt
  <2>7. sub \in View /\ over \in View /\ SameTree(seen, over)
    BY <1>q, <1>s, <2>3, <2>6, SubType, OverlayType, WalkTree
  <2>8. moved = Overlay(sub, add)
    BY DEF Transfer
  <2>9. Overlay(seen, moved) = Overlay(over, add)
    BY <2>8, OverlayTwice
  <2>10. CASE q.to = q.g
    <3> DEFINE back == [over EXCEPT ![q.to] = q.dst]
    <3>1. back \in View /\ back[q.g] = P[q.g] /\ \A x \in Folders \ {q.g} : back[x] = over[x]
      BY <1>q, <2>7, <2>10 DEF View, RowAt
    <3>2. SameTree(P, back)
      BY <2>3, <2>7, <3>1 DEF SameTree
    <3>3. q.g \in Chain(back, q.to, Depth)
      <4>1. Climb(back, q.to)[0] = q.to
        BY ClimbStep, DepthType
      <4>2. Depth # 0
        BY <1>q, FS_EmptySet, FoldersAssumption DEF Depth
      <4>3. 0 \in 0..(Depth - 1)
        BY <4>2, DepthType
      <4> QED BY <1>q, <2>4, <2>10, <3>1, <4>1, <4>3 DEF Chain
    <3>4. q.dst # None
      BY <1>2, <1>q, <2>10 DEF RowAt
    <3>5. add = [x \in Folders |-> IF x \in Chain(back, q.to, Depth)
                                   THEN [back[x] EXCEPT !.size = @ + s] ELSE None]
      BY <3>4 DEF AddFileFolderSize
    <3>6. \A x \in Chain(back, q.to, Depth) : x \in Folders /\ back[x] # None
      BY DEF Chain
    <3> HIDE DEF back, add
    <3>7. \A x \in Folders : back[x] # None =>
             [back[x] EXCEPT !.size = @ + s] # None
             /\ [back[x] EXCEPT !.size = @ + s].parent = back[x].parent
      <4> SUFFICES ASSUME NEW x \in Folders, back[x] # None
                   PROVE  [back[x] EXCEPT !.size = @ + s] # None
                          /\ [back[x] EXCEPT !.size = @ + s].parent = back[x].parent
        OBVIOUS
      <4>1. back[x] \in FolderRow
        BY <3>1 DEF View
      <4>2. [back[x] EXCEPT !.size = @ + s] \in FolderRow
        BY <1>s, <4>1 DEF FolderRow
      <4> QED BY <4>1, <4>2, NoneIsNoRow DEF FolderRow
    <3> DEFINE C == Chain(back, q.to, Depth)
    <3>8. q.g \in C /\ add = [x \in Folders |-> IF x \in C THEN [back[x] EXCEPT !.size = @ + s] ELSE None]
          /\ \A x \in C : x \in Folders /\ back[x] # None
      BY <3>3, <3>5, <3>6
    <3> HIDE DEF C, over
    <3>9. \A x \in Folders : (over[x] = None <=> seen[x] = None)
      BY <2>7 DEF SameTree
    <3>10. SameTree(back, Overlay(over, add))
      <4> DEFINE new(x) == [back[x] EXCEPT !.size = @ + s]
      <4>1. \A x \in C : Overlay(over, add)[x] = new(x)
        BY <3>7, <3>8 DEF Overlay
      <4>2. \A x \in Folders \ C : Overlay(over, add)[x] = back[x]
        BY <3>1, <3>8 DEF Overlay
      <4>3. \A x \in C : new(x) # None /\ new(x).parent = back[x].parent
        BY <3>7, <3>8
      <4> HIDE DEF new
      <4> QED BY <3>8, <4>1, <4>2, <4>3 DEF SameTree
    <3>11. SameTree(P, Overlay(over, add))
      BY <3>2, <3>10, SameTreeTwice
    <3>12. ~Moving(q) => SameTree(P, seen)
      <4> SUFFICES ASSUME ~Moving(q) PROVE q.from = q.to
        BY <1>q, <2>1, <2>3, <2>4 DEF SameTree
      <4> QED BY <3>4 DEF Moving
    <3> HIDE DEF moved
    <3> QED BY <1>o, <2>9, <3>11, <3>12, GroundedSame
  <2>11. CASE q.to # q.g
    <3>1. RowOf(seen, q.to, q.dst)
      BY <1>q, <2>3, <2>11 DEF RowOf, RowAt
    <3>2. \A x \in Folders : P[x] = None <=> seen[x] = None
      BY <2>3, <2>4
    <3>3. \A x \in Folders \ {q.g} : P[x] # None => seen[x].parent = P[x].parent
      BY <2>3
    <3>4. CASE Moving(q)
      <4>1. SameTree(seen, Overlay(seen, moved))
        BY <1>q, <1>s, <2>3, <2>6, <3>1, TransferTree
      <4>2. q.to \in Folders /\ P[q.to] # None => ~Spins(seen, q.to)
        <5> SUFFICES ASSUME q.to \in Folders, P[q.to] # None PROVE ~Spins(seen, q.to)
          OBVIOUS
        <5>1. ~WalkSpins(over, q.to, q.dst, Depth)
          BY <3>4 DEF MoveSpins, TransferSpins, seen, saved, s
        <5>2. ~Spins([over EXCEPT ![q.to] = q.dst], q.to)
          BY <1>q, <5>1 DEF WalkSpins, RowAt
        <5>6. q.dst # None
          BY <1>q DEF RowAt
        <5>3. RowOf(over, q.to, q.dst)
          BY <2>7, <3>1 DEF RowOf, SameTree
        <5> HIDE DEF over
        <5>4. Spins([over EXCEPT ![q.to] = q.dst], q.to) <=> Spins(over, q.to)
          BY <1>q, <2>7, <5>3, <5>6, WalkChain
        <5>5. Spins(over, q.to) <=> Spins(seen, q.to)
          BY <2>7, SameTreeWalks
        <5> QED BY <5>2, <5>4, <5>5
      <4>3. Grounded(seen)
        BY <1>q, <2>4, <3>2, <3>3, <4>2, GroundedMove
      <4> HIDE DEF moved
      <4> QED BY <1>o, <3>4, <4>1, <4>3, GroundedSame
    <3>5. CASE ~Moving(q) /\ q.src = None
      <4>1. RowAt(P, q.to) = None
        BY <1>q, <3>5 DEF Moving
      <4>2. Grounded(seen)
        BY <1>q, <2>4, <3>2, <3>3, <4>1, GroundedMove DEF RowAt
      <4> QED BY <1>o, <3>5, <4>2
    <3>6. CASE ~Moving(q) /\ q.src # None
      <4>1. q.from = q.to
        BY <3>6 DEF Moving
      <4>2. SameTree(P, seen)
        BY <1>q, <2>1, <2>4, <3>2, <3>3, <4>1 DEF SameTree
      <4> QED BY <1>o, <3>6, <4>2, GroundedSame
    <3> QED BY <3>4, <3>5, <3>6
  <2> QED BY <2>10, <2>11
<1> QED BY <1>1, <1>2

\* What a commit leaves, when the request's rows are those of the table.
AfterCommit(P, q) ==
  Overlay([g \in Folders |-> IF g \in q.out.drop THEN None ELSE P[g]], q.out.folders)

LEMMA CommitForest ==
  ASSUME NEW B, NEW P \in View, Grounded(P), NEW q \in Request, ReqOK(q), q.pc = "commit",
         DirFresh(B, P, q), ~Failures \/ q.op # "movefolder"
  PROVE  Grounded(AfterCommit(P, q))
<1> DEFINE all == [g \in Folders |-> IF g \in q.out.drop THEN None ELSE P[g]]
<1>l. \A c : Length(c) \in Nat
  BY LengthType
<1>p. \A f \in Folders : RowOf(P, f, P[f]) /\ P[f] \in FolderRow \cup {None}
  BY DEF RowOf, View
<1>n. \A Q \in View : Overlay(Q, NoWrites) = Q
  BY DEF Overlay, NoWrites, View
<1>1. CASE q.op # "deletefolder"
  <2>1. all = P
    BY <1>1 DEF DirFresh, View
  <2>2. AfterCommit(P, q) = Overlay(P, q.out.folders)
    BY <2>1 DEF AfterCommit
  <2>3. CASE q.op = "upload"
    <3>1. q.g \in Folders /\ q.out.folders = AddFileFolderSize(P, q.g, P[q.g], Length(q.c), Depth)
      BY <2>3 DEF DirFresh, UploadDir, ReqOK
    <3>2. SameTree(P, Overlay(P, q.out.folders))
      BY <1>l, <1>p, <3>1, WalkTree
    <3> QED BY <2>2, <3>2, GroundedSame
  <2>4. CASE q.op = "deletefile"
    <3> DEFINE g == q.file.folder
    <3>1. g \in Folders /\ q.out.folders = SubFileFolderSize(P, g, P[g], Length(q.c), Depth)
      BY <2>4 DEF DirFresh, DeleteFileDir, FileRow
    <3> HIDE DEF g
    <3>2. SameTree(P, Overlay(P, q.out.folders))
      BY <1>l, <1>p, <3>1, WalkTree
    <3> QED BY <2>2, <3>2, GroundedSame
  <2>5. CASE q.op = "movefile"
    <3>1. /\ MoveFileDir(P, q) /\ q.to \in Folders /\ q.from \in Folders
      BY <2>5 DEF DirFresh, ReqOK
    <3>2. q.src = P[q.from] /\ q.dst = P[q.to] /\ q.out.folders = FileMoveWrites(P, q)
      BY <3>1 DEF MoveFileDir
    <3>3. SameTree(P, Overlay(P, Transfer(P, q.from, q.src, q.to, q.dst, Length(q.file.md5), Depth)))
      BY <1>l, <1>p, <3>1, <3>2, TransferTree
    <3>4. SameTree(P, P)
      BY DEF SameTree
    <3> QED BY <1>n, <2>2, <3>2, <3>3, <3>4, GroundedSame DEF FileMoveWrites
  <2>6. CASE q.op = "movefolder"
    <3>1. MoveFolderDir(P, q) /\ ~Failures
      BY <2>6 DEF DirFresh
    <3>2. ~MoveSpins(P, q, Depth) /\ q.out.folders = MoveWrites(P, q, Depth)
      BY <3>1, CutsType DEF MoveFolderDir
    <3> QED BY <2>2, <2>6, <3>1, <3>2, MoveForest
  <2>7. CASE q.op = "sharesave"
    <3>1. q.to \in Folders /\ q.dst = P[q.to]
          /\ \E k : q.out.folders = AddFileFolderSize(P, q.to, q.dst, Length(q.c), k)
      BY <2>7 DEF DirFresh, ShareDir, ReqOK
    <3>2. SameTree(P, Overlay(P, q.out.folders))
      BY <1>l, <1>p, <3>1, WalkTree
    <3> QED BY <2>2, <3>2, GroundedSame
  <2> QED BY <1>1, <2>3, <2>4, <2>5, <2>6, <2>7 DEF DirFresh
<1>2. CASE q.op = "deletefolder"
  <2>1. DeleteFolderDir(P, q) /\ q.from \in Folders /\ q.dir \in FolderRow
    BY <1>2, NoneIsNoRow DEF DirFresh, DeleteFolderDir, ReqOK
  <2>2. all \in View /\ Grounded(all)
    BY GroundedPruned DEF View
  <2>3. AfterCommit(P, q) = Overlay(all, q.out.folders)
    BY DEF AfterCommit
  <2>4. CASE q.out.folders = NoWrites
    BY <1>n, <2>2, <2>3, <2>4
  <2>5. ASSUME NEW k, q.out.drop = Doomed(P, q.g, Depth), q.out.folders = DropWrites(P, q, k)
        PROVE  Grounded(AfterCommit(P, q))
    <3>1. all = Left(P, q.g)
      BY <2>5 DEF Left
    <3>2. q.out.folders = SubFileFolderSize(all, q.from, all[q.from], q.dir.size, k)
      BY <2>5, <3>1 DEF DropWrites
    <3>3. q.dir.size \in Nat
      BY <2>1 DEF FolderRow
    <3> HIDE DEF all
    <3>4. RowOf(all, q.from, all[q.from]) /\ all[q.from] \in FolderRow \cup {None}
      BY <2>1, <2>2 DEF RowOf, View
    <3>5. SameTree(all, Overlay(all, q.out.folders))
      BY <2>2, <3>2, <3>3, <3>4, WalkTree
    <3> QED BY <2>2, <2>3, <3>5, GroundedSame
  <2> QED BY <2>1, <2>4, <2>5 DEF DeleteFolderDir
<1> QED BY <1>1, <1>2

\* A request is of an operation that is served.
Served == \A r \in Reqs : req[r].op \in Ops \cup {"none"}

\* What makes the folders a forest, and what it takes to keep them one.
ForestInv == TypeInv /\ KeptIdInv /\ Settled /\ Solo /\ DirInv /\ Served /\ Grounded(folders)

LEMMA ForestInit == ~Foreign /\ Init => ForestInv
<1> SUFFICES ASSUME ~Foreign, Init PROVE ForestInv
  OBVIOUS
<1>1. TypeInv /\ KeptIdInv /\ Settled /\ Solo /\ DirInv
  BY InitType, InitKept, SoloInit DEF SoloInv
<1>2. Served
  BY DEF Init, Served, Idle
<1>3. Grounded(folders)
  <2>1. \A g \in Folders : folders[g] # None => folders[g].parent = Top
    BY DEF Init
  <2>2. Descends(folders, [g \in Folders |-> 0])
    BY <2>1, FoldersAssumption DEF Descends
  <2>3. [g \in Folders |-> 0] \in [Folders -> Nat]
    OBVIOUS
  <2> QED BY <2>2, <2>3 DEF Grounded
<1> QED BY <1>1, <1>2, <1>3 DEF ForestInv

LEMMA ForestNext ==
  ASSUME PerUser = 1, ~Failures \/ "movefolder" \notin Ops, ForestInv, [Next]_vars
  PROVE  ForestInv'
<1>t. /\ TypeInv /\ KeptIdInv /\ KeptInv /\ IdInv /\ Settled /\ Solo /\ DirInv /\ Served
      /\ Grounded(folders) /\ folders \in View /\ req \in [Reqs -> Request]
      /\ born \in [Files \cup Folders -> Users \cup {None}]
  BY DEF ForestInv, KeptIdInv, TypeInv, TypeOK
<1>1. TypeInv' /\ KeptIdInv'
  BY <1>t, NextType, NextKept
<1>2. CASE UNCHANGED vars
  BY <1>t, <1>1, <1>2 DEF vars, ForestInv, Settled, Solo, DirInv, Served
<1>3. ASSUME NEW r \in Reqs, Acts(r) PROVE ForestInv'
  <2> DEFINE q == req[r]
  <2>1. Settled' /\ Solo' /\ DirInv'
    BY <1>t, <1>1, <1>3, DirStep, SoloStep
  <2>2. Served'
    <3>1. \A x \in Reqs \ {r} : req'[x] = req[x]
      BY <1>t, <1>3, OneActs DEF Acts
    <3>2. Done(r) => req'[r].op = "none"
      BY <1>t DEF Done, Idle
    <3>3. req'[r].op \in Ops \cup {"none"}
      BY <1>t, <1>3, <3>2, ArriveUser, ContinueUser DEF Acts, Served, Fail, LockTimeout
    <3> QED BY <1>t, <3>1, <3>3 DEF Served
  <2>3. Grounded(folders')
    <3>1. CASE UNCHANGED folders
      BY <1>t, <3>1
    <3>2. CASE CreateFolder(r)
      <4> DEFINE x == NewId(Folders)
                 row == [parent |-> q.g, owner |-> q.user, size |-> 0]
      <4>1. r \in Pending({"createfolder"})
        BY <3>2 DEF CreateFolder, Pending, At
      <4>2. x \in Folders /\ born[x] = None
        BY <1>t, <4>1, NewIdFree DEF IdInv, Free
      <4>3. folders' = [folders EXCEPT ![x] = row]
        BY <3>2 DEF CreateFolder
      <4>4. q.g \in Folders /\ q.user \in Users /\ Has(born, q.user, q.g)
        BY <1>t, <3>2 DEF CreateFolder, At, TypeInv, ReqOK, KeptInv, Keeps
      <4> HIDE DEF x
      <4>5. row \in FolderRow /\ row.parent = q.g
        BY <4>4 DEF FolderRow
      <4>6. folders[x] = None /\ \A g \in Folders : folders[g] # None => folders[g].parent # x
        <5>1. \A g \in Folders : folders[g] # None => born[g] \in Users
          BY <1>t DEF KeptInv, View, FolderRow
        <5> QED BY <1>t, <4>2, <5>1, StorageAssumption DEF KeptInv, Suits
      <4>7. q.g # x
        BY <4>2, <4>4, StorageAssumption DEF Has
      <4> HIDE DEF row, q
      <4> QED BY <1>t, <4>2, <4>3, <4>4, <4>5, <4>6, <4>7, GroundedLeaf
    <3>3. CASE Commit(r)
      <4>1. q \in Request /\ ReqOK(q) /\ DirFresh(born, folders, q) /\ q.pc = "commit"
        BY <1>t, <3>3 DEF TypeInv, DirInv, Commit
      <4>2. ~Failures \/ q.op # "movefolder"
        BY <1>t DEF Served
      <4>3. folders' = AfterCommit(folders, q)
        BY <3>3 DEF Commit, AfterCommit
      <4> QED BY <1>t, <4>1, <4>2, <4>3, CommitForest
    <3>4. UNCHANGED folders \/ CreateFolder(r) \/ Commit(r)
      BY <1>t, <1>3, FolderActs
    <3> QED BY <3>1, <3>2, <3>3, <3>4
  <2> QED BY <1>1, <2>1, <2>2, <2>3 DEF ForestInv
<1> QED BY <1>2, <1>3 DEF Next, Acts

\* With one request at a time on an account and clients that move folders below
\* folders of their own only, the folders of all accounts stay a forest, for all
\* operations, every order of reads and commits, and moves of a folder below itself
\* included (two accounts that move folders below each other's commit a cycle): such a move is found out by its own walk, which
\* never ends.  It takes that no statement of a folder move fails: the handler
\* drops the error of the last walk, so a walk that is cut commits the cycle.
THEOREM FoldersStayAForest ==
  ASSUME ~Foreign, PerUser = 1, ~Failures \/ "movefolder" \notin Ops
  PROVE  Spec => []HierarchyAcyclic
<1>1. ForestInv /\ [Next]_vars => ForestInv'
  BY ForestNext
<1>2. ForestInv => HierarchyAcyclic
  BY GroundedAcyclic DEF ForestInv, HierarchyAcyclic
<1> QED BY <1>1, <1>2, ForestInit, PTL DEF Spec

-----------------------------------------------------------------------------
(* What lies inside what, in a forest: a folder lies inside itself and inside *)
(* whatever its parent lies inside.                                           *)

LEMMA ClimbUp ==
  ASSUME NEW v, NEW f
  PROVE  \A n \in 0..Depth : n + 1 <= Depth => Climb(v, f)[n + 1] = Climb(v, Up(v, f))[n]
<1> DEFINE at == Climb(v, f)
           up == Climb(v, Up(v, f))
           N == {n \in Nat : n + 1 <= Depth => at[n + 1] = up[n]}
<1>d. Depth \in Nat
  BY DepthType
<1>1. /\ \A n \in 0..Depth : at[n] = IF n = 0 THEN f ELSE Up(v, at[n - 1])
      /\ \A n \in 0..Depth : up[n] = IF n = 0 THEN Up(v, f) ELSE Up(v, up[n - 1])
  BY ClimbStep
<1> HIDE DEF at, up
<1>2. 0 \in N
  <2> SUFFICES ASSUME 0 + 1 <= Depth PROVE at[0 + 1] = up[0]
    OBVIOUS
  <2>1. 0 \in 0..Depth /\ 1 \in 0..Depth /\ 0 + 1 = 1 /\ 1 - 1 = 0 /\ 1 # 0
    BY <1>d
  <2>2. at[0] = f /\ at[1] = Up(v, at[0]) /\ up[0] = Up(v, f)
    BY <1>1, <2>1
  <2> QED BY <2>1, <2>2
<1>3. ASSUME NEW n \in Nat, n \in N PROVE n + 1 \in N
  <2> SUFFICES ASSUME (n + 1) + 1 <= Depth PROVE at[(n + 1) + 1] = up[n + 1]
    OBVIOUS
  <2>1. /\ n + 1 \in 0..Depth /\ n + 1 # 0 /\ (n + 1) - 1 = n
        /\ (n + 1) + 1 \in 0..Depth /\ (n + 1) + 1 # 0 /\ ((n + 1) + 1) - 1 = n + 1
    BY <1>d
  <2>2. at[n + 1] = up[n]
    BY <1>3, <1>d, <2>1
  <2>3. at[(n + 1) + 1] = Up(v, at[n + 1]) /\ up[n + 1] = Up(v, up[n])
    BY <1>1, <2>1
  <2> QED BY <2>2, <2>3
<1> HIDE DEF N
<1>4. Nat \subseteq N
  BY <1>2, <1>3, Induction
<1> QED BY <1>4 DEF N, at, up

\* Only what is there lies inside anything, and only inside what is there.
LEMMA InsideLive ==
  ASSUME NEW P, NEW x, NEW g, Inside(P, x, g)
  PROVE  x \in Folders /\ P[x] # None /\ g \in Folders /\ P[g] # None
<1>1. PICK n \in 0..(Depth - 1) : Climb(P, x)[n] = g /\ g \in Folders /\ P[g] # None
  BY DEF Inside, Chain
<1>2. n \in 0..Depth /\ 0 \in 0..n /\ 0 \in 0..Depth
  BY DepthType
<1>3. Climb(P, x)[0] \in Folders /\ P[Climb(P, x)[0]] # None
  BY <1>1, <1>2, LiveBefore
<1>4. Climb(P, x)[0] = x
  BY <1>2, ClimbStep
<1> QED BY <1>1, <1>3, <1>4

LEMMA InsideUp ==
  ASSUME NEW P, Acyclic(P), NEW x \in Folders, P[x] # None, NEW g
  PROVE  Inside(P, x, g) <=> g = x \/ Inside(P, P[x].parent, g)
<1> DEFINE at == Climb(P, x)
           p == P[x].parent
           up == Climb(P, p)
<1>d. Depth \in Nat /\ Depth # 0
  BY DepthType, FS_EmptySet, FoldersAssumption DEF Depth
<1>1. \A n \in 0..Depth : n + 1 <= Depth => at[n + 1] = up[n]
  BY ClimbUp DEF Up
<1>2. at[0] = x
  BY <1>d, ClimbStep
<1>3. ~(at[Depth] \in Folders /\ P[at[Depth]] # None)
  BY DEF Acyclic, Spins
<1>4. /\ Inside(P, x, g) <=> g \in Folders /\ P[g] # None /\ \E n \in 0..(Depth - 1) : at[n] = g
      /\ Inside(P, p, g) <=> g \in Folders /\ P[g] # None /\ \E n \in 0..(Depth - 1) : up[n] = g
  BY DEF Inside, Chain
<1> HIDE DEF at, up, p
<1>5. ASSUME NEW n \in 0..(Depth - 1), at[n] = g PROVE g = x \/ \E m \in 0..(Depth - 1) : up[m] = g
  <2>1. CASE n = 0
    BY <1>2, <1>5, <2>1
  <2>2. CASE n # 0
    <3>1. n - 1 \in 0..(Depth - 1) /\ n - 1 \in 0..Depth /\ (n - 1) + 1 = n /\ n <= Depth
      BY <1>d, <2>2
    <3>2. up[n - 1] = g
      BY <1>1, <1>5, <3>1
    <3> QED BY <3>1, <3>2
  <2> QED BY <2>1, <2>2
<1>6. ASSUME NEW n \in 0..(Depth - 1), up[n] = g, g \in Folders, P[g] # None
      PROVE  \E m \in 0..(Depth - 1) : at[m] = g
  <2>1. n \in 0..Depth /\ n + 1 <= Depth
    BY <1>d
  <2>2. at[n + 1] = g
    BY <1>1, <1>6, <2>1
  <2>3. n + 1 # Depth
    BY <1>3, <1>6, <2>2
  <2>4. n + 1 \in 0..(Depth - 1)
    BY <1>d, <2>1, <2>3
  <2> QED BY <2>2, <2>4
<1>7. 0 \in 0..(Depth - 1)
  BY <1>d
<1> QED BY <1>2, <1>4, <1>5, <1>6, <1>7 DEF p

\* What holds of a folder if it holds of its parent, should there be one, holds
\* of every folder of a forest.
LEMMA TreeInduction ==
  ASSUME NEW P, Grounded(P), NEW Z,
         \A x \in Folders : P[x] # None
            /\ (P[x].parent \in Folders /\ P[P[x].parent] # None => P[x].parent \in Z) => x \in Z
  PROVE  \A x \in Folders : P[x] # None => x \in Z
<1> PICK h \in [Folders -> Nat] : Descends(P, h)
  BY DEF Grounded
<1> DEFINE N == {n \in Nat : \A x \in Folders : P[x] # None /\ h[x] <= n => x \in Z}
<1>1. 0 \in N
  <2> SUFFICES ASSUME NEW x \in Folders, P[x] # None, h[x] <= 0 PROVE x \in Z
    OBVIOUS
  <2>1. ~(P[x].parent \in Folders /\ P[P[x].parent] # None)
    BY DEF Descends
  <2> QED BY <2>1
<1>2. ASSUME NEW n \in Nat, n \in N PROVE n + 1 \in N
  <2> SUFFICES ASSUME NEW x \in Folders, P[x] # None, h[x] <= n + 1 PROVE x \in Z
    OBVIOUS
  <2>1. ASSUME P[x].parent \in Folders, P[P[x].parent] # None PROVE P[x].parent \in Z
    <3> DEFINE p == P[x].parent
    <3>1. h[p] < h[x]
      BY <2>1 DEF Descends
    <3>2. h[p] \in Nat /\ h[x] \in Nat
      BY <2>1
    <3> HIDE DEF p
    <3>3. h[p] <= n
      BY <3>1, <3>2
    <3> QED BY <1>2, <2>1, <3>3 DEF p
  <2> QED BY <2>1
<1> HIDE DEF N
<1>3. Nat \subseteq N
  BY <1>1, <1>2, Induction
<1> SUFFICES ASSUME NEW x \in Folders, P[x] # None PROVE x \in Z
  OBVIOUS
<1>4. h[x] \in N /\ h[x] <= h[x]
  BY <1>3
<1> QED BY <1>4 DEF N

LEMMA InsideSelf ==
  ASSUME NEW P, Grounded(P), NEW g \in Folders, P[g] # None
  PROVE  Inside(P, g, g)
BY GroundedAcyclic, InsideUp

LEMMA InsideTrans ==
  ASSUME NEW P, Grounded(P), NEW x, NEW y, NEW g, Inside(P, x, y), Inside(P, y, g)
  PROVE  Inside(P, x, g)
<1> DEFINE Z == {z \in Folders : Inside(P, z, y) => Inside(P, z, g)}
<1>1. \A z \in Folders : P[z] # None
         /\ (P[z].parent \in Folders /\ P[P[z].parent] # None => P[z].parent \in Z) => z \in Z
  <2> SUFFICES ASSUME NEW z \in Folders, P[z] # None, Inside(P, z, y),
                      P[z].parent \in Folders /\ P[P[z].parent] # None => P[z].parent \in Z
               PROVE  Inside(P, z, g)
    OBVIOUS
  <2>1. z = y \/ Inside(P, P[z].parent, y)
    BY GroundedAcyclic, InsideUp
  <2>2. CASE z = y
    BY <2>2
  <2>3. CASE Inside(P, P[z].parent, y)
    <3>1. Inside(P, P[z].parent, g)
      BY <2>3, InsideLive
    <3> QED BY <3>1, GroundedAcyclic, InsideUp
  <2> QED BY <2>1, <2>2, <2>3
<1>2. x \in Folders /\ P[x] # None
  BY InsideLive
<1> HIDE DEF Z
<1>3. x \in Z
  BY <1>1, <1>2, TreeInduction
<1> QED BY <1>3 DEF Z

\* Of two folders that hold a third one, one holds the other.
LEMMA InsideOrdered ==
  ASSUME NEW P, Grounded(P), NEW x, NEW g, NEW m, Inside(P, x, g), Inside(P, x, m)
  PROVE  Inside(P, g, m) \/ Inside(P, m, g)
<1> DEFINE Z == {z \in Folders : Inside(P, z, g) /\ Inside(P, z, m)
                                   => Inside(P, g, m) \/ Inside(P, m, g)}
<1>1. \A z \in Folders : P[z] # None
         /\ (P[z].parent \in Folders /\ P[P[z].parent] # None => P[z].parent \in Z) => z \in Z
  <2> SUFFICES ASSUME NEW z \in Folders, P[z] # None, Inside(P, z, g), Inside(P, z, m),
                      P[z].parent \in Folders /\ P[P[z].parent] # None => P[z].parent \in Z
               PROVE  Inside(P, g, m) \/ Inside(P, m, g)
    OBVIOUS
  <2>1. z = g \/ Inside(P, P[z].parent, g)
    BY GroundedAcyclic, InsideUp
  <2>2. z = m \/ Inside(P, P[z].parent, m)
    BY GroundedAcyclic, InsideUp
  <2> QED BY <2>1, <2>2, InsideLive
<1>2. x \in Folders /\ P[x] # None
  BY InsideLive
<1> HIDE DEF Z
<1>3. x \in Z
  BY <1>1, <1>2, TreeInduction
<1> QED BY <1>3 DEF Z

\* No folder's parent lies inside it.
LEMMA ParentOutside ==
  ASSUME NEW P, Grounded(P), NEW m \in Folders, P[m] # None
  PROVE  ~Inside(P, P[m].parent, m)
<1> PICK h \in [Folders -> Nat] : Descends(P, h)
  BY DEF Grounded
<1> DEFINE Z == {z \in Folders : Inside(P, z, m) => h[m] <= h[z]}
<1>1. \A z \in Folders : P[z] # None
         /\ (P[z].parent \in Folders /\ P[P[z].parent] # None => P[z].parent \in Z) => z \in Z
  <2> SUFFICES ASSUME NEW z \in Folders, P[z] # None, Inside(P, z, m),
                      P[z].parent \in Folders /\ P[P[z].parent] # None => P[z].parent \in Z
               PROVE  h[m] <= h[z]
    OBVIOUS
  <2>1. z = m \/ Inside(P, P[z].parent, m)
    BY GroundedAcyclic, InsideUp
  <2>2. CASE Inside(P, P[z].parent, m)
    <3> DEFINE p == P[z].parent
    <3>1. p \in Folders /\ P[p] # None
      BY <2>2, InsideLive
    <3>2. h[m] <= h[p] /\ h[p] < h[z]
      BY <2>2, <3>1 DEF Descends
    <3>3. h[m] \in Nat /\ h[p] \in Nat /\ h[z] \in Nat
      BY <3>1
    <3> HIDE DEF p
    <3> QED BY <3>2, <3>3
  <2>3. CASE z = m
    BY <2>3
  <2> QED BY <2>1, <2>2, <2>3
<1> HIDE DEF Z
<1> SUFFICES ASSUME Inside(P, P[m].parent, m) PROVE FALSE
  OBVIOUS
<1> DEFINE p == P[m].parent
<1>2. p \in Folders /\ P[p] # None
  BY InsideLive
<1>3. h[p] < h[m] /\ h[p] \in Nat /\ h[m] \in Nat
  BY <1>2 DEF Descends
<1>4. p \in Z
  <2> HIDE DEF p
  <2> QED BY <1>1, <1>2, TreeInduction
<1>5. h[m] <= h[p]
  BY <1>4 DEF Z
<1> HIDE DEF p
<1> QED BY <1>3, <1>5

LEMMA InsideSame ==
  ASSUME NEW P, NEW Q, SameTree(P, Q)
  PROVE  \A x, g : Inside(Q, x, g) <=> Inside(P, x, g)
<1> TAKE x, g
<1>1. Chain(Q, x, Depth) = Chain(P, x, Depth)
  BY SameTreeWalks
<1> QED BY <1>1 DEF Inside

\* A folder delete drops all that lies inside the folder, and nothing else.
LEMMA DoomedInside ==
  ASSUME NEW P, Grounded(P), NEW m \in Folders, P[m] # None
  PROVE  Doomed(P, m, Depth) = {x \in Folders : Inside(P, x, m)}
<1> DEFINE D(n) == Doomed(P, m, n)
           S == {x \in Folders : Inside(P, x, m)}
           N == {n \in Nat : n <= Depth =>
                   \A x \in Folders : P[x] # None /\ Climb(P, x)[n] = m => x \in D(n + 1)}
           K == {n \in Nat : \A i \in Nat : D(i + 1) \subseteq D(i + 1 + n)}
<1>d. Depth \in Nat /\ Depth # 0
  BY DepthType, FS_EmptySet, FoldersAssumption DEF Depth
<1>r. /\ D(1) = {m}
      /\ \A n \in Nat : n # 0 =>
           D(n + 1) = D(n) \cup {g \in Folders : P[g] # None /\ P[g].parent \in D(n)}
  BY DoomedRounds
<1>1. D(Depth) \subseteq S
  <2>1. m \in S
    BY InsideSelf
  <2>2. \A g \in Folders : P[g] # None /\ P[g].parent \in S => g \in S
    BY GroundedAcyclic, InsideUp
  <2> HIDE DEF S
  <2> QED BY <1>d, <2>1, <2>2, DoomedWithin
<1>2. Nat \subseteq N
  <2> HIDE DEF D
  <2>1. 0 \in N
    <3>1. \A x : Climb(P, x)[0] = x
      BY <1>d, ClimbStep
    <3>2. 0 + 1 = 1
      OBVIOUS
    <3> QED BY <1>r, <3>1, <3>2
  <2>2. ASSUME NEW n \in Nat, n \in N PROVE n + 1 \in N
    <3> SUFFICES ASSUME n + 1 <= Depth, NEW x \in Folders, P[x] # None, Climb(P, x)[n + 1] = m
                 PROVE  x \in D((n + 1) + 1)
      OBVIOUS
    <3> DEFINE p == P[x].parent
    <3>1. n \in 0..Depth /\ n + 1 \in 0..Depth /\ n + 1 # 0 /\ n <= Depth
      BY <1>d
    <3>2. Climb(P, p)[n] = m
      BY <3>1, ClimbUp DEF Up
    <3>3. Climb(P, p)[0] \in Folders /\ P[Climb(P, p)[0]] # None
      BY <3>1, <3>2, LiveBefore
    <3>4. Climb(P, p)[0] = p
      BY <1>d, ClimbStep
    <3>5. p \in D(n + 1)
      <4> HIDE DEF p
      <4> QED BY <2>2, <3>1, <3>2, <3>3, <3>4
    <3>6. n + 1 \in Nat
      OBVIOUS
    <3> QED BY <1>r, <3>1, <3>5, <3>6
  <2> HIDE DEF N
  <2> QED BY <2>1, <2>2, Induction
<1>3. Nat \subseteq K
  <2> HIDE DEF D
  <2>1. 0 \in K
    OBVIOUS
  <2>2. ASSUME NEW n \in Nat, n \in K PROVE n + 1 \in K
    <3> SUFFICES ASSUME NEW i \in Nat PROVE D(i + 1) \subseteq D(i + 1 + (n + 1))
      OBVIOUS
    <3>1. i + 1 + n \in Nat /\ i + 1 + n # 0 /\ (i + 1 + n) + 1 = i + 1 + (n + 1)
      OBVIOUS
    <3>2. D(i + 1) \subseteq D(i + 1 + n)
      BY <2>2
    <3> QED BY <1>r, <3>1, <3>2
  <2> HIDE DEF K
  <2> QED BY <2>1, <2>2, Induction
<1>4. ASSUME NEW x \in Folders, Inside(P, x, m) PROVE x \in D(Depth)
  <2>1. PICK n \in 0..(Depth - 1) : Climb(P, x)[n] = m
    BY <1>4 DEF Inside, Chain
  <2>2. P[x] # None
    BY <1>4, InsideLive
  <2>3. n \in Nat /\ n <= Depth /\ Depth - (n + 1) \in Nat /\ n + 1 + (Depth - (n + 1)) = Depth
    BY <1>d
  <2> HIDE DEF D
  <2>4. x \in D(n + 1)
    BY <1>2, <2>1, <2>2, <2>3
  <2>5. D(n + 1) \subseteq D(n + 1 + (Depth - (n + 1)))
    BY <1>3, <2>3
  <2> QED BY <2>3, <2>4, <2>5
<1> QED BY <1>1, <1>4

\* What is left lies inside what it lay inside.
LEMMA LeftInside ==
  ASSUME NEW P, Grounded(P), NEW m \in Folders, P[m] # None
  PROVE  \A x, g : Inside(Left(P, m), x, g) <=> Inside(P, x, g) /\ ~Inside(P, x, m)
<1> DEFINE L == Left(P, m)
           In(x) == Inside(P, x, m)
           Z == {x \in Folders : ~In(x) => \A g : Inside(L, x, g) <=> Inside(P, x, g)}
<1>1. /\ \A x \in Folders : In(x) => L[x] = None
      /\ \A x \in Folders : ~In(x) => L[x] = P[x]
  BY DoomedInside DEF Left
<1>2. Acyclic(P) /\ Acyclic(L)
  BY GroundedAcyclic, GroundedPruned DEF Left
<1> HIDE DEF L
<1>3. \A x \in Folders : P[x] # None
         /\ (P[x].parent \in Folders /\ P[P[x].parent] # None => P[x].parent \in Z) => x \in Z
  <2> SUFFICES ASSUME NEW x \in Folders, P[x] # None, ~In(x),
                      P[x].parent \in Folders /\ P[P[x].parent] # None => P[x].parent \in Z,
                      NEW g
               PROVE  Inside(L, x, g) <=> Inside(P, x, g)
    OBVIOUS
  <2> DEFINE p == P[x].parent
  <2>1. ~In(p)
    BY <1>2, InsideUp
  <2>2. /\ Inside(P, x, g) <=> g = x \/ Inside(P, p, g)
        /\ Inside(L, x, g) <=> g = x \/ Inside(L, p, g)
    BY <1>1, <1>2, InsideUp
  <2>3. Inside(L, p, g) <=> Inside(P, p, g)
    <3>1. CASE p \in Folders /\ P[p] # None
      BY <2>1, <3>1
    <3>2. CASE ~(p \in Folders /\ P[p] # None)
      <4>1. ~Inside(P, p, g)
        BY <3>2, InsideLive
      <4>2. ~(p \in Folders /\ L[p] # None)
        BY <1>1, <3>2
      <4>3. ~Inside(L, p, g)
        BY <4>2, InsideLive
      <4> QED BY <4>1, <4>3
    <3> QED BY <3>1, <3>2
  <2> QED BY <2>2, <2>3
<1> TAKE x, g
<1>4. CASE x \in Folders /\ P[x] # None /\ ~In(x)
  <2> HIDE DEF Z, In
  <2>1. x \in Z
    BY <1>3, <1>4, TreeInduction
  <2> QED BY <1>4, <2>1 DEF L, Z, In
<1>5. CASE ~(x \in Folders /\ P[x] # None /\ ~In(x))
  <2>1. ~(x \in Folders /\ L[x] # None)
    BY <1>1, <1>5
  <2>2. ~Inside(L, x, g)
    BY <2>1, InsideLive
  <2> QED BY <1>5, <2>2, InsideLive DEF L
<1> QED BY <1>4, <1>5

\* Where things are in relation to a folder m: whatever lies inside m lies also
\* inside what m's parent lies inside.
LEMMA InsideVia ==
  ASSUME NEW P, Grounded(P), NEW m \in Folders, P[m] # None, NEW x, Inside(P, x, m), NEW g
  PROVE  Inside(P, x, g) <=> (Inside(P, x, g) /\ Inside(P, g, m)) \/ Inside(P, P[m].parent, g)
<1>1. Inside(P, m, g) <=> g = m \/ Inside(P, P[m].parent, g)
  BY GroundedAcyclic, InsideUp
<1>2. Inside(P, x, g) => Inside(P, g, m) \/ Inside(P, m, g)
  BY InsideOrdered
<1>3. Inside(P, m, g) => Inside(P, x, g)
  BY InsideTrans
<1>4. Inside(P, m, m)
  BY InsideSelf
<1> QED BY <1>1, <1>2, <1>3, <1>4

\* Table Q is, but for sizes, table P with folder m moved into folder to.
Reparented(P, m, to, Q) ==
  /\ \A x \in Folders : P[x] = None <=> Q[x] = None
  /\ \A x \in Folders \ {m} : P[x] # None => Q[x].parent = P[x].parent
  /\ Q[m].parent = to

\* A folder that moved took with it what lay inside it, and nothing else.
LEMMA MovedInside ==
  ASSUME NEW P, Grounded(P), NEW m \in Folders, P[m] # None, NEW Q, Grounded(Q), NEW to,
         Reparented(P, m, to, Q)
  PROVE  /\ ~Inside(P, to, m)
         /\ \A x, g : ~Inside(P, x, m) => (Inside(Q, x, g) <=> Inside(P, x, g))
         /\ \A x, g : Inside(P, x, m) =>
              (Inside(Q, x, g) <=> (Inside(P, x, g) /\ Inside(P, g, m)) \/ Inside(P, to, g))
<1> DEFINE In(x) == Inside(P, x, m)
           Z == {x \in Folders : /\ In(x) => Inside(Q, x, m)
                                 /\ ~In(x) => \A g : Inside(Q, x, g) <=> Inside(P, x, g)}
           Y == {x \in Folders : In(x) =>
                   \A g : Inside(Q, x, g) <=> (Inside(P, x, g) /\ In(g)) \/ Inside(P, to, g)}
<1>r. /\ \A x \in Folders : P[x] = None <=> Q[x] = None
      /\ \A x \in Folders \ {m} : P[x] # None => Q[x].parent = P[x].parent
      /\ Q[m].parent = to
  BY DEF Reparented
<1>a. Acyclic(P) /\ Acyclic(Q)
  BY GroundedAcyclic
<1>m. In(m) /\ Inside(Q, m, m)
  BY <1>r, InsideSelf
<1>s. ASSUME NEW x \in Folders, P[x] # None, x # m, NEW g
      PROVE  /\ Inside(P, x, g) <=> g = x \/ Inside(P, P[x].parent, g)
             /\ Inside(Q, x, g) <=> g = x \/ Inside(Q, P[x].parent, g)
  BY <1>a, <1>r, <1>s, InsideUp
<1>n. \A x, g : ~(x \in Folders /\ P[x] # None) => ~Inside(P, x, g) /\ ~Inside(Q, x, g)
  BY <1>r, InsideLive
<1>1. \A x \in Folders : P[x] # None
         /\ (P[x].parent \in Folders /\ P[P[x].parent] # None => P[x].parent \in Z) => x \in Z
  <2> SUFFICES ASSUME NEW x \in Folders, P[x] # None,
                      P[x].parent \in Folders /\ P[P[x].parent] # None => P[x].parent \in Z
               PROVE  x \in Z
    OBVIOUS
  <2>1. CASE x = m
    BY <1>m, <2>1
  <2>2. CASE x # m
    <3> DEFINE p == P[x].parent
    <3>1. In(x) <=> In(p)
      BY <1>s, <2>2
    <3>2. In(p) => p \in Z
      BY InsideLive
    <3>3. ASSUME ~In(p), NEW g PROVE Inside(Q, p, g) <=> Inside(P, p, g)
      BY <1>n, <3>3
    <3> QED BY <1>s, <2>2, <3>1, <3>2, <3>3
  <2> QED BY <2>1, <2>2
<1>2. \A x \in Folders : P[x] # None => x \in Z
  <2> HIDE DEF Z
  <2> QED BY <1>1, TreeInduction
<1>3. ~In(to)
  <2> SUFFICES ASSUME In(to) PROVE FALSE
    OBVIOUS
  <2>1. Inside(Q, to, m)
    BY <1>2, InsideLive
  <2>2. ~Inside(Q, Q[m].parent, m)
    BY <1>r, ParentOutside
  <2> QED BY <1>r, <2>1, <2>2
<1>4. \A x, g : ~In(x) => (Inside(Q, x, g) <=> Inside(P, x, g))
  BY <1>2, <1>n
<1>5. \A x \in Folders : P[x] # None
         /\ (P[x].parent \in Folders /\ P[P[x].parent] # None => P[x].parent \in Y) => x \in Y
  <2> SUFFICES ASSUME NEW x \in Folders, P[x] # None, In(x),
                      P[x].parent \in Folders /\ P[P[x].parent] # None => P[x].parent \in Y,
                      NEW g
               PROVE  Inside(Q, x, g) <=> (Inside(P, x, g) /\ In(g)) \/ Inside(P, to, g)
    OBVIOUS
  <2>1. CASE x = m
    <3>1. Inside(Q, m, g) <=> g = m \/ Inside(Q, to, g)
      BY <1>a, <1>r, InsideUp
    <3>2. Inside(Q, to, g) <=> Inside(P, to, g)
      BY <1>3, <1>4
    <3>3. Inside(P, m, g) <=> g = m \/ Inside(P, P[m].parent, g)
      BY <1>a, InsideUp
    <3>4. Inside(P, P[m].parent, g) /\ In(g) => FALSE
      BY InsideTrans, ParentOutside
    <3> QED BY <1>m, <2>1, <3>1, <3>2, <3>3, <3>4
  <2>2. CASE x # m
    <3> DEFINE p == P[x].parent
    <3>1. In(p)
      BY <1>s, <2>2
    <3>2. p \in Y
      BY <3>1, InsideLive
    <3>3. Inside(Q, p, g) <=> (Inside(P, p, g) /\ In(g)) \/ Inside(P, to, g)
      BY <3>1, <3>2
    <3> HIDE DEF p
    <3> QED BY <1>s, <2>2, <3>3 DEF p
  <2> QED BY <2>1, <2>2
<1>6. \A x \in Folders : P[x] # None => x \in Y
  <2> HIDE DEF Y
  <2> QED BY <1>5, TreeInduction
<1>7. \A x, g : In(x) => (Inside(Q, x, g) <=> (Inside(P, x, g) /\ In(g)) \/ Inside(P, to, g))
  BY <1>6, InsideLive
<1> QED BY <1>3, <1>4, <1>7

\* A new folder lies where it was created, and nothing lies inside it.
LEMMA GrownInside ==
  ASSUME NEW P \in View, NEW x \in Folders, P[x] = None,
         \A g \in Folders : P[g] # None => P[g].parent # x, NEW row \in FolderRow
  PROVE  \A y, g : y # x => (Inside([P EXCEPT ![x] = row], y, g) <=> Inside(P, y, g))
<1> DEFINE Q == [P EXCEPT ![x] = row]
<1>1. \A g \in Folders \ {x} : Q[g] = P[g]
  BY DEF View
<1> HIDE DEF Q
<1> SUFFICES ASSUME NEW y, NEW g, y # x PROVE Inside(Q, y, g) <=> Inside(P, y, g)
  BY DEF Q
<1> DEFINE S == ({y, Top} \cup Folders \cup {Up(P, z) : z \in {y, Top}}) \ {x}
<1>2. ASSUME NEW z \in S PROVE Up(P, z) \in S /\ Up(Q, z) = Up(P, z)
  <2>1. Up(Q, z) = Up(P, z)
    BY <1>1 DEF Up
  <2>2. CASE z \in Folders /\ P[z] # None
    <3>1. P[z] \in FolderRow /\ Up(P, z) = P[z].parent
      BY <2>2 DEF View, Up
    <3> QED BY <2>1, <2>2, <3>1 DEF FolderRow
  <2>3. CASE ~(z \in Folders /\ P[z] # None)
    BY <2>1, <2>3, FoldersAssumption DEF Up
  <2> QED BY <2>2, <2>3
<1>3. y \in S
  OBVIOUS
<1> HIDE DEF S
<1>4. Climb(P, y) = Climb(Q, y) /\ \A n \in 0..Depth : Climb(P, y)[n] \in S
  BY <1>2, <1>3, ClimbSame
<1>5. \A n \in 0..(Depth - 1) : Climb(P, y)[n] # x
  BY <1>4, DepthType DEF S
<1> QED BY <1>1, <1>4, <1>5 DEF Inside, Chain

-----------------------------------------------------------------------------
(* What walks do to the sizes: every folder the start lies inside gets the     *)
(* size, or loses it.                                                         *)

Less(n, s) == IF n >= s THEN n - s ELSE 0

LEMMA AddEffect ==
  ASSUME NEW P \in View, NEW f, NEW row \in FolderRow \cup {None}, RowOf(P, f, row),
         row = None => RowAt(P, f) = None, NEW s \in Nat,
         NEW Q, Q = Overlay(P, AddFileFolderSize(P, f, row, s, Depth)),
         NEW g \in Folders, P[g] # None
  PROVE  Q[g].size = IF Inside(P, f, g) THEN (IF g = f THEN row.size ELSE P[g].size) + s
                     ELSE P[g].size
<1>1. CASE row = None
  <2>1. ~Inside(P, f, g)
    BY <1>1, InsideLive DEF RowAt
  <2>2. Q[g] = P[g]
    BY <1>1 DEF AddFileFolderSize, NoWrites, Overlay
  <2> QED BY <2>1, <2>2
<1>2. CASE row # None
  <2> DEFINE seen == [P EXCEPT ![f] = row]
             C == Chain(seen, f, Depth)
             add == AddFileFolderSize(P, f, row, s, Depth)
  <2>1. seen \in View /\ SameTree(P, seen) /\ C = Chain(P, f, Depth)
    BY <1>2, WalkChain
  <2>2. add = [x \in Folders |-> IF x \in C THEN [seen[x] EXCEPT !.size = @ + s] ELSE None]
    BY <1>2 DEF AddFileFolderSize
  <2>3. seen[g] = (IF g = f THEN row ELSE P[g])
    BY <1>2 DEF View, RowOf
  <2>4. Inside(P, f, g) <=> g \in C
    BY <2>1 DEF Inside
  <2>5. seen[g] \in FolderRow
    BY <1>2, <2>3 DEF View
  <2> HIDE DEF seen, C, add
  <2>6. CASE g \in C
    <3> DEFINE new == [seen[g] EXCEPT !.size = @ + s]
    <3>1. new \in FolderRow /\ new.size = seen[g].size + s
      BY <2>5 DEF FolderRow
    <3>2. add[g] = new
      BY <2>2, <2>6
    <3> HIDE DEF new
    <3>3. Q[g] = new
      BY <3>1, <3>2, NoneIsNoRow DEF Overlay, add
    <3> QED BY <2>3, <2>4, <2>6, <3>1, <3>3
  <2>7. CASE g \notin C
    <3>1. Q[g] = P[g]
      BY <2>2, <2>7 DEF Overlay, add
    <3> QED BY <2>4, <2>7, <3>1
  <2> QED BY <2>6, <2>7
<1> QED BY <1>1, <1>2

LEMMA SubEffect ==
  ASSUME NEW P \in View, NEW f, NEW s \in Nat,
         NEW Q, Q = Overlay(P, SubFileFolderSize(P, f, RowAt(P, f), s, Depth)),
         NEW g \in Folders, P[g] # None
  PROVE  Q[g].size = IF Inside(P, f, g) THEN Less(P[g].size, s) ELSE P[g].size
<1> DEFINE row == RowAt(P, f)
<1>0. row \in FolderRow \cup {None} /\ RowOf(P, f, row)
  BY DEF RowAt, RowOf, View
<1>1. CASE row = None
  <2>1. ~Inside(P, f, g)
    BY <1>1, InsideLive DEF RowAt
  <2>2. Q[g] = P[g]
    BY <1>1 DEF SubFileFolderSize, NoWrites, Overlay
  <2> QED BY <2>1, <2>2
<1>2. CASE row # None
  <2> DEFINE C == Chain(P, f, Depth)
             sub == SubFileFolderSize(P, f, row, s, Depth)
  <2>1. [P EXCEPT ![f] = row] = P
    BY DEF RowAt, View
  <2> HIDE DEF row
  <2>2. sub = [x \in Folders |-> IF x \in C THEN SubSize(P[x], s) ELSE None]
    BY <1>2, <2>1 DEF SubFileFolderSize
  <2>4. Inside(P, f, g) <=> g \in C
    BY DEF Inside
  <2>5. P[g] \in FolderRow
    BY DEF View
  <2> HIDE DEF C, sub
  <2>6. CASE g \in C
    <3> DEFINE new == SubSize(P[g], s)
    <3>1. new \in FolderRow /\ new.size = Less(P[g].size, s)
      BY <2>5 DEF FolderRow, SubSize, Less
    <3>2. sub[g] = new
      BY <2>2, <2>6
    <3> HIDE DEF new
    <3>3. Q[g] = new
      BY <3>1, <3>2, NoneIsNoRow DEF Overlay, sub, row
    <3> QED BY <2>4, <2>6, <3>1, <3>3
  <2>7. CASE g \notin C
    <3>1. Q[g] = P[g]
      BY <2>2, <2>7 DEF Overlay, sub, row
    <3> QED BY <2>4, <2>7, <3>1
  <2> QED BY <2>6, <2>7
<1> QED BY <1>1, <1>2

\* A move, as the code does it, adds to the target's size as it was before the
\* size was taken off along the old chain.
LEMMA TransferEffect ==
  ASSUME NEW P \in View, NEW from, NEW to, NEW s \in Nat,
         NEW Q, Q = Overlay(P, Transfer(P, from, RowAt(P, from), to, RowAt(P, to), s, Depth)),
         NEW g \in Folders, P[g] # None
  PROVE  LET less == IF Inside(P, from, g) THEN Less(P[g].size, s) ELSE P[g].size
         IN  Q[g].size = IF Inside(P, to, g) THEN (IF g = to THEN P[g].size ELSE less) + s ELSE less
<1> DEFINE src == RowAt(P, from)
           dst == RowAt(P, to)
           sub == SubFileFolderSize(P, from, src, s, Depth)
           over == Overlay(P, sub)
           add == AddFileFolderSize(over, to, dst, s, Depth)
           less == IF Inside(P, from, g) THEN Less(P[g].size, s) ELSE P[g].size
<1>0. /\ src \in FolderRow \cup {None} /\ RowOf(P, from, src)
      /\ dst \in FolderRow \cup {None} /\ RowOf(P, to, dst)
  BY DEF RowAt, RowOf, View
<1>1. sub \in View /\ over \in View /\ SameTree(P, over)
  BY <1>0, SubType, OverlayType, WalkTree
<1>2. over[g].size = less
  BY SubEffect
<1>3. Transfer(P, from, src, to, dst, s, Depth) = Overlay(sub, add)
  BY DEF Transfer
<1>4. dst # None => to \in Folders /\ dst = P[to]
  BY DEF RowAt
<1>5. dst = None => RowAt(over, to) = None
  BY <1>1 DEF SameTree, RowAt
<1> HIDE DEF src, dst, add, sub, less
<1>6. Q = Overlay(over, add)
  BY <1>3, OverlayTwice DEF src, dst
<1> HIDE DEF over
<1>7. RowOf(over, to, dst) /\ over[g] # None
  BY <1>0, <1>1 DEF SameTree, RowOf
<1>8. Q[g].size = IF Inside(over, to, g) THEN (IF g = to THEN dst.size ELSE over[g].size) + s
                  ELSE over[g].size
  BY <1>0, <1>1, <1>5, <1>6, <1>7, AddEffect DEF add
<1>9. Inside(over, to, g) <=> Inside(P, to, g)
  BY <1>1, InsideSame
<1>10. Inside(P, to, g) /\ g = to => dst = P[g]
  BY <1>4 DEF dst, RowAt
<1>11. Q[g].size = IF Inside(P, to, g) THEN (IF g = to THEN P[g].size ELSE less) + s ELSE less
  BY <1>2, <1>8, <1>9, <1>10
<1> QED BY <1>11 DEF less

-----------------------------------------------------------------------------
(* What the files in and below a folder take up, in tables F and P.           *)

FilesIn(F, P, g) == {f \in Files : F[f] # None /\ Inside(P, F[f].folder, g)}
BelowIn(F, P, g) == SumFunctionOnSet(SizesIn(F), FilesIn(F, P, g))

\* The size of x where a condition holds.
When(c, n) == IF c THEN n ELSE 0

LEMMA BelowNat == \A F, P, g : BelowIn(F, P, g) \in Nat
<1> TAKE F, P, g
<1>1. FilesIn(F, P, g) \in SUBSET Files
  BY DEF FilesIn
<1> QED BY <1>1, SizesType, SumNat DEF BelowIn

LEMMA BelowSame ==
  ASSUME NEW F, NEW P, NEW g, NEW G, NEW Q, NEW x, FilesIn(G, Q, x) = FilesIn(F, P, g),
         \A f \in FilesIn(F, P, g) : G[f].md5 = F[f].md5
  PROVE  BelowIn(G, Q, x) = BelowIn(F, P, g)
<1> DEFINE S == FilesIn(F, P, g)
<1>1. S \in SUBSET Files /\ \A f \in S : F[f] # None /\ G[f] # None
  BY DEF FilesIn
<1>2. \A f \in S : SizesIn(G)[f] = SizesIn(F)[f]
  BY <1>1 DEF SizesIn
<1> HIDE DEF S
<1>3. SumFunctionOnSet(SizesIn(G), S) = SumFunctionOnSet(SizesIn(F), S)
  BY <1>1, <1>2, SizesType, SumSame
<1> QED BY <1>3 DEF BelowIn, S

LEMMA BelowTree ==
  ASSUME NEW F, NEW P, NEW Q, SameTree(P, Q), NEW g
  PROVE  BelowIn(F, Q, g) = BelowIn(F, P, g)
<1>1. FilesIn(F, Q, g) = FilesIn(F, P, g)
  BY InsideSame DEF FilesIn
<1> QED BY <1>1 DEF BelowIn

\* A file more.
LEMMA BelowAdd ==
  ASSUME NEW F, NEW x \in Files, F[x] = None, NEW row \in FileRow, NEW G, G[x] = row,
         \A f \in Files \ {x} : G[f] = F[f], NEW P, NEW g
  PROVE  BelowIn(G, P, g) = BelowIn(F, P, g) + When(Inside(P, row.folder, g), Length(row.md5))
<1> DEFINE S == FilesIn(F, P, g)
           in == Inside(P, row.folder, g)
<1>r. row # None
  BY NoneIsNoFile
<1>1. S \in SUBSET Files /\ x \notin S /\ \A f \in S : F[f] # None /\ G[f] = F[f]
  BY DEF FilesIn
<1>2. FilesIn(G, P, g) = IF in THEN S \cup {x} ELSE S
  BY <1>r DEF FilesIn
<1>3. \A f \in S : SizesIn(G)[f] = SizesIn(F)[f]
  BY <1>1 DEF SizesIn
<1>4. SizesIn(G)[x] = Length(row.md5)
  BY <1>r DEF SizesIn
<1>5. BelowIn(F, P, g) \in Nat
  BY BelowNat
<1> HIDE DEF S, in
<1>6. SumFunctionOnSet(SizesIn(G), S) = SumFunctionOnSet(SizesIn(F), S)
  BY <1>1, <1>3, SizesType, SumSame
<1>7. SumFunctionOnSet(SizesIn(G), S \cup {x}) = SumFunctionOnSet(SizesIn(G), S) + Length(row.md5)
  <2>1. S \cup {x} \in SUBSET Files
    BY <1>1
  <2> QED BY <1>1, <1>4, <2>1, SizesType, SumAdd
<1>8. BelowIn(F, P, g) = SumFunctionOnSet(SizesIn(F), S)
  BY DEF BelowIn, S
<1>9. BelowIn(G, P, g) = IF in THEN SumFunctionOnSet(SizesIn(G), S \cup {x})
                              ELSE SumFunctionOnSet(SizesIn(G), S)
  BY <1>2 DEF BelowIn
<1> QED BY <1>5, <1>6, <1>7, <1>8, <1>9 DEF When, in

\* A file in another folder.
LEMMA BelowMove ==
  ASSUME NEW F, NEW x \in Files, F[x] \in FileRow, NEW row \in FileRow, row.md5 = F[x].md5,
         NEW G, G[x] = row, \A f \in Files \ {x} : G[f] = F[f], NEW P, NEW g
  PROVE  /\ BelowIn(G, P, g) + When(Inside(P, F[x].folder, g), Length(row.md5))
              = BelowIn(F, P, g) + When(Inside(P, row.folder, g), Length(row.md5))
         /\ BelowIn(F, P, g) >= When(Inside(P, F[x].folder, g), Length(row.md5))
<1> DEFINE H == [f \in Files |-> IF f = x THEN None ELSE F[f]]
           n == Length(row.md5)
<1>1. H[x] = None /\ \A f \in Files \ {x} : H[f] = F[f] /\ F[f] = H[f] /\ G[f] = H[f]
  OBVIOUS
<1> HIDE DEF H
<1>2. BelowIn(G, P, g) = BelowIn(H, P, g) + When(Inside(P, row.folder, g), n)
  BY <1>1, BelowAdd
<1>3. BelowIn(F, P, g) = BelowIn(H, P, g) + When(Inside(P, F[x].folder, g), n)
  <2> DEFINE old == F[x]
  <2>1. old \in FileRow /\ F[x] = old /\ \A f \in Files \ {x} : F[f] = H[f]
    BY <1>1
  <2>2. Length(old.md5) = n
    OBVIOUS
  <2> HIDE DEF old, n
  <2>3. BelowIn(F, P, g) = BelowIn(H, P, g) + When(Inside(P, old.folder, g), Length(old.md5))
    BY <1>1, <2>1, BelowAdd
  <2> QED BY <2>2, <2>3 DEF old
<1>4. n \in Nat /\ BelowIn(H, P, g) \in Nat
  BY LengthType, BelowNat
<1> HIDE DEF n
<1>5. When(Inside(P, row.folder, g), n) \in Nat /\ When(Inside(P, F[x].folder, g), n) \in Nat
  BY <1>4 DEF When
<1> QED BY <1>2, <1>3, <1>4, <1>5 DEF n

\* The files inside a folder that is gone, with the files inside it.
LEMMA BelowWithout ==
  ASSUME NEW F, NEW P, NEW Q, NEW g, NEW m, NEW G,
         FilesIn(F, P, m) \subseteq FilesIn(F, P, g),
         FilesIn(G, Q, g) = FilesIn(F, P, g) \ FilesIn(F, P, m),
         \A f \in FilesIn(G, Q, g) : G[f] = F[f]
  PROVE  BelowIn(F, P, g) = BelowIn(G, Q, g) + BelowIn(F, P, m)
<1> DEFINE S == FilesIn(G, Q, g)
           T == FilesIn(F, P, m)
<1>1. S \in SUBSET Files /\ T \in SUBSET Files /\ S \cap T = {} /\ S \cup T = FilesIn(F, P, g)
  BY DEF FilesIn
<1>2. S \cup T \in SUBSET Files
  BY <1>1
<1>3. \A f \in S : SizesIn(G)[f] = SizesIn(F)[f]
  BY <1>1 DEF SizesIn
<1>4. BelowIn(F, P, g) = SumFunctionOnSet(SizesIn(F), S \cup T)
  BY <1>1 DEF BelowIn
<1>5. BelowIn(G, Q, g) = SumFunctionOnSet(SizesIn(G), S) /\ BelowIn(F, P, m) = SumFunctionOnSet(SizesIn(F), T)
  BY DEF BelowIn
<1> HIDE DEF S, T
<1>6. SumFunctionOnSet(SizesIn(F), S \cup T) = SumFunctionOnSet(SizesIn(F), S) + SumFunctionOnSet(SizesIn(F), T)
  BY <1>1, <1>2, SizesType, SumUnion
<1>7. SumFunctionOnSet(SizesIn(G), S) = SumFunctionOnSet(SizesIn(F), S)
  BY <1>1, <1>3, SizesType, SumSame
<1> QED BY <1>4, <1>5, <1>6, <1>7

-----------------------------------------------------------------------------
(* Every charge and every size accounted for.  What a delete whose row is      *)
(* gone has still to take off counts as being there.                          *)

\* What a request has still to take off folder g.
Late(w, P, g) == When(Gone(w) /\ Inside(P, w.file.folder, g), Length(w.c))

\* A number n that the code keeps and the sum m it stands for: they are the same
\* where nothing fails and u, who is not among T, moved nothing up; and n is never
\* too small where neither folder moves nor folder deletes are served.
Strict(T, u) == ~Failures /\ u \notin T
Small == Ops \cap {"movefolder", "deletefolder"} = {}
Claim(T, u, n, m) == (Strict(T, u) => n = m) /\ (Small => n >= m)

\* All the numbers of u's, when w is what u's request has come to.
StoreCounts(T, F, S, u, w) == Claim(T, u, S[u].current, UsedIn(F, u) + Owes(w))

SizesCount(T, B, F, P, u, w) ==
  \A g \in Folders : P[g] # None /\ B[g] = u =>
    Claim(T, u, P[g].size, BelowIn(F, P, g) + Late(w, P, g))

Counts(u, w) ==
  StoreCounts(tainted, files, stores, u, w) /\ SizesCount(tainted, born, files, folders, u, w)

CountInv ==
  \A u \in Users : /\ Quiet(u) => Counts(u, Idle)
                   /\ \A r \in Busy(u) : Counts(u, req[r])

LEMMA LateNat == \A w, P, g : Late(w, P, g) \in Nat
BY LengthType DEF Late, When

\* A file is its folders' owner's, all the way up.
LEMMA FilesKept ==
  ASSUME NEW B, NEW F, RowsOK(B, F), NEW P \in View, \A u : Matched(B, u, P),
         NEW g, NEW f \in FilesIn(F, P, g)
  PROVE  f \in Files /\ F[f] # None /\ g \in Folders /\ B[g] = B[f] /\ Has(B, B[f], F[f].folder)
<1>1. f \in Files /\ F[f] # None /\ Inside(P, F[f].folder, g)
  BY DEF FilesIn
<1>2. Has(B, B[f], F[f].folder)
  BY <1>1 DEF RowsOK
<1> DEFINE x == F[f].folder
           u == B[f]
<1>3. x \in Folders /\ B[x] = u /\ g \in Chain(P, x, Depth) /\ Depth \in 0..Depth
  BY <1>1, <1>2, DepthType DEF Has, Inside
<1> HIDE DEF x, u
<1>4. g \in Folders /\ B[g] = u
  BY <1>3, ChainKeeps
<1> QED BY <1>1, <1>2, <1>4 DEF u

\* What a step does to the users who have moved something up.
LEMMA TaintStep ==
  ASSUME TypeInv, NEW r \in Reqs, Acts(r), req[r].op \notin {"sharesave", "admindelete"}
  PROVE  UNCHANGED tainted \/ (Commit(r) /\ tainted' = tainted \cup {req[r].user} /\ Raises(r))
<1>1. CASE Commit(r)
  BY <1>1 DEF Commit
<1>2. CASE DeleteRow(r) \/ DeleteRefund(r) \/ CreateFolder(r) \/ SetVolume(r)
  BY <1>2 DEF DeleteRow, DeleteRefund, CreateFolder, SetVolume, history
<1> QED BY <1>1, <1>2, StepEffects DEF books

\* A request leaves the numbers of another user as they are.
LEMMA OthersCount ==
  ASSUME BaseInv, BaseInv', PerUser = 1, Ops \subseteq Paying, NEW r \in Reqs, Acts(r), FileSteps(r),
         NEW v \in Users, v # req[r].user,
         NEW w, w.op = "deletefile" => Has(born, v, w.file.folder), Counts(v, w)
  PROVE  /\ StoreCounts(tainted', files', stores', v, w)
         /\ SizesCount(tainted', born', files', folders', v, w)
<1>b. /\ TypeInv /\ KeptIdInv /\ KeptInv /\ KeptInv' /\ RowsOK(born, files) /\ RowsOK(born', files')
      /\ "sharesave" \notin Ops /\ req[r].op \notin {"sharesave", "admindelete"}
  <2>1. Knows(born, files, stores, req[r])
    BY DEF BaseInv, SoloInv, FileInv
  <2> QED BY <2>1 DEF BaseInv, SoloInv, FileInv, KeptIdInv, Paying, Knows
<1>t. /\ folders \in View /\ folders' \in View /\ files \in [Files -> FileRow \cup {None}]
      /\ born \in [Files \cup Folders -> Users \cup {None}]
  BY DEF BaseInv, TypeInv, TypeOK
<1>1. /\ \A g \in Folders : born'[g] = v <=> born[g] = v
      /\ Agree(born, v, folders, folders') /\ stores'[v] = stores[v]
  BY <1>b, FolderFrame
<1>2. UsedIn(files', v) = UsedIn(files, v)
  BY <1>b, OthersFiles, OwnedSame
<1>3. Strict(tainted', v) <=> Strict(tainted, v)
  BY <1>b, TaintStep DEF Strict
<1>4. StoreCounts(tainted', files', stores', v, w)
  BY <1>1, <1>2, <1>3 DEF Counts, StoreCounts, Claim
<1>m. (\A u : Matched(born, u, folders)) /\ (\A u : Matched(born', u, folders'))
  BY <1>b DEF KeptInv, Matched
<1>5. ASSUME NEW x, Has(born, v, x), NEW g
      PROVE  Inside(folders', x, g) <=> Inside(folders, x, g)
  <2>1. Chain(folders, x, Depth) = Chain(folders', x, Depth)
    <3>1. Depth \in 0..Depth
      BY DepthType
    <3> QED BY <1>1, <1>m, <1>t, <1>5, <3>1, ChainAgree
  <2> QED BY <2>1 DEF Inside
<1>f. /\ \A f \in Files : born[f] = v => born'[f] = v /\ files'[f] = files[f]
      /\ \A f \in Files : born'[f] = v => born[f] = v
  <2>1. \A f \in Files : born[f] = v => born'[f] = v /\ files'[f] = files[f]
    BY <1>b, FileFrame
  <2> QED BY <1>t, <2>1 DEF FileSteps, Dropping, InsertingRow, Refiling
<1>6. ASSUME NEW g \in Folders, born[g] = v
      PROVE  BelowIn(files', folders', g) = BelowIn(files, folders, g)
  <2>1. ASSUME NEW f \in FilesIn(files, folders, g)
        PROVE  f \in FilesIn(files', folders', g) /\ files'[f] = files[f]
    <3>1. f \in Files /\ born[f] = v /\ Has(born, v, files[f].folder)
      BY <1>6, <1>b, <1>m, <1>t, FilesKept
    <3> QED BY <1>5, <1>f, <2>1, <3>1 DEF FilesIn
  <2>2. ASSUME NEW f \in FilesIn(files', folders', g)
        PROVE  f \in FilesIn(files, folders, g)
    <3>1. f \in Files /\ born'[f] = v
      BY <1>1, <1>6, <1>b, <1>m, <1>t, FilesKept
    <3>2. files'[f] = files[f] /\ born[f] = v /\ files[f] # None
      BY <1>f, <2>2, <3>1 DEF FilesIn
    <3>3. Has(born, v, files[f].folder)
      BY <1>b, <3>1, <3>2 DEF RowsOK
    <3> QED BY <1>5, <2>2, <3>2, <3>3 DEF FilesIn
  <2> QED BY <2>1, <2>2, BelowSame
<1>7. SizesCount(tainted', born', files', folders', v, w)
  <2> SUFFICES ASSUME NEW g \in Folders, folders'[g] # None, born'[g] = v
               PROVE  Claim(tainted', v, folders'[g].size,
                            BelowIn(files', folders', g) + Late(w, folders', g))
    BY DEF SizesCount
  <2>1. born[g] = v /\ folders'[g] = folders[g]
    BY <1>1 DEF Agree
  <2>2. Late(w, folders', g) = Late(w, folders, g)
    BY <1>5 DEF Late, Gone
  <2>3. Claim(tainted, v, folders[g].size, BelowIn(files, folders, g) + Late(w, folders, g))
    BY <2>1 DEF Counts, SizesCount
  <2> QED BY <1>3, <1>6, <2>1, <2>2, <2>3 DEF Claim
<1> QED BY <1>4, <1>7

-----------------------------------------------------------------------------
(* What the writes of each operation do to a folder's size and to what the     *)
(* files below it take up.  P and F are the tables before, Q and G after.      *)

LEMMA UploadSizes ==
  ASSUME NEW P \in View, NEW F, NEW x \in Files, F[x] = None, NEW row \in FileRow, NEW G, G[x] = row,
         \A f \in Files \ {x} : G[f] = F[f],
         NEW Q, Q = Overlay(P, AddFileFolderSize(P, row.folder, P[row.folder], Length(row.md5), Depth)),
         NEW g \in Folders, Q[g] # None
  PROVE  P[g] # None /\ \E n \in Nat : /\ Q[g].size = P[g].size + n
                                        /\ BelowIn(G, Q, g) = BelowIn(F, P, g) + n
<1> DEFINE h == row.folder
           s == Length(row.md5)
<1>1. h \in Folders /\ s \in Nat /\ P[h] \in FolderRow \cup {None} /\ RowOf(P, h, P[h])
      /\ RowAt(P, h) = P[h]
  BY LengthType DEF FileRow, View, RowOf, RowAt
<1> HIDE DEF h, s
<1>q. Q = Overlay(P, AddFileFolderSize(P, h, P[h], s, Depth))
  BY DEF h, s
<1>2. SameTree(P, Q)
  BY <1>1, <1>q, WalkTree
<1>3. P[g] # None
  BY <1>2 DEF SameTree
<1>4. Q[g].size = P[g].size + When(Inside(P, h, g), s)
  <2>1. P[g].size \in Nat
    BY <1>3 DEF View, FolderRow
  <2>2. Q[g].size = IF Inside(P, h, g) THEN (IF g = h THEN P[h].size ELSE P[g].size) + s ELSE P[g].size
    BY <1>1, <1>3, <1>q, AddEffect
  <2> QED BY <2>1, <2>2 DEF When
<1>5. BelowIn(G, Q, g) = BelowIn(F, P, g) + When(Inside(P, h, g), s)
  BY <1>2, BelowTree, BelowAdd DEF h, s
<1>6. When(Inside(P, h, g), s) \in Nat
  BY <1>1 DEF When
<1> QED BY <1>3, <1>4, <1>5, <1>6

LEMMA DeleteSizes ==
  ASSUME NEW P \in View, NEW F, NEW h, NEW s \in Nat,
         NEW Q, Q = Overlay(P, SubFileFolderSize(P, h, RowAt(P, h), s, Depth)),
         NEW g \in Folders, Q[g] # None
  PROVE  /\ P[g] # None /\ Q[g].size = Less(P[g].size, When(Inside(P, h, g), s))
         /\ BelowIn(F, Q, g) = BelowIn(F, P, g)
<1>1. RowAt(P, h) \in FolderRow \cup {None} /\ RowOf(P, h, RowAt(P, h))
  BY DEF RowAt, RowOf, View
<1>2. SameTree(P, Q)
  BY <1>1, WalkTree
<1>3. P[g] # None
  BY <1>2 DEF SameTree
<1>4. Q[g].size = IF Inside(P, h, g) THEN Less(P[g].size, s) ELSE P[g].size
  BY <1>3, SubEffect
<1>5. P[g].size \in Nat
  BY <1>3 DEF View, FolderRow
<1> QED BY <1>2, <1>3, <1>4, <1>5, BelowTree DEF When, Less

\* Moving a file up adds what was not taken off before, to the target alone.
LEMMA MoveFileSizes ==
  ASSUME NEW P \in View, NEW F, NEW x \in Files, F[x] \in FileRow, NEW row \in FileRow,
         row.md5 = F[x].md5, NEW G, G[x] = row, \A f \in Files \ {x} : G[f] = F[f],
         NEW moving \in BOOLEAN, NEW Q,
         ~moving => F[x].folder = row.folder /\ Q = P,
         moving => Q = Overlay(P, Transfer(P, F[x].folder, RowAt(P, F[x].folder),
                                           row.folder, RowAt(P, row.folder), Length(row.md5), Depth)),
         NEW g \in Folders, Q[g] # None, P[g] # None => P[g].size >= BelowIn(F, P, g)
  PROVE  /\ P[g] # None
         /\ Q[g].size + BelowIn(F, P, g) >= P[g].size + BelowIn(G, Q, g)
         /\ moving /\ ~Inside(P, F[x].folder, row.folder)
              => Q[g].size + BelowIn(F, P, g) = P[g].size + BelowIn(G, Q, g)
         /\ ~moving => Q[g].size + BelowIn(F, P, g) = P[g].size + BelowIn(G, Q, g)
<1> DEFINE from == F[x].folder
           to == row.folder
           s == Length(row.md5)
           in == Inside(P, from, g)
           at == Inside(P, to, g)
<1>1. s \in Nat /\ BelowIn(F, P, g) \in Nat /\ BelowIn(G, Q, g) \in Nat
  BY LengthType, BelowNat
<1>2. /\ BelowIn(G, P, g) + When(in, s) = BelowIn(F, P, g) + When(at, s)
      /\ BelowIn(F, P, g) >= When(in, s)
  BY BelowMove
<1> HIDE DEF from, to, s
<1>3. CASE ~moving
  <2>1. Q = P /\ P[g] # None /\ from = to
    BY <1>3 DEF from, to
  <2>2. P[g].size \in Nat
    BY <2>1 DEF View, FolderRow
  <2> QED BY <1>1, <1>2, <1>3, <2>1, <2>2 DEF When
<1>4. CASE moving
  <2>1. Q = Overlay(P, Transfer(P, from, RowAt(P, from), to, RowAt(P, to), s, Depth))
    BY <1>4 DEF from, to, s
  <2>2. /\ RowAt(P, from) \in FolderRow \cup {None} /\ RowOf(P, from, RowAt(P, from))
        /\ RowAt(P, to) \in FolderRow \cup {None} /\ RowOf(P, to, RowAt(P, to))
    BY DEF RowAt, RowOf, View
  <2>3. SameTree(P, Q)
    BY <1>1, <2>1, <2>2, TransferTree
  <2>4. P[g] # None
    BY <2>3 DEF SameTree
  <2>5. P[g].size \in Nat /\ P[g].size >= BelowIn(F, P, g)
    BY <2>4 DEF View, FolderRow
  <2>6. BelowIn(G, Q, g) = BelowIn(G, P, g)
    BY <2>3, BelowTree
  <2> DEFINE less == IF in THEN Less(P[g].size, s) ELSE P[g].size
  <2>7. Q[g].size = IF at THEN (IF g = to THEN P[g].size ELSE less) + s ELSE less
    BY <1>1, <2>1, <2>4, TransferEffect
  <2>8. g = to /\ in => Inside(P, from, to)
    OBVIOUS
  <2> HIDE DEF in, at, less
  <2>9. less + When(in, s) = P[g].size /\ less \in Nat
    BY <1>1, <1>2, <2>5 DEF less, When, Less
  <2>10. /\ Q[g].size + BelowIn(F, P, g) >= P[g].size + BelowIn(G, Q, g)
         /\ ~(g = to /\ in) => Q[g].size + BelowIn(F, P, g) = P[g].size + BelowIn(G, Q, g)
    <3> DEFINE b == BelowIn(F, P, g)
               c == BelowIn(G, P, g)
               n == P[g].size
    <3>1. b \in Nat /\ c \in Nat /\ n \in Nat /\ s \in Nat /\ less \in Nat
      BY <1>1, <2>5, <2>6, <2>9
    <3>2. c + When(in, s) = b + When(at, s) /\ less + When(in, s) = n
      BY <1>2, <2>9
    <3> HIDE DEF b, c, n
    <3>3. CASE at
      <4>1. c + When(in, s) = b + s
        BY <3>2, <3>3 DEF When
      <4>2. CASE in
        <5>1. c = b /\ less + s = n
          BY <3>1, <3>2, <4>1, <4>2 DEF When
        <5>2. Q[g].size = IF g = to THEN n + s ELSE n
          BY <2>7, <3>3, <5>1 DEF n
        <5> QED BY <2>6, <3>1, <4>2, <5>1, <5>2 DEF b, c, n
      <4>3. CASE ~in
        <5>1. c = b + s /\ less = n
          BY <3>1, <3>2, <4>1, <4>3 DEF When
        <5>2. Q[g].size = n + s
          BY <2>7, <3>3, <5>1 DEF n
        <5> QED BY <2>6, <3>1, <4>3, <5>1, <5>2 DEF b, c, n
      <4> QED BY <4>2, <4>3
    <3>4. CASE ~at
      <4>1. c + When(in, s) = b /\ Q[g].size = less
        BY <2>7, <3>1, <3>2, <3>4 DEF When
      <4>2. When(in, s) \in Nat
        BY <3>1 DEF When
      <4>3. less + b = n + c
        BY <3>1, <3>2, <4>1, <4>2
      <4>4. n + c \in Nat
        BY <3>1
      <4> QED BY <2>6, <4>1, <4>3, <4>4 DEF b, c, n
    <3> QED BY <3>3, <3>4
  <2> QED BY <1>4, <2>4, <2>8, <2>10 DEF from, to
<1> QED BY <1>3, <1>4

\* What a moved folder's files add to and take off what lies below a folder g:
\* nothing inside the moved folder, its size below each of the two parents.
LEMMA MoveFolderBelow ==
  ASSUME NEW P, Grounded(P), NEW m \in Folders, P[m] # None, NEW Q, Grounded(Q), NEW to,
         Reparented(P, m, to, Q), NEW F, NEW g
  PROVE  BelowIn(F, Q, g) + When(Inside(P, P[m].parent, g), BelowIn(F, P, m))
           = BelowIn(F, P, g) + When(Inside(P, to, g), BelowIn(F, P, m))
<1> DEFINE In(x) == Inside(P, x, m)
           a == Inside(P, P[m].parent, g)
           b == Inside(P, to, g)
<1>1. /\ ~In(to)
      /\ \A x, y : ~In(x) => (Inside(Q, x, y) <=> Inside(P, x, y))
      /\ \A x, y : In(x) => (Inside(Q, x, y) <=> (Inside(P, x, y) /\ In(y)) \/ Inside(P, to, y))
  BY MovedInside
<1>2. \A x : In(x) => \A y : Inside(P, x, y) <=> (Inside(P, x, y) /\ In(y)) \/ Inside(P, P[m].parent, y)
  <2> TAKE x
  <2> SUFFICES ASSUME In(x), NEW y
               PROVE  Inside(P, x, y) <=> (Inside(P, x, y) /\ In(y)) \/ Inside(P, P[m].parent, y)
    OBVIOUS
  <2> QED BY InsideVia
<1>3. ~In(P[m].parent)
  BY ParentOutside
<1>4. In(g) => ~a /\ ~b
  BY <1>1, <1>3, InsideTrans
<1>5. FilesIn(F, Q, m) = FilesIn(F, P, m)
  <2>1. \A x : Inside(Q, x, m) <=> In(x)
    <3>1. Inside(P, m, m)
      BY InsideSelf
    <3> QED BY <1>1, <3>1
  <2> QED BY <2>1 DEF FilesIn
<1>6. BelowIn(F, P, m) \in Nat /\ BelowIn(F, P, g) \in Nat /\ BelowIn(F, Q, g) \in Nat
      /\ BelowIn(F, Q, m) = BelowIn(F, P, m)
  BY <1>5, BelowNat DEF BelowIn
<1> HIDE DEF In, a, b
<1>7. CASE a <=> b
  <2>1. \A x : Inside(Q, x, g) <=> Inside(P, x, g)
    BY <1>1, <1>2, <1>7 DEF a, b
  <2>2. BelowIn(F, Q, g) = BelowIn(F, P, g)
    BY <2>1 DEF BelowIn, FilesIn
  <2> QED BY <1>6, <1>7, <2>2 DEF When, a, b
<1>8. CASE a /\ ~b
  <2>1. FilesIn(F, P, m) \subseteq FilesIn(F, P, g)
    BY <1>2, <1>8 DEF FilesIn, In, a
  <2>2. FilesIn(F, Q, g) = FilesIn(F, P, g) \ FilesIn(F, P, m)
    <3>1. \A x : Inside(Q, x, g) <=> Inside(P, x, g) /\ ~In(x)
      BY <1>1, <1>4, <1>8 DEF b
    <3> QED BY <3>1 DEF FilesIn, In
  <2>3. BelowIn(F, P, g) = BelowIn(F, Q, g) + BelowIn(F, P, m)
    BY <2>1, <2>2, BelowWithout
  <2> QED BY <1>6, <1>8, <2>3 DEF When, a, b
<1>9. CASE ~a /\ b
  <2>1. FilesIn(F, Q, m) \subseteq FilesIn(F, Q, g)
    <3>1. \A x : In(x) => Inside(Q, x, g)
      BY <1>1, <1>9 DEF b
    <3> QED BY <1>5, <3>1 DEF FilesIn, In
  <2>2. FilesIn(F, P, g) = FilesIn(F, Q, g) \ FilesIn(F, Q, m)
    <3>1. \A x : Inside(P, x, g) <=> Inside(Q, x, g) /\ ~In(x)
      BY <1>1, <1>2, <1>4, <1>9 DEF a
    <3> QED BY <1>5, <3>1 DEF FilesIn, In
  <2>3. BelowIn(F, Q, g) = BelowIn(F, P, g) + BelowIn(F, Q, m)
    BY <2>1, <2>2, BelowWithout
  <2> QED BY <1>6, <1>9, <2>3 DEF When, a, b
<1> QED BY <1>7, <1>8, <1>9

\* What a folder move leaves, when the move changes sizes and when it does not.
FolderMoved(P, m, to, moving, Q) ==
  LET from == P[m].parent
      seen == [P EXCEPT ![m] = [P[m] EXCEPT !.parent = to]]
  IN  IF moving
      THEN Q = Overlay(seen, Transfer(seen, from, RowAt(P, from), to, RowAt(P, to), P[m].size, Depth))
      ELSE Q = seen /\ (from = to \/ (RowAt(P, from) = None /\ RowAt(P, to) = None))

\* A folder's move takes its size from one chain of parents to the other.
LEMMA MoveFolderSizes ==
  ASSUME NEW P \in View, Grounded(P), NEW m \in Folders, P[m] # None, NEW to \in Folders \cup {Top},
         to # m,
         NEW moving \in BOOLEAN, NEW Q, Grounded(Q), FolderMoved(P, m, to, moving, Q),
         moving => ~Inside(P, P[m].parent, to),
         NEW F, P[m].size = BelowIn(F, P, m),
         NEW g \in Folders, Q[g] # None, P[g] # None => P[g].size = BelowIn(F, P, g)
  PROVE  P[g] # None /\ Q[g].size = BelowIn(F, Q, g)
<1> DEFINE from == P[m].parent
           s == P[m].size
           a == Inside(P, from, g)
           b == Inside(P, to, g)
           row == [P[m] EXCEPT !.parent = to]
           seen == [P EXCEPT ![m] = row]
<1>m. P[m] \in FolderRow
  BY DEF View
<1>1. row \in FolderRow /\ row.parent = to /\ row.size = s /\ s \in Nat
  BY <1>m DEF FolderRow
<1>2. from # m
  <2> SUFFICES ASSUME from = m PROVE FALSE
    OBVIOUS
  <2>1. Inside(P, m, m) /\ ~Inside(P, from, m)
    BY InsideSelf, ParentOutside
  <2> QED BY <2>1
<1> HIDE DEF row
<1>3. /\ seen \in View /\ seen[m] = row /\ \A x \in Folders \ {m} : seen[x] = P[x]
  BY <1>1 DEF View, row
<1>4. row # None
  BY <1>1, NoneIsNoRow
<1>5. RowAt(seen, from) = RowAt(P, from) /\ RowAt(seen, to) = RowAt(P, to)
  BY <1>2, <1>3 DEF RowAt
<1> DEFINE moved == Transfer(seen, from, RowAt(seen, from), to, RowAt(seen, to), s, Depth)
<1>6. /\ moving => Q = Overlay(seen, moved)
      /\ ~moving => Q = seen /\ (from = to \/ (RowAt(P, from) = None /\ RowAt(P, to) = None))
  BY <1>5 DEF FolderMoved, row
<1> HIDE DEF from, s, moved, seen
<1>7. SameTree(seen, Q)
  <2>1. CASE ~moving
    BY <1>6, <2>1 DEF SameTree
  <2>2. CASE moving
    <3>1. /\ RowAt(seen, from) \in FolderRow \cup {None} /\ RowOf(seen, from, RowAt(seen, from))
          /\ RowAt(seen, to) \in FolderRow \cup {None} /\ RowOf(seen, to, RowAt(seen, to))
      BY <1>3 DEF RowAt, RowOf, View
    <3> QED BY <1>1, <1>3, <1>6, <2>2, <3>1, TransferTree DEF moved
  <2> QED BY <2>1, <2>2
<1>8. SameTree(Q, seen)
  BY <1>7 DEF SameTree
<1>9. Grounded(seen)
  BY <1>8, GroundedSame
<1>10. Reparented(P, m, to, seen)
  BY <1>1, <1>3, <1>4 DEF Reparented
<1>11. P[g] # None /\ seen[g] # None /\ seen[g].size = P[g].size /\ P[g].size \in Nat
       /\ P[g].size = BelowIn(F, P, g)
  <2>1. P[g] # None /\ seen[g] # None
    BY <1>7, <1>10 DEF SameTree, Reparented
  <2>2. seen[g].size = P[g].size
    BY <1>1, <1>3 DEF s
  <2> QED BY <2>1, <2>2 DEF View, FolderRow
<1>12. BelowIn(F, Q, g) + When(a, s) = P[g].size + When(b, s)
  <2>1. BelowIn(F, seen, g) + When(a, s) = BelowIn(F, P, g) + When(b, s)
    <3>1. BelowIn(F, seen, g) + When(Inside(P, P[m].parent, g), BelowIn(F, P, m))
            = BelowIn(F, P, g) + When(Inside(P, to, g), BelowIn(F, P, m))
      BY <1>9, <1>10, MoveFolderBelow
    <3> QED BY <3>1 DEF from, s
  <2>2. BelowIn(F, Q, g) = BelowIn(F, seen, g)
    BY <1>7, BelowTree
  <2> QED BY <1>11, <2>1, <2>2
<1>13. BelowIn(F, Q, g) \in Nat /\ BelowIn(F, P, g) \in Nat
  BY BelowNat
<1>14. a => P[g].size >= s
  <2> SUFFICES ASSUME a PROVE BelowIn(F, P, g) >= BelowIn(F, P, m)
    BY <1>11 DEF s
  <2>1. Inside(P, m, g)
    BY GroundedAcyclic, InsideUp DEF from
  <2>2. FilesIn(F, P, m) \subseteq FilesIn(F, P, g)
    BY <2>1, InsideTrans DEF FilesIn
  <2>3. FilesIn(F, P, g) \in SUBSET Files
    BY DEF FilesIn
  <2> QED BY <2>2, <2>3, SizesType, SumMonotonic DEF BelowIn
<1>15. CASE ~moving
  <2>1. a <=> b
    BY <1>6, <1>15, InsideLive DEF RowAt
  <2>2. Q[g].size = P[g].size
    BY <1>6, <1>11, <1>15
  <2> QED BY <1>1, <1>11, <1>12, <1>13, <2>1, <2>2 DEF When
<1>16. CASE moving
  <2>1. /\ \A x, y : ~Inside(P, x, m) => (Inside(seen, x, y) <=> Inside(P, x, y))
        /\ ~Inside(P, to, m)
    BY <1>9, <1>10, MovedInside
  <2>2. ~Inside(P, from, m)
    BY ParentOutside DEF from
  <2>3. Inside(seen, from, g) <=> a
    BY <2>1, <2>2
  <2>4. Inside(seen, to, g) <=> b
    BY <2>1
  <2> DEFINE less == IF a THEN Less(P[g].size, s) ELSE P[g].size
  <2>5. Q[g].size = IF b THEN (IF g = to THEN P[g].size ELSE less) + s ELSE less
    <3> DEFINE was == IF Inside(seen, from, g) THEN Less(seen[g].size, s) ELSE seen[g].size
    <3>1. Q[g].size = IF Inside(seen, to, g) THEN (IF g = to THEN seen[g].size ELSE was) + s ELSE was
      BY <1>1, <1>3, <1>6, <1>11, <1>16, TransferEffect DEF moved
    <3>2. was = less
      BY <1>11, <2>3
    <3> HIDE DEF was, less
    <3> QED BY <1>11, <2>4, <3>1, <3>2
  <2>6. ~(g = to /\ a)
    BY <1>16 DEF from
  <2>7. less + When(a, s) = P[g].size /\ less \in Nat
    BY <1>1, <1>11, <1>14 DEF When, Less
  <2> HIDE DEF less
  <2>8. Q[g].size = less + When(b, s)
    <3>1. g = to => less = P[g].size
      BY <2>6 DEF less
    <3> QED BY <2>5, <2>7, <3>1 DEF When
  <2> HIDE DEF a, b
  <2>9. When(a, s) \in Nat /\ When(b, s) \in Nat
    BY <1>1 DEF When
  <2> QED BY <1>11, <1>12, <1>13, <2>7, <2>8, <2>9
<1> QED BY <1>15, <1>16

\* The files and the folders that a folder delete leaves.
FilesDropped(F, P, m, G) ==
  \A f \in Files : G[f] = IF F[f] # None /\ F[f].folder \in Doomed(P, m, Depth) THEN None ELSE F[f]

FoldersDropped(P, m, Q) ==
  LET left == Left(P, m)
      from == P[m].parent
  IN  Q = Overlay(left, SubFileFolderSize(left, from, RowAt(left, from), P[m].size, Depth))

\* A folder delete takes the files inside it off all that is left.
LEMMA DropFolderSizes ==
  ASSUME NEW P \in View, Grounded(P), NEW m \in Folders, P[m] # None, P[m].parent \in Folders,
         NEW F, \A f \in Files : F[f] # None => F[f].folder \in Folders,
         NEW G, FilesDropped(F, P, m, G), NEW Q, FoldersDropped(P, m, Q),
         P[m].size = BelowIn(F, P, m),
         NEW g \in Folders, Q[g] # None, P[g] # None => P[g].size = BelowIn(F, P, g)
  PROVE  P[g] # None /\ Q[g].size = BelowIn(G, Q, g)
<1> DEFINE L == Left(P, m)
           from == P[m].parent
           s == P[m].size
           a == Inside(P, from, g)
<1>1. /\ \A x \in Folders : x \in Doomed(P, m, Depth) <=> Inside(P, x, m)
      /\ L \in View /\ \A x \in Folders : L[x] # None => L[x] = P[x]
  BY DoomedInside DEF Left, View
<1>2. \A x, y : Inside(L, x, y) <=> Inside(P, x, y) /\ ~Inside(P, x, m)
  BY LeftInside
<1>3. ~Inside(P, from, m)
  BY ParentOutside
<1>s. s \in Nat
  BY DEF View, FolderRow
<1> HIDE DEF L, from, s
<1>q. Q = Overlay(L, SubFileFolderSize(L, from, RowAt(L, from), s, Depth))
  BY DEF FoldersDropped, L, from, s
<1>4. /\ L[g] # None /\ Q[g].size = Less(L[g].size, When(Inside(L, from, g), s))
      /\ BelowIn(G, Q, g) = BelowIn(G, L, g)
  <2>1. L \in View
    BY <1>1
  <2> HIDE DEF FoldersDropped, FilesDropped
  <2> QED BY <1>s, <1>q, <2>1, DeleteSizes
<1>5. P[g] # None /\ L[g] = P[g] /\ P[g].size = BelowIn(F, P, g) /\ (Inside(L, from, g) <=> a)
  BY <1>1, <1>2, <1>3, <1>4
<1>6. ~Inside(P, g, m)
  BY <1>1, <1>4 DEF L, Left
<1>7. FilesIn(G, L, g) = FilesIn(F, P, g) \ FilesIn(F, P, m)
      /\ \A f \in FilesIn(G, L, g) : G[f] = F[f]
  <2>1. \A f \in Files : G[f] # None <=> F[f] # None /\ ~Inside(P, F[f].folder, m)
    BY <1>1 DEF FilesDropped
  <2>2. \A f \in Files : G[f] # None => G[f] = F[f]
    BY DEF FilesDropped
  <2> QED BY <1>2, <2>1, <2>2 DEF FilesIn
<1>8. BelowIn(G, L, g) \in Nat /\ BelowIn(F, P, g) \in Nat
  BY BelowNat
<1>9. CASE a
  <2>1. Inside(P, m, g)
    BY <1>9, GroundedAcyclic, InsideUp DEF from
  <2>2. FilesIn(F, P, m) \subseteq FilesIn(F, P, g)
    BY <2>1, InsideTrans DEF FilesIn
  <2>3. BelowIn(F, P, g) = BelowIn(G, L, g) + s
    BY <1>7, <2>2, BelowWithout DEF s
  <2> QED BY <1>s, <1>4, <1>5, <1>8, <1>9, <2>3 DEF Less, When
<1>10. CASE ~a
  <2>1. FilesIn(F, P, g) \cap FilesIn(F, P, m) = {}
    <3>1. \A x : Inside(P, x, m) => ~Inside(P, x, g)
      BY <1>6, <1>10, InsideVia DEF from
    <3> QED BY <3>1 DEF FilesIn
  <2>2. FilesIn(G, L, g) = FilesIn(F, P, g) /\ \A f \in FilesIn(F, P, g) : G[f].md5 = F[f].md5
    BY <1>7, <2>1
  <2>3. BelowIn(G, L, g) = BelowIn(F, P, g)
    BY <2>2, BelowSame
  <2> QED BY <1>4, <1>5, <1>8, <1>10, <2>3 DEF Less, When
<1> QED BY <1>9, <1>10

\* What a user's files take up without those inside a folder of the user's.
LEMMA UsedWithout ==
  ASSUME NEW F, NEW G, NEW u, NEW P, NEW m,
         \A f \in FilesIn(F, P, m) : F[f].owner = u,
         \A f \in Files : G[f] = IF f \in FilesIn(F, P, m) THEN None ELSE F[f]
  PROVE  UsedIn(F, u) = UsedIn(G, u) + BelowIn(F, P, m)
<1> DEFINE S == OwnedIn(G, u)
           T == FilesIn(F, P, m)
<1>1. /\ S \in SUBSET Files /\ T \in SUBSET Files /\ S \cap T = {} /\ S \cup T = OwnedIn(F, u)
      /\ \A f \in S : G[f] = F[f]
  BY DEF FilesIn, OwnedIn
<1>2. S \cup T \in SUBSET Files
  BY <1>1
<1>3. \A f \in S : SizesIn(G)[f] = SizesIn(F)[f]
  BY <1>1 DEF SizesIn
<1>4. /\ UsedIn(F, u) = SumFunctionOnSet(SizesIn(F), S \cup T)
      /\ UsedIn(G, u) = SumFunctionOnSet(SizesIn(G), S)
      /\ BelowIn(F, P, m) = SumFunctionOnSet(SizesIn(F), T)
  BY <1>1 DEF UsedIn, BelowIn
<1> HIDE DEF S, T
<1>5. SumFunctionOnSet(SizesIn(F), S \cup T) = SumFunctionOnSet(SizesIn(F), S) + SumFunctionOnSet(SizesIn(F), T)
  BY <1>1, <1>2, SizesType, SumUnion
<1>6. SumFunctionOnSet(SizesIn(G), S) = SumFunctionOnSet(SizesIn(F), S)
  BY <1>1, <1>3, SizesType, SumSame
<1> QED BY <1>4, <1>5, <1>6

-----------------------------------------------------------------------------
(* What a step does to the numbers of its own user.                           *)

\* The claims after a step, when w is what the step's request has come to.
CountsAfter(u, w) ==
  /\ StoreCounts(tainted', files', stores', u, w)
  /\ SizesCount(tainted', born', files', folders', u, w)

\* A number and its sum change alike; or the number loses less, where that is
\* all that is claimed.
LEMMA ClaimStep ==
  ASSUME NEW T, NEW T2, T \subseteq T2, NEW u, NEW n \in Nat, NEW m \in Nat, NEW n2 \in Nat, NEW m2 \in Nat,
         Claim(T, u, n, m), Strict(T2, u) => n2 + m = n + m2, Small => n2 + m >= n + m2
  PROVE  Claim(T2, u, n2, m2)
<1>1. Strict(T2, u) => Strict(T, u)
  BY DEF Strict
<1> QED BY <1>1 DEF Claim

LEMMA NumbersType ==
  ASSUME TypeInv, NEW w
  PROVE  /\ \A u \in Users : stores[u].current \in Nat /\ UsedIn(files, u) + Owes(w) \in Nat
         /\ \A g \in Folders : folders[g] # None =>
              folders[g].size \in Nat /\ BelowIn(files, folders, g) + Late(w, folders, g) \in Nat
<1>1. stores \in [Users -> StoreRow] /\ folders \in View
  BY DEF TypeInv, TypeOK
<1>2. \A u \in Users : stores[u].current \in Nat /\ UsedIn(files, u) + Owes(w) \in Nat
  BY <1>1, UsedNat, OwesNat DEF StoreRow
<1>3. \A g \in Folders : folders[g] # None => folders[g].size \in Nat
  BY <1>1 DEF View, FolderRow
<1>4. \A g \in Folders : BelowIn(files, folders, g) + Late(w, folders, g) \in Nat
  BY BelowNat, LateNat
<1> QED BY <1>2, <1>3, <1>4

\* Steps that write nothing.
LEMMA QuietCount ==
  ASSUME TypeInv, NEW r \in Reqs, NEW u \in Users, UNCHANGED books, Counts(u, req[r]),
         \/ ~Gone(req[r]) /\ ~Gone(req'[r])
         \/ Gone(req[r]) /\ Failures /\ Done(r)
  PROVE  CountsAfter(u, req'[r])
<1> DEFINE q == req[r]
           w == req'[r]
<1>u. UNCHANGED <<files, folders, stores, born, tainted>>
  BY DEF books
<1>1. ASSUME ~Gone(q), ~Gone(w) PROVE CountsAfter(u, w)
  <2>1. Owes(q) = 0 /\ Owes(w) = 0
    BY <1>1 DEF Owes, Gone
  <2>2. \A g : Late(q, folders, g) = 0 /\ Late(w, folders, g) = 0
    BY <1>1 DEF Late, When
  <2> HIDE DEF q, w
  <2> QED BY <1>u, <2>1, <2>2 DEF CountsAfter, Counts, StoreCounts, SizesCount, q
<1>2. ASSUME Failures, Done(r) PROVE CountsAfter(u, w)
  <2>1. w = Idle
    BY <1>2 DEF Done, TypeInv, TypeOK
  <2>2. Owes(w) = 0 /\ ~Gone(w)
    BY <2>1 DEF Owes, Gone, Idle
  <2>3. \A g : Late(w, folders, g) = 0
    BY <2>2 DEF Late, When
  <2>4. ~Strict(tainted, u)
    BY <1>2 DEF Strict
  <2>5. Owes(q) \in Nat /\ \A g : Late(q, folders, g) \in Nat
    BY OwesNat, LateNat
  <2>6. UsedIn(files, u) \in Nat /\ \A g : BelowIn(files, folders, g) \in Nat
    BY UsedNat, BelowNat
  <2>n. /\ stores[u].current \in Nat
        /\ \A g \in Folders : folders[g] # None => folders[g].size \in Nat
    BY NumbersType
  <2> HIDE DEF q, w
  <2>7. StoreCounts(tainted, files, stores, u, w)
    BY <2>2, <2>4, <2>5, <2>6, <2>n DEF Counts, StoreCounts, Claim, q
  <2>8. SizesCount(tainted, born, files, folders, u, w)
    <3> SUFFICES ASSUME NEW g \in Folders, folders[g] # None, born[g] = u
                 PROVE  Claim(tainted, u, folders[g].size, BelowIn(files, folders, g) + Late(w, folders, g))
      BY DEF SizesCount
    <3>1. Claim(tainted, u, folders[g].size, BelowIn(files, folders, g) + Late(q, folders, g))
      BY DEF Counts, SizesCount, q
    <3>2. /\ folders[g].size \in Nat /\ BelowIn(files, folders, g) \in Nat /\ Late(q, folders, g) \in Nat
          /\ Late(w, folders, g) = 0
      BY <2>3, <2>5, <2>6, <2>n
    <3> QED BY <2>4, <3>1, <3>2 DEF Claim
  <2> QED BY <1>u, <2>7, <2>8 DEF CountsAfter
<1> QED BY <1>1, <1>2

\* A delete first drops the row, and what it has still to take off stays claimed.
LEMMA DeleteRowCount ==
  ASSUME BaseInv, NEW r \in Reqs, DeleteRow(r), Counts(req[r].user, req[r])
  PROVE  CountsAfter(req[r].user, req'[r])
<1> DEFINE q == req[r]
           w == req'[r]
           u == q.user
<1>b. /\ TypeInv /\ RowsOK(born, files) /\ Knows(born, files, stores, q) /\ q \in Request
      /\ files \in [Files -> FileRow \cup {None}] /\ req \in [Reqs -> Request]
  BY DEF BaseInv, SoloInv, FileInv, TypeInv, TypeOK
<1>1. /\ q.op = "deletefile" /\ q.pc = "delete" /\ UNCHANGED <<stores, folders, born, tainted>>
      /\ files' = [files EXCEPT ![q.f] = None]
      /\ w.op = "deletefile" /\ w.pc = "refund" /\ w.c = q.c /\ w.file = q.file
  BY <1>b DEF DeleteRow, At, Request, history
<1>2. /\ q.f \in Files /\ files[q.f] = q.file /\ q.file \in FileRow /\ q.file.owner = u
      /\ q.c = q.file.md5
  BY <1>b, <1>1 DEF Knows, DeleteKnows
<1>3. \A f, y \in Files : files[f] # None /\ files[y] # None /\ files[f].md5 = files[y].md5 => f = y
  BY <1>b DEF RowsOK
<1>4. files'[q.f] = None /\ \A f \in Files \ {q.f} : files'[f] = files[f] /\ files[f] = files'[f]
  BY <1>b, <1>1, <1>2
<1>5. UsedIn(files, u) = UsedIn(files', u) + Length(q.c)
  <2>1. files[q.f] # None /\ files[q.f].owner = u /\ files[q.f].md5 = q.c
    BY <1>2, NoneIsNoFile
  <2> HIDE DEF u
  <2>2. UsedIn(files, u) = UsedIn(files', u) + Length(files[q.f].md5)
    BY <1>2, <1>3, <1>4, <2>1, OwnedDrop
  <2> QED BY <2>1, <2>2
<1>6. ASSUME NEW g
      PROVE  BelowIn(files, folders, g) = BelowIn(files', folders, g) + When(Inside(folders, q.file.folder, g), Length(q.c))
  <2> DEFINE row == q.file
             x == q.f
  <2>1. /\ row \in FileRow /\ files[x] = row /\ row.md5 = q.c /\ x \in Files
        /\ files'[x] = None /\ \A f \in Files \ {x} : files[f] = files'[f]
    BY <1>2, <1>4
  <2> HIDE DEF row, x, u
  <2>2. BelowIn(files, folders, g) = BelowIn(files', folders, g) + When(Inside(folders, row.folder, g), Length(row.md5))
    BY <2>1, BelowAdd
  <2> QED BY <2>1, <2>2 DEF row
<1>7. Owes(q) = 0 /\ Owes(w) = Length(q.c) /\ ~Gone(q) /\ Gone(w)
  BY <1>1 DEF Owes, Gone
<1>8. \A g : /\ Late(q, folders, g) = 0
             /\ Late(w, folders, g) = When(Inside(folders, q.file.folder, g), Length(q.c))
  BY <1>1, <1>7 DEF Late, When
<1>n. UsedIn(files, u) \in Nat /\ UsedIn(files', u) \in Nat
      /\ \A g : BelowIn(files, folders, g) \in Nat /\ BelowIn(files', folders, g) \in Nat
  BY UsedNat, BelowNat
<1>9. UsedIn(files', u) + Owes(w) = UsedIn(files, u) + Owes(q)
  BY <1>5, <1>7, <1>n
<1>10. \A g : BelowIn(files', folders, g) + Late(w, folders, g) = BelowIn(files, folders, g) + Late(q, folders, g)
  BY <1>6, <1>8, <1>n
<1> HIDE DEF q, w, u
<1> QED BY <1>1, <1>9, <1>10 DEF CountsAfter, Counts, StoreCounts, SizesCount, q, w, u

\* Then the store gets its refund.
LEMMA DeleteRefundCount ==
  ASSUME BaseInv, ~Failures \/ Small, NEW r \in Reqs, DeleteRefund(r), Counts(req[r].user, req[r])
  PROVE  CountsAfter(req[r].user, req'[r])
<1> DEFINE q == req[r]
           w == req'[r]
           u == q.user
           s == Length(q.c)
<1>b. /\ TypeInv /\ Knows(born, files, stores, q) /\ q \in Request /\ ReqOK(q)
      /\ stores \in [Users -> StoreRow] /\ req \in [Reqs -> Request]
  BY DEF BaseInv, SoloInv, FileInv, TypeInv, TypeOK
<1>1. /\ q.op = "deletefile" /\ q.pc = "refund" /\ UNCHANGED <<files, folders, born, tainted>>
      /\ stores' = [stores EXCEPT ![u] = SubCurrentSize(q.store, Length(q.c))]
      /\ w.op = "deletefile" /\ w.pc = "commit" /\ w.c = q.c /\ w.file = q.file
  BY <1>b DEF DeleteRefund, At, Request, history
<1>2. q.store = stores[u] /\ u \in Users
  BY <1>b, <1>1 DEF Knows, DeleteKnows, ReqOK
<1>3. Owes(q) = s /\ Owes(w) = 0 /\ Gone(q) /\ Gone(w)
  BY <1>1 DEF Owes, Gone
<1>4. \A g : Late(q, folders, g) = Late(w, folders, g)
  BY <1>1, <1>3 DEF Late
<1>n. s \in Nat /\ UsedIn(files, u) \in Nat /\ stores[u].current \in Nat
  BY <1>b, <1>2, LengthType, UsedNat DEF StoreRow
<1>5. stores'[u].current = IF stores[u].current >= s THEN stores[u].current - s ELSE 0
  <2>1. stores'[u] = SubCurrentSize(stores[u], s)
    BY <1>b, <1>1, <1>2
  <2>2. stores[u] \in StoreRow
    BY <1>b, <1>2
  <2> HIDE DEF s, u
  <2> QED BY <2>1, <2>2 DEF SubCurrentSize, StoreRow
<1>6. StoreCounts(tainted, files, stores', u, w)
  <2>1. Claim(tainted, u, stores[u].current, UsedIn(files, u) + s)
    BY <1>3 DEF Counts, StoreCounts
  <2> HIDE DEF s, u
  <2>2. Claim(tainted, u, stores'[u].current, UsedIn(files, u) + 0)
    BY <1>5, <1>n, <2>1 DEF Claim
  <2> QED BY <1>3, <2>2 DEF StoreCounts
<1> HIDE DEF q, w, u, s
<1> QED BY <1>1, <1>4, <1>6 DEF CountsAfter, Counts, SizesCount, q, w, u

\* A new folder is empty, and the files are where they were.
LEMMA CreateFolderCount ==
  ASSUME BaseInv, NEW r \in Reqs, CreateFolder(r), Counts(req[r].user, req[r])
  PROVE  CountsAfter(req[r].user, req'[r])
<1> DEFINE q == req[r]
           u == q.user
           x == NewId(Folders)
           row == [parent |-> q.g, owner |-> q.user, size |-> 0]
<1>b. /\ TypeInv /\ KeptInv /\ IdInv /\ RowsOK(born, files) /\ q \in Request /\ ReqOK(q)
      /\ folders \in View /\ req \in [Reqs -> Request] /\ Keeps(born, q)
      /\ born \in [Files \cup Folders -> Users \cup {None}]
  BY DEF BaseInv, KeptIdInv, SoloInv, FileInv, TypeInv, TypeOK, KeptInv
<1>1. /\ q.op = "createfolder" /\ q.pc = "tx" /\ UNCHANGED <<files, stores, tainted>>
      /\ folders' = [folders EXCEPT ![x] = row] /\ born' = [born EXCEPT ![x] = u] /\ Done(r)
  BY DEF CreateFolder, At
<1>2. x \in Folders /\ born[x] = None
  <2>1. r \in Pending({"createfolder"})
    BY <1>1 DEF Pending, At
  <2> QED BY <1>b, <2>1, NewIdFree DEF IdInv, Free
<1>3. row \in FolderRow /\ row.size = 0 /\ u \in Users
  BY <1>b, <1>1 DEF ReqOK, FolderRow
<1>4. folders[x] = None /\ \A g \in Folders : folders[g] # None => folders[g].parent # x
  <2>1. \A g \in Folders : folders[g] # None => born[g] \in Users
    BY <1>b DEF KeptInv, View, FolderRow
  <2> QED BY <1>b, <1>2, <2>1, StorageAssumption DEF KeptInv, Suits
<1> HIDE DEF x, row
<1>5. folders'[x] = row /\ \A g \in Folders \ {x} : folders'[g] = folders[g] /\ born'[g] = born[g]
  BY <1>b, <1>1, <1>2 DEF View
<1>6. req'[r] = Idle
  BY <1>b, <1>1 DEF Done
<1>7. Owes(q) = 0 /\ Owes(Idle) = 0 /\ \A P, g : Late(q, P, g) = 0 /\ Late(Idle, P, g) = 0
  BY <1>1 DEF Owes, Late, When, Gone, Idle
<1>8. \A f \in Files : files[f] # None => files[f].folder # x
  BY <1>2, <1>b DEF RowsOK, Has
<1>9. \A y, g : y # x => (Inside(folders', y, g) <=> Inside(folders, y, g))
  BY <1>1, <1>2, <1>3, <1>4, <1>b, GrownInside
<1>10. \A g : FilesIn(files, folders', g) = FilesIn(files, folders, g)
  BY <1>8, <1>9 DEF FilesIn
<1>11. \A g : BelowIn(files, folders', g) = BelowIn(files, folders, g)
  BY <1>10 DEF BelowIn
<1>12. BelowIn(files, folders, x) = 0
  <2>1. FilesIn(files, folders, x) = {}
    BY <1>4, InsideLive DEF FilesIn
  <2> QED BY <2>1, SumEmpty DEF BelowIn
<1>13. SizesCount(tainted, born', files, folders', u, Idle)
  <2> SUFFICES ASSUME NEW g \in Folders, folders'[g] # None, born'[g] = u
               PROVE  Claim(tainted, u, folders'[g].size, BelowIn(files, folders', g) + Late(Idle, folders', g))
    BY DEF SizesCount
  <2>1. CASE g = x
    BY <1>3, <1>5, <1>7, <1>11, <1>12, <2>1 DEF Claim
  <2>2. CASE g # x
    <3>1. folders'[g] = folders[g] /\ born[g] = u
      BY <1>5, <2>2
    <3>2. Claim(tainted, u, folders[g].size, BelowIn(files, folders, g) + Late(q, folders, g))
      BY <3>1 DEF Counts, SizesCount
    <3> QED BY <1>7, <1>11, <3>1, <3>2
  <2> QED BY <2>1, <2>2
<1> QED BY <1>1, <1>6, <1>7, <1>13 DEF CountsAfter, Counts, StoreCounts

LEMMA SetVolumeCount ==
  ASSUME BaseInv, NEW r \in Reqs, SetVolume(r), Counts(req[r].user, req[r])
  PROVE  CountsAfter(req[r].user, req'[r])
<1> DEFINE q == req[r]
           u == q.user
<1>b. /\ TypeInv /\ Knows(born, files, stores, q) /\ q \in Request /\ ReqOK(q)
      /\ stores \in [Users -> StoreRow] /\ req \in [Reqs -> Request]
  BY DEF BaseInv, SoloInv, FileInv, TypeInv, TypeOK
<1>1. /\ q.op = "setvolume" /\ q.pc = "tx" /\ UNCHANGED <<files, folders, born, tainted>>
      /\ stores' = [stores EXCEPT ![u] = [q.store EXCEPT !.max = q.vol]] /\ Done(r)
  BY DEF SetVolume, At
<1>2. q.store = stores[u] /\ u \in Users
  BY <1>b, <1>1 DEF Knows, GrantKnows, ReqOK
<1>3. stores'[u].current = stores[u].current
  <2>1. stores'[u] = [stores[u] EXCEPT !.max = q.vol] /\ stores[u] \in StoreRow
    BY <1>b, <1>1, <1>2
  <2> QED BY <2>1 DEF StoreRow
<1>4. req'[r] = Idle
  BY <1>b, <1>1 DEF Done
<1>5. Owes(q) = 0 /\ Owes(Idle) = 0 /\ \A P, g : Late(q, P, g) = 0 /\ Late(Idle, P, g) = 0
  BY <1>1 DEF Owes, Late, When, Gone, Idle
<1> QED BY <1>1, <1>3, <1>4, <1>5 DEF CountsAfter, Counts, StoreCounts, SizesCount

-----------------------------------------------------------------------------
(* What a commit does to the numbers of its user.                             *)

\* What a request knows at its commit, and what the commit writes.
LEMMA AtCommit ==
  ASSUME BaseInv, Ops \subseteq Paying, NEW r \in Reqs, Commit(r)
  PROVE  LET q == req[r]
         IN  /\ q \in Request /\ ReqOK(q) /\ q.pc = "commit" /\ q.user \in Users
             /\ Keeps(born, q) /\ DirFresh(born, folders, q) /\ Knows(born, files, stores, q)
             /\ q.op \in Ops /\ q.op \in {"upload", "deletefile", "movefile", "movefolder", "deletefolder"}
             /\ req'[r] = Idle
             /\ folders' = AfterCommit(folders, q)
             /\ q.op # "deletefolder" => folders' = Overlay(folders, q.out.folders)
             /\ \A g \in Folders : born'[g] = born[g]
             /\ tainted \subseteq tainted' /\ (Raises(r) => q.user \in tainted')
<1> DEFINE q == req[r]
<1>b. /\ TypeInv /\ Settled /\ Solo /\ RowsOK(born, files) /\ KeptInv /\ IdInv /\ FileInv
      /\ Knows(born, files, stores, q) /\ DirFresh(born, folders, q) /\ q \in Request /\ ReqOK(q)
      /\ Keeps(born, q) /\ req \in [Reqs -> Request] /\ folders \in View
      /\ born \in [Files \cup Folders -> Users \cup {None}]
  BY DEF BaseInv, SoloInv, FileInv, DirInv, TypeInv, TypeOK, KeptIdInv, KeptInv
<1>c. q.pc = "commit" /\ q.user \in Users /\ Done(r)
  BY <1>b DEF Commit, ReqOK
<1>o. q.op \in Ops /\ q.op \in {"upload", "deletefile", "movefile", "movefolder", "deletefolder"}
  BY <1>b, <1>c DEF Knows, DirFresh, Paying
<1>1. req'[r] = Idle
  BY <1>b, <1>c DEF Done
<1>2. folders' = AfterCommit(folders, q)
  BY DEF Commit, AfterCommit
<1>3. q.op # "deletefolder" => folders' = Overlay(folders, q.out.folders)
  <2> SUFFICES ASSUME q.op # "deletefolder" PROVE folders' = Overlay(folders, q.out.folders)
    OBVIOUS
  <2>1. q.out.drop = {}
    BY <1>b DEF DirFresh
  <2>2. folders = [g \in Folders |-> IF g \in q.out.drop THEN None ELSE folders[g]]
    BY <1>b, <2>1 DEF View
  <2> QED BY <1>2, <2>2 DEF AfterCommit
<1>4. \A g \in Folders : born'[g] = born[g]
  <2>1. CASE q.out.insert = None
    BY <2>1 DEF Commit
  <2>2. CASE q.out.insert # None
    <3>1. q.op = "upload"
      BY <1>b, <2>2 DEF Knows
    <3>2. r \in Pending(Inserting)
      BY <3>1 DEF Pending, Inserting, At
    <3>3. \A x \in Folders : x # NewId(Files)
      BY <1>b, <3>2, FreshFile
    <3>4. born' = [born EXCEPT ![NewId(Files)] = q.user]
      BY <2>2 DEF Commit
    <3> QED BY <1>b, <3>3, <3>4
  <2> QED BY <2>1, <2>2
<1>5. tainted \subseteq tainted' /\ (Raises(r) => q.user \in tainted')
  BY DEF Commit
<1> QED BY <1>b, <1>c, <1>o, <1>1, <1>2, <1>3, <1>4, <1>5

\* What the commit of each operation does to the file rows.
LEMMA CommitFiles ==
  ASSUME BaseInv, Ops \subseteq Paying, NEW r \in Reqs, Commit(r)
  PROVE  LET q == req[r]
         IN  /\ q.op = "upload" =>
                  \E x \in Files : /\ files[x] = None
                                   /\ files'[x] = [owner |-> q.user, md5 |-> q.c, folder |-> q.g]
                                   /\ \A f \in Files \ {x} : files'[f] = files[f]
             /\ q.op = "movefile" =>
                  /\ q.f \in Files /\ files[q.f] = q.file /\ q.file \in FileRow
                  /\ files'[q.f] = [q.file EXCEPT !.folder = q.to]
                  /\ \A f \in Files \ {q.f} : files'[f] = files[f]
             /\ q.op \in {"deletefile", "movefolder"} => files' = files
             /\ q.op = "deletefolder" =>
                  \A f \in Files : files'[f] = IF files[f] # None /\ files[f].folder \in q.out.purge
                                               THEN None ELSE files[f]
<1> DEFINE q == req[r]
           u == q.user
           kept == [f \in Files |-> IF files[f] # None /\ files[f].folder \in q.out.purge
                                    THEN None ELSE files[f]]
<1>b. /\ q \in Request /\ ReqOK(q) /\ q.pc = "commit" /\ u \in Users
      /\ DirFresh(born, folders, q) /\ Knows(born, files, stores, q)
  BY AtCommit
<1>t. files \in [Files -> FileRow \cup {None}] /\ TypeInv /\ IdInv /\ FileInv
  BY DEF BaseInv, TypeInv, TypeOK, KeptIdInv, SoloInv
<1>k. q.op # "deletefolder" => kept = files
  BY <1>b, <1>t DEF DirFresh
<1>f. files' = IF q.out.insert # None THEN [kept EXCEPT ![NewId(Files)] = q.out.insert]
               ELSE IF q.out.moved # None
                    THEN [kept EXCEPT ![SaveTarget(q.f, q.out.moved)] = q.out.moved]
               ELSE kept
  BY DEF Commit
<1> HIDE DEF kept
<1>1. ASSUME q.op = "upload"
      PROVE  \E x \in Files : /\ files[x] = None
                              /\ files'[x] = [owner |-> u, md5 |-> q.c, folder |-> q.g]
                              /\ \A f \in Files \ {x} : files'[f] = files[f]
  <2> DEFINE row == [owner |-> u, md5 |-> q.c, folder |-> q.g]
             x == NewId(Files)
  <2>1. q.out.insert = row /\ q.c \in Contents /\ q.g \in Folders
    BY <1>1, <1>b DEF Knows, UploadKnows, ReqOK
  <2>2. row \in FileRow /\ row # None
    BY <1>b, <2>1, NoneIsNoFile DEF FileRow
  <2>3. x \in Files /\ files[x] = None
    <3>1. r \in Pending(Inserting)
      BY <1>1 DEF Pending, Inserting, At
    <3> QED BY <3>1, <1>t, FreshFile
  <2> HIDE DEF x, row
  <2>4. files' = [files EXCEPT ![x] = row]
    BY <1>1, <1>f, <1>k, <2>1, <2>2 DEF x
  <2>5. files'[x] = row /\ \A f \in Files \ {x} : files'[f] = files[f]
    BY <1>t, <2>3, <2>4
  <2> QED BY <2>3, <2>5 DEF row
<1>2. ASSUME q.op = "movefile"
      PROVE  /\ q.f \in Files /\ files[q.f] = q.file /\ q.file \in FileRow
             /\ files'[q.f] = [q.file EXCEPT !.folder = q.to]
             /\ \A f \in Files \ {q.f} : files'[f] = files[f]
  <2> DEFINE row == [q.file EXCEPT !.folder = q.to]
  <2>1. q.f \in Files /\ files[q.f] = q.file /\ q.file \in FileRow /\ q.out.moved = row /\ q.out.insert = None
    BY <1>2, <1>b DEF Knows, MoveKnows
  <2>2. row \in FileRow
    BY <1>2, <2>1, <1>b DEF FileRow, ReqOK
  <2> HIDE DEF row
  <2>3. SaveTarget(q.f, q.out.moved) = q.f
    BY <2>1, NoneIsNoFile DEF SaveTarget
  <2>4. files' = [files EXCEPT ![q.f] = row]
    BY <1>2, <1>f, <1>k, <2>1, <2>2, <2>3, NoneIsNoFile
  <2> QED BY <1>t, <2>1, <2>4 DEF row
<1>3. q.op \notin {"upload", "movefile"} => files' = kept
  BY <1>b, <1>f DEF Knows
<1> QED BY <1>1, <1>2, <1>3, <1>k DEF kept

\* It is enough to look at one folder of the user's.
LEMMA CommitSizes ==
  ASSUME BaseInv, Ops \subseteq Paying, NEW r \in Reqs, Commit(r),
         \A g \in Folders : folders'[g] # None /\ born[g] = req[r].user =>
           Claim(tainted', req[r].user, folders'[g].size, BelowIn(files', folders', g))
  PROVE  SizesCount(tainted', born', files', folders', req[r].user, Idle)
<1> DEFINE u == req[r].user
<1>1. \A g \in Folders : born'[g] = born[g]
  BY AtCommit
<1>2. \A g : BelowIn(files', folders', g) + Late(Idle, folders', g) = BelowIn(files', folders', g)
  <2>1. \A g : Late(Idle, folders', g) = 0
    BY DEF Late, Gone, Idle, When
  <2> QED BY <2>1, BelowNat
<1> QED BY <1>1, <1>2 DEF SizesCount

LEMMA UploadCount ==
  ASSUME BaseInv, Ops \subseteq Paying, NEW r \in Reqs, Commit(r), req[r].op = "upload",
         Counts(req[r].user, req[r])
  PROVE  SizesCount(tainted', born', files', folders', req[r].user, Idle)
<1> DEFINE q == req[r]
           u == q.user
           row == [owner |-> u, md5 |-> q.c, folder |-> q.g]
<1>1. /\ q \in Request /\ ReqOK(q) /\ q.pc = "commit" /\ u \in Users /\ q.c \in Contents /\ q.g \in Folders
      /\ q.out.folders = AddFileFolderSize(folders, q.g, folders[q.g], Length(q.c), Depth)
      /\ folders' = Overlay(folders, q.out.folders) /\ tainted \subseteq tainted'
  BY AtCommit DEF ReqOK, DirFresh, UploadDir
<1>2. PICK x \in Files : /\ files[x] = None /\ files'[x] = row
                         /\ \A f \in Files \ {x} : files'[f] = files[f]
  BY CommitFiles
<1>3. row \in FileRow /\ row.folder = q.g /\ row.md5 = q.c
  BY <1>1 DEF FileRow
<1>4. folders \in View /\ TypeInv
  BY DEF BaseInv, TypeInv, TypeOK
<1>5. \A g : Late(q, folders, g) = 0
  BY <1>1 DEF Late, Gone, When
<1> HIDE DEF row
<1>6. folders' = Overlay(folders, AddFileFolderSize(folders, row.folder, folders[row.folder], Length(row.md5), Depth))
  BY <1>1, <1>3
<1>7. ASSUME NEW g \in Folders, folders'[g] # None, born[g] = u
      PROVE  Claim(tainted', u, folders'[g].size, BelowIn(files', folders', g))
  <2> HIDE DEF q, u
  <2>1. /\ folders[g] # None
        /\ \E n \in Nat : /\ folders'[g].size = folders[g].size + n
                          /\ BelowIn(files', folders', g) = BelowIn(files, folders, g) + n
    BY <1>2, <1>3, <1>4, <1>6, <1>7, UploadSizes
  <2>2. Claim(tainted, u, folders[g].size, BelowIn(files, folders, g))
    <3>1. Claim(tainted, u, folders[g].size, BelowIn(files, folders, g) + Late(q, folders, g))
      BY <1>7, <2>1 DEF Counts, SizesCount, q, u
    <3> QED BY <1>5, <3>1, BelowNat
  <2>3. folders[g].size \in Nat /\ BelowIn(files, folders, g) \in Nat
    BY <1>4, <2>1, NumbersType, BelowNat
  <2> QED BY <1>1, <2>1, <2>2, <2>3 DEF Claim, Strict
<1> QED BY <1>7, CommitSizes

LEMMA DeleteFileCount ==
  ASSUME BaseInv, Ops \subseteq Paying, NEW r \in Reqs, Commit(r), req[r].op = "deletefile",
         Counts(req[r].user, req[r])
  PROVE  SizesCount(tainted', born', files', folders', req[r].user, Idle)
<1> DEFINE q == req[r]
           u == q.user
           h == q.file.folder
           s == Length(q.c)
<1>1. /\ q \in Request /\ q.pc = "commit" /\ u \in Users /\ h \in Folders
      /\ q.out.folders = SubFileFolderSize(folders, h, folders[h], s, Depth)
      /\ folders' = Overlay(folders, q.out.folders) /\ tainted \subseteq tainted' /\ files' = files
  BY AtCommit, CommitFiles DEF DirFresh, DeleteFileDir, FileRow
<1>2. folders \in View /\ TypeInv /\ RowAt(folders, h) = folders[h] /\ s \in Nat
  BY <1>1, LengthType DEF BaseInv, TypeInv, TypeOK, RowAt
<1>3. \A g : Late(q, folders, g) = When(Inside(folders, h, g), s)
  BY <1>1 DEF Late, Gone, When
<1> HIDE DEF h, s
<1>4. folders' = Overlay(folders, SubFileFolderSize(folders, h, RowAt(folders, h), s, Depth))
  BY <1>1, <1>2
<1>5. ASSUME NEW g \in Folders, folders'[g] # None, born[g] = u
      PROVE  Claim(tainted', u, folders'[g].size, BelowIn(files', folders', g))
  <2> HIDE DEF q, u
  <2> DEFINE n == When(Inside(folders, h, g), s)
  <2>1. /\ folders[g] # None /\ folders'[g].size = Less(folders[g].size, n)
        /\ BelowIn(files, folders', g) = BelowIn(files, folders, g)
    BY <1>2, <1>4, <1>5, DeleteSizes
  <2>2. Claim(tainted, u, folders[g].size, BelowIn(files, folders, g) + n)
    <3>1. Claim(tainted, u, folders[g].size, BelowIn(files, folders, g) + Late(q, folders, g))
      BY <1>5, <2>1 DEF Counts, SizesCount, q, u
    <3> QED BY <1>3, <3>1
  <2>3. folders[g].size \in Nat /\ BelowIn(files, folders, g) \in Nat /\ n \in Nat
    BY <1>2, <2>1, NumbersType, BelowNat DEF When
  <2> HIDE DEF n
  <2>4. Claim(tainted', u, folders'[g].size, BelowIn(files, folders, g))
    BY <1>1, <2>1, <2>2, <2>3 DEF Claim, Strict, Less
  <2> QED BY <1>1, <2>1, <2>4
<1> QED BY <1>5, CommitSizes

LEMMA MoveFileCount ==
  ASSUME BaseInv, Ops \subseteq Paying, NEW r \in Reqs, Commit(r), req[r].op = "movefile",
         Counts(req[r].user, req[r])
  PROVE  SizesCount(tainted', born', files', folders', req[r].user, Idle)
<1> DEFINE q == req[r]
           u == q.user
           row == [q.file EXCEPT !.folder = q.to]
           moving == Moving(q)
<1>1. /\ q \in Request /\ q.pc = "commit" /\ u \in Users /\ q.to \in Folders /\ q.from \in Folders
      /\ q.from = q.file.folder /\ q.src = folders[q.from] /\ q.dst = folders[q.to] /\ q.dst # None
      /\ q.out.folders = FileMoveWrites(folders, q)
      /\ folders' = Overlay(folders, q.out.folders) /\ tainted \subseteq tainted'
      /\ (Raises(r) => u \in tainted')
  BY AtCommit DEF DirFresh, MoveFileDir, ReqOK
<1>2. /\ q.f \in Files /\ files[q.f] = q.file /\ q.file \in FileRow /\ files'[q.f] = row
      /\ \A f \in Files \ {q.f} : files'[f] = files[f]
  BY CommitFiles
<1>3. row \in FileRow /\ row.folder = q.to /\ row.md5 = q.file.md5
  BY <1>1, <1>2 DEF FileRow
<1>4. folders \in View /\ TypeInv
  BY DEF BaseInv, TypeInv, TypeOK
<1>5. \A g : Late(q, folders, g) = 0
  BY DEF Late, Gone, When
<1>6. moving \in BOOLEAN /\ (~moving => q.from = q.to)
  BY <1>1 DEF Moving
<1>7. ~moving => folders' = folders
  BY <1>1, <1>4 DEF FileMoveWrites, Overlay, NoWrites, View
<1>8. moving => folders' = Overlay(folders, Transfer(folders, q.from, RowAt(folders, q.from),
                                     q.to, RowAt(folders, q.to), Length(q.file.md5), Depth))
  BY <1>1 DEF FileMoveWrites, RowAt
<1>9. Strict(tainted', u) => ~(moving /\ Inside(folders, q.from, q.to))
  <2> SUFFICES ASSUME moving, Inside(folders, q.from, q.to) PROVE Raises(r)
    BY <1>1 DEF Strict
  <2>1. q.src # None
    BY <1>1, InsideLive
  <2> QED BY <1>1, <2>1 DEF Raises
<1> DEFINE x == q.f
           old == files[x]
<1>10. /\ x \in Files /\ files[x] \in FileRow /\ files[x].folder = q.from /\ files[x].md5 = q.file.md5
       /\ files'[x] = row /\ \A f \in Files \ {x} : files'[f] = files[f]
  BY <1>1, <1>2
<1> HIDE DEF row, moving, x
<1>11. /\ ~moving => files[x].folder = row.folder /\ folders' = folders
       /\ moving => folders' = Overlay(folders, Transfer(folders, files[x].folder, RowAt(folders, files[x].folder),
                                      row.folder, RowAt(folders, row.folder), Length(row.md5), Depth))
  BY <1>3, <1>6, <1>7, <1>8, <1>10
<1>12. ASSUME NEW g \in Folders, folders'[g] # None, born[g] = u
       PROVE  Claim(tainted', u, folders'[g].size, BelowIn(files', folders', g))
  <2> DEFINE from == q.from
             to == q.to
  <2>f. files[x].folder = from /\ row.folder = to
    BY <1>3, <1>10
  <2>g. Strict(tainted', u) => ~(moving /\ Inside(folders, from, to))
    BY <1>9
  <2> HIDE DEF q, u, from, to
  <2>1. folders[g] # None => Claim(tainted, u, folders[g].size, BelowIn(files, folders, g))
    <3> SUFFICES ASSUME folders[g] # None
                 PROVE  Claim(tainted, u, folders[g].size, BelowIn(files, folders, g))
      OBVIOUS
    <3>1. Claim(tainted, u, folders[g].size, BelowIn(files, folders, g) + Late(q, folders, g))
      BY <1>12 DEF Counts, SizesCount, q, u
    <3> QED BY <1>5, <3>1, BelowNat
  <2>2. /\ folders[g] # None => folders[g].size \in Nat
        /\ BelowIn(files, folders, g) \in Nat /\ BelowIn(files', folders', g) \in Nat
    BY <1>4, NumbersType, BelowNat
  <2>3. ASSUME Strict(tainted', u) \/ Small
        PROVE  Claim(tainted', u, folders'[g].size, BelowIn(files', folders', g))
    <3>1. folders[g] # None => folders[g].size >= BelowIn(files, folders, g)
      BY <1>1, <2>1, <2>2, <2>3 DEF Claim, Strict, u
    <3>2. /\ folders[g] # None
          /\ folders'[g].size + BelowIn(files, folders, g) >= folders[g].size + BelowIn(files', folders', g)
          /\ moving /\ ~Inside(folders, files[x].folder, row.folder)
               => folders'[g].size + BelowIn(files, folders, g) = folders[g].size + BelowIn(files', folders', g)
          /\ ~moving => folders'[g].size + BelowIn(files, folders, g) = folders[g].size + BelowIn(files', folders', g)
      BY <1>3, <1>4, <1>6, <1>10, <1>11, <1>12, <3>1, MoveFileSizes
    <3>3. folders'[g].size \in Nat
      <4>1. TypeInv'
        BY <1>4, NextType DEF Next, Continue
      <4> QED BY <1>12, <4>1 DEF TypeInv, TypeOK, View, FolderRow
    <3> DEFINE a == folders'[g].size
               b == BelowIn(files, folders, g)
               c == folders[g].size
               d == BelowIn(files', folders', g)
    <3>4. a \in Nat /\ b \in Nat /\ c \in Nat /\ d \in Nat /\ a + b >= c + d
          /\ (Strict(tainted', u) => a + b = c + d) /\ Claim(tainted, u, c, b)
      BY <2>f, <2>g, <2>1, <2>2, <3>2, <3>3
    <3> HIDE DEF a, b, c, d
    <3>5. Claim(tainted', u, a, d)
      BY <1>1, <3>4, ClaimStep DEF u
    <3> QED BY <3>5 DEF a, d
  <2> QED BY <2>3 DEF Claim
<1> QED BY <1>12, CommitSizes

LEMMA MoveFolderCount ==
  ASSUME BaseInv, Grounded(folders), Grounded(folders'), Ops \subseteq Paying,
         NEW r \in Reqs, Commit(r), req[r].op = "movefolder", Counts(req[r].user, req[r])
  PROVE  SizesCount(tainted', born', files', folders', req[r].user, Idle)
<1> DEFINE q == req[r]
           u == q.user
           m == q.g
           to == q.to
           from == q.from
           moving == Moving(q)
<1>1. /\ q \in Request /\ q.pc = "commit" /\ u \in Users /\ to \in Folders \cup {Top} /\ m \in Folders
      /\ MoveFolderDir(folders, q) /\ q.op \in Ops
      /\ folders' = Overlay(folders, q.out.folders) /\ tainted \subseteq tainted'
      /\ (Raises(r) => u \in tainted') /\ Has(born, u, m) /\ files' = files
  BY AtCommit, CommitFiles DEF DirFresh, ReqOK, Keeps
<1>2. /\ q.dir = folders[m] /\ from = (IF q.dir = None THEN None ELSE q.dir.parent)
      /\ q.dst = RowAt(folders, to) /\ q.src = RowAt(folders, from)
      /\ q.dir \in FolderRow \cup {None}
  BY <1>1 DEF MoveFolderDir, RowAt, Request
<1>3. folders \in View /\ TypeInv /\ ~Small
  BY <1>1 DEF BaseInv, TypeInv, TypeOK, Small
<1>4. \A g : Late(q, folders, g) = 0
  BY DEF Late, Gone, When
<1>5. moving \in BOOLEAN /\ (~moving => from = to \/ (q.src = None /\ q.dst = None))
  BY DEF Moving
<1>6. ASSUME NEW g \in Folders, folders[g] # None, born[g] = u, Strict(tainted', u)
      PROVE  folders[g].size = BelowIn(files, folders, g)
  <2>1. Claim(tainted, u, folders[g].size, BelowIn(files, folders, g) + Late(q, folders, g))
    BY <1>6 DEF Counts, SizesCount
  <2>2. Strict(tainted, u)
    BY <1>1, <1>6 DEF Strict
  <2> HIDE DEF q, u
  <2> QED BY <1>4, <2>1, <2>2, BelowNat DEF Claim
<1> DEFINE saved == Saved(q)
           seen == Overlay(folders, saved)
           s == MoveSize(q)
<1>7. ~Failures => folders' = IF moving
                              THEN Overlay(seen, Transfer(seen, from, q.src, to, q.dst, s, Depth))
                              ELSE seen
  <2> SUFFICES ASSUME ~Failures
               PROVE  folders' = IF moving
                                 THEN Overlay(seen, Transfer(seen, from, q.src, to, q.dst, s, Depth))
                                 ELSE seen
    OBVIOUS
  <2>1. q.out.folders = MoveWrites(folders, q, Depth)
    BY <1>1, CutsType DEF MoveFolderDir
  <2>2. MoveWrites(folders, q, Depth) = IF moving
          THEN Overlay(saved, Transfer(seen, from, q.src, to, q.dst, s, Depth)) ELSE saved
    BY DEF MoveWrites
  <2>3. \A w : Overlay(folders, Overlay(saved, w)) = Overlay(seen, w)
    BY OverlayTwice
  <2> HIDE DEF seen, saved, s, q
  <2> QED BY <1>1, <2>1, <2>2, <2>3 DEF q, seen
<1> SUFFICES ASSUME NEW g \in Folders, folders'[g] # None, born[g] = u, Strict(tainted', u)
             PROVE  folders'[g].size = BelowIn(files, folders', g)
  <2> SUFFICES ASSUME NEW g \in Folders, folders'[g] # None, born[g] = u
               PROVE  Claim(tainted', u, folders'[g].size, BelowIn(files', folders', g))
    BY CommitSizes
  <2> QED BY <1>1, <1>3 DEF Claim
<1>8. ~Failures /\ ~Raises(r)
  BY <1>1 DEF Strict
<1>9. CASE q.dir = None
  <2>1. saved = NoWrites /\ s = 0 /\ from = None
    BY <1>2, <1>9 DEF Saved, MoveSize
  <2>2. seen = folders
    BY <1>3, <2>1 DEF Overlay, NoWrites, View
  <2>3. q.src = RowAt(folders, from) /\ q.dst = RowAt(folders, to) /\ 0 \in Nat
    BY <1>2
  <2>4. /\ RowAt(folders, from) \in FolderRow \cup {None} /\ RowOf(folders, from, RowAt(folders, from))
        /\ RowAt(folders, to) \in FolderRow \cup {None} /\ RowOf(folders, to, RowAt(folders, to))
    BY <1>3 DEF RowAt, RowOf, View
  <2>5. ~Inside(folders, from, g)
    BY <2>1, InsideLive, FoldersAssumption
  <2>6. folders' = IF moving THEN Overlay(folders, Transfer(folders, from, RowAt(folders, from),
                                             to, RowAt(folders, to), 0, Depth))
                   ELSE folders
    BY <1>7, <1>8, <2>1, <2>2, <2>3
  <2>7. SameTree(folders, folders')
    <3>1. SameTree(folders, folders)
      BY DEF SameTree
    <3> HIDE DEF from, to, moving, q
    <3>2. moving => SameTree(folders, folders')
      BY <1>3, <2>3, <2>4, <2>6, TransferTree
    <3> QED BY <2>6, <3>1, <3>2
  <2>8. folders[g] # None /\ folders[g].size = BelowIn(files, folders, g) /\ folders[g].size \in Nat
    <3>1. folders[g] # None
      BY <2>7 DEF SameTree
    <3> QED BY <1>3, <1>6, <3>1 DEF View, FolderRow
  <2>9. folders'[g].size = folders[g].size
    <3>1. CASE ~moving
      BY <2>6, <3>1
    <3>2. CASE moving
      <4> HIDE DEF from, to, moving, q
      <4>1. folders' = Overlay(folders, Transfer(folders, from, RowAt(folders, from), to, RowAt(folders, to), 0, Depth))
        BY <2>6, <3>2
      <4> DEFINE less == IF Inside(folders, from, g) THEN Less(folders[g].size, 0) ELSE folders[g].size
      <4>2. folders'[g].size = IF Inside(folders, to, g)
                               THEN (IF g = to THEN folders[g].size ELSE less) + 0 ELSE less
        BY <1>3, <2>3, <2>8, <4>1, TransferEffect
      <4> QED BY <2>5, <2>8, <4>2
    <3> QED BY <3>1, <3>2
  <2>10. BelowIn(files, folders', g) = BelowIn(files, folders, g)
    BY <2>7, BelowTree
  <2> QED BY <2>8, <2>9, <2>10
<1>10. CASE q.dir # None
  <2>1. folders[m] # None /\ from = folders[m].parent /\ s = folders[m].size
        /\ q.src = RowAt(folders, from) /\ q.dst = RowAt(folders, to) /\ folders[m] \in FolderRow
    BY <1>2, <1>10 DEF MoveSize
  <2>2. from # m
    <3> SUFFICES ASSUME from = m PROVE FALSE
      OBVIOUS
    <3>1. Inside(folders, m, m) /\ ~Inside(folders, folders[m].parent, m)
      BY <1>1, <2>1, InsideSelf, ParentOutside
    <3> QED BY <2>1, <3>1
  <2>3. to # m
    <3> SUFFICES ASSUME to = m PROVE Raises(r)
      BY <1>8
    <3>1. q.dst # None
      BY <1>1, <2>1 DEF RowAt
    <3>2. Moving(q)
      BY <2>2, <3>1 DEF Moving
    <3> QED BY <3>1, <3>2 DEF Raises
  <2>4. moving => ~Inside(folders, folders[m].parent, to)
    <3> SUFFICES ASSUME moving, Inside(folders, from, to) PROVE Raises(r)
      BY <1>8, <2>1
    <3>1. q.src # None /\ q.dst # None
      <4>1. from \in Folders /\ folders[from] # None /\ to \in Folders /\ folders[to] # None
        BY InsideLive
      <4> QED BY <2>1, <4>1 DEF RowAt
    <3> QED BY <3>1 DEF Raises
  <2>5. seen = [folders EXCEPT ![m] = [folders[m] EXCEPT !.parent = to]]
    <3> DEFINE row == [folders[m] EXCEPT !.parent = to]
    <3>1. row # None
      <4>1. row \in FolderRow
        BY <1>1, <2>1 DEF FolderRow
      <4> QED BY <4>1, NoneIsNoRow
    <3> HIDE DEF row
    <3>2. saved = [x \in Folders |-> IF x = m THEN row ELSE None]
      BY <1>1, <1>2, <1>10 DEF Saved, NoWrites, row
    <3> HIDE DEF saved, m, q
    <3> QED BY <1>1, <1>3, <3>1, <3>2 DEF Overlay, View, row
  <2>6. FolderMoved(folders, m, to, moving, folders')
    <3>1. ~moving => from = to \/ (RowAt(folders, from) = None /\ RowAt(folders, to) = None)
      BY <1>5, <2>1
    <3>2. folders' = IF moving THEN Overlay(seen, Transfer(seen, from, RowAt(folders, from), to,
                                                           RowAt(folders, to), folders[m].size, Depth))
                     ELSE seen
      BY <1>7, <1>8, <2>1
    <3> HIDE DEF moving, seen, from, to, m
    <3> QED BY <2>1, <2>5, <3>1, <3>2 DEF FolderMoved
  <2>7. folders[m].size = BelowIn(files, folders, m)
    BY <1>1, <1>6, <2>1 DEF Has
  <2>8. folders[g] # None => folders[g].size = BelowIn(files, folders, g)
    BY <1>6
  <2>m. m \in Folders /\ to \in Folders \cup {Top} /\ folders[m] # None
    BY <1>1, <2>1
  <2> HIDE DEF q, u, m, to, from, moving, saved, seen, s
  <2> QED BY <1>3, <1>5, <2>3, <2>4, <2>6, <2>7, <2>8, <2>m, MoveFolderSizes
<1> QED BY <1>9, <1>10

LEMMA DropFolderCount ==
  ASSUME BaseInv, Grounded(folders), Ops \subseteq Paying, ~Failures \/ Small,
         NEW r \in Reqs, Commit(r), req[r].op = "deletefolder", Counts(req[r].user, req[r])
  PROVE  /\ SizesCount(tainted', born', files', folders', req[r].user, Idle)
         /\ Claim(tainted', req[r].user, stores'[req[r].user].current, UsedIn(files', req[r].user))
<1> DEFINE q == req[r]
           u == q.user
           m == q.g
           from == q.from
           D == Doomed(folders, m, Depth)
<1>1. /\ q \in Request /\ q.pc = "commit" /\ u \in Users /\ m \in Folders
      /\ DeleteFolderDir(folders, q) /\ DropKnows(stores, q) /\ q.op \in Ops
      /\ folders' = AfterCommit(folders, q) /\ tainted \subseteq tainted'
      /\ Has(born, u, m) /\ q.dir \in FolderRow
      /\ \A f \in Files : files'[f] = IF files[f] # None /\ files[f].folder \in q.out.purge
                                      THEN None ELSE files[f]
  BY AtCommit, CommitFiles DEF DirFresh, ReqOK, Keeps, Knows
<1>2. /\ folders \in View /\ TypeInv /\ stores \in [Users -> StoreRow] /\ RowsOK(born, files) /\ KeptInv
      /\ files \in [Files -> FileRow \cup {None}]
  BY DEF BaseInv, TypeInv, TypeOK, SoloInv, FileInv, KeptIdInv
<1>3. ~Small /\ ~Failures
  BY <1>1 DEF Small
<1>4. /\ q.dir = folders[m] /\ from = q.dir.parent /\ from \in Folders
      /\ q.out.drop = D /\ q.out.purge = D /\ q.out.folders = DropWrites(folders, q, Depth)
      /\ q.out.store = SubCurrentSize(stores[u], q.dir.size)
  BY <1>1, <1>3, CutsType DEF DeleteFolderDir, DropKnows
<1>5. folders[m] # None /\ folders[m].parent = from /\ folders[m].size = q.dir.size
  BY <1>1, <1>4, NoneIsNoRow
<1>6. \A g : Late(q, folders, g) = 0
  BY DEF Late, Gone, When
<1>7. ASSUME NEW g \in Folders, folders[g] # None, born[g] = u, Strict(tainted', u)
      PROVE  folders[g].size = BelowIn(files, folders, g)
  <2>1. Claim(tainted, u, folders[g].size, BelowIn(files, folders, g) + Late(q, folders, g))
    BY <1>7 DEF Counts, SizesCount
  <2>2. Strict(tainted, u)
    BY <1>1, <1>7 DEF Strict
  <2> HIDE DEF q, u
  <2> QED BY <1>6, <2>1, <2>2, BelowNat DEF Claim
<1>8. FilesDropped(files, folders, m, files')
  BY <1>1, <1>4 DEF FilesDropped
<1>9. FoldersDropped(folders, m, folders')
  <2> DEFINE left == Left(folders, m)
  <2>1. left = [g \in Folders |-> IF g \in q.out.drop THEN None ELSE folders[g]]
    BY <1>4 DEF Left
  <2>2. q.out.folders = SubFileFolderSize(left, from, RowAt(left, from), folders[m].size, Depth)
    BY <1>4, <1>5 DEF DropWrites, RowAt
  <2>3. folders' = Overlay(left, q.out.folders)
    BY <1>1, <2>1 DEF AfterCommit
  <2> HIDE DEF left, q, from
  <2> QED BY <1>5, <2>2, <2>3 DEF FoldersDropped, left
<1>10. \A f \in Files : files[f] # None => files[f].folder \in Folders
  BY <1>2 DEF FileRow
<1>11. Strict(tainted', u) => folders[m].size = BelowIn(files, folders, m)
  BY <1>1, <1>5, <1>7 DEF Has
<1>12. SizesCount(tainted', born', files', folders', u, Idle)
  <2> SUFFICES ASSUME NEW g \in Folders, folders'[g] # None, born[g] = u, Strict(tainted', u)
               PROVE  folders'[g].size = BelowIn(files', folders', g)
    <3> SUFFICES ASSUME NEW g \in Folders, folders'[g] # None, born[g] = u
                 PROVE  Claim(tainted', u, folders'[g].size, BelowIn(files', folders', g))
      BY CommitSizes
    <3> QED BY <1>3 DEF Claim
  <2>1. folders[g] # None => folders[g].size = BelowIn(files, folders, g)
    BY <1>7
  <2>2. /\ m \in Folders /\ folders[m] # None /\ folders[m].parent \in Folders
        /\ folders[m].size = BelowIn(files, folders, m)
    BY <1>1, <1>4, <1>5, <1>11
  <2> HIDE DEF q, u, m, from, D
  <2> QED BY <1>2, <1>8, <1>9, <1>10, <2>1, <2>2, DropFolderSizes
<1>13. Claim(tainted', u, stores'[u].current, UsedIn(files', u))
  <2> SUFFICES ASSUME Strict(tainted', u) PROVE stores'[u].current = UsedIn(files', u)
    BY <1>3 DEF Claim
  <2>1. stores[u].current = UsedIn(files, u)
    <3>1. Claim(tainted, u, stores[u].current, UsedIn(files, u) + Owes(q))
      BY DEF Counts, StoreCounts
    <3>2. Owes(q) = 0
      BY DEF Owes
    <3>3. Strict(tainted, u)
      BY <1>1 DEF Strict
    <3> QED BY <3>1, <3>2, <3>3, UsedNat DEF Claim
  <2>2. \A f \in FilesIn(files, folders, m) : files[f].owner = u
    <3> SUFFICES ASSUME NEW f \in FilesIn(files, folders, m) PROVE files[f].owner = u
      OBVIOUS
    <3>1. \A v : Matched(born, v, folders)
      BY <1>2 DEF KeptInv, Matched
    <3>2. f \in Files /\ files[f] # None /\ born[m] = born[f]
      BY <1>2, <3>1, FilesKept
    <3> QED BY <1>1, <1>2, <3>2 DEF RowsOK, Has, Paying
  <2>3. \A f \in Files : files'[f] = IF f \in FilesIn(files, folders, m) THEN None ELSE files[f]
    <3>1. D = {x \in Folders : Inside(folders, x, m)}
      BY <1>1, <1>5, DoomedInside
    <3> QED BY <1>1, <1>4, <1>10, <3>1 DEF FilesIn
  <2>4. UsedIn(files, u) = UsedIn(files', u) + BelowIn(files, folders, m)
    <3> HIDE DEF q, u, m
    <3> QED BY <2>2, <2>3, UsedWithout
  <2>5. stores[u] \in StoreRow /\ folders[m].size \in Nat
    BY <1>1, <1>2, <1>5 DEF View, FolderRow
  <2>6. stores'[u] = SubCurrentSize(stores[u], folders[m].size)
    <3>1. SubCurrentSize(stores[u], folders[m].size) # None
      BY <2>5, ChargeType, StoreIsARow
    <3>2. stores' = [stores EXCEPT ![u] = q.out.store]
      BY <1>4, <1>5, <3>1 DEF Commit
    <3> QED BY <1>1, <1>2, <1>4, <1>5, <3>2
  <2>7. stores'[u].current = IF stores[u].current >= folders[m].size
                             THEN stores[u].current - folders[m].size ELSE 0
    <3> HIDE DEF u, m
    <3> QED BY <2>5, <2>6 DEF SubCurrentSize, StoreRow
  <2>8. UsedIn(files', u) \in Nat /\ BelowIn(files, folders, m) \in Nat
    BY UsedNat, BelowNat
  <2> HIDE DEF u, m
  <2> QED BY <1>11, <2>1, <2>4, <2>7, <2>8
<1> QED BY <1>12, <1>13

\* The store at any commit.
LEMMA CommitStore ==
  ASSUME BaseInv, Grounded(folders), Ops \subseteq Paying, ~Failures \/ Small,
         NEW r \in Reqs, Commit(r), Counts(req[r].user, req[r])
  PROVE  StoreCounts(tainted', files', stores', req[r].user, Idle)
<1> DEFINE q == req[r]
           u == q.user
<1>1. q.pc = "commit" /\ u \in Users /\ q.op \in Ops /\ tainted \subseteq tainted'
  BY AtCommit
<1>2. Owes(q) = 0 /\ Owes(Idle) = 0
  BY <1>1 DEF Owes, Idle
<1>3. Claim(tainted', u, stores'[u].current, UsedIn(files', u))
  <2>1. CASE q.op = "deletefolder"
    BY <2>1, DropFolderCount
  <2>2. CASE q.op # "deletefolder"
    <3>1. UsedIn(files', u) + stores[u].current = UsedIn(files, u) + stores'[u].current
      <4>1. q.op \in Booking
        BY <1>1, <2>2 DEF Booking
      <4> QED BY <4>1, CommitBooks
    <3>2. stores'[u].current \in Nat /\ stores[u].current \in Nat
      <4>1. TypeInv /\ TypeInv'
        BY NextType DEF Next, Continue, BaseInv
      <4> QED BY <1>1, <4>1 DEF TypeInv, TypeOK, StoreRow
    <3>3. Claim(tainted, u, stores[u].current, UsedIn(files, u) + Owes(q))
      BY DEF Counts, StoreCounts
    <3>4. UsedIn(files, u) \in Nat /\ UsedIn(files', u) \in Nat
      BY UsedNat
    <3> HIDE DEF q, u
    <3>5. Claim(tainted, u, stores[u].current, UsedIn(files, u))
      BY <1>2, <3>3, <3>4
    <3> QED BY <1>1, <3>1, <3>2, <3>4, <3>5, ClaimStep
  <2> QED BY <2>1, <2>2
<1> HIDE DEF u
<1>4. UsedIn(files', u) + Owes(Idle) = UsedIn(files', u)
  BY <1>2, UsedNat
<1> QED BY <1>3, <1>4 DEF StoreCounts, u

\* What a request does to the numbers of its own user.
LEMMA OwnCount ==
  ASSUME BaseInv, Grounded(folders), Grounded(folders'), Ops \subseteq Paying, ~Failures \/ Small,
         NEW r \in Reqs, Acts(r), req[r].user \in Users, Counts(req[r].user, req[r])
  PROVE  CountsAfter(req[r].user, req'[r])
<1>b. TypeInv /\ Settled /\ Knows(born, files, stores, req[r])
  BY DEF BaseInv, SoloInv, FileInv
<1>1. req[r].op \notin {"sharesave", "admindelete"}
  BY <1>b DEF Knows, Paying
<1>2. \/ UNCHANGED books /\ ~Gone(req[r]) /\ ~Gone(req'[r])
      \/ UNCHANGED books /\ Gone(req[r]) /\ Failures /\ Done(r)
      => CountsAfter(req[r].user, req'[r])
  <2>1. CASE UNCHANGED books /\ ~Gone(req[r]) /\ ~Gone(req'[r])
    BY <1>b, <2>1, QuietCount
  <2>2. CASE UNCHANGED books /\ Gone(req[r]) /\ Failures /\ Done(r)
    BY <1>b, <2>2, QuietCount
  <2> QED BY <2>1, <2>2
<1>3. CASE DeleteRow(r) \/ DeleteRefund(r) \/ CreateFolder(r) \/ SetVolume(r)
  BY <1>3, DeleteRowCount, DeleteRefundCount, CreateFolderCount, SetVolumeCount
<1>4. CASE Commit(r)
  <2>1. /\ req[r].op \in {"upload", "deletefile", "movefile", "movefolder", "deletefolder"}
        /\ req'[r] = Idle
    BY <1>4, AtCommit
  <2>2. SizesCount(tainted', born', files', folders', req[r].user, Idle)
    BY <1>4, <2>1, UploadCount, DeleteFileCount, MoveFileCount, MoveFolderCount, DropFolderCount
  <2>3. StoreCounts(tainted', files', stores', req[r].user, Idle)
    BY <1>4, CommitStore
  <2> QED BY <2>1, <2>2, <2>3 DEF CountsAfter
<1>5. \/ UNCHANGED books /\ ~Gone(req[r]) /\ ~Gone(req'[r])
      \/ UNCHANGED books /\ Gone(req[r]) /\ Failures /\ Done(r)
      \/ DeleteRow(r) \/ DeleteRefund(r) \/ CreateFolder(r) \/ SetVolume(r) \/ Commit(r)
  BY <1>b, <1>1, StepEffects
<1> QED BY <1>2, <1>3, <1>4, <1>5

\* A request that gave nothing up counts as none.
LEMMA IdleCounts ==
  ASSUME NEW T, NEW B, NEW F, NEW S, NEW P, NEW u, NEW w, ~Gone(w)
  PROVE  /\ StoreCounts(T, F, S, u, w) <=> StoreCounts(T, F, S, u, Idle)
         /\ SizesCount(T, B, F, P, u, w) <=> SizesCount(T, B, F, P, u, Idle)
<1>1. ~Gone(Idle)
  BY DEF Idle, Gone
<1>2. Owes(w) = Owes(Idle)
  BY <1>1 DEF Owes, Gone
<1>3. \A g : Late(w, P, g) = Late(Idle, P, g)
  BY <1>1 DEF Late, When
<1> QED BY <1>2, <1>3 DEF StoreCounts, SizesCount

LEMMA CountStep ==
  ASSUME BaseInv, BaseInv', PerUser = 1, Grounded(folders), Grounded(folders'),
         Ops \subseteq Paying, ~Failures \/ Small, CountInv, NEW r \in Reqs, Acts(r)
  PROVE  CountInv'
<1>b. /\ TypeInv /\ KeptIdInv /\ Settled /\ Solo /\ FileInv /\ DirInv /\ req \in [Reqs -> Request]
  BY DEF BaseInv, SoloInv, TypeInv, TypeOK
<1>1. FileSteps(r)
  BY <1>b, FileStep DEF DirInv
<1>2. \A x \in Reqs \ {r} : req'[x] = req[x]
  BY <1>b, OneActs DEF Acts
<1>n. Idle.user = None /\ None \notin Users
  BY StorageAssumption DEF Idle
<1>3. /\ Done(r) => req'[r] = Idle
      /\ ~Arrive(r) => req'[r] = Idle \/ req'[r].user = req[r].user
  <2>1. Done(r) => req'[r] = Idle
    BY <1>b DEF Done
  <2> QED BY <1>b, <2>1, ContinueUser DEF Acts, Fail, LockTimeout
<1>4. \A v \in Users, x \in Reqs : Gone(req[x]) => req[x].op = "deletefile"
  BY DEF Gone
<1>5. ASSUME NEW v \in Users, v # req[r].user
      PROVE  /\ Quiet(v)' => Counts(v, Idle)'
             /\ \A x \in Busy(v)' : Counts(v, req[x])'
  <2>1. ASSUME NEW w, w.op = "deletefile" => Has(born, v, w.file.folder), Counts(v, w)
        PROVE  CountsAfter(v, w)
    BY <1>1, <1>5, <2>1, OthersCount DEF CountsAfter
  <2>2. Quiet(v) => CountsAfter(v, Idle)
    <3>1. Idle.op # "deletefile"
      BY DEF Idle
    <3> QED BY <2>1, <3>1 DEF CountInv
  <2>3. Quiet(v)' => Quiet(v)
    BY <1>2, <1>5 DEF Quiet, Busy
  <2>4. ASSUME NEW x \in Busy(v)' PROVE CountsAfter(v, req'[x])
    <3>1. x \in Reqs /\ req'[x].user = v
      BY <2>4 DEF Busy
    <3>2. CASE x # r
      <4>1. req'[x] = req[x] /\ x \in Busy(v)
        BY <1>2, <3>1, <3>2 DEF Busy
      <4>2. Counts(v, req[x])
        BY <4>1 DEF CountInv
      <4>3. req[x].op = "deletefile" => Has(born, v, req[x].file.folder)
        BY <1>b, <3>1, <4>1 DEF DirInv, DirFresh, DeleteFileDir
      <4> QED BY <2>1, <4>1, <4>2, <4>3
    <3>3. CASE x = r
      <4>1. Arrive(r)
        BY <1>3, <1>5, <1>n, <3>1, <3>3
      <4>2. Quiet(v)
        BY <1>b, <3>1, <3>3, <4>1, ArriveAlike DEF Quiet, Busy
      <4>3. ~Gone(req'[r])
        BY <1>b, <4>1, ArriveUser DEF Gone
      <4> QED BY <2>2, <3>3, <4>2, <4>3, IdleCounts DEF CountsAfter
    <3> QED BY <3>2, <3>3
  <2>5. Quiet(v)' => Counts(v, Idle)'
    BY <2>2, <2>3 DEF CountsAfter, Counts
  <2>6. \A x \in Busy(v)' : Counts(v, req[x])'
    BY <2>4 DEF CountsAfter, Counts
  <2> QED BY <2>5, <2>6
<1>6. ASSUME NEW v \in Users, v = req[r].user
      PROVE  /\ Quiet(v)' => Counts(v, Idle)'
             /\ \A x \in Busy(v)' : Counts(v, req[x])'
  <2>1. Counts(v, req[r])
    BY <1>6 DEF CountInv, Busy
  <2>2. CountsAfter(v, req'[r])
    BY <1>6, <2>1, OwnCount
  <2>3. Quiet(v)' => req'[r] = Idle
    <3>1. ~Arrive(r)
      BY <1>b, <1>6, <1>n, ArriveUser DEF Settled
    <3>2. Quiet(v)' => req'[r].user # v
      BY DEF Quiet, Busy
    <3> QED BY <1>3, <1>6, <3>1, <3>2
  <2>4. \A x \in Busy(v)' : x = r
    BY <1>2, <1>6, <1>b, <1>n DEF Busy, Solo
  <2>5. Quiet(v)' => Counts(v, Idle)'
    BY <2>2, <2>3 DEF CountsAfter, Counts
  <2>6. \A x \in Busy(v)' : Counts(v, req[x])'
    BY <2>2, <2>4 DEF CountsAfter, Counts
  <2> QED BY <2>5, <2>6
<1> QED BY <1>5, <1>6 DEF CountInv

LEMMA CountInit == Init => CountInv
<1> SUFFICES ASSUME Init, NEW u \in Users PROVE Counts(u, Idle) /\ Busy(u) = {}
  BY DEF CountInv
<1>1. \A F : OwnedIn(F, u) = {} => UsedIn(F, u) = 0
  BY SumEmpty DEF UsedIn
<1>2. \A g : FilesIn(files, folders, g) = {}
  BY DEF Init, FilesIn
<1>3. \A g : BelowIn(files, folders, g) = 0
  BY <1>2, SumEmpty DEF BelowIn
<1>4. UsedIn(files, u) = 0
  BY <1>1 DEF Init, OwnedIn
<1>5. Owes(Idle) = 0 /\ \A P, g : Late(Idle, P, g) = 0
  BY DEF Idle, Owes, Late, Gone, When
<1>6. stores[u].current = 0 /\ \A g \in Folders : folders[g] # None => folders[g].size = 0
  BY DEF Init
<1>7. Busy(u) = {}
  BY StorageAssumption DEF Init, Busy, Idle
<1>8. Counts(u, Idle)
  BY <1>3, <1>4, <1>5, <1>6 DEF Counts, StoreCounts, SizesCount, Claim
<1> QED BY <1>7, <1>8

-----------------------------------------------------------------------------
(* The stores and the folders' sizes.                                        *)

\* The inductive invariant of the sizes.
SizeInv == BaseInv /\ ForestInv /\ CountInv

LEMMA SizeInit == ~Foreign /\ Init => SizeInv
BY BaseInit, ForestInit, CountInit DEF SizeInv

LEMMA SizeNext ==
  ASSUME PerUser = 1, Ops \subseteq Paying, ~Failures \/ Small, SizeInv, [Next]_vars
  PROVE  SizeInv'
<1>1. BaseInv'
  BY BaseNext DEF SizeInv, Tame, Paying
<1>2. ForestInv'
  BY ForestNext DEF SizeInv, Small
<1>3. Grounded(folders) /\ Grounded(folders')
  BY <1>2 DEF SizeInv, ForestInv
<1>4. ASSUME UNCHANGED vars PROVE CountInv'
  <2>1. UNCHANGED <<files, folders, stores, born, tainted, req>>
    BY <1>4 DEF vars
  <2>2. CountInv
    BY DEF SizeInv
  <2> QED BY <2>1, <2>2 DEF CountInv, Counts, StoreCounts, SizesCount, Quiet, Busy
<1>5. ASSUME Next PROVE CountInv'
  <2>1. PICK r \in Reqs : Acts(r)
    BY <1>5 DEF Next, Acts
  <2> QED BY <1>1, <1>3, <2>1, CountStep DEF SizeInv
<1> QED BY <1>1, <1>2, <1>4, <1>5 DEF SizeInv

LEMMA SizeHolds ==
  ASSUME ~Foreign, PerUser = 1, Ops \subseteq Paying, ~Failures \/ Small
  PROVE  Spec => []SizeInv
<1>1. SizeInv /\ [Next]_vars => SizeInv'
  BY SizeNext
<1> QED BY <1>1, SizeInit, PTL DEF Spec

\* What the invariant says of a user without a request.
LEMMA SizesOfQuiet ==
  ASSUME SizeInv
  PROVE  /\ \A u \in Users : Quiet(u) =>
              Claim(tainted, u, stores[u].current, Used(u))
         /\ \A g \in Folders : folders[g] # None /\ Quiet(folders[g].owner) =>
              Claim(tainted, folders[g].owner, folders[g].size, Below(g))
<1>b. TypeInv /\ KeptInv /\ CountInv
  BY DEF SizeInv, BaseInv, KeptIdInv
<1>1. Sizes = SizesIn(files)
  BY DEF Sizes, SizesIn, Live
<1>2. \A u : Used(u) = UsedIn(files, u)
  BY <1>1 DEF Used, UsedIn, OwnedBy, OwnedIn, Live
<1>3. \A g : Below(g) = BelowIn(files, folders, g)
  BY <1>1 DEF Below, BelowIn, FilesIn, Live
<1>4. Owes(Idle) = 0 /\ \A P, g : Late(Idle, P, g) = 0
  BY DEF Idle, Owes, Late, Gone, When
<1>5. ASSUME NEW u \in Users, Quiet(u) PROVE Claim(tainted, u, stores[u].current, Used(u))
  <2>1. StoreCounts(tainted, files, stores, u, Idle)
    BY <1>b, <1>5 DEF CountInv, Counts
  <2>2. UsedIn(files, u) \in Nat
    BY UsedNat
  <2> QED BY <1>2, <1>4, <2>1, <2>2 DEF StoreCounts
<1>6. ASSUME NEW g \in Folders, folders[g] # None, Quiet(folders[g].owner)
      PROVE  Claim(tainted, folders[g].owner, folders[g].size, Below(g))
  <2> DEFINE u == folders[g].owner
  <2>1. u \in Users /\ born[g] = u
    BY <1>b, <1>6 DEF KeptInv, TypeInv, TypeOK, View, FolderRow
  <2>2. SizesCount(tainted, born, files, folders, u, Idle)
    BY <1>b, <1>6, <2>1 DEF CountInv, Counts
  <2>3. BelowIn(files, folders, g) \in Nat
    BY BelowNat
  <2>4. Claim(tainted, u, folders[g].size, BelowIn(files, folders, g) + Late(Idle, folders, g))
    BY <1>6, <2>1, <2>2 DEF SizesCount
  <2> QED BY <1>3, <1>4, <2>3, <2>4
<1> QED BY <1>5, <1>6

\* With one request at a time on an account, requests on any number of accounts
\* interleaved, clients that name their own folders only, and nothing failing, the
\* store of a user without a request is
\* charged exactly what the user's files take up, after every history of
\* uploads, deletes, moves, folder deletes and grants.  It takes that shares are
\* not saved: that charges the store also where the row's md5 is taken already.
THEOREM StoresAreExact ==
  ASSUME ~Foreign, PerUser = 1, ~Failures, Ops \subseteq Paying
  PROVE  Spec => []StoreExact
<1>1. SizeInv => StoreExact
  BY SizesOfQuiet DEF StoreExact, Claim, Strict
<1>2. Spec => []SizeInv
  BY SizeHolds
<1> QED BY <1>1, <1>2, PTL

\* Likewise, as long as nobody uploads into another's folder, every folder's size
\* is the size of the files anywhere below it, unless its owner moved something to
\* a folder above the old one, or a folder below itself: the target's row is written as it was read, before the walk up
\* from the old place took the size off it.
THEOREM FoldersAreExact ==
  ASSUME ~Foreign, PerUser = 1, ~Failures, Ops \subseteq Paying
  PROVE  Spec => []FolderExact
<1>1. SizeInv => FolderExact
  BY SizesOfQuiet DEF FolderExact, Claim, Strict
<1>2. Spec => []SizeInv
  BY SizeHolds
<1> QED BY <1>1, <1>2, PTL

\* Wherever the statements of uploads, file deletes, file moves, folder creations
\* and volume changes fail, and with one request at a time on each account and on
\* each account's folders (clients name their own only), no user without a request is charged for less than
\* the user's files take up, and no folder for less than what is below it.
THEOREM NoneIsUndercharged ==
  ASSUME ~Foreign, PerUser = 1, Ops \subseteq Paying, Ops \cap {"movefolder", "deletefolder"} = {}
  PROVE  Spec => []OverchargeOnly
<1>1. SizeInv => OverchargeOnly
  BY SizesOfQuiet DEF OverchargeOnly, Claim, Small
<1>2. Spec => []SizeInv
  BY SizeHolds DEF Small
<1> QED BY <1>1, <1>2, PTL

-----------------------------------------------------------------------------
(* The ledger with folder deletes: where nothing fails and nothing is moved, a *)
(* folder's size is what the delete of the folder discards.                   *)

\* What a user's files take up is what the contents a user holds take up.
LEMMA UsedIsTotal ==
  ASSUME NEW F, NEW u,
         \A f \in Files : F[f] # None => F[f].md5 \in Contents,
         \A f, x \in Files : F[f] # None /\ F[x] # None /\ F[f].md5 = F[x].md5 => f = x
  PROVE  /\ IsFiniteSet(HoldsIn(F, u)) /\ HoldsIn(F, u) \subseteq Contents
         /\ UsedIn(F, u) = SumFunctionOnSet(SizeOf, HoldsIn(F, u))
<1> DEFINE S == OwnedIn(F, u)
           k == [f \in Files |-> F[f].md5]
<1>1. S \in SUBSET Files /\ \A f \in S : F[f] # None /\ F[f].md5 \in Contents
  BY DEF OwnedIn
<1>2. IsFiniteSet(S) /\ Weighs(SizesIn(F), S)
  BY <1>1, SizesType
<1>3. HoldsIn(F, u) = {k[f] : f \in S}
  BY <1>1 DEF HoldsIn
<1>4. \A f \in S : SizeOf[k[f]] = SizesIn(F)[f]
  BY <1>1 DEF SizesIn, Length
<1>5. \A f, x \in S : k[f] = k[x] => f = x
  BY <1>1
<1>6. HoldsIn(F, u) \subseteq Contents
  BY <1>1 DEF HoldsIn
<1>7. /\ IsFiniteSet({k[f] : f \in S})
      /\ SumFunctionOnSet(SizeOf, {k[f] : f \in S}) = SumFunctionOnSet(SizesIn(F), S)
  <2> HIDE DEF S, k
  <2> QED BY <1>2, <1>4, <1>5, SumImage
<1> QED BY <1>3, <1>6, <1>7 DEF UsedIn

\* The store of a folder delete whose walk was not cut.
LEMMA DropStore ==
  ASSUME BaseInv, Ops \subseteq Paying, ~Failures,
         NEW r \in Reqs, Commit(r), req[r].op = "deletefolder"
  PROVE  /\ stores'[req[r].user].max = stores[req[r].user].max
         /\ \A f \in Files : files'[f] \in {None, files[f]}
<1> DEFINE q == req[r]
           u == q.user
<1>1. /\ u \in Users /\ DropKnows(stores, q) /\ q.pc = "commit" /\ ReqOK(q)
      /\ \A f \in Files : files'[f] \in {None, files[f]}
  BY AtCommit, CommitFiles DEF Knows
<1>2. stores \in [Users -> StoreRow] /\ q.dir.size \in Nat
  BY <1>1 DEF BaseInv, TypeInv, TypeOK, ReqOK, FolderRow
<1>3. q.out.store = SubCurrentSize(stores[u], q.dir.size)
  BY <1>1 DEF DropKnows
<1>4. stores[u] \in StoreRow
  BY <1>1, <1>2
<1>5. SubCurrentSize(stores[u], q.dir.size) # None
  BY <1>2, <1>4, ChargeType, StoreIsARow
<1>6. stores'[u] = SubCurrentSize(stores[u], q.dir.size)
  <2>1. stores' = [stores EXCEPT ![u] = q.out.store]
    BY <1>3, <1>5 DEF Commit
  <2> QED BY <1>1, <1>2, <1>3, <2>1
<1>7. stores'[u].max = stores[u].max
  <2> HIDE DEF u, q
  <2> QED BY <1>4, <1>6 DEF SubCurrentSize, StoreRow
<1> QED BY <1>1, <1>7

\* The commit of a folder delete discards contents the user holds, and takes off
\* the charge exactly what they take up.
LEMMA DropBooks ==
  ASSUME BaseInv, BaseInv', Grounded(folders), PerUser = 1, Ops \subseteq Paying, ~Failures,
         tainted' = {}, NEW r \in Reqs, Commit(r), req[r].op = "deletefolder", Counts(req[r].user, req[r])
  PROVE  Discards(req[r].user) /\ Balances(req[r].user)
<1> DEFINE q == req[r]
           u == q.user
           A == HoldsIn(files, u)
           B == HoldsIn(files', u)
<1>1. /\ u \in Users /\ q.pc = "commit" /\ tainted = {} /\ req'[r] = Idle
  BY AtCommit
<1>b. /\ TypeInv /\ Settled /\ Solo /\ RowsOK(born, files) /\ RowsOK(born', files') /\ "sharesave" \notin Ops
  BY DEF BaseInv, SoloInv, FileInv, Paying
<1>2. /\ stores'[u].max = stores[u].max
      /\ \A f \in Files : files'[f] \in {None, files[f]}
  BY DropStore
<1>3. stores[u].current = UsedIn(files, u)
  <2>1. Claim(tainted, u, stores[u].current, UsedIn(files, u) + Owes(q))
    BY DEF Counts, StoreCounts
  <2>2. Owes(q) = 0
    BY DEF Owes
  <2>3. Strict(tainted, u)
    BY <1>1 DEF Strict
  <2> QED BY <2>1, <2>2, <2>3, UsedNat DEF Claim
<1>4. stores'[u].current = UsedIn(files', u)
  <2>1. Claim(tainted', u, stores'[u].current, UsedIn(files', u))
    BY DropFolderCount
  <2> QED BY <2>1 DEF Claim, Strict
<1>5. RefundIn(req, u) = 0 /\ RefundIn(req', u) = 0
  <2>1. Owes(q) = 0 /\ Owes(req'[r]) = 0
    BY <1>1 DEF Owes, Idle
  <2>2. Acts(r)
    BY DEF Acts, Continue
  <2>3. RefundIn(req, u) = Owes(q) /\ RefundIn(req', u) = Owes(req'[r])
    BY <1>1, <1>b, <2>2, RefundStep
  <2> QED BY <2>1, <2>3
<1>6. /\ IsFiniteSet(A) /\ A \subseteq Contents /\ UsedIn(files, u) = SumFunctionOnSet(SizeOf, A)
      /\ IsFiniteSet(B) /\ UsedIn(files', u) = SumFunctionOnSet(SizeOf, B)
  BY <1>b, UsedIsTotal DEF RowsOK
<1>7. B \subseteq A
  BY <1>2 DEF HoldsIn, OwnedIn
<1>8. UsedIn(files, u) = UsedIn(files', u) + SumFunctionOnSet(SizeOf, A \ B)
  <2>1. Weighs(SizeOf, B \cup (A \ B)) /\ B \cap (A \ B) = {} /\ B \cup (A \ B) = A
    BY <1>6, <1>7, StorageAssumption DEF Weighs
  <2>2. IsFiniteSet(A \ B)
    BY <1>6, FS_Subset
  <2> HIDE DEF A, B
  <2> QED BY <1>6, <2>1, <2>2, SumUnion
<1>9. B = A \ (A \ B) /\ A \ B \in SUBSET A
  BY <1>7
<1>10. Discards(u)
  <2>1. SumFunctionOnSet(SizeOf, A \ B) \in Nat
    <3>1. IsFiniteSet(A \ B) /\ Weighs(SizeOf, A \ B)
      BY <1>6, FS_Subset, StorageAssumption DEF Weighs
    <3> QED BY <3>1, SumNat
  <2>2. stores'[u].current - RefundIn(req', u)
          = stores[u].current - RefundIn(req, u) - SumFunctionOnSet(SizeOf, A \ B)
    BY <1>3, <1>4, <1>5, <1>8, <2>1, UsedNat
  <2> QED BY <1>2, <1>9, <2>2 DEF Discards
<1>11. Balances(u)
  BY <1>4, <1>5, UsedNat DEF Balances
<1> QED BY <1>10, <1>11

\* Operations after which no user's sizes count anything twice.
Still == Paying \ {"movefile", "movefolder"}

\* No step taints a user.
LEMMA NoTaint ==
  ASSUME BaseInv, Ops \subseteq Still, tainted = {}, [Next]_vars
  PROVE  tainted' = {}
<1>1. CASE UNCHANGED vars
  BY <1>1 DEF vars
<1>2. CASE Next
  <2>1. PICK r \in Reqs : Acts(r)
    BY <1>2 DEF Next, Acts
  <2>2. TypeInv /\ Knows(born, files, stores, req[r])
    BY DEF BaseInv, SoloInv, FileInv
  <2>3. req[r].op \notin {"sharesave", "admindelete", "movefile", "movefolder"}
    BY <2>2 DEF Knows, Still, Paying
  <2>4. ~Raises(r)
    BY <2>3 DEF Raises
  <2> QED BY <2>1, <2>2, <2>3, <2>4, TaintStep
<1> QED BY <1>1, <1>2

StillInv == SizeInv /\ LedgerInv /\ tainted = {}

\* Every step books what it does.
LEMMA StillBooks ==
  ASSUME PerUser = 1, ~Failures, Ops \subseteq Still, StillInv, NEW r \in Reqs, Acts(r)
  PROVE  /\ LedgerInv'
         /\ \A v \in Users : v # req[r].user => Stays(v)
         /\ req[r].user \in Users => Books(req[r].user)
<1>0. /\ BaseInv /\ SizeInv /\ LedgerInv /\ Grounded(folders) /\ CountInv /\ [Next]_vars
      /\ Ops \subseteq Paying /\ tainted = {}
  BY DEF StillInv, SizeInv, ForestInv, Still, Next, Acts
<1>1. BaseInv'
  BY <1>0, SizeNext DEF SizeInv
<1>2. tainted' = {}
  BY <1>0, NoTaint
<1>3. FolderBooks(r)
  <2> SUFFICES ASSUME Commit(r), req[r].op = "deletefolder"
               PROVE  Discards(req[r].user) /\ Balances(req[r].user)
    BY DEF FolderBooks
  <2>1. req[r].user \in Users
    BY <1>0, AtCommit
  <2>2. Counts(req[r].user, req[r])
    BY <1>0, <2>1 DEF CountInv, Busy
  <2> QED BY <1>0, <1>1, <1>2, <2>2, DropBooks
<1> QED BY <1>0, <1>1, <1>3, BooksNext

\* The invariant is kept, and the step is one of the ledger's.
LEMMA StillNext ==
  ASSUME PerUser = 1, ~Failures, Ops \subseteq Still, StillInv, [Next]_vars
  PROVE  StillInv' /\ [Accounts!LNext]_(Accounts!ledger)
<1>1. SizeInv'
  BY SizeNext DEF StillInv, Still
<1>2. tainted' = {}
  BY NoTaint DEF StillInv, SizeInv
<1>3. CASE UNCHANGED vars
  <2>1. LedgerInv'
    <3>1. Covered' /\ GivenUp'
      BY <1>3 DEF vars, StillInv, LedgerInv, Covered, GivenUp
    <3> QED BY <3>1 DEF LedgerInv
  <2> QED BY <1>1, <1>2, <1>3, <2>1, LedgerStutters DEF StillInv
<1>4. CASE Next
  <2>1. PICK r \in Reqs : Acts(r)
    BY <1>4 DEF Next, Acts
  <2>2. /\ LedgerInv'
        /\ \A v \in Users : v # req[r].user => Stays(v)
        /\ req[r].user \in Users => Books(req[r].user)
    BY <2>1, StillBooks
  <2>3. [Accounts!LNext]_(Accounts!ledger)
    BY <2>2, LedgerStep
  <2> QED BY <1>1, <1>2, <2>2, <2>3 DEF StillInv
<1> QED BY <1>3, <1>4

\* Where nothing fails, nothing is moved and nobody uploads into another's folder,
\* folder deletes too are steps of the ledger: the delete of a folder discards the contents of all files inside it
\* and takes what they take up off the charge, in the one step of its commit.
THEOREM LedgerWithFolders ==
  ASSUME ~Foreign, PerUser = 1, ~Failures, Ops \subseteq Still
  PROVE  Spec => ImplementsLedger
<1>1. Init => StillInv
  BY SizeInit, LedgerInit DEF StillInv, Init
<1>2. StillInv /\ [Next]_vars => StillInv' /\ [Accounts!LNext]_(Accounts!ledger)
  BY StillNext
<1> QED BY <1>1, <1>2, LedgerFirst, PTL DEF Spec, ImplementsLedger, Accounts!LSpec
=============================================================================
