-------------------------------- MODULE Ledger --------------------------------
(***************************************************************************)
(* What the storage accounting promises a user, with no tables, requests   *)
(* or transactions: the contents a user holds, a limit, and a charge that  *)
(* every change of the holdings adjusts in the same step.                  *)
(***************************************************************************)
EXTENDS Integers, Functions

CONSTANTS Users, Contents, SizeOf, InitialVolume, Volumes,
          Lossy \* whether a request may be cut off half way

VARIABLES holds,   \* the contents each user holds
          charge,  \* what each user is charged
          limit    \* what each user may hold

ledger == <<holds, charge, limit>>

Total(S) == SumFunctionOnSet(SizeOf, S)

LInit ==
  /\ holds = [u \in Users |-> {}]
  /\ charge = [u \in Users |-> 0]
  /\ limit = [u \in Users |-> InitialVolume]

\* The disk keeps every content once.
Store(u, c) ==
  /\ \A v \in Users : c \notin holds[v]
  /\ charge[u] + SizeOf[c] <= limit[u]
  /\ holds' = [holds EXCEPT ![u] = @ \cup {c}]
  /\ charge' = [charge EXCEPT ![u] = @ + SizeOf[c]]
  /\ UNCHANGED limit

Discard(u, S) ==
  /\ S \subseteq holds[u]
  /\ holds' = [holds EXCEPT ![u] = @ \ S]
  /\ charge' = [charge EXCEPT ![u] = @ - Total(S)]
  /\ UNCHANGED limit

\* A request is cut off between giving a content up and its refund.
Forfeit(u, c) ==
  /\ Lossy
  /\ c \notin holds[u]
  /\ charge' = [charge EXCEPT ![u] = @ + SizeOf[c]]
  /\ UNCHANGED <<holds, limit>>

Grant(u, v) ==
  /\ limit' = [limit EXCEPT ![u] = v]
  /\ UNCHANGED <<holds, charge>>

LNext ==
  \E u \in Users :
    \/ \E c \in Contents : Store(u, c) \/ Forfeit(u, c)
    \/ \E S \in SUBSET holds[u] : Discard(u, S)
    \/ \E v \in Volumes : Grant(u, v)

LSpec == LInit /\ [][LNext]_ledger
=============================================================================
