------------------------------ MODULE StoragePool ------------------------------
(***************************************************************************)
(* The storage requests on a pool of PoolSize database connections.         *)
(*                                                                         *)
(* A transaction holds a connection from its first statement to its end, a  *)
(* statement outside of a transaction takes one for itself.  File deletion  *)
(* and the saving of shared files run statements outside of the transaction *)
(* in the middle of it: for those they need a second connection.  A request *)
(* waits for a connection without a timeout.  Process deaths are left to    *)
(* the Storage module.                                                      *)
(***************************************************************************)
EXTENDS StorageProps

CONSTANT PoolSize \* SetMaxOpenConns

ASSUME PoolAssumption == IsFiniteSet(Reqs) /\ PoolSize \in Nat

VARIABLES first,  \* the requests that hold a connection
          second  \* the requests that hold two

poolVars == <<vars, first, second>>

\* How many connections the next step of a request is run with.
Demand(q) ==
  IF q.pc = "idle" THEN 0
  ELSE IF q.pc \in {"delete", "refund", "create"} THEN 2 ELSE 1

InTransaction(q) == q.pc \in {"chain", "delete", "refund", "create", "commit", "spin"}

Pool == INSTANCE ConnPool WITH
          Clients <- Reqs, Size <- PoolSize,
          need <- [r \in Reqs |-> Demand(req[r])]

PoolInit == Init /\ first = {} /\ second = {}

-----------------------------------------------------------------------------

\* Deviation: the pool has no limit.
ConnectAnyway(r) ==
  /\ Pool!Waits(r)
  /\ IF r \in first THEN second' = second \cup {r} /\ UNCHANGED first
                    ELSE first' = first \cup {r} /\ UNCHANGED second
  /\ UNCHANGED vars

Connect(r) ==
  /\ Pool!Waits(r) /\ Pool!Free
  /\ IF r \in first THEN second' = second \cup {r} /\ UNCHANGED first
                    ELSE first' = first \cup {r} /\ UNCHANGED second
  /\ UNCHANGED vars

\* Deviation: a transaction that is refused is not rolled back.
SettleLate(r) ==
  /\ first' = IF InTransaction(req'[r]) \/ (req[r].pc = "tx" /\ req'[r].pc = "idle")
              THEN first \cup {r} ELSE first \ {r}
  /\ second' = second \ {r}

\* After a step a request keeps its connection if its transaction goes on.
Settle(r) ==
  /\ first' = IF InTransaction(req'[r]) THEN first \cup {r} ELSE first \ {r}
  /\ second' = second \ {r}

\* The first statement of a request is part of its arrival.
Begin(r) == Pool!Free /\ Arrive(r) /\ Settle(r)

Proceed(r) == ~Pool!Waits(r) /\ Continue(r) /\ Settle(r)

\* Only a statement that has its connection can fail or wait for a lock.
Break(r) == ~Pool!Waits(r) /\ Fail(r) /\ Settle(r)

Expire(r) == ~Pool!Waits(r) /\ LockTimeout(r) /\ Settle(r)

PoolNext ==
  \E r \in Reqs : Connect(r) \/ Begin(r) \/ Proceed(r) \/ Break(r) \/ Expire(r)

PoolSpec == PoolInit /\ [][PoolNext]_poolVars

\* The scheduler runs every goroutine, the database answers every statement, a
\* lock wait times out, and a connection that stays free goes to a request that
\* waits for one.
FairPoolSpec ==
  /\ PoolSpec
  /\ \A r \in Reqs : /\ WF_poolVars(Connect(r))
                      /\ WF_poolVars(Proceed(r))
                      /\ WF_poolVars(Expire(r))

-----------------------------------------------------------------------------

\* No more connections are used than the pool has, and each is given back.
UsesPool == Pool!PSpec

\* The pool runs dry for good only when as many requests as it has connections
\* are in the middle of a file delete or of the saving of a shared file.
DrainedByNesting == Pool!DrainedByNesting

\* Every request ends unless the pool is drained, when lock waits time out and
\* no folder is moved.
RequestsEnd ==
  \A r \in Reqs : req[r].pc # "idle" ~> (req[r].pc = "idle" \/ Pool!Drained)
=============================================================================
