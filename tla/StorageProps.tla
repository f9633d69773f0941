----------------------------- MODULE StorageProps -----------------------------
(***************************************************************************)
(* What the storage accounting promises, and one it does not keep.          *)
(***************************************************************************)
EXTENDS Storage, Functions

Live(f) == files[f] # None

OwnedBy(u) == {f \in Files : Live(f) /\ files[f].owner = u}

\* What every file takes up.
Sizes == [f \in Files |-> IF Live(f) THEN Length(files[f].md5) ELSE 0]

\* What u's files take up, and what the files below folder g take up.
Used(u) == SumFunctionOnSet(Sizes, OwnedBy(u))

Below(g) == SumFunctionOnSet(Sizes, {f \in Files : Live(f) /\ Inside(folders, files[f].folder, g)})

Quiet(u) == Busy(u) = {}

-----------------------------------------------------------------------------

\* Whatever runs concurrently and fails where: a store is never charged more
\* than the largest volume its user was ever granted, and never allows more.
\* Every save of a store writes a row that was checked against the limit in it.
QuotaRow ==
  \A u \in Users : stores[u].current <= granted[u] /\ stores[u].max <= granted[u]

\* With one request at a time on an account, clients that name folders of their
\* own only, and nothing failing, the store of a user without a request is charged
\* exactly what the user's files take up.
StoreExact ==
  \A u \in Users : Quiet(u) /\ u \notin tainted => stores[u].current = Used(u)

\* Likewise every folder's size is the size of the files anywhere below it.
FolderExact ==
  \A g \in Folders :
    folders[g] # None /\ Quiet(folders[g].owner) /\ folders[g].owner \notin tainted
      => folders[g].size = Below(g)

\* With one request at a time on an account, and clients that name folders of
\* their own only, the folders stay a forest, also when a client asks to move a
\* folder below itself.
HierarchyAcyclic == Acyclic(folders)

\* u's folders are shared with no other account.
Unshared(u) == linked[u] = {u}

\* Failures of uploads, file deletes, folder creations and volume changes, at
\* any statement and on whatever folders, leave a user's store charged for too
\* much but never for too little, and likewise the folders of a user whom no
\* upload into another account's folder links to that account: on a shared
\* chain two accounts' requests overwrite each other's sizes.
OverchargeOnly ==
  /\ \A u \in Users : Quiet(u) => stores[u].current >= Used(u)
  /\ \A g \in Folders :
       folders[g] # None /\ Quiet(folders[g].owner) /\ Unshared(folders[g].owner)
       => folders[g].size >= Below(g)

\* Whatever ids clients name, a request on one account never changes another's
\* store, and changes another's folder only once an upload or a folder move
\* has linked the two accounts, itself or through further accounts.  (File
\* rows are left out: the save of a file that was deleted meanwhile may take
\* over a row with the same md5, and a deleted folder takes with it what
\* others put there.)
AccountsIsolated ==
  [][\A r \in Reqs : \A u, v \in Users :
       req'[r] # req[r] /\ u \in {req[r].user, req'[r].user} \ {v} =>
         /\ stores'[v] = stores[v]
         /\ v \in linked'[u] \/ \A g \in Folders :
              folders[g] # None /\ folders[g].owner = v => folders'[g] = folders[g]]_vars

\* With one request at a time on an account, and clients that name folders of
\* their own only, a row that was deleted does not come back, whatever the order
\* of deletes and of saves of whole rows.
NoResurrection ==
  [][/\ \A f \in Files : born[f] # None /\ files[f] = None => files'[f] = None
     /\ \A g \in Folders : born[g] # None /\ folders[g] = None => folders'[g] = None]_vars

\* The tables seen as a ledger: a file delete counts as done once the file row
\* is gone, the refund that is still to be saved included.
Refund(u) ==
  LET owing == {r \in Reqs : At(r, "deletefile", "refund") /\ req[r].user = u}
  IN  SumFunctionOnSet([r \in Reqs |-> Length(req[r].c)], owing)

Accounts ==
  INSTANCE Ledger WITH
    holds  <- [u \in Users |-> {files[f].md5 : f \in OwnedBy(u)}],
    charge <- [u \in Users |-> stores[u].current - Refund(u)],
    limit  <- [u \in Users |-> stores[u].max],
    Lossy  <- Failures

\* With one request at a time on an account and requests on different accounts
\* interleaved, every step of every request is a step of the ledger or changes
\* nothing in it: each upload, delete and grant takes effect once, as a whole,
\* against the limit it was checked with; a failure costs a refund at most.
ImplementsLedger == Accounts!LSpec

-----------------------------------------------------------------------------
(* A claim the repository makes that the code does not keep. *)

\* "The transaction keeps the user's space safe" (file_upload_service.go:29):
\* what a user's files take up stays within the largest volume ever granted.
WithinQuota == \A u \in Users : Used(u) <= granted[u]
=============================================================================
