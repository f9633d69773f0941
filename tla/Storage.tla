------------------------------- MODULE Storage -------------------------------
(***************************************************************************)
(* The storage accounting of the cloud disk: files, folders and store      *)
(* quotas, and every request that changes them.                            *)
(*                                                                         *)
(* Requests run concurrently, one goroutine each.  A request is a sequence *)
(* of steps, one per statement group another request can come between:     *)
(* every autocommit read or write is a step; a transaction is the step(s)  *)
(* that take its first row locks and its snapshot, and the step that       *)
(* commits.  Under REPEATABLE READ a transaction reads one snapshot and    *)
(* its own writes, so what it will write is known once the snapshot is     *)
(* taken; it saves whole rows, so a row another request changed meanwhile  *)
(* is overwritten.                                                         *)
(***************************************************************************)
EXTENDS FolderTree

CONSTANTS Files,        \* the ids a file row can have
          Contents,     \* file contents, identified by their md5
          Blank,        \* the md5 "" of a file row that was not found
          SizeOf,       \* the size of every content
          RootOf,       \* the base folder of every user
          Volumes,      \* the volumes an administrator grants
          InitialVolume,\* the MaxSize of a new store
          Reqs,         \* request slots: how many requests are in flight
          Ops,          \* the operations a run serves
          PerUser,      \* how many requests on one account run at a time
          MaxRequests,  \* bound: requests served in a behaviour
          Foreign,      \* whether clients name folders of other accounts
          Failures      \* whether statements fail and processes die

OpNames == {"upload", "deletefile", "movefile", "createfolder", "movefolder",
            "deletefolder", "sharesave", "setvolume", "admindelete"}

ASSUME StorageAssumption ==
  /\ IsFiniteSet(Files) /\ IsFiniteSet(Reqs)
  /\ Files \cap Folders = {}
  /\ None \notin Files /\ None \notin Contents /\ None \notin Users
  /\ Blank \notin Contents /\ Blank # None
  /\ None \notin [current : Nat, max : Nat]
  /\ None \notin [owner : Users \cup {None}, md5 : Contents \cup {Blank}, folder : Folders]
  /\ SizeOf \in [Contents -> Nat \ {0}]
  /\ RootOf \in [Users -> Folders]
  /\ \A u, v \in Users : RootOf[u] = RootOf[v] => u = v
  /\ Volumes \subseteq Nat
  /\ InitialVolume \in Nat
  /\ Ops \subseteq OpNames
  /\ PerUser \in Nat /\ MaxRequests \in Nat
  /\ Foreign \in BOOLEAN /\ Failures \in BOOLEAN

VARIABLES files,    \* table files
          folders,  \* table file_folders
          stores,   \* table file_stores
          req,      \* the requests in flight
          born,     \* history: whose request first inserted an id
          granted,  \* history: the largest volume a user was ever granted
          tainted,  \* history: users who moved something up (see Raises)
          linked,   \* history: the accounts that share folders with each
          served    \* how many requests were accepted

tables  == <<files, folders, stores>>
history == <<born, granted, tainted, linked>>
vars    == <<files, folders, stores, req, born, granted, tainted, linked, served>>

FileRow  == [owner : Users \cup {None}, md5 : Contents \cup {Blank},
             folder : Folders]
StoreRow == [current : Nat, max : Nat]

Length(c) == IF c \in Contents THEN SizeOf[c] ELSE 0

\* The writes a transaction will commit.  insert is a new file row, moved the
\* new row of the request's file; folders dropped; purge the dropped folders
\* whose files go; folders and store the saved rows; spin says a chain walk
\* never ended.
Outcome ==
  [insert : FileRow \cup {None}, moved : FileRow \cup {None},
   drop : SUBSET Folders, purge : SUBSET Folders, folders : View,
   store : StoreRow \cup {None}, spin : BOOLEAN]

RowAt(v, g) == IF g \in Folders THEN v[g] ELSE None

Nothing == [insert |-> None, moved |-> None, drop |-> {}, purge |-> {},
            folders |-> NoWrites, store |-> None, spin |-> FALSE]

\* Where a handler is between two steps.
Pcs == {"idle", "read2", "read3", "tx", "chain", "delete", "refund", "create",
        "commit", "spin"}

\* What row locks are taken on: rows by id, a store by its user, and the
\* entries of the unique index on md5.
Lockable == Files \cup Folders \cup Users \cup Contents \cup {Blank}

\* A handler's local variables: its arguments, the rows it has read, the rows
\* its transaction has locked, and the transaction's writes.
Request ==
  [op : OpNames \cup {"none"}, user : Users \cup {None}, pc : Pcs,
   f : Files \cup {None}, g : Folders \cup {None}, to : Folders \cup {Top, None},
   from : Folders \cup {Top, None}, c : Contents \cup {Blank, None}, vol : Nat,
   file : FileRow \cup {None}, dir : FolderRow \cup {None},
   src : FolderRow \cup {None}, dst : FolderRow \cup {None},
   store : StoreRow \cup {None}, whole : BOOLEAN,
   held : SUBSET Lockable,
   out : Outcome]

Idle ==
  [op |-> "none", user |-> None, pc |-> "idle", f |-> None, g |-> None,
   to |-> None, from |-> None, c |-> None, vol |-> 0, file |-> None,
   dir |-> None, src |-> None, dst |-> None, store |-> None, whole |-> TRUE,
   held |-> {}, out |-> Nothing]

\* Every user is registered: a base folder and an empty store each.
Init ==
  /\ files = [f \in Files |-> None]
  /\ folders = [g \in Folders |->
       IF \E u \in Users : RootOf[u] = g
       THEN [parent |-> Top, owner |-> CHOOSE u \in Users : RootOf[u] = g,
             size |-> 0]
       ELSE None]
  /\ stores = [u \in Users |-> [current |-> 0, max |-> InitialVolume]]
  /\ req = [r \in Reqs |-> Idle]
  /\ born = [x \in Files \cup Folders |->
       IF \E u \in Users : RootOf[u] = x
       THEN CHOOSE u \in Users : RootOf[u] = x ELSE None]
  /\ granted = [u \in Users |-> InitialVolume]
  /\ tainted = {}
  /\ linked = [u \in Users |-> {u}]
  /\ served = 0

TypeOK ==
  /\ files \in [Files -> FileRow \cup {None}]
  /\ folders \in View
  /\ stores \in [Users -> StoreRow]
  /\ req \in [Reqs -> Request]
  /\ born \in [Files \cup Folders -> Users \cup {None}]
  /\ granted \in [Users -> Nat]
  /\ tainted \in SUBSET Users
  /\ linked \in [Users -> SUBSET Users]
  /\ served \in Nat

-----------------------------------------------------------------------------
(* Requests and locks *)

Busy(u) == {r \in Reqs : req[r].user = u}

\* A free slot takes a request on u's account.
Accept(r, u, op) ==
  /\ op \in Ops
  /\ req[r].pc = "idle"
  /\ Cardinality(Busy(u)) < PerUser
  /\ served < MaxRequests
  /\ served' = served + 1

At(r, op, pc) == req[r].op = op /\ req[r].pc = pc

Done(r) == req' = [req EXCEPT ![r] = Idle]

\* Where the code does not ask whose folder it is given, a client of u names
\* any folder, possibly one deleted since it was listed, which stands for an
\* id that never was one too; with Foreign = FALSE, one of u's.
Named(u) ==
  {g \in Folders : IF Foreign THEN born[g] # None ELSE born[g] = u}

\* From its first request that names a folder of another account, an account
\* and those linked to it share the folders of both.
Link(u, g) ==
  LET all == IF g \in Folders THEN linked[u] \cup linked[born[g]] ELSE linked[u]
  IN  linked' = [v \in Users |-> IF v \in all THEN all ELSE linked[v]]

\* Bound: an insert is accepted only while there are ids left for it.
IdsLeft(S, ops) ==
  Cardinality({r \in Reqs : req[r].op \in ops}) < Cardinality({x \in S : born[x] = None})

NewId(S) == CHOOSE x \in S : born[x] = None

\* md5 is a unique column of table files.
Taken(c) == \E f \in Files : files[f] # None /\ files[f].md5 = c

\* Save of a file row: an update; no such row, an insert that on a duplicate
\* md5 updates the row that has it.
SaveTarget(f, row) ==
  IF files[f] = None /\ Taken(row.md5)
  THEN CHOOSE x \in Files : files[x] # None /\ files[x].md5 = row.md5
  ELSE f

\* The rows the writes o of a request on u's account lock.  DELETE FROM files
\* WHERE parent_folder_id IN (...) has no index to use and locks every row.
Rows(o, u) ==
  {g \in Folders : o.folders[g] # None} \cup o.drop
  \cup (IF o.store # None THEN {u} ELSE {})
  \cup (IF o.purge # {} THEN Files \cup Contents \cup {Blank} ELSE {})

\* A move changes sizes when the rows it read for source and target differ.
Moving(q) == IF q.src = None THEN q.dst # None
                             ELSE q.dst = None \/ q.from # q.to

Sources(q) == IF Moving(q) /\ q.src # None THEN {q.from} ELSE {}

\* The rows the next step of a request locks or changes.
Wants(q) ==
  CASE q.pc = "tx" /\ q.op = "upload"      -> {q.user, q.c}
    [] q.pc = "tx" /\ q.op = "movefile"    ->
         {SaveTarget(q.f, q.file), q.file.md5} \cup Sources(q)
    [] q.pc = "tx" /\ q.op = "movefolder"  -> (IF q.dir = None THEN {} ELSE {q.g}) \cup Sources(q)
    [] q.pc = "tx" /\ q.op = "sharesave"   ->
         IF q.dst = None THEN {} ELSE {q.user, q.to}
    [] q.pc = "tx" /\ q.op = "setvolume"   -> {q.user}
    [] q.pc = "tx" /\ q.op = "admindelete" -> {q.f, q.c}
    [] q.pc \in {"chain", "commit"}         -> Rows(q.out, q.user)
    [] q.pc = "delete"                     -> {q.f, q.c}
    [] q.pc = "refund"                     -> {q.user}
    [] q.pc = "create"                     -> {q.c}
    [] OTHER                               -> {}

Unblocked(r) == \A x \in Reqs \ {r} : req[x].held \cap Wants(req[r]) = {}

\* A request about to commit a move whose target is above its source, or the
\* move of a folder into itself: the target's row was read before the walk
\* along the old chain changed it.
Raises(r) ==
  LET q == req[r]
  IN  /\ q.op \in {"movefile", "movefolder"} /\ Moving(q) /\ q.dst # None
      /\ q.g = q.to \/ (q.src # None /\ Inside(folders, q.from, q.to))

\* Where a failing statement can cut a walk whose handler then commits, a walk
\* that would come round again included (what it adds in a second round is
\* left out).
Cuts == IF Failures THEN 0..Depth ELSE {Depth}

\* The transaction has its first locks and its snapshot: it will write o.
Prepare(r, held, o, whole, next) ==
  req' = [req EXCEPT ![r].held = held, ![r].out = o, ![r].whole = whole,
                     ![r].pc = IF o.spin /\ next = "commit" THEN "spin" ELSE next]

-----------------------------------------------------------------------------
(* File upload: FileUploadService.UploadFile *)

AddCurrentSize(st, s) ==
  IF st.current + s > st.max THEN st ELSE [st EXCEPT !.current = @ + s]

\* Deviation: the subtraction is not stored (a value receiver).
SubCurrentSizeOfCopy(st, s) == st

\* Deviation: no lower bound.
SubCurrentSizeUnbounded(st, s) == [st EXCEPT !.current = @ - s]

SubCurrentSize(st, s) ==
  [st EXCEPT !.current = IF @ >= s THEN @ - s ELSE 0]

\* Deviation: no check before the upload.
UploadUnchecked(r, u, g, c) ==
  /\ Accept(r, u, "upload")
  /\ IdsLeft(Files, {"upload", "sharesave"})
  /\ g \in Named(u)
  /\ req' = [req EXCEPT ![r] = [Idle EXCEPT !.op = "upload", !.user = u,
               !.pc = "tx", !.g = g, !.c = c, !.store = stores[u]]]
  /\ Link(u, g)
  /\ UNCHANGED <<tables, born, granted, tainted>>

\* The quota is checked on a store read outside the transaction.  A refused
\* upload changes nothing.
UploadCheck(r, u, g, c) ==
  /\ Accept(r, u, "upload")
  /\ IdsLeft(Files, {"upload", "sharesave"})
  /\ g \in Named(u)
  /\ stores[u].current + Length(c) <= stores[u].max
  /\ req' = [req EXCEPT ![r] = [Idle EXCEPT !.op = "upload", !.user = u,
               !.pc = "tx", !.g = g, !.c = c, !.store = stores[u]]]
  /\ Link(u, g)
  /\ UNCHANGED <<tables, born, granted, tainted>>

\* The transaction inserts the file, saves store, and takes the snapshot for
\* the walk from folder row.  A duplicate md5 rolls back.
UploadSaves(r, store, row) ==
  LET q == req[r]
      s == Length(q.c)
  IN  /\ At(r, "upload", "tx") /\ Unblocked(r)
      /\ IF Taken(q.c) THEN Done(r)
         ELSE Prepare(r, {q.user, q.c},
                [Nothing EXCEPT
                   !.insert = [owner |-> q.user, md5 |-> q.c, folder |-> q.g],
                   !.store = store,
                   !.folders = AddFileFolderSize(folders, q.g, row, s, Depth),
                   !.spin = WalkSpins(folders, q.g, row, Depth)],
                TRUE, "commit")
      /\ UNCHANGED <<tables, history, served>>

\* Deviation: the size is added to the store's row of now, unchecked.
UploadAddsInPlace(r) ==
  UploadSaves(r, [stores[req[r].user] EXCEPT !.current = @ + Length(req[r].c)],
              RowAt(folders, req[r].g))

\* Deviation: a missing folder is created under its id (FirstOrCreate).
UploadCreatesFolder(r) ==
  LET q == req[r]
      row == RowAt(folders, q.g)
  IN  UploadSaves(r, AddCurrentSize(q.store, Length(q.c)),
                  IF row = None THEN [parent |-> Top, owner |-> q.user, size |-> 0] ELSE row)

\* Deviation: the file is inserted outside the transaction.
UploadInsertsOutside(r) ==
  LET q == req[r]
      x == NewId(Files)
  IN  /\ At(r, "upload", "tx") /\ ~Taken(q.c)
      /\ files' = [files EXCEPT ![x] = [owner |-> q.user, md5 |-> q.c, folder |-> q.g]]
      /\ born' = [born EXCEPT ![x] = q.user]
      /\ Prepare(r, {q.user, q.c},
           [Nothing EXCEPT
              !.store = AddCurrentSize(q.store, Length(q.c)),
              !.folders = AddFileFolderSize(folders, q.g, RowAt(folders, q.g), Length(q.c), Depth)],
           TRUE, "commit")
      /\ UNCHANGED <<folders, stores, granted, tainted, linked, served>>

\* The store is saved as the check read it, plus the size.
UploadTx(r) ==
  UploadSaves(r, AddCurrentSize(req[r].store, Length(req[r].c)),
              RowAt(folders, req[r].g))

-----------------------------------------------------------------------------
(* File delete: FileDeleteService.FileDelete *)

\* All reads are of one snapshot; a file that is not u's is refused.
DeleteRead(r, u, f) ==
  LET row == files[f]
      dir == folders[row.folder]
  IN  /\ Accept(r, u, "deletefile")
      /\ row # None /\ row.owner = u
      /\ req' = [req EXCEPT ![r] = [Idle EXCEPT !.op = "deletefile", !.user = u,
                   !.pc = "chain", !.f = f, !.c = row.md5, !.file = row,
                   !.store = stores[u],
                   !.out = [Nothing EXCEPT
                     !.folders = SubFileFolderSize(folders, row.folder, dir,
                                                   Length(row.md5), Depth),
                     !.spin = WalkSpins(folders, row.folder, dir, Depth)]]]
      /\ UNCHANGED <<tables, history>>

\* The transaction locks the rows of the chain it has walked.
LockChain(r) ==
  LET q == req[r]
  IN  /\ q.pc = "chain" /\ Unblocked(r)
      /\ req' = [req EXCEPT ![r].held = @ \cup Rows(q.out, q.user),
                            ![r].pc = IF q.out.spin THEN "spin"
                                      ELSE IF q.op = "deletefile" THEN "delete"
                                      ELSE "create"]
      /\ UNCHANGED <<tables, history, served>>

\* The file row and then the store are written outside the transaction.
DeleteRow(r) ==
  /\ At(r, "deletefile", "delete") /\ Unblocked(r)
  /\ files' = [files EXCEPT ![req[r].f] = None]
  /\ req' = [req EXCEPT ![r].pc = "refund"]
  /\ UNCHANGED <<folders, stores, history, served>>

DeleteRefund(r) ==
  LET q == req[r]
  IN  /\ At(r, "deletefile", "refund") /\ Unblocked(r)
      /\ stores' = [stores EXCEPT ![q.user] = SubCurrentSize(q.store, Length(q.c))]
      /\ req' = [req EXCEPT ![r].pc = "commit"]
      /\ UNCHANGED <<files, folders, history, served>>

-----------------------------------------------------------------------------
(* File update: FileUpdateService.UpdateFileInfo *)

MoveFileRead(r, u, f, to) ==
  /\ Accept(r, u, "movefile")
  /\ files[f] # None /\ files[f].owner = u
  /\ req' = [req EXCEPT ![r] = [Idle EXCEPT !.op = "movefile", !.user = u,
               !.pc = "read2", !.f = f, !.file = files[f],
               !.from = files[f].folder, !.to = to]]
  /\ UNCHANGED <<tables, history>>

MoveFileRead2(r) ==
  /\ At(r, "movefile", "read2")
  /\ req' = [req EXCEPT ![r].src = folders[req[r].from], ![r].pc = "read3"]
  /\ UNCHANGED <<tables, history, served>>

\* The target must be there and be the user's.
MoveFileRead3(r) ==
  LET dst == folders[req[r].to]
  IN  /\ At(r, "movefile", "read3")
      /\ IF dst # None /\ dst.owner = req[r].user
         THEN req' = [req EXCEPT ![r].dst = dst, ![r].pc = "tx"]
         ELSE Done(r)
      /\ UNCHANGED <<tables, history, served>>

\* Saves the file as read, with its new parent; any failure rolls back.
MoveFileTx(r) ==
  LET q == req[r]
      s == Length(q.file.md5)
  IN  /\ At(r, "movefile", "tx") /\ Unblocked(r)
      /\ Prepare(r, Wants(q),
           [Nothing EXCEPT
              !.moved = [q.file EXCEPT !.folder = q.to],
              !.folders = IF Moving(q) THEN Transfer(folders, q.from, q.src, q.to, q.dst, s, Depth)
                          ELSE NoWrites,
              !.spin = Moving(q) /\ TransferSpins(folders, q.from, q.src, q.to, q.dst, s, Depth)],
           TRUE, "commit")
      /\ UNCHANGED <<tables, history, served>>

-----------------------------------------------------------------------------
(* Folder create: FileFolderCreateService.CreateFileFolder *)

CreateFolderCheck(r, u, g) ==
  /\ Accept(r, u, "createfolder")
  /\ IdsLeft(Folders, {"createfolder"})
  /\ folders[g] # None /\ folders[g].owner = u
  /\ req' = [req EXCEPT ![r] = [Idle EXCEPT !.op = "createfolder", !.user = u,
               !.pc = "tx", !.g = g]]
  /\ UNCHANGED <<tables, history>>

CreateFolder(r) ==
  LET q == req[r]
      x == NewId(Folders)
  IN  /\ At(r, "createfolder", "tx")
      /\ folders' = [folders EXCEPT ![x] = [parent |-> q.g, owner |-> q.user, size |-> 0]]
      /\ born' = [born EXCEPT ![x] = q.user]
      /\ Done(r)
      /\ UNCHANGED <<files, stores, granted, tainted, linked, served>>

-----------------------------------------------------------------------------
(* Folder update: FileFolderUpdateService.UpdateFileFolderInfo *)

\* No row is required to be there: a missing one is a zero struct.  The target
\* is looked up among u's folders, but a move below a folder of another
\* account's, below "root" or below an unknown id is not refused.
MoveFolderRead(r, u, g, to) ==
  LET mine(x) == IF folders[x] # None /\ folders[x].owner = u THEN folders[x] ELSE None
  IN  /\ Accept(r, u, "movefolder")
      /\ g \in Named(u) /\ to \in Named(u) \cup {Top}
      /\ req' = [req EXCEPT ![r] = [Idle EXCEPT !.op = "movefolder", !.user = u,
                   !.pc = "read2", !.g = g, !.dir = mine(g), !.to = to,
                   !.from = IF mine(g) = None THEN None ELSE mine(g).parent]]
      /\ Link(u, IF mine(g) = None THEN Top ELSE to)
      /\ UNCHANGED <<tables, born, granted, tainted>>

MoveFolderRead2(r) ==
  LET q == req[r]
      dst == RowAt(folders, q.to)
  IN  /\ At(r, "movefolder", "read2")
      /\ req' = [req EXCEPT ![r].dst = IF dst # None /\ dst.owner = q.user THEN dst ELSE None,
                            ![r].pc = "read3"]
      /\ UNCHANGED <<tables, history, served>>

MoveFolderRead3(r) ==
  LET q == req[r]
  IN  /\ At(r, "movefolder", "read3")
      /\ req' = [req EXCEPT ![r].src = RowAt(folders, q.from),
                            ![r].pc = "tx"]
      /\ UNCHANGED <<tables, history, served>>

\* Saves the folder as read, with its new parent, then moves its size.  The
\* error of the last walk is dropped: a cut there commits what was written.
MoveFolderTx(r) ==
  LET q == req[r]
      size == IF q.dir = None THEN 0 ELSE q.dir.size
      saved == IF q.dir = None THEN NoWrites
               ELSE [NoWrites EXCEPT ![q.g] = [q.dir EXCEPT !.parent = q.to]]
      seen == Overlay(folders, saved)
  IN  /\ At(r, "movefolder", "tx") /\ Unblocked(r)
      /\ \E k \in Cuts :
           Prepare(r, Wants(q),
             [Nothing EXCEPT
                !.folders = IF Moving(q)
                            THEN Overlay(saved, Transfer(seen, q.from, q.src, q.to, q.dst, size, k))
                            ELSE saved,
                !.spin = Moving(q) /\ TransferSpins(seen, q.from, q.src, q.to, q.dst, size, k)],
             k = Depth, "commit")
      /\ UNCHANGED <<tables, history, served>>

-----------------------------------------------------------------------------
(* Folder delete: DeleteFileFolderService.DeleteFileFolder *)

\* Deviation: any account's folder is deleted.
DeleteAnyFolder(r, u, g) ==
  /\ Accept(r, u, "deletefolder")
  /\ folders[g] # None /\ folders[g].parent # Top
  /\ req' = [req EXCEPT ![r] = [Idle EXCEPT !.op = "deletefolder", !.user = u,
               !.pc = "tx", !.g = g, !.dir = folders[g], !.from = folders[g].parent]]
  /\ UNCHANGED <<tables, history>>

\* The folder must be the user's; a base folder is refused.
DeleteFolderCheck(r, u, g) ==
  /\ Accept(r, u, "deletefolder")
  /\ folders[g] # None /\ folders[g].owner = u /\ folders[g].parent # Top
  /\ req' = [req EXCEPT ![r] = [Idle EXCEPT !.op = "deletefolder", !.user = u,
               !.pc = "tx", !.g = g, !.dir = folders[g], !.from = folders[g].parent]]
  /\ UNCHANGED <<tables, history>>

\* Drops the subtree level by level, each level's folders and then its files,
\* subtracts the size read before along the parent's chain, and last saves the
\* store.  Every error but the last one's is shadowed: the handler commits
\* what was written so far.
DeleteFolderTx(r) ==
  LET q == req[r]
      down(n) == Doomed(folders, q.g, n)
      left == [g \in Folders |-> IF g \in down(Depth) THEN None ELSE folders[g]]
      cut(n, m) == [Nothing EXCEPT !.drop = down(n), !.purge = down(m)]
      up(k) == [cut(Depth, Depth) EXCEPT
                  !.folders = SubFileFolderSize(left, q.from, RowAt(left, q.from), q.dir.size, k),
                  !.spin = WalkSpins(left, q.from, RowAt(left, q.from), k)]
      full == [up(Depth) EXCEPT !.store = SubCurrentSize(stores[q.user], q.dir.size)]
  IN  /\ At(r, "deletefolder", "tx")
      /\ \/ Prepare(r, {}, full, TRUE, "commit")
         \/ /\ Failures
            /\ \/ \E n \in 1..Depth, m \in {0, 1} :
                    Prepare(r, {}, cut(n, n - m), FALSE, "commit")
               \/ \E k \in 0..Depth : Prepare(r, {}, up(k), FALSE, "commit")
      /\ UNCHANGED <<tables, history, served>>

-----------------------------------------------------------------------------
(* Save a shared file: ShareSaveFileService.ShareSaveFile *)

\* Any file that was ever shared; a deleted one is a zero struct.
ShareRead(r, u, f, to) ==
  /\ Accept(r, u, "sharesave")
  /\ IdsLeft(Files, {"upload", "sharesave"})
  /\ born[f] # None /\ to \in Named(u)
  /\ req' = [req EXCEPT ![r] = [Idle EXCEPT !.op = "sharesave", !.user = u,
               !.pc = "read2", !.f = f, !.file = files[f], !.to = to,
               !.c = IF files[f] = None THEN Blank ELSE files[f].md5]]
  /\ UNCHANGED <<tables, history>>

ShareRead2(r) ==
  LET q == req[r]
      dst == folders[q.to]
  IN  /\ At(r, "sharesave", "read2")
      /\ req' = [req EXCEPT ![r].dst = IF dst # None /\ dst.owner = q.user THEN dst ELSE None,
                            ![r].pc = "read3"]
      /\ UNCHANGED <<tables, history, served>>

\* The store is the target folder's; without a folder it is a zero struct,
\* which has room for nothing but an empty file.
ShareRead3(r) ==
  LET q == req[r]
      fits == IF q.dst = None THEN Length(q.c) = 0
              ELSE stores[q.user].current + Length(q.c) <= stores[q.user].max
  IN  /\ At(r, "sharesave", "read3")
      /\ IF fits
         THEN req' = [req EXCEPT ![r].pc = "tx",
                        ![r].store = IF q.dst = None THEN None ELSE stores[q.user]]
         ELSE Done(r)
      /\ UNCHANGED <<tables, history, served>>

\* Saves the store and the target folder, then walks.  Errors of the walk are
\* shadowed: a cut commits the charge.
ShareTx(r) ==
  LET q == req[r]
      s == Length(q.c)
  IN  /\ At(r, "sharesave", "tx") /\ Unblocked(r)
      /\ \E k \in Cuts :
           Prepare(r, Wants(q),
             [Nothing EXCEPT
                !.store = IF q.store = None THEN None ELSE AddCurrentSize(q.store, s),
                !.folders = AddFileFolderSize(folders, q.to, q.dst, s, k),
                !.spin = WalkSpins(folders, q.to, q.dst, k)],
             k = Depth, IF k = Depth THEN "chain" ELSE "commit")
      /\ UNCHANGED <<tables, history, served>>

\* The file row is created outside the transaction, with the md5 of the file
\* it copies; that this fails is shadowed too.
ShareCreate(r) ==
  LET q == req[r]
      x == NewId(Files)
  IN  /\ At(r, "sharesave", "create") /\ Unblocked(r)
      /\ IF Taken(q.c) THEN UNCHANGED <<files, born>>
         ELSE /\ files' = [files EXCEPT ![x] =
                   [owner |-> IF q.dst = None THEN None ELSE q.user,
                    md5 |-> q.c, folder |-> q.to]]
              /\ born' = [born EXCEPT ![x] = q.user]
      /\ req' = [req EXCEPT ![r].pc = "commit"]
      /\ UNCHANGED <<folders, stores, granted, tainted, linked, served>>

-----------------------------------------------------------------------------
(* Administration: UserFilestoreUpdate and the admin's FileDelete *)

SetVolumeRead(r, u, v) ==
  /\ Accept(r, u, "setvolume")
  /\ req' = [req EXCEPT ![r] = [Idle EXCEPT !.op = "setvolume", !.user = u,
               !.pc = "tx", !.vol = v, !.store = stores[u]]]
  /\ UNCHANGED <<tables, history>>

\* Saves the whole store as it was read.
SetVolume(r) ==
  LET q == req[r]
  IN  /\ At(r, "setvolume", "tx") /\ Unblocked(r)
      /\ stores' = [stores EXCEPT ![q.user] = [q.store EXCEPT !.max = q.vol]]
      /\ granted' = [granted EXCEPT ![q.user] = IF @ < q.vol THEN q.vol ELSE @]
      /\ Done(r)
      /\ UNCHANGED <<files, folders, born, tainted, linked, served>>

AdminDeleteRead(r, f) ==
  /\ born[f] # None
  /\ Accept(r, born[f], "admindelete")
  /\ req' = [req EXCEPT ![r] = [Idle EXCEPT !.op = "admindelete",
               !.user = born[f], !.pc = "read2",
               !.c = IF files[f] = None THEN Blank ELSE files[f].md5]]
  /\ UNCHANGED <<tables, history>>

\* The rows with the same md5: there is one at most.
AdminDeleteFind(r) ==
  LET same == {x \in Files : files[x] # None /\ files[x].md5 = req[r].c}
  IN  /\ At(r, "admindelete", "read2")
      /\ IF same = {} THEN Done(r)
         ELSE req' = [req EXCEPT ![r].f = CHOOSE x \in same : TRUE, ![r].pc = "tx"]
      /\ UNCHANGED <<tables, history, served>>

\* Neither the owner's store nor a folder is adjusted.
AdminDelete(r) ==
  /\ At(r, "admindelete", "tx") /\ Unblocked(r)
  /\ files' = [files EXCEPT ![req[r].f] = None]
  /\ Done(r)
  /\ UNCHANGED <<folders, stores, history, served>>

-----------------------------------------------------------------------------
(* The end of a transaction *)

Commit(r) ==
  LET q == req[r]
      o == q.out
      kept == [f \in Files |->
                 IF files[f] # None /\ files[f].folder \in o.purge THEN None ELSE files[f]]
  IN  /\ q.pc = "commit" /\ Unblocked(r)
      /\ files' = IF o.insert # None THEN [kept EXCEPT ![NewId(Files)] = o.insert]
                  ELSE IF o.moved # None
                       THEN [kept EXCEPT ![SaveTarget(q.f, o.moved)] = o.moved]
                  ELSE kept
      /\ folders' = Overlay([g \in Folders |-> IF g \in o.drop THEN None ELSE folders[g]],
                            o.folders)
      /\ stores' = IF o.store = None THEN stores ELSE [stores EXCEPT ![q.user] = o.store]
      /\ born' = IF o.insert = None THEN born ELSE [born EXCEPT ![NewId(Files)] = q.user]
      /\ tainted' = IF Raises(r) THEN tainted \cup {q.user} ELSE tainted
      /\ Done(r)
      /\ UNCHANGED <<granted, linked, served>>

\* A statement fails in a handler that rolls back, or the process dies and
\* the database drops its transactions.  What was written outside the
\* transaction stays.
Fail(r) ==
  /\ Failures
  /\ req[r].pc # "idle"
  /\ Done(r)
  /\ UNCHANGED <<tables, history, served>>

\* Deviation: a lock wait never times out.
WaitForever(r) == FALSE

\* A lock wait ends with an error after innodb_lock_wait_timeout.
LockTimeout(r) ==
  /\ Failures
  /\ ~Unblocked(r)
  /\ Done(r)
  /\ UNCHANGED <<tables, history, served>>

-----------------------------------------------------------------------------

Arrive(r) ==
  \/ \E u \in Users, g \in Folders, c \in Contents : UploadCheck(r, u, g, c)
  \/ \E u \in Users, f \in Files : DeleteRead(r, u, f)
  \/ \E u \in Users, f \in Files, to \in Folders : MoveFileRead(r, u, f, to)
  \/ \E u \in Users, g \in Folders : CreateFolderCheck(r, u, g)
  \/ \E u \in Users, g \in Folders, to \in Folders \cup {Top} : MoveFolderRead(r, u, g, to)
  \/ \E u \in Users, g \in Folders : DeleteFolderCheck(r, u, g)
  \/ \E u \in Users, f \in Files, to \in Folders : ShareRead(r, u, f, to)
  \/ \E u \in Users, v \in Volumes : SetVolumeRead(r, u, v)
  \/ \E f \in Files : AdminDeleteRead(r, f)

Continue(r) ==
  \/ UploadTx(r)
  \/ LockChain(r) \/ DeleteRow(r) \/ DeleteRefund(r)
  \/ MoveFileRead2(r) \/ MoveFileRead3(r) \/ MoveFileTx(r)
  \/ CreateFolder(r)
  \/ MoveFolderRead2(r) \/ MoveFolderRead3(r) \/ MoveFolderTx(r)
  \/ DeleteFolderTx(r)
  \/ ShareRead2(r) \/ ShareRead3(r) \/ ShareTx(r) \/ ShareCreate(r)
  \/ SetVolume(r)
  \/ AdminDeleteFind(r) \/ AdminDelete(r)
  \/ Commit(r)

Next == \E r \in Reqs : Arrive(r) \/ Continue(r) \/ Fail(r) \/ LockTimeout(r)

Spec == Init /\ [][Next]_vars

\* The scheduler runs every goroutine, the database answers every statement,
\* and a lock wait times out.
FairSpec == Spec /\ \A r \in Reqs : WF_vars(Continue(r)) /\ WF_vars(LockTimeout(r))
=============================================================================
