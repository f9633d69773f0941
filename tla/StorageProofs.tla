---------------------------- MODULE StorageProofs ----------------------------
(***************************************************************************)
(* What holds of the storage accounting for every set of users, folders,   *)
(* files and contents, every number of concurrent requests, and with every *)
(* statement failing or not: the tables and the requests' local variables  *)
(* stay well typed, no store is charged beyond the largest volume its user *)
(* was ever granted, and no request writes to another user's store, nor to *)
(* the folders of an account its own is not linked to; and                 *)
(* a pool of connections of any size only delays the requests, is used as  *)
(* specified and is drained by nested statements alone.                    *)
(***************************************************************************)
EXTENDS StoragePool, FiniteSetTheorems, WellFoundedInduction, TLAPS

\* What the local variables of a request hold at every step of its handler.
ReqOK(q) ==
  /\ q.pc # "idle" => q.user \in Users
  /\ q.src # None => q.from \in Folders
  /\ q.op = "upload" => q.g \in Folders /\ q.c \in Contents /\ q.store \in StoreRow
  /\ q.op = "deletefile" => q.f \in Files /\ q.store \in StoreRow
  /\ q.op = "movefile" => q.f \in Files /\ q.file \in FileRow
                          /\ q.to \in Folders /\ q.from \in Folders
  /\ q.op = "createfolder" => q.g \in Folders
  /\ q.op = "movefolder" => q.g \in Folders /\ q.to \in Folders \cup {Top}
  /\ q.op = "deletefolder" => q.g \in Folders /\ q.dir \in FolderRow
  /\ q.op = "sharesave" => q.to \in Folders /\ q.c \in Contents \cup {Blank}
  /\ q.op = "setvolume" => q.store \in StoreRow

TypeInv == TypeOK /\ \A r \in Reqs : ReqOK(req[r])

-----------------------------------------------------------------------------
(* The operators on folder tables *)

\* A missing row is no row.
LEMMA NoneIsNoRow == None \notin FolderRow
BY FoldersAssumption DEF FolderRow

\* Writes over a table are a table again.
LEMMA OverlayType ==
  ASSUME NEW v \in View, NEW w \in View
  PROVE  Overlay(v, w) \in View
BY DEF Overlay, View

\* The walk that adds a size writes folder rows only.
LEMMA AddType ==
  ASSUME NEW v \in View, NEW f, NEW row \in FolderRow \cup {None},
         NEW s \in Nat, NEW k
  PROVE  AddFileFolderSize(v, f, row, s, k) \in View
<1>1. CASE row = None
  BY <1>1 DEF AddFileFolderSize, NoWrites, View
<1>2. CASE row # None
  <2> DEFINE seen == [v EXCEPT ![f] = row]
  <2>1. seen \in View
    BY <1>2 DEF View
  <2>2. ASSUME NEW g \in Folders, g \in Chain(seen, f, k)
        PROVE  [seen[g] EXCEPT !.size = @ + s] \in FolderRow
    <3>1. seen[g] \in FolderRow
      BY <2>1, <2>2 DEF Chain, View
    <3> QED BY <3>1 DEF FolderRow
  <2> HIDE DEF seen
  <2>3. [g \in Folders |-> IF g \in Chain(seen, f, k)
                           THEN [seen[g] EXCEPT !.size = @ + s] ELSE None] \in View
    BY <2>2 DEF View
  <2> QED BY <1>2, <2>3 DEF AddFileFolderSize, seen
<1> QED BY <1>1, <1>2

\* So does the walk that subtracts one; sizes stay natural numbers.
LEMMA SubType ==
  ASSUME NEW v \in View, NEW f, NEW row \in FolderRow \cup {None},
         NEW s \in Nat, NEW k
  PROVE  SubFileFolderSize(v, f, row, s, k) \in View
<1>1. CASE row = None
  BY <1>1 DEF SubFileFolderSize, NoWrites, View
<1>2. CASE row # None
  <2> DEFINE seen == [v EXCEPT ![f] = row]
  <2>1. seen \in View
    BY <1>2 DEF View
  <2>2. ASSUME NEW g \in Folders, g \in Chain(seen, f, k)
        PROVE  SubSize(seen[g], s) \in FolderRow
    <3>1. seen[g] \in FolderRow
      BY <2>1, <2>2 DEF Chain, View
    <3> QED BY <3>1 DEF FolderRow, SubSize
  <2> HIDE DEF seen
  <2>3. [g \in Folders |-> IF g \in Chain(seen, f, k)
                           THEN SubSize(seen[g], s) ELSE None] \in View
    BY <2>2 DEF View
  <2> QED BY <1>2, <2>3 DEF SubFileFolderSize, seen
<1> QED BY <1>1, <1>2

\* And so does a move.
LEMMA TransferType ==
  ASSUME NEW v \in View, NEW from, NEW src \in FolderRow \cup {None},
         NEW to, NEW dst \in FolderRow \cup {None}, NEW s \in Nat, NEW k
  PROVE  Transfer(v, from, src, to, dst, s, k) \in View
BY AddType, SubType, OverlayType DEF Transfer

-----------------------------------------------------------------------------
(* The pieces of a request *)

\* Sizes of contents are natural numbers, that of a missing file too.
LEMMA LengthType == \A c : Length(c) \in Nat
BY StorageAssumption DEF Length

\* Charging a store keeps it a store, within the limit it was checked with.
LEMMA ChargeType ==
  ASSUME NEW st \in StoreRow, NEW s \in Nat
  PROVE  /\ AddCurrentSize(st, s) \in StoreRow
         /\ SubCurrentSize(st, s) \in StoreRow
BY DEF AddCurrentSize, SubCurrentSize, StoreRow

\* A request that has written nothing yet.
LEMMA IdleType == Idle \in Request /\ ReqOK(Idle) /\ Nothing \in Outcome
BY StorageAssumption DEF Idle, Request, ReqOK, Nothing, Outcome, NoWrites, View, OpNames, Pcs

\* The initial tables are typed and every slot is free.
LEMMA InitType == Init => TypeInv
<1> SUFFICES ASSUME Init PROVE TypeInv
  OBVIOUS
<1>1. files \in [Files -> FileRow \cup {None}] /\ served \in Nat /\ tainted \in SUBSET Users
      /\ linked \in [Users -> SUBSET Users]
  BY DEF Init
<1>2. folders \in View
  BY DEF Init, View, FolderRow
<1>3. stores \in [Users -> StoreRow] /\ granted \in [Users -> Nat]
  BY StorageAssumption DEF Init, StoreRow
<1>4. born \in [Files \cup Folders -> Users \cup {None}]
  BY DEF Init
<1>5. req \in [Reqs -> Request] /\ \A r \in Reqs : ReqOK(req[r])
  BY IdleType DEF Init
<1> QED BY <1>1, <1>2, <1>3, <1>4, <1>5 DEF TypeInv, TypeOK

\* A step that gives slot r new local variables and leaves the tables typed.
LEMMA StepType ==
  ASSUME TypeInv, NEW r \in Reqs, NEW q \in Request, ReqOK(q),
         req' = [req EXCEPT ![r] = q]
  PROVE  req' \in [Reqs -> Request] /\ \A x \in Reqs : ReqOK(req'[x])
BY DEF TypeInv, TypeOK

\* Ending a request frees its slot.
LEMMA DoneType ==
  ASSUME TypeInv, NEW r \in Reqs, Done(r)
  PROVE  req' \in [Reqs -> Request] /\ \A x \in Reqs : ReqOK(req'[x])
BY IdleType, StepType DEF Done

\* Local variables keep their types one by one.
LEMMA FieldType ==
  \A q \in Request :
    /\ \A x \in OpNames : [q EXCEPT !.op = x] \in Request
    /\ \A x \in Users : [q EXCEPT !.user = x] \in Request
    /\ \A x \in Pcs : [q EXCEPT !.pc = x] \in Request
    /\ \A x \in Files : [q EXCEPT !.f = x] \in Request
    /\ \A x \in Folders : [q EXCEPT !.g = x] \in Request
    /\ \A x \in Folders \cup {Top} : [q EXCEPT !.to = x] \in Request
    /\ \A x \in Folders \cup {Top, None} : [q EXCEPT !.from = x] \in Request
    /\ \A x \in Contents \cup {Blank} : [q EXCEPT !.c = x] \in Request
    /\ \A x \in Nat : [q EXCEPT !.vol = x] \in Request
    /\ \A x \in FileRow \cup {None} : [q EXCEPT !.file = x] \in Request
    /\ \A x \in FolderRow \cup {None} : [q EXCEPT !.dir = x] \in Request
    /\ \A x \in FolderRow \cup {None} : [q EXCEPT !.src = x] \in Request
    /\ \A x \in FolderRow \cup {None} : [q EXCEPT !.dst = x] \in Request
    /\ \A x \in StoreRow \cup {None} : [q EXCEPT !.store = x] \in Request
    /\ \A x \in BOOLEAN : [q EXCEPT !.whole = x] \in Request
    /\ \A x \in SUBSET Lockable : [q EXCEPT !.held = x] \in Request
    /\ \A x \in Outcome : [q EXCEPT !.out = x] \in Request
<1> TAKE q \in Request
<1>1. /\ \A x \in OpNames : [q EXCEPT !.op = x] \in Request
      /\ \A x \in Users : [q EXCEPT !.user = x] \in Request
      /\ \A x \in Pcs : [q EXCEPT !.pc = x] \in Request
      /\ \A x \in Files : [q EXCEPT !.f = x] \in Request
  BY DEF Request
<1>2. /\ \A x \in Folders : [q EXCEPT !.g = x] \in Request
      /\ \A x \in Folders \cup {Top} : [q EXCEPT !.to = x] \in Request
      /\ \A x \in Folders \cup {Top, None} : [q EXCEPT !.from = x] \in Request
      /\ \A x \in Contents \cup {Blank} : [q EXCEPT !.c = x] \in Request
  BY DEF Request
<1>3. /\ \A x \in Nat : [q EXCEPT !.vol = x] \in Request
      /\ \A x \in FileRow \cup {None} : [q EXCEPT !.file = x] \in Request
      /\ \A x \in FolderRow \cup {None} : [q EXCEPT !.dir = x] \in Request
  BY DEF Request
<1>4. /\ \A x \in FolderRow \cup {None} : [q EXCEPT !.src = x] \in Request
      /\ \A x \in FolderRow \cup {None} : [q EXCEPT !.dst = x] \in Request
      /\ \A x \in StoreRow \cup {None} : [q EXCEPT !.store = x] \in Request
  BY DEF Request
<1>5. /\ \A x \in BOOLEAN : [q EXCEPT !.whole = x] \in Request
      /\ \A x \in SUBSET Lockable : [q EXCEPT !.held = x] \in Request
      /\ \A x \in Outcome : [q EXCEPT !.out = x] \in Request
  BY DEF Request
<1> QED BY <1>1, <1>2, <1>3, <1>4, <1>5

\* So do the writes of a transaction.
LEMMA OutcomeType ==
  \A o \in Outcome :
    /\ \A x \in FileRow \cup {None} : [o EXCEPT !.insert = x] \in Outcome
    /\ \A x \in FileRow \cup {None} : [o EXCEPT !.moved = x] \in Outcome
    /\ \A x \in SUBSET Folders : [o EXCEPT !.drop = x] \in Outcome
    /\ \A x \in SUBSET Folders : [o EXCEPT !.purge = x] \in Outcome
    /\ \A x \in View : [o EXCEPT !.folders = x] \in Outcome
    /\ \A x \in StoreRow \cup {None} : [o EXCEPT !.store = x] \in Outcome
    /\ \A x \in BOOLEAN : [o EXCEPT !.spin = x] \in Outcome
BY DEF Outcome

\* Holding locks and having writes to commit changes neither the arguments
\* nor the rows a request has read.
LEMMA PrepareType ==
  ASSUME TypeInv, NEW r \in Reqs, req[r].pc # "idle",
         NEW held \in SUBSET Lockable,
         NEW o \in Outcome, NEW whole \in BOOLEAN, NEW next \in {"commit", "chain"},
         Prepare(r, held, o, whole, next)
  PROVE  req' \in [Reqs -> Request] /\ \A x \in Reqs : ReqOK(req'[x])
<1> DEFINE pc == IF o.spin /\ next = "commit" THEN "spin" ELSE next
           q == [req[r] EXCEPT !.held = held, !.out = o, !.whole = whole, !.pc = pc]
<1>1. req[r] \in Request /\ ReqOK(req[r])
  BY DEF TypeInv, TypeOK
<1>2. pc \in Pcs /\ pc # "idle"
  BY DEF Pcs
<1>3. req' = [req EXCEPT ![r] = q]
  BY DEF Prepare, TypeInv, TypeOK
<1> HIDE DEF pc
<1>4. q \in Request
  BY <1>1, <1>2, FieldType
<1>5. ReqOK(q)
  BY <1>1, <1>2 DEF ReqOK, Request
<1> QED BY <1>3, <1>4, <1>5, StepType

\* A step that leaves the tables alone.
LEMMA KeepTables ==
  ASSUME TypeInv, UNCHANGED <<tables, history>>, served' \in Nat,
         req' \in [Reqs -> Request], \A x \in Reqs : ReqOK(req'[x])
  PROVE  TypeInv'
BY DEF TypeInv, TypeOK, tables, history

\* And when two accounts are linked.
LEMMA LinkTables ==
  ASSUME TypeInv, NEW u, NEW g, Link(u, g), UNCHANGED <<tables, born, granted, tainted>>,
         u \in Users, g \in Folders => born[g] \in Users, served' \in Nat,
         req' \in [Reqs -> Request], \A x \in Reqs : ReqOK(req'[x])
  PROVE  TypeInv'
<1>1. linked' \in [Users -> SUBSET Users]
  BY DEF TypeInv, TypeOK, Link
<1> QED BY <1>1 DEF TypeInv, TypeOK, tables

\* A folder a client may name has been somebody's.
LEMMA NamedBorn ==
  ASSUME TypeInv, NEW u \in Users, NEW g \in Named(u)
  PROVE  g \in Folders /\ born[g] \in Users /\ (~Foreign => born[g] = u)
BY StorageAssumption DEF Named, TypeInv, TypeOK

\* Whether a walk spins is a Boolean.
LEMMA SpinType ==
  /\ \A v, f, row, k : WalkSpins(v, f, row, k) \in BOOLEAN
  /\ \A v, from, src, to, dst, s, k : TransferSpins(v, from, src, to, dst, s, k) \in BOOLEAN
BY DEF WalkSpins, TransferSpins, Spins

\* What the tables hold.
LEMMA TableTypes ==
  ASSUME TypeInv
  PROVE  /\ served \in Nat
         /\ \A f \in Files : files[f] \in FileRow \cup {None}
         /\ \A g \in Folders : folders[g] \in FolderRow \cup {None}
         /\ \A g : RowAt(folders, g) \in FolderRow \cup {None}
         /\ \A u \in Users : stores[u] \in StoreRow
         /\ \A x \in Files \cup Folders : born[x] \in Users \cup {None}
         /\ folders \in View
BY DEF TypeInv, TypeOK, View, RowAt

\* Accepting a request keeps the types.
LEMMA ArriveType == ASSUME TypeInv, NEW r \in Reqs, Arrive(r) PROVE TypeInv'
<1>t. /\ served \in Nat
      /\ \A f \in Files : files[f] \in FileRow \cup {None}
      /\ \A g \in Folders : folders[g] \in FolderRow \cup {None}
      /\ \A g : RowAt(folders, g) \in FolderRow \cup {None}
      /\ \A u \in Users : stores[u] \in StoreRow
      /\ \A x \in Files \cup Folders : born[x] \in Users \cup {None}
      /\ folders \in View
  BY TableTypes
<1>n. /\ Idle \in Request
      /\ {"upload", "deletefile", "movefile", "createfolder", "movefolder",
          "deletefolder", "sharesave", "setvolume", "admindelete"} \subseteq OpNames
      /\ {"read2", "tx", "chain"} \subseteq Pcs
  BY IdleType DEF OpNames, Pcs
<1>1. ASSUME NEW u \in Users, NEW g \in Folders, NEW c \in Contents, UploadCheck(r, u, g, c)
     PROVE  TypeInv'
  <2> DEFINE q == [Idle EXCEPT !.op = "upload", !.user = u, !.pc = "tx",
                              !.g = g, !.c = c, !.store = stores[u]]
  <2>a. q \in Request
    BY <1>1, <1>t, <1>n, FieldType DEF UploadCheck
  <2>b. ReqOK(q)
    BY <1>1, <1>t DEF UploadCheck, ReqOK, Idle
  <2>2. req' = [req EXCEPT ![r] = q]
    BY <1>1 DEF UploadCheck
  <2>3. /\ UNCHANGED <<tables, born, granted, tainted>> /\ served' \in Nat
        /\ Link(u, g) /\ g \in Named(u)
    BY <1>1, <1>t DEF UploadCheck, Accept
  <2> HIDE DEF q
  <2> QED BY <2>a, <2>b, <2>2, <2>3, StepType, LinkTables, NamedBorn
<1>2. ASSUME NEW u \in Users, NEW f \in Files, DeleteRead(r, u, f)
     PROVE  TypeInv'
  <2> DEFINE row == files[f]
             o == [Nothing EXCEPT
                     !.folders = SubFileFolderSize(folders, row.folder, folders[row.folder],
                                                   Length(row.md5), Depth),
                     !.spin = WalkSpins(folders, row.folder, folders[row.folder], Depth)]
             q == [Idle EXCEPT !.op = "deletefile", !.user = u, !.pc = "chain",
                               !.f = f, !.c = row.md5, !.file = row,
                               !.store = stores[u], !.out = o]
  <2>1. row \in FileRow
    BY <1>2, <1>t DEF DeleteRead
  <2>2. SubFileFolderSize(folders, row.folder, folders[row.folder], Length(row.md5), Depth) \in View
    BY <1>t, <2>1, SubType, LengthType DEF FileRow
  <2>3. o \in Outcome
    BY <2>2, SpinType, IdleType, OutcomeType
  <2>4. row.md5 \in Contents \cup {Blank}
    BY <2>1 DEF FileRow
  <2> HIDE DEF o, row
  <2>a. q \in Request
    BY <1>t, <1>n, <2>1, <2>3, <2>4, FieldType
  <2>b. ReqOK(q)
    BY <1>t DEF ReqOK, Idle
  <2>6. req' = [req EXCEPT ![r] = q]
    BY <1>2 DEF DeleteRead, o, row
  <2>7. UNCHANGED <<tables, history>> /\ served' \in Nat
    BY <1>2, <1>t DEF DeleteRead, Accept
  <2> QED BY <2>a, <2>b, <2>6, <2>7, StepType, KeepTables
<1>3. ASSUME NEW u \in Users, NEW f \in Files, NEW to \in Folders, MoveFileRead(r, u, f, to)
     PROVE  TypeInv'
  <2> DEFINE q == [Idle EXCEPT !.op = "movefile", !.user = u, !.pc = "read2",
                              !.f = f, !.file = files[f],
                              !.from = files[f].folder, !.to = to]
  <2>a. q \in Request
    BY <1>3, <1>t, <1>n, FieldType DEF MoveFileRead, FileRow
  <2>b. ReqOK(q)
    BY <1>3, <1>t DEF MoveFileRead, ReqOK, Idle, FileRow
  <2>2. req' = [req EXCEPT ![r] = q]
    BY <1>3 DEF MoveFileRead
  <2>3. UNCHANGED <<tables, history>> /\ served' \in Nat
    BY <1>3, <1>t DEF MoveFileRead, Accept
  <2> QED BY <2>a, <2>b, <2>2, <2>3, StepType, KeepTables
<1>4. ASSUME NEW u \in Users, NEW g \in Folders, CreateFolderCheck(r, u, g)
     PROVE  TypeInv'
  <2> DEFINE q == [Idle EXCEPT !.op = "createfolder", !.user = u,
                              !.pc = "tx", !.g = g]
  <2>a. q \in Request
    BY <1>4, <1>t, <1>n, FieldType DEF CreateFolderCheck
  <2>b. ReqOK(q)
    BY <1>4, <1>t DEF CreateFolderCheck, ReqOK, Idle
  <2>2. req' = [req EXCEPT ![r] = q]
    BY <1>4 DEF CreateFolderCheck
  <2>3. UNCHANGED <<tables, history>> /\ served' \in Nat
    BY <1>4, <1>t DEF CreateFolderCheck, Accept
  <2> QED BY <2>a, <2>b, <2>2, <2>3, StepType, KeepTables
<1>5. ASSUME NEW u \in Users, NEW g \in Folders, NEW to \in Folders \cup {Top},
              MoveFolderRead(r, u, g, to)
     PROVE  TypeInv'
  <2> DEFINE dir == IF folders[g] # None /\ folders[g].owner = u THEN folders[g] ELSE None
             from == IF dir = None THEN None ELSE dir.parent
             q == [Idle EXCEPT !.op = "movefolder", !.user = u, !.pc = "read2",
                               !.g = g, !.dir = dir, !.to = to, !.from = from]
  <2>1. dir \in FolderRow \cup {None}
    BY <1>t
  <2>2. from \in Folders \cup {Top, None}
    BY <2>1 DEF FolderRow
  <2> HIDE DEF dir, from
  <2>a. q \in Request
    BY <2>1, <2>2, <1>n, FieldType
  <2>b. ReqOK(q)
    BY DEF ReqOK, Idle
  <2>4. req' = [req EXCEPT ![r] = q]
    BY <1>5 DEF MoveFolderRead, dir, from
  <2> DEFINE at == IF dir = None THEN Top ELSE to
  <2>5. /\ UNCHANGED <<tables, born, granted, tainted>> /\ served' \in Nat
        /\ Link(u, at) /\ to \in Named(u) \cup {Top}
    BY <1>5, <1>t DEF MoveFolderRead, Accept, dir
  <2>6. at \in Folders => born[at] \in Users
    BY <2>5, NamedBorn, FoldersAssumption
  <2> HIDE DEF q, at
  <2> QED BY <2>a, <2>b, <2>4, <2>5, <2>6, StepType, LinkTables
<1>6. ASSUME NEW u \in Users, NEW g \in Folders, DeleteFolderCheck(r, u, g)
     PROVE  TypeInv'
  <2> DEFINE q == [Idle EXCEPT !.op = "deletefolder", !.user = u, !.pc = "tx",
                              !.g = g, !.dir = folders[g],
                              !.from = folders[g].parent]
  <2>a. q \in Request
    BY <1>6, <1>t, <1>n, FieldType DEF DeleteFolderCheck, FolderRow
  <2>b. ReqOK(q)
    BY <1>6, <1>t DEF DeleteFolderCheck, ReqOK, Idle, FolderRow
  <2>2. req' = [req EXCEPT ![r] = q]
    BY <1>6 DEF DeleteFolderCheck
  <2>3. UNCHANGED <<tables, history>> /\ served' \in Nat
    BY <1>6, <1>t DEF DeleteFolderCheck, Accept
  <2> QED BY <2>a, <2>b, <2>2, <2>3, StepType, KeepTables
<1>7. ASSUME NEW u \in Users, NEW f \in Files, NEW to \in Folders, ShareRead(r, u, f, to)
     PROVE  TypeInv'
  <2> DEFINE q == [Idle EXCEPT !.op = "sharesave", !.user = u, !.pc = "read2",
                              !.f = f, !.file = files[f], !.to = to,
                              !.c = IF files[f] = None THEN Blank ELSE files[f].md5]
  <2>a. q \in Request
    BY <1>7, <1>t, <1>n, FieldType DEF ShareRead, FileRow
  <2>b. ReqOK(q)
    BY <1>7, <1>t DEF ShareRead, ReqOK, Idle, FileRow
  <2>2. req' = [req EXCEPT ![r] = q]
    BY <1>7 DEF ShareRead
  <2>3. UNCHANGED <<tables, history>> /\ served' \in Nat
    BY <1>7, <1>t DEF ShareRead, Accept
  <2> QED BY <2>a, <2>b, <2>2, <2>3, StepType, KeepTables
<1>8. ASSUME NEW u \in Users, NEW v \in Volumes, SetVolumeRead(r, u, v)
     PROVE  TypeInv'
  <2> DEFINE q == [Idle EXCEPT !.op = "setvolume", !.user = u, !.pc = "tx",
                              !.vol = v, !.store = stores[u]]
  <2>a. q \in Request
    BY <1>8, <1>t, <1>n, FieldType, StorageAssumption DEF SetVolumeRead
  <2>b. ReqOK(q)
    BY <1>8, <1>t DEF SetVolumeRead, ReqOK, Idle
  <2>2. req' = [req EXCEPT ![r] = q]
    BY <1>8 DEF SetVolumeRead
  <2>3. UNCHANGED <<tables, history>> /\ served' \in Nat
    BY <1>8, <1>t DEF SetVolumeRead, Accept
  <2> QED BY <2>a, <2>b, <2>2, <2>3, StepType, KeepTables
<1>9. ASSUME NEW f \in Files, AdminDeleteRead(r, f)
     PROVE  TypeInv'
  <2> DEFINE q == [Idle EXCEPT !.op = "admindelete", !.user = born[f],
                              !.pc = "read2",
                              !.c = IF files[f] = None THEN Blank ELSE files[f].md5]
  <2>a. q \in Request
    BY <1>9, <1>t, <1>n, FieldType DEF AdminDeleteRead, FileRow
  <2>b. ReqOK(q)
    BY <1>9, <1>t DEF AdminDeleteRead, ReqOK, Idle, FileRow
  <2>2. req' = [req EXCEPT ![r] = q]
    BY <1>9 DEF AdminDeleteRead
  <2>3. UNCHANGED <<tables, history>> /\ served' \in Nat
    BY <1>9, <1>t DEF AdminDeleteRead, Accept
  <2> QED BY <2>a, <2>b, <2>2, <2>3, StepType, KeepTables
<1> QED BY <1>1, <1>2, <1>3, <1>4, <1>5, <1>6, <1>7, <1>8, <1>9 DEF Arrive

\* Locks are taken on rows, stores and md5s.
LEMMA RowsType ==
  ASSUME NEW o \in Outcome, NEW u \in Users
  PROVE  Rows(o, u) \in SUBSET Lockable
BY DEF Rows, Lockable, Outcome

\* So are the first locks of a transaction.
LEMMA WantsType ==
  ASSUME NEW q \in Request, ReqOK(q), q.pc = "tx",
         q.op \in {"movefile", "movefolder", "sharesave"}
  PROVE  Wants(q) \in SUBSET Lockable
<1>1. q.user \in Users /\ Sources(q) \in SUBSET Folders
  BY DEF ReqOK, Sources
<1>2. CASE q.op = "movefile"
  <2>1. SaveTarget(q.f, q.file) \in Files
    BY <1>2 DEF ReqOK, SaveTarget, Taken
  <2>2. q.file.md5 \in Contents \cup {Blank}
    BY <1>2 DEF ReqOK, FileRow
  <2>3. Wants(q) = {SaveTarget(q.f, q.file), q.file.md5} \cup Sources(q)
    BY <1>2 DEF Wants
  <2> QED BY <1>1, <2>1, <2>2, <2>3 DEF Lockable
<1>3. CASE q.op = "movefolder"
  <2>1. Wants(q) = (IF q.dir = None THEN {} ELSE {q.g}) \cup Sources(q)
    BY <1>3 DEF Wants
  <2> QED BY <1>1, <1>3, <2>1 DEF Lockable, ReqOK
<1>4. CASE q.op = "sharesave"
  <2>1. Wants(q) = IF q.dst = None THEN {} ELSE {q.user, q.to}
    BY <1>4 DEF Wants
  <2> QED BY <1>1, <1>4, <2>1 DEF Lockable, ReqOK
<1> QED BY <1>2, <1>3, <1>4

\* A step that reads a row, or moves on, keeps the types.
LEMMA ReadType == ASSUME TypeInv, NEW r \in Reqs,
                         \/ MoveFileRead2(r) \/ MoveFileRead3(r)
                         \/ MoveFolderRead2(r) \/ MoveFolderRead3(r)
                         \/ ShareRead2(r) \/ ShareRead3(r)
                         \/ AdminDeleteFind(r) \/ LockChain(r)
                  PROVE  TypeInv'
<1> DEFINE q == req[r]
<1>q. q \in Request /\ ReqOK(q) /\ req \in [Reqs -> Request]
  BY DEF TypeInv, TypeOK
<1>t. /\ served \in Nat
      /\ \A g \in Folders : folders[g] \in FolderRow \cup {None}
      /\ \A g : RowAt(folders, g) \in FolderRow \cup {None}
      /\ \A u \in Users : stores[u] \in StoreRow
  BY TableTypes
<1>p. {"read2", "read3", "tx", "commit", "spin", "delete", "create"} \subseteq Pcs
  BY DEF Pcs
<1>1. CASE MoveFileRead2(r)
  <2> DEFINE w == [q EXCEPT !.src = folders[q.from], !.pc = "read3"]
  <2>1. q.from \in Folders
    BY <1>1, <1>q DEF MoveFileRead2, At, ReqOK
  <2>2. w \in Request
    BY <1>q, <1>t, <1>p, <2>1, FieldType
  <2>3. ReqOK(w)
    BY <1>1, <1>q, <2>1 DEF MoveFileRead2, At, ReqOK, Request
  <2>4. req' = [req EXCEPT ![r] = w]
    BY <1>1, <1>q DEF MoveFileRead2
  <2> QED BY <1>1, <1>t, <2>2, <2>3, <2>4, StepType, KeepTables DEF MoveFileRead2
<1>2. CASE MoveFileRead3(r)
  <2> DEFINE w == [q EXCEPT !.dst = folders[q.to], !.pc = "tx"]
  <2>1. q.to \in Folders
    BY <1>2, <1>q DEF MoveFileRead3, At, ReqOK
  <2>2. w \in Request
    BY <1>q, <1>t, <1>p, <2>1, FieldType
  <2>3. ReqOK(w)
    BY <1>2, <1>q DEF MoveFileRead3, At, ReqOK, Request
  <2>4. req' = [req EXCEPT ![r] = w] \/ Done(r)
    BY <1>2, <1>q DEF MoveFileRead3
  <2> QED BY <1>2, <1>t, <2>2, <2>3, <2>4, StepType, DoneType, KeepTables DEF MoveFileRead3
<1>3. CASE MoveFolderRead2(r)
  <2> DEFINE row == RowAt(folders, q.to)
             dst == IF row # None /\ row.owner = q.user THEN row ELSE None
             w == [q EXCEPT !.dst = dst, !.pc = "read3"]
  <2>1. dst \in FolderRow \cup {None}
    BY <1>3, <1>q, <1>t DEF MoveFolderRead2, At, ReqOK
  <2>4. req' = [req EXCEPT ![r] = w]
    BY <1>3, <1>q DEF MoveFolderRead2
  <2> HIDE DEF dst
  <2>2. w \in Request
    BY <1>q, <1>p, <2>1, FieldType
  <2>3. ReqOK(w)
    BY <1>3, <1>q DEF MoveFolderRead2, At, ReqOK, Request
  <2> QED BY <1>3, <1>t, <2>2, <2>3, <2>4, StepType, KeepTables DEF MoveFolderRead2
<1>4. CASE MoveFolderRead3(r)
  <2> DEFINE w == [q EXCEPT !.src = RowAt(folders, q.from), !.pc = "tx"]
  <2>2. w \in Request
    BY <1>q, <1>t, <1>p, FieldType
  <2>3. ReqOK(w)
    BY <1>4, <1>q DEF MoveFolderRead3, At, ReqOK, Request, RowAt
  <2>4. req' = [req EXCEPT ![r] = w]
    BY <1>4, <1>q DEF MoveFolderRead3
  <2> QED BY <1>4, <1>t, <2>2, <2>3, <2>4, StepType, KeepTables DEF MoveFolderRead3
<1>5. CASE ShareRead2(r)
  <2> DEFINE dst == IF folders[q.to] # None /\ folders[q.to].owner = q.user
                    THEN folders[q.to] ELSE None
             w == [q EXCEPT !.dst = dst, !.pc = "read3"]
  <2>1. dst \in FolderRow \cup {None}
    BY <1>5, <1>q, <1>t DEF ShareRead2, At, ReqOK
  <2>4. req' = [req EXCEPT ![r] = w]
    BY <1>5, <1>q DEF ShareRead2
  <2> HIDE DEF dst
  <2>2. w \in Request
    BY <1>q, <1>p, <2>1, FieldType
  <2>3. ReqOK(w)
    BY <1>5, <1>q DEF ShareRead2, At, ReqOK, Request
  <2> QED BY <1>5, <1>t, <2>2, <2>3, <2>4, StepType, KeepTables DEF ShareRead2
<1>6. CASE ShareRead3(r)
  <2> DEFINE st == IF q.dst = None THEN None ELSE stores[q.user]
             w == [q EXCEPT !.pc = "tx", !.store = st]
  <2>1. st \in StoreRow \cup {None}
    BY <1>6, <1>q, <1>t DEF ShareRead3, At, ReqOK
  <2>4. req' = [req EXCEPT ![r] = w] \/ Done(r)
    BY <1>6, <1>q DEF ShareRead3
  <2> HIDE DEF st
  <2>2. w \in Request
    BY <1>q, <1>p, <2>1, FieldType
  <2>3. ReqOK(w)
    BY <1>6, <1>q DEF ShareRead3, At, ReqOK, Request
  <2> QED BY <1>6, <1>t, <2>2, <2>3, <2>4, StepType, DoneType, KeepTables DEF ShareRead3
<1>7. CASE AdminDeleteFind(r)
  <2> DEFINE same == {x \in Files : files[x] # None /\ files[x].md5 = q.c}
             x0 == CHOOSE x \in same : TRUE
             w == [q EXCEPT !.f = x0, !.pc = "tx"]
  <2>1. (same # {} /\ req' = [req EXCEPT ![r] = w]) \/ Done(r)
    BY <1>7, <1>q DEF AdminDeleteFind
  <2>2. ASSUME same # {} PROVE x0 \in Files
    BY <2>2
  <2>5. q.op = "admindelete" /\ q.pc = "read2"
    BY <1>7 DEF AdminDeleteFind, At
  <2> HIDE DEF same, x0
  <2>3. ASSUME same # {} PROVE w \in Request /\ ReqOK(w)
    <3>1. w \in Request
      BY <1>q, <1>p, <2>2, <2>3, FieldType
    <3> QED BY <3>1, <1>q, <2>5 DEF ReqOK, Request
  <2> QED BY <1>7, <1>t, <2>1, <2>3, StepType, DoneType, KeepTables DEF AdminDeleteFind
<1>8. CASE LockChain(r)
  <2> DEFINE held == q.held \cup Rows(q.out, q.user)
             pc == IF q.out.spin THEN "spin"
                   ELSE IF q.op = "deletefile" THEN "delete" ELSE "create"
             w == [q EXCEPT !.held = held, !.pc = pc]
  <2>1. held \in SUBSET Lockable
    <3>1. q.user \in Users /\ q.out \in Outcome /\ q.held \in SUBSET Lockable
      BY <1>8, <1>q DEF LockChain, ReqOK, Request
    <3> QED BY <3>1, RowsType
  <2>2. pc \in Pcs
    BY <1>p
  <2>3. req' = [req EXCEPT ![r] = w]
    BY <1>8, <1>q DEF LockChain
  <2>4. q.user \in Users
    BY <1>8, <1>q DEF LockChain, ReqOK
  <2> HIDE DEF held, pc
  <2>5. w \in Request
    BY <1>q, <2>1, <2>2, FieldType
  <2>6. ReqOK(w)
    BY <1>q, <2>4 DEF ReqOK, Request
  <2> QED BY <1>8, <1>t, <2>3, <2>5, <2>6, StepType, KeepTables DEF LockChain
<1> QED BY <1>1, <1>2, <1>3, <1>4, <1>5, <1>6, <1>7, <1>8

\* So does a step that takes a transaction's snapshot.
LEMMA TxType == ASSUME TypeInv, NEW r \in Reqs,
                       \/ UploadTx(r) \/ MoveFileTx(r) \/ MoveFolderTx(r)
                       \/ DeleteFolderTx(r) \/ ShareTx(r)
                PROVE  TypeInv'
<1> DEFINE q == req[r]
<1>q. q \in Request /\ ReqOK(q)
  BY DEF TypeInv, TypeOK
<1>t. /\ served \in Nat
      /\ \A g : RowAt(folders, g) \in FolderRow \cup {None}
      /\ \A u \in Users : stores[u] \in StoreRow
      /\ folders \in View
  BY TableTypes
<1>n. Nothing \in Outcome /\ {} \in SUBSET Lockable /\ NoWrites \in View
  BY IdleType DEF Lockable, NoWrites, View
<1>k. ASSUME NEW held \in SUBSET Lockable, NEW o \in Outcome, NEW whole \in BOOLEAN,
             NEW next \in {"commit", "chain"}, q.pc # "idle",
             Prepare(r, held, o, whole, next), UNCHANGED <<tables, history, served>>
      PROVE  TypeInv'
  BY <1>k, <1>t, PrepareType, KeepTables
<1>1. CASE UploadTx(r)
  <2> DEFINE s == Length(q.c)
             row == RowAt(folders, q.g)
             o == [Nothing EXCEPT
                     !.insert = [owner |-> q.user, md5 |-> q.c, folder |-> q.g],
                     !.store = AddCurrentSize(q.store, s),
                     !.folders = AddFileFolderSize(folders, q.g, row, s, Depth),
                     !.spin = WalkSpins(folders, q.g, row, Depth)]
  <2>1. /\ q.pc # "idle" /\ q.user \in Users /\ q.g \in Folders
        /\ q.c \in Contents /\ q.store \in StoreRow
    BY <1>1, <1>q DEF UploadTx, UploadSaves, At, ReqOK
  <2>2. [owner |-> q.user, md5 |-> q.c, folder |-> q.g] \in FileRow
    BY <2>1 DEF FileRow
  <2>3. AddFileFolderSize(folders, q.g, row, s, Depth) \in View
    BY <1>t, LengthType, AddType
  <2>4. o \in Outcome
    BY <1>n, <2>1, <2>2, <2>3, LengthType, ChargeType, SpinType, OutcomeType
  <2>5. {q.user, q.c} \in SUBSET Lockable
    BY <2>1 DEF Lockable
  <2>6. Done(r) \/ Prepare(r, {q.user, q.c}, o, TRUE, "commit")
    BY <1>1 DEF UploadTx, UploadSaves
  <2>7. UNCHANGED <<tables, history, served>>
    BY <1>1 DEF UploadTx, UploadSaves
  <2> HIDE DEF o
  <2>8. CASE Done(r)
    BY <1>t, <2>7, <2>8, DoneType, KeepTables
  <2>9. CASE Prepare(r, {q.user, q.c}, o, TRUE, "commit")
    BY <1>k, <2>1, <2>4, <2>5, <2>7, <2>9
  <2> QED BY <2>6, <2>8, <2>9
<1>2. CASE MoveFileTx(r)
  <2> DEFINE s == Length(q.file.md5)
             w == IF Moving(q) THEN Transfer(folders, q.from, q.src, q.to, q.dst, s, Depth)
                  ELSE NoWrites
             spin == Moving(q) /\ TransferSpins(folders, q.from, q.src, q.to, q.dst, s, Depth)
             o == [Nothing EXCEPT !.moved = [q.file EXCEPT !.folder = q.to],
                                  !.folders = w, !.spin = spin]
  <2>1. q.pc = "tx" /\ q.op = "movefile" /\ q.file \in FileRow /\ q.to \in Folders
    BY <1>2, <1>q DEF MoveFileTx, At, ReqOK
  <2>2. [q.file EXCEPT !.folder = q.to] \in FileRow
    BY <2>1 DEF FileRow
  <2>3. q.src \in FolderRow \cup {None} /\ q.dst \in FolderRow \cup {None}
    BY <1>q DEF Request
  <2>4. w \in View
    BY <1>n, <1>t, <2>3, LengthType, TransferType
  <2>5. spin \in BOOLEAN
    BY SpinType
  <2>6. Prepare(r, Wants(q), o, TRUE, "commit")
    BY <1>2 DEF MoveFileTx
  <2>7. UNCHANGED <<tables, history, served>>
    BY <1>2 DEF MoveFileTx
  <2> HIDE DEF w, spin
  <2>8. o \in Outcome
    BY <1>n, <2>2, <2>4, <2>5, OutcomeType
  <2>9. Wants(q) \in SUBSET Lockable
    BY <1>q, <2>1, WantsType
  <2> QED BY <1>k, <2>1, <2>6, <2>7, <2>8, <2>9
<1>3. CASE MoveFolderTx(r)
  <2> DEFINE size == IF q.dir = None THEN 0 ELSE q.dir.size
             saved == IF q.dir = None THEN NoWrites
                      ELSE [NoWrites EXCEPT ![q.g] = [q.dir EXCEPT !.parent = q.to]]
             seen == Overlay(folders, saved)
             w(k) == IF Moving(q)
                     THEN Overlay(saved, Transfer(seen, q.from, q.src, q.to, q.dst, size, k))
                     ELSE saved
             spin(k) == Moving(q) /\ TransferSpins(seen, q.from, q.src, q.to, q.dst, size, k)
             o(k) == [Nothing EXCEPT !.folders = w(k), !.spin = spin(k)]
  <2>1. q.pc = "tx" /\ q.op = "movefolder" /\ q.g \in Folders /\ q.to \in Folders \cup {Top}
    BY <1>3, <1>q DEF MoveFolderTx, At, ReqOK
  <2>2. /\ q.src \in FolderRow \cup {None} /\ q.dst \in FolderRow \cup {None}
        /\ q.dir \in FolderRow \cup {None}
    BY <1>q DEF Request
  <2>3. size \in Nat
    BY <2>2 DEF FolderRow
  <2>4. saved \in View
    <3>1. ASSUME q.dir # None PROVE [q.dir EXCEPT !.parent = q.to] \in FolderRow
      BY <2>1, <2>2, <3>1 DEF FolderRow
    <3> QED BY <1>n, <2>1, <3>1 DEF View
  <2>5. PICK k \in Cuts : Prepare(r, Wants(q), o(k), k = Depth, "commit")
    BY <1>3 DEF MoveFolderTx
  <2>6. UNCHANGED <<tables, history, served>>
    BY <1>3 DEF MoveFolderTx
  <2> HIDE DEF size, saved
  <2>7. seen \in View
    BY <1>t, <2>4, OverlayType
  <2> HIDE DEF seen
  <2>8. w(k) \in View
    BY <2>2, <2>3, <2>4, <2>7, TransferType, OverlayType
  <2>9. spin(k) \in BOOLEAN
    BY SpinType
  <2> HIDE DEF w, spin
  <2>10. o(k) \in Outcome
    BY <1>n, <2>8, <2>9, OutcomeType
  <2>11. Wants(q) \in SUBSET Lockable
    BY <1>q, <2>1, WantsType
  <2> QED BY <1>k, <2>1, <2>5, <2>6, <2>10, <2>11
<1>4. CASE DeleteFolderTx(r)
  <2> DEFINE down(n) == Doomed(folders, q.g, n)
             left == [g \in Folders |-> IF g \in down(Depth) THEN None ELSE folders[g]]
             cut(n, m) == [Nothing EXCEPT !.drop = down(n), !.purge = down(m)]
             up(k) == [cut(Depth, Depth) EXCEPT
                         !.folders = SubFileFolderSize(left, q.from, RowAt(left, q.from), q.dir.size, k),
                         !.spin = WalkSpins(left, q.from, RowAt(left, q.from), k)]
             full == [up(Depth) EXCEPT !.store = SubCurrentSize(stores[q.user], q.dir.size)]
  <2>1. /\ q.pc # "idle" /\ q.user \in Users /\ q.dir.size \in Nat
    BY <1>4, <1>q DEF DeleteFolderTx, At, ReqOK, FolderRow
  <2>2. \A n : down(n) \in SUBSET Folders
    BY DEF Doomed
  <2>3. left \in View
    BY <1>t DEF View
  <2>4. UNCHANGED <<tables, history, served>>
    BY <1>4 DEF DeleteFolderTx
  <2>5. \/ Prepare(r, {}, full, TRUE, "commit")
        \/ \E n \in 1..Depth, m \in {0, 1} : Prepare(r, {}, cut(n, n - m), FALSE, "commit")
        \/ \E k \in 0..Depth : Prepare(r, {}, up(k), FALSE, "commit")
    BY <1>4 DEF DeleteFolderTx
  <2> HIDE DEF down, left
  <2>6. \A n, m : cut(n, m) \in Outcome
    BY <1>n, <2>2, OutcomeType
  <2>7. RowAt(left, q.from) \in FolderRow \cup {None}
    BY <2>3 DEF RowAt, View
  <2> HIDE DEF cut
  <2>8. \A k : up(k) \in Outcome
    BY <2>1, <2>3, <2>6, <2>7, SubType, SpinType, OutcomeType
  <2> HIDE DEF up
  <2>9. SubCurrentSize(stores[q.user], q.dir.size) \in StoreRow
    BY <1>t, <2>1, ChargeType
  <2>10. full \in Outcome
    BY <2>8, <2>9, OutcomeType
  <2> HIDE DEF full
  <2>11. CASE Prepare(r, {}, full, TRUE, "commit")
    BY <1>k, <1>n, <2>1, <2>4, <2>10, <2>11
  <2>12. ASSUME NEW n \in 1..Depth, NEW m \in {0, 1},
                Prepare(r, {}, cut(n, n - m), FALSE, "commit")
         PROVE  TypeInv'
    BY <1>k, <1>n, <2>1, <2>4, <2>6, <2>12
  <2>13. ASSUME NEW k \in 0..Depth, Prepare(r, {}, up(k), FALSE, "commit")
         PROVE  TypeInv'
    BY <1>k, <1>n, <2>1, <2>4, <2>8, <2>13
  <2> QED BY <2>5, <2>11, <2>12, <2>13
<1>5. CASE ShareTx(r)
  <2> DEFINE s == Length(q.c)
             st == IF q.store = None THEN None ELSE AddCurrentSize(q.store, s)
             o(k) == [Nothing EXCEPT
                        !.store = st,
                        !.folders = AddFileFolderSize(folders, q.to, q.dst, s, k),
                        !.spin = WalkSpins(folders, q.to, q.dst, k)]
  <2>1. q.pc = "tx" /\ q.op = "sharesave"
    BY <1>5 DEF ShareTx, At
  <2>2. q.store \in StoreRow \cup {None} /\ q.dst \in FolderRow \cup {None}
    BY <1>q DEF Request
  <2>3. st \in StoreRow \cup {None}
    BY <2>2, LengthType, ChargeType
  <2>4. \A k : AddFileFolderSize(folders, q.to, q.dst, s, k) \in View
    BY <1>t, <2>2, LengthType, AddType
  <2>5. PICK k \in Cuts : Prepare(r, Wants(q), o(k), k = Depth,
                                  IF k = Depth THEN "chain" ELSE "commit")
    BY <1>5 DEF ShareTx
  <2>6. UNCHANGED <<tables, history, served>>
    BY <1>5 DEF ShareTx
  <2> HIDE DEF st, s
  <2>7. o(k) \in Outcome
    BY <1>n, <2>3, <2>4, SpinType, OutcomeType
  <2>8. Wants(q) \in SUBSET Lockable
    BY <1>q, <2>1, WantsType
  <2> HIDE DEF o
  <2> QED BY <1>k, <2>1, <2>5, <2>6, <2>7, <2>8
<1> QED BY <1>1, <1>2, <1>3, <1>4, <1>5

\* And a step that writes the tables.
LEMMA WriteType == ASSUME TypeInv, NEW r \in Reqs,
                          \/ DeleteRow(r) \/ DeleteRefund(r) \/ CreateFolder(r)
                          \/ ShareCreate(r) \/ SetVolume(r) \/ AdminDelete(r)
                          \/ Commit(r)
                   PROVE  TypeInv'
<1> DEFINE q == req[r]
<1>q. q \in Request /\ ReqOK(q) /\ req \in [Reqs -> Request]
  BY DEF TypeInv, TypeOK
<1>t. /\ files \in [Files -> FileRow \cup {None}] /\ folders \in View
      /\ stores \in [Users -> StoreRow] /\ granted \in [Users -> Nat]
      /\ born \in [Files \cup Folders -> Users \cup {None}]
      /\ tainted \in SUBSET Users /\ linked \in [Users -> SUBSET Users] /\ served \in Nat
  BY DEF TypeInv, TypeOK
<1>n. \A pc \in {"refund", "commit"} :
        LET w == [q EXCEPT !.pc = pc]
        IN  q.pc # "idle" => w \in Request /\ ReqOK(w)
  <2> SUFFICES ASSUME NEW pc \in {"refund", "commit"}, q.pc # "idle"
               PROVE  [q EXCEPT !.pc = pc] \in Request /\ ReqOK([q EXCEPT !.pc = pc])
    OBVIOUS
  <2>1. pc \in Pcs
    BY DEF Pcs
  <2>2. [q EXCEPT !.pc = pc] \in Request
    BY <1>q, <2>1, FieldType
  <2> QED BY <1>q, <2>2 DEF ReqOK, Request
<1>1. CASE DeleteRow(r)
  <2>1. req' = [req EXCEPT ![r] = [q EXCEPT !.pc = "refund"]] /\ q.pc # "idle"
    BY <1>1, <1>q DEF DeleteRow, At
  <2>2. files' \in [Files -> FileRow \cup {None}]
    BY <1>1, <1>t DEF DeleteRow
  <2>3. UNCHANGED <<folders, stores, born, granted, tainted, linked, served>>
    BY <1>1 DEF DeleteRow, history
  <2> QED BY <1>n, <1>t, <2>1, <2>2, <2>3, StepType DEF TypeInv, TypeOK
<1>2. CASE DeleteRefund(r)
  <2>1. req' = [req EXCEPT ![r] = [q EXCEPT !.pc = "commit"]] /\ q.pc # "idle"
    BY <1>2, <1>q DEF DeleteRefund, At
  <2>2. q.store \in StoreRow
    BY <1>2, <1>q DEF DeleteRefund, At, ReqOK
  <2>3. stores' \in [Users -> StoreRow]
    BY <1>2, <1>t, <2>2, LengthType, ChargeType DEF DeleteRefund
  <2>4. UNCHANGED <<files, folders, born, granted, tainted, linked, served>>
    BY <1>2 DEF DeleteRefund, history
  <2> QED BY <1>n, <1>t, <2>1, <2>3, <2>4, StepType DEF TypeInv, TypeOK
<1>3. CASE CreateFolder(r)
  <2>1. q.user \in Users /\ q.g \in Folders
    BY <1>3, <1>q DEF CreateFolder, At, ReqOK
  <2>2. [parent |-> q.g, owner |-> q.user, size |-> 0] \in FolderRow
    BY <2>1 DEF FolderRow
  <2>3. folders' \in View
    BY <1>3, <1>t, <2>2 DEF CreateFolder, View
  <2>4. born' \in [Files \cup Folders -> Users \cup {None}]
    BY <1>3, <1>t, <2>1 DEF CreateFolder
  <2>5. Done(r) /\ UNCHANGED <<files, stores, granted, tainted, linked, served>>
    BY <1>3 DEF CreateFolder
  <2> QED BY <1>t, <2>3, <2>4, <2>5, DoneType DEF TypeInv, TypeOK
<1>4. CASE ShareCreate(r)
  <2>1. req' = [req EXCEPT ![r] = [q EXCEPT !.pc = "commit"]] /\ q.pc # "idle"
    BY <1>4, <1>q DEF ShareCreate, At
  <2>2. q.user \in Users /\ q.to \in Folders /\ q.c \in Contents \cup {Blank}
    BY <1>4, <1>q DEF ShareCreate, At, ReqOK
  <2>3. [owner |-> IF q.dst = None THEN None ELSE q.user,
         md5 |-> q.c, folder |-> q.to] \in FileRow
    BY <2>2 DEF FileRow
  <2>4. /\ files' \in [Files -> FileRow \cup {None}]
        /\ born' \in [Files \cup Folders -> Users \cup {None}]
    BY <1>4, <1>t, <2>2, <2>3 DEF ShareCreate
  <2>5. UNCHANGED <<folders, stores, granted, tainted, linked, served>>
    BY <1>4 DEF ShareCreate
  <2> QED BY <1>n, <1>t, <2>1, <2>4, <2>5, StepType DEF TypeInv, TypeOK
<1>5. CASE SetVolume(r)
  <2>1. q.store \in StoreRow /\ q.vol \in Nat
    BY <1>5, <1>q DEF SetVolume, At, ReqOK, Request
  <2>2. [q.store EXCEPT !.max = q.vol] \in StoreRow
    BY <2>1 DEF StoreRow
  <2>3. stores' \in [Users -> StoreRow] /\ granted' \in [Users -> Nat]
    BY <1>5, <1>t, <2>1, <2>2 DEF SetVolume
  <2>4. Done(r) /\ UNCHANGED <<files, folders, born, tainted, linked, served>>
    BY <1>5 DEF SetVolume
  <2> QED BY <1>t, <2>3, <2>4, DoneType DEF TypeInv, TypeOK
<1>6. CASE AdminDelete(r)
  <2>1. files' \in [Files -> FileRow \cup {None}]
    BY <1>6, <1>t DEF AdminDelete
  <2>2. Done(r) /\ UNCHANGED <<folders, stores, born, granted, tainted, linked, served>>
    BY <1>6 DEF AdminDelete, history
  <2> QED BY <1>t, <2>1, <2>2, DoneType DEF TypeInv, TypeOK
<1>7. CASE Commit(r)
  <2> DEFINE o == q.out
             kept == [f \in Files |-> IF files[f] # None /\ files[f].folder \in o.purge
                                      THEN None ELSE files[f]]
             left == [g \in Folders |-> IF g \in o.drop THEN None ELSE folders[g]]
  <2>1. q.user \in Users /\ o \in Outcome
    BY <1>7, <1>q DEF Commit, ReqOK, Request
  <2>2. /\ o.insert \in FileRow \cup {None} /\ o.moved \in FileRow \cup {None}
        /\ o.folders \in View /\ o.store \in StoreRow \cup {None}
    BY <2>1 DEF Outcome
  <2>3. kept \in [Files -> FileRow \cup {None}] /\ left \in View
    BY <1>t DEF View
  <2>4. folders' = Overlay(left, o.folders)
    BY <1>7 DEF Commit
  <2>5. files' = IF o.insert # None THEN [kept EXCEPT ![NewId(Files)] = o.insert]
                 ELSE IF o.moved # None
                      THEN [kept EXCEPT ![SaveTarget(q.f, o.moved)] = o.moved]
                 ELSE kept
    BY <1>7 DEF Commit
  <2>6. stores' \in [Users -> StoreRow]
    BY <1>7, <1>t, <2>1, <2>2 DEF Commit
  <2>7. /\ born' \in [Files \cup Folders -> Users \cup {None}]
        /\ tainted' \in SUBSET Users
    BY <1>7, <1>t, <2>1 DEF Commit
  <2>8. Done(r) /\ UNCHANGED <<granted, linked, served>>
    BY <1>7 DEF Commit
  <2> HIDE DEF kept, left, o
  <2>9. files' \in [Files -> FileRow \cup {None}]
    BY <2>2, <2>3, <2>5
  <2>10. folders' \in View
    BY <2>2, <2>3, <2>4, OverlayType
  <2> QED BY <1>t, <2>6, <2>7, <2>8, <2>9, <2>10, DoneType DEF TypeInv, TypeOK
<1> QED BY <1>1, <1>2, <1>3, <1>4, <1>5, <1>6, <1>7

\* The type invariant is inductive.
LEMMA NextType == TypeInv /\ [Next]_vars => TypeInv'
<1> SUFFICES ASSUME TypeInv, [Next]_vars PROVE TypeInv'
  OBVIOUS
<1>1. CASE UNCHANGED vars
  BY <1>1 DEF TypeInv, TypeOK, vars
<1>2. ASSUME NEW r \in Reqs, Arrive(r) PROVE TypeInv'
  BY <1>2, ArriveType
<1>3. ASSUME NEW r \in Reqs, Continue(r) PROVE TypeInv'
  BY <1>3, ReadType, TxType, WriteType DEF Continue
<1>4. ASSUME NEW r \in Reqs, Fail(r) \/ LockTimeout(r) PROVE TypeInv'
  BY <1>4, DoneType, KeepTables, TableTypes DEF Fail, LockTimeout
<1> QED BY <1>1, <1>2, <1>3, <1>4 DEF Next

\* The tables and the requests stay well typed: sizes and charges never go
\* below zero, whatever is subtracted from them, and no step writes a row
\* that is not one.
THEOREM TypeCorrect == Spec => []TypeOK
<1>1. TypeInv => TypeOK
  BY DEF TypeInv
<1> QED BY <1>1, InitType, NextType, PTL DEF Spec

-----------------------------------------------------------------------------
(* The quota.  QuotaRow alone is not inductive: a store is overwritten with *)
(* a row that was read, checked and changed some steps before.  So the      *)
(* bound is kept for every store row in flight as well: the one a request   *)
(* has read and the one its transaction will commit.                        *)

Within(G, u, row) == row.current <= G[u] /\ row.max <= G[u]

Fits(G, q) ==
  q.pc # "idle" =>
    /\ q.store # None => Within(G, q.user, q.store)
    /\ q.out.store # None => Within(G, q.user, q.out.store)

QuotaInv == QuotaRow /\ \A r \in Reqs : Fits(granted, req[r])

\* Charging a store within its limit, or refunding it, keeps it within.
LEMMA ChargeWithin ==
  ASSUME NEW st \in StoreRow, NEW s \in Nat, NEW u \in Users,
         NEW G \in [Users -> Nat], Within(G, u, st)
  PROVE  Within(G, u, AddCurrentSize(st, s)) /\ Within(G, u, SubCurrentSize(st, s))
BY DEF Within, AddCurrentSize, SubCurrentSize, StoreRow

\* A slot gets local variables that fit; stores and grants stay.
LEMMA QuotaStep ==
  ASSUME TypeInv, QuotaInv, NEW r \in Reqs, NEW q, Fits(granted, q),
         req' = [req EXCEPT ![r] = q], UNCHANGED <<stores, granted>>
  PROVE  QuotaInv'
BY DEF TypeInv, TypeOK, QuotaInv, QuotaRow

\* A free slot holds no row.
LEMMA IdleFits == \A G : Fits(G, Idle)
BY DEF Fits, Idle

\* Ending a request, with stores and grants as they are.
LEMMA QuotaDone ==
  ASSUME TypeInv, QuotaInv, NEW r \in Reqs, Done(r), UNCHANGED <<stores, granted>>
  PROVE  QuotaInv'
BY IdleFits, QuotaStep DEF Done

\* A store row is not the absent row.
LEMMA StoreIsARow == None \notin StoreRow
BY StorageAssumption DEF StoreRow

\* A store is saved that is within its limit, no limit goes down, and the
\* request that saves it goes on with rows that fit.
LEMMA SaveQuota ==
  ASSUME TypeInv, QuotaInv, NEW r \in Reqs, NEW q, NEW u \in Users, NEW st,
         granted' \in [Users -> Nat], \A v \in Users : granted[v] <= granted'[v],
         Within(granted', u, st), Fits(granted', q),
         stores' = [stores EXCEPT ![u] = st], req' = [req EXCEPT ![r] = q]
  PROVE  QuotaInv'
<1>t. granted \in [Users -> Nat] /\ stores \in [Users -> StoreRow] /\ req \in [Reqs -> Request]
  BY DEF TypeInv, TypeOK
<1>1. QuotaRow'
  BY <1>t DEF QuotaInv, QuotaRow, Within, StoreRow
<1>2. ASSUME NEW x \in Reqs PROVE Fits(granted', req[x])
  <2>1. Fits(granted, req[x]) /\ req[x] \in Request /\ ReqOK(req[x])
    BY DEF QuotaInv, TypeInv, TypeOK
  <2>2. /\ req[x].store \in StoreRow \cup {None}
        /\ req[x].out.store \in StoreRow \cup {None}
        /\ req[x].pc # "idle" => req[x].user \in Users
    BY <2>1 DEF ReqOK, Request, Outcome
  <2>3. ASSUME NEW row \in StoreRow, NEW v \in Users, Within(granted, v, row)
        PROVE  Within(granted', v, row)
    BY <1>t, <2>3 DEF Within, StoreRow
  <2> QED BY <2>1, <2>2, <2>3 DEF Fits
<1>3. \A x \in Reqs : Fits(granted', req'[x])
  BY <1>t, <1>2
<1> QED BY <1>1, <1>3 DEF QuotaInv

\* Accepting a request reads the store as it is, or no store.
LEMMA ArriveQuota == ASSUME TypeInv, QuotaInv, NEW r \in Reqs, Arrive(r) PROVE QuotaInv'
<1>u. \A u \in Users : Within(granted, u, stores[u])
  BY DEF QuotaInv, QuotaRow, Within
<1>1. ASSUME NEW u \in Users, NEW g \in Folders, NEW c \in Contents, UploadCheck(r, u, g, c) PROVE QuotaInv'
  <2> DEFINE q == [Idle EXCEPT !.op = "upload", !.user = u, !.pc = "tx",
                              !.g = g, !.c = c, !.store = stores[u]]
  <2>1. req' = [req EXCEPT ![r] = q] /\ UNCHANGED <<stores, granted>>
    BY <1>1 DEF UploadCheck, tables, history
  <2>2. Fits(granted, q)
    BY <1>u DEF Fits, Idle, Nothing
  <2> QED BY <2>1, <2>2, QuotaStep
<1>2. ASSUME NEW u \in Users, NEW f \in Files, DeleteRead(r, u, f) PROVE QuotaInv'
  <2> DEFINE q == [Idle EXCEPT !.op = "deletefile", !.user = u, !.pc = "chain",
        !.f = f, !.c = files[f].md5, !.file = files[f], !.store = stores[u],
        !.out = [Nothing EXCEPT
          !.folders = SubFileFolderSize(folders, files[f].folder, folders[files[f].folder],
                                        Length(files[f].md5), Depth),
          !.spin = WalkSpins(folders, files[f].folder, folders[files[f].folder], Depth)]]
  <2>1. req' = [req EXCEPT ![r] = q] /\ UNCHANGED <<stores, granted>>
    BY <1>2 DEF DeleteRead, tables, history
  <2>2. Fits(granted, q)
    BY <1>u DEF Fits, Idle, Nothing
  <2> QED BY <2>1, <2>2, QuotaStep
<1>3. ASSUME NEW u \in Users, NEW f \in Files, NEW to \in Folders, MoveFileRead(r, u, f, to) PROVE QuotaInv'
  <2> DEFINE q == [Idle EXCEPT !.op = "movefile", !.user = u, !.pc = "read2",
                              !.f = f, !.file = files[f],
                              !.from = files[f].folder, !.to = to]
  <2>1. req' = [req EXCEPT ![r] = q] /\ UNCHANGED <<stores, granted>>
    BY <1>3 DEF MoveFileRead, tables, history
  <2>2. Fits(granted, q)
    BY <1>u DEF Fits, Idle, Nothing
  <2> QED BY <2>1, <2>2, QuotaStep
<1>4. ASSUME NEW u \in Users, NEW g \in Folders, CreateFolderCheck(r, u, g) PROVE QuotaInv'
  <2> DEFINE q == [Idle EXCEPT !.op = "createfolder", !.user = u,
                              !.pc = "tx", !.g = g]
  <2>1. req' = [req EXCEPT ![r] = q] /\ UNCHANGED <<stores, granted>>
    BY <1>4 DEF CreateFolderCheck, tables, history
  <2>2. Fits(granted, q)
    BY <1>u DEF Fits, Idle, Nothing
  <2> QED BY <2>1, <2>2, QuotaStep
<1>5. ASSUME NEW u \in Users, NEW g \in Folders, NEW to \in Folders \cup {Top},
              MoveFolderRead(r, u, g, to)
     PROVE  QuotaInv'
  <2> DEFINE dir == IF folders[g] # None /\ folders[g].owner = u THEN folders[g] ELSE None
             q == [Idle EXCEPT !.op = "movefolder", !.user = u, !.pc = "read2",
                               !.g = g, !.dir = dir, !.to = to,
                               !.from = IF dir = None THEN None ELSE dir.parent]
  <2>1. req' = [req EXCEPT ![r] = q] /\ UNCHANGED <<stores, granted>>
    BY <1>5 DEF MoveFolderRead, tables, history
  <2> HIDE DEF dir
  <2>2. Fits(granted, q)
    BY DEF Fits, Idle, Nothing
  <2> QED BY <2>1, <2>2, QuotaStep
<1>6. ASSUME NEW u \in Users, NEW g \in Folders, DeleteFolderCheck(r, u, g) PROVE QuotaInv'
  <2> DEFINE q == [Idle EXCEPT !.op = "deletefolder", !.user = u, !.pc = "tx",
                              !.g = g, !.dir = folders[g],
                              !.from = folders[g].parent]
  <2>1. req' = [req EXCEPT ![r] = q] /\ UNCHANGED <<stores, granted>>
    BY <1>6 DEF DeleteFolderCheck, tables, history
  <2>2. Fits(granted, q)
    BY <1>u DEF Fits, Idle, Nothing
  <2> QED BY <2>1, <2>2, QuotaStep
<1>7. ASSUME NEW u \in Users, NEW f \in Files, NEW to \in Folders, ShareRead(r, u, f, to) PROVE QuotaInv'
  <2> DEFINE q == [Idle EXCEPT !.op = "sharesave", !.user = u, !.pc = "read2",
                              !.f = f, !.file = files[f], !.to = to,
                              !.c = IF files[f] = None THEN Blank ELSE files[f].md5]
  <2>1. req' = [req EXCEPT ![r] = q] /\ UNCHANGED <<stores, granted>>
    BY <1>7 DEF ShareRead, tables, history
  <2>2. Fits(granted, q)
    BY <1>u DEF Fits, Idle, Nothing
  <2> QED BY <2>1, <2>2, QuotaStep
<1>8. ASSUME NEW u \in Users, NEW v \in Volumes, SetVolumeRead(r, u, v) PROVE QuotaInv'
  <2> DEFINE q == [Idle EXCEPT !.op = "setvolume", !.user = u, !.pc = "tx",
                              !.vol = v, !.store = stores[u]]
  <2>1. req' = [req EXCEPT ![r] = q] /\ UNCHANGED <<stores, granted>>
    BY <1>8 DEF SetVolumeRead, tables, history
  <2>2. Fits(granted, q)
    BY <1>u DEF Fits, Idle, Nothing
  <2> QED BY <2>1, <2>2, QuotaStep
<1>9. ASSUME NEW f \in Files, AdminDeleteRead(r, f) PROVE QuotaInv'
  <2> DEFINE q == [Idle EXCEPT !.op = "admindelete", !.user = born[f],
                              !.pc = "read2",
                              !.c = IF files[f] = None THEN Blank ELSE files[f].md5]
  <2>1. req' = [req EXCEPT ![r] = q] /\ UNCHANGED <<stores, granted>>
    BY <1>9 DEF AdminDeleteRead, tables, history
  <2>2. Fits(granted, q)
    BY <1>u DEF Fits, Idle, Nothing
  <2> QED BY <2>1, <2>2, QuotaStep
<1> QED BY <1>1, <1>2, <1>3, <1>4, <1>5, <1>6, <1>7, <1>8, <1>9 DEF Arrive

\* A transaction commits the store it read with a size added that fits its
\* limit, or subtracted, or no store.
LEMMA PrepareQuota ==
  ASSUME TypeInv, QuotaInv, NEW r \in Reqs, NEW held, NEW o, NEW whole, NEW next,
         req[r].pc # "idle",
         o.store # None => Within(granted, req[r].user, o.store),
         Prepare(r, held, o, whole, next), UNCHANGED <<tables, history, served>>
  PROVE  QuotaInv'
<1> DEFINE pc == IF o.spin /\ next = "commit" THEN "spin" ELSE next
           q == [req[r] EXCEPT !.held = held, !.out = o, !.whole = whole, !.pc = pc]
<1>1. req[r] \in Request /\ Fits(granted, req[r])
  BY DEF TypeInv, TypeOK, QuotaInv
<1>2. req' = [req EXCEPT ![r] = q]
  BY DEF Prepare, TypeInv, TypeOK
<1> HIDE DEF pc
<1>3. Fits(granted, q)
  BY <1>1 DEF Fits, Request
<1> QED BY <1>2, <1>3, QuotaStep DEF tables, history

\* A step that reads a row, or moves on, reads a store as it is or none.
LEMMA ReadQuota == ASSUME TypeInv, QuotaInv, NEW r \in Reqs,
                          \/ MoveFileRead2(r) \/ MoveFileRead3(r)
                          \/ MoveFolderRead2(r) \/ MoveFolderRead3(r)
                          \/ ShareRead2(r) \/ ShareRead3(r)
                          \/ AdminDeleteFind(r) \/ LockChain(r)
                   PROVE  QuotaInv'
<1> DEFINE q == req[r]
<1>q. q \in Request /\ ReqOK(q) /\ Fits(granted, q)
  BY DEF TypeInv, TypeOK, QuotaInv
<1>u. \A u \in Users : Within(granted, u, stores[u])
  BY DEF QuotaInv, QuotaRow, Within
<1>k. UNCHANGED <<stores, granted>>
  BY DEF MoveFileRead2, MoveFileRead3, MoveFolderRead2, MoveFolderRead3, ShareRead2,
         ShareRead3, AdminDeleteFind, LockChain, tables, history
<1>1. CASE MoveFileRead2(r)
  <2> DEFINE w == [q EXCEPT !.src = folders[q.from], !.pc = "read3"]
  <2>1. req' = [req EXCEPT ![r] = w] /\ q.pc # "idle"
    BY <1>1 DEF MoveFileRead2, At, TypeInv, TypeOK
  <2>2. Fits(granted, w)
    BY <1>q, <2>1 DEF Fits, Request
  <2> QED BY <1>k, <2>1, <2>2, QuotaStep
<1>2. CASE MoveFileRead3(r)
  <2> DEFINE w == [q EXCEPT !.dst = folders[q.to], !.pc = "tx"]
  <2>1. (req' = [req EXCEPT ![r] = w] \/ Done(r)) /\ q.pc # "idle"
    BY <1>2 DEF MoveFileRead3, At, TypeInv, TypeOK
  <2>2. Fits(granted, w)
    BY <1>q, <2>1 DEF Fits, Request
  <2> QED BY <1>k, <2>1, <2>2, QuotaStep, QuotaDone
<1>3. CASE MoveFolderRead2(r) \/ ShareRead2(r)
  <2> DEFINE row == RowAt(folders, q.to)
             dst == IF row # None /\ row.owner = q.user THEN row ELSE None
             w == [q EXCEPT !.dst = dst, !.pc = "read3"]
  <2>1. req' = [req EXCEPT ![r] = w] /\ q.pc # "idle"
    BY <1>3, <1>q DEF MoveFolderRead2, ShareRead2, At, TypeInv, TypeOK, ReqOK, RowAt
  <2> HIDE DEF dst
  <2>2. Fits(granted, w)
    BY <1>q, <2>1 DEF Fits, Request
  <2> QED BY <1>k, <2>1, <2>2, QuotaStep
<1>4. CASE MoveFolderRead3(r)
  <2> DEFINE w == [q EXCEPT !.src = RowAt(folders, q.from), !.pc = "tx"]
  <2>1. req' = [req EXCEPT ![r] = w] /\ q.pc # "idle"
    BY <1>4 DEF MoveFolderRead3, At, TypeInv, TypeOK
  <2>2. Fits(granted, w)
    BY <1>q, <2>1 DEF Fits, Request
  <2> QED BY <1>k, <2>1, <2>2, QuotaStep
<1>5. CASE ShareRead3(r)
  <2> DEFINE st == IF q.dst = None THEN None ELSE stores[q.user]
             w == [q EXCEPT !.pc = "tx", !.store = st]
  <2>1. (req' = [req EXCEPT ![r] = w] \/ Done(r)) /\ q.pc # "idle"
    BY <1>5 DEF ShareRead3, At, TypeInv, TypeOK
  <2>2. st # None => Within(granted, q.user, st)
    BY <1>q, <1>u, <2>1 DEF ReqOK
  <2> HIDE DEF st
  <2>3. Fits(granted, w)
    BY <1>q, <2>1, <2>2 DEF Fits, Request
  <2> QED BY <1>k, <2>1, <2>3, QuotaStep, QuotaDone
<1>6. CASE AdminDeleteFind(r)
  <2> DEFINE same == {x \in Files : files[x] # None /\ files[x].md5 = q.c}
             x0 == CHOOSE x \in same : TRUE
             w == [q EXCEPT !.f = x0, !.pc = "tx"]
  <2>1. (req' = [req EXCEPT ![r] = w] \/ Done(r)) /\ q.pc # "idle"
    BY <1>6 DEF AdminDeleteFind, At, TypeInv, TypeOK
  <2> HIDE DEF x0
  <2>2. Fits(granted, w)
    BY <1>q, <2>1 DEF Fits, Request
  <2> QED BY <1>k, <2>1, <2>2, QuotaStep, QuotaDone
<1>7. CASE LockChain(r)
  <2> DEFINE held == q.held \cup Rows(q.out, q.user)
             pc == IF q.out.spin THEN "spin"
                   ELSE IF q.op = "deletefile" THEN "delete" ELSE "create"
             w == [q EXCEPT !.held = held, !.pc = pc]
  <2>1. req' = [req EXCEPT ![r] = w] /\ q.pc # "idle"
    BY <1>7 DEF LockChain, TypeInv, TypeOK
  <2> HIDE DEF held, pc
  <2>2. Fits(granted, w)
    BY <1>q, <2>1 DEF Fits, Request
  <2> QED BY <1>k, <2>1, <2>2, QuotaStep
<1> QED BY <1>1, <1>2, <1>3, <1>4, <1>5, <1>6, <1>7

\* What a transaction will commit was charged to, or refunded from, a store
\* within its limit.
LEMMA TxQuota == ASSUME TypeInv, QuotaInv, NEW r \in Reqs,
                        \/ UploadTx(r) \/ MoveFileTx(r) \/ MoveFolderTx(r)
                        \/ DeleteFolderTx(r) \/ ShareTx(r)
                 PROVE  QuotaInv'
<1> DEFINE q == req[r]
<1>q. q \in Request /\ ReqOK(q) /\ Fits(granted, q)
  BY DEF TypeInv, TypeOK, QuotaInv
<1>u. \A u \in Users : Within(granted, u, stores[u]) /\ stores[u] \in StoreRow
  BY TableTypes DEF QuotaInv, QuotaRow, Within
<1>g. granted \in [Users -> Nat]
  BY DEF TypeInv, TypeOK
<1>k. UNCHANGED <<tables, history, served>>
  BY DEF UploadTx, UploadSaves, MoveFileTx, MoveFolderTx, DeleteFolderTx, ShareTx
<1>n. q.pc # "idle"
  BY DEF UploadTx, UploadSaves, MoveFileTx, MoveFolderTx, DeleteFolderTx, ShareTx, At
<1>p. ASSUME NEW held, NEW o, NEW whole, NEW next, Prepare(r, held, o, whole, next),
             o.store # None => Within(granted, q.user, o.store)
      PROVE  QuotaInv'
  BY <1>k, <1>n, <1>p, PrepareQuota
<1>1. CASE UploadTx(r)
  <2> DEFINE s == Length(q.c)
             st == AddCurrentSize(q.store, s)
             row == RowAt(folders, q.g)
             ins == [owner |-> q.user, md5 |-> q.c, folder |-> q.g]
             w == AddFileFolderSize(folders, q.g, row, s, Depth)
             spin == WalkSpins(folders, q.g, row, Depth)
             o == [Nothing EXCEPT !.insert = ins, !.store = st, !.folders = w, !.spin = spin]
  <2>1. q.user \in Users /\ q.store \in StoreRow
    BY <1>1, <1>q DEF UploadTx, UploadSaves, At, ReqOK
  <2>2. Within(granted, q.user, q.store)
    BY <1>n, <1>q, <2>1, StoreIsARow DEF Fits
  <2>3. Within(granted, q.user, st)
    BY <1>g, <2>1, <2>2, LengthType, ChargeWithin
  <2>4. Done(r) \/ Prepare(r, {q.user, q.c}, o, TRUE, "commit")
    BY <1>1 DEF UploadTx, UploadSaves
  <2> HIDE DEF st, ins, w, spin
  <2>5. o.store = st
    BY DEF Nothing
  <2> HIDE DEF o
  <2> QED BY <1>k, <1>p, <2>3, <2>4, <2>5, QuotaDone DEF tables, history
<1>2. CASE MoveFileTx(r)
  <2> DEFINE w == IF Moving(q)
                  THEN Transfer(folders, q.from, q.src, q.to, q.dst, Length(q.file.md5), Depth)
                  ELSE NoWrites
             spin == /\ Moving(q)
                     /\ TransferSpins(folders, q.from, q.src, q.to, q.dst, Length(q.file.md5), Depth)
             o == [Nothing EXCEPT !.moved = [q.file EXCEPT !.folder = q.to],
                                  !.folders = w, !.spin = spin]
  <2>1. Prepare(r, Wants(q), o, TRUE, "commit")
    BY <1>2 DEF MoveFileTx
  <2> HIDE DEF w, spin
  <2>2. o.store = None
    BY DEF Nothing
  <2> QED BY <1>p, <2>1, <2>2
<1>3. CASE MoveFolderTx(r)
  <2> DEFINE size == IF q.dir = None THEN 0 ELSE q.dir.size
             saved == IF q.dir = None THEN NoWrites
                      ELSE [NoWrites EXCEPT ![q.g] = [q.dir EXCEPT !.parent = q.to]]
             seen == Overlay(folders, saved)
             w(k) == IF Moving(q)
                     THEN Overlay(saved, Transfer(seen, q.from, q.src, q.to, q.dst, size, k))
                     ELSE saved
             spin(k) == Moving(q) /\ TransferSpins(seen, q.from, q.src, q.to, q.dst, size, k)
             o(k) == [Nothing EXCEPT !.folders = w(k), !.spin = spin(k)]
  <2>1. PICK k \in Cuts : Prepare(r, Wants(q), o(k), k = Depth, "commit")
    BY <1>3 DEF MoveFolderTx
  <2> HIDE DEF w, spin
  <2>2. o(k).store = None
    BY DEF Nothing
  <2> QED BY <1>p, <2>1, <2>2
<1>4. CASE DeleteFolderTx(r)
  <2> DEFINE down(n) == Doomed(folders, q.g, n)
             left == [g \in Folders |-> IF g \in down(Depth) THEN None ELSE folders[g]]
             cut(n, m) == [Nothing EXCEPT !.drop = down(n), !.purge = down(m)]
             sub(k) == SubFileFolderSize(left, q.from, RowAt(left, q.from), q.dir.size, k)
             spin(k) == WalkSpins(left, q.from, RowAt(left, q.from), k)
             up(k) == [cut(Depth, Depth) EXCEPT !.folders = sub(k), !.spin = spin(k)]
             st == SubCurrentSize(stores[q.user], q.dir.size)
             full == [up(Depth) EXCEPT !.store = st]
  <2>1. q.user \in Users /\ q.dir.size \in Nat
    BY <1>4, <1>q DEF DeleteFolderTx, At, ReqOK, FolderRow
  <2>2. \/ Prepare(r, {}, full, TRUE, "commit")
        \/ \E n \in 1..Depth, m \in {0, 1} : Prepare(r, {}, cut(n, n - m), FALSE, "commit")
        \/ \E k \in 0..Depth : Prepare(r, {}, up(k), FALSE, "commit")
    BY <1>4 DEF DeleteFolderTx
  <2>3. Within(granted, q.user, st)
    BY <1>g, <1>u, <2>1, ChargeWithin
  <2> HIDE DEF st, down, sub, spin
  <2>4. /\ full.store = st
        /\ \A n, m : cut(n, m).store = None
        /\ \A k : up(k).store = None
    BY DEF Nothing
  <2> HIDE DEF full, cut, up
  <2> QED BY <1>p, <2>2, <2>3, <2>4
<1>5. CASE ShareTx(r)
  <2> DEFINE s == Length(q.c)
             st == IF q.store = None THEN None ELSE AddCurrentSize(q.store, s)
             w(k) == AddFileFolderSize(folders, q.to, q.dst, s, k)
             spin(k) == WalkSpins(folders, q.to, q.dst, k)
             o(k) == [Nothing EXCEPT !.store = st, !.folders = w(k), !.spin = spin(k)]
  <2>1. q.user \in Users /\ q.store \in StoreRow \cup {None}
    BY <1>5, <1>q DEF ShareTx, At, ReqOK, Request
  <2>2. st # None => Within(granted, q.user, st)
    <3>1. q.store # None => Within(granted, q.user, q.store)
      BY <1>n, <1>q DEF Fits
    <3> QED BY <1>g, <2>1, <3>1, LengthType, ChargeWithin
  <2>3. PICK k \in Cuts :
          Prepare(r, Wants(q), o(k), k = Depth, IF k = Depth THEN "chain" ELSE "commit")
    BY <1>5 DEF ShareTx
  <2> HIDE DEF st, w, spin
  <2>4. o(k).store = st
    BY DEF Nothing
  <2> QED BY <1>p, <2>2, <2>3, <2>4
<1> QED BY <1>1, <1>2, <1>3, <1>4, <1>5

\* Writes outside a transaction, the administrator's, and commits.
LEMMA WriteQuota == ASSUME TypeInv, QuotaInv, NEW r \in Reqs,
                           \/ DeleteRow(r) \/ DeleteRefund(r) \/ CreateFolder(r)
                           \/ ShareCreate(r) \/ SetVolume(r) \/ AdminDelete(r)
                           \/ Commit(r)
                    PROVE  QuotaInv'
<1> DEFINE q == req[r]
<1>q. q \in Request /\ ReqOK(q) /\ Fits(granted, q) /\ req \in [Reqs -> Request]
  BY DEF TypeInv, TypeOK, QuotaInv
<1>u. \A u \in Users : Within(granted, u, stores[u]) /\ stores[u] \in StoreRow
  BY TableTypes DEF QuotaInv, QuotaRow, Within
<1>g. granted \in [Users -> Nat] /\ stores \in [Users -> StoreRow]
  BY DEF TypeInv, TypeOK
<1>1. CASE DeleteRow(r)
  <2> DEFINE w == [q EXCEPT !.pc = "refund"]
  <2>1. req' = [req EXCEPT ![r] = w] /\ q.pc # "idle" /\ UNCHANGED <<stores, granted>>
    BY <1>1 DEF DeleteRow, At, history
  <2>2. Fits(granted, w)
    BY <1>q, <2>1 DEF Fits, Request
  <2> QED BY <2>1, <2>2, QuotaStep
<1>2. CASE DeleteRefund(r)
  <2> DEFINE w == [q EXCEPT !.pc = "commit"]
             st == SubCurrentSize(q.store, Length(q.c))
  <2>1. /\ req' = [req EXCEPT ![r] = w] /\ q.pc # "idle"
        /\ stores' = [stores EXCEPT ![q.user] = st] /\ UNCHANGED granted
    BY <1>2 DEF DeleteRefund, At, history
  <2>2. q.user \in Users /\ q.store \in StoreRow
    BY <1>2, <1>q DEF DeleteRefund, At, ReqOK
  <2>3. Within(granted, q.user, st)
    <3>1. Within(granted, q.user, q.store)
      BY <1>q, <2>1, <2>2, StoreIsARow DEF Fits
    <3> QED BY <1>g, <2>2, <3>1, LengthType, ChargeWithin
  <2>4. Fits(granted, w)
    BY <1>q, <2>1 DEF Fits, Request
  <2> HIDE DEF w, st
  <2>5. /\ granted' \in [Users -> Nat] /\ \A v \in Users : granted[v] <= granted'[v]
        /\ Within(granted', q.user, st) /\ Fits(granted', w)
    BY <1>g, <2>1, <2>3, <2>4
  <2> QED BY <2>1, <2>2, <2>5, SaveQuota
<1>3. CASE CreateFolder(r) \/ AdminDelete(r)
  <2>1. Done(r) /\ UNCHANGED <<stores, granted>>
    BY <1>3 DEF CreateFolder, AdminDelete, history
  <2> QED BY <2>1, QuotaDone
<1>4. CASE ShareCreate(r)
  <2> DEFINE w == [q EXCEPT !.pc = "commit"]
  <2>1. req' = [req EXCEPT ![r] = w] /\ q.pc # "idle" /\ UNCHANGED <<stores, granted>>
    BY <1>4 DEF ShareCreate, At
  <2>2. Fits(granted, w)
    BY <1>q, <2>1 DEF Fits, Request
  <2> QED BY <2>1, <2>2, QuotaStep
<1>5. CASE SetVolume(r)
  <2> DEFINE st == [q.store EXCEPT !.max = q.vol]
  <2>1. /\ req' = [req EXCEPT ![r] = Idle] /\ q.pc # "idle"
        /\ stores' = [stores EXCEPT ![q.user] = st]
        /\ granted' = [granted EXCEPT ![q.user] = IF @ < q.vol THEN q.vol ELSE @]
    BY <1>5 DEF SetVolume, At, Done
  <2>2. q.user \in Users /\ q.store \in StoreRow /\ q.vol \in Nat
    BY <1>5, <1>q DEF SetVolume, At, ReqOK, Request
  <2>3. Within(granted, q.user, q.store)
    BY <1>q, <2>1, <2>2, StoreIsARow DEF Fits
  <2>4. \A u \in Users : granted[u] <= granted'[u] /\ granted'[u] \in Nat
    BY <1>g, <2>1, <2>2
  <2>5. Within(granted', q.user, st)
    BY <1>g, <2>1, <2>2, <2>3 DEF Within, StoreRow
  <2> HIDE DEF st
  <2>6. granted' \in [Users -> Nat] /\ Fits(granted', Idle)
    BY <1>g, <2>1, <2>2, IdleFits
  <2> QED BY <1>g, <2>1, <2>2, <2>4, <2>5, <2>6, SaveQuota
<1>6. CASE Commit(r)
  <2>1. /\ req' = [req EXCEPT ![r] = Idle] /\ q.pc # "idle" /\ UNCHANGED granted
        /\ stores' = IF q.out.store = None THEN stores
                     ELSE [stores EXCEPT ![q.user] = q.out.store]
    BY <1>6 DEF Commit, Done
  <2>2. CASE q.out.store = None
    BY <2>1, <2>2, IdleFits, QuotaStep
  <2>3. CASE q.out.store # None
    <3>1. q.user \in Users
      BY <1>q, <2>1 DEF ReqOK
    <3>2. Within(granted, q.user, q.out.store)
      BY <1>q, <2>1, <2>3 DEF Fits
    <3>3. /\ granted' \in [Users -> Nat] /\ \A v \in Users : granted[v] <= granted'[v]
          /\ Within(granted', q.user, q.out.store) /\ Fits(granted', Idle)
      BY <1>g, <2>1, <3>2, IdleFits
    <3> QED BY <2>1, <2>3, <3>1, <3>3, SaveQuota
  <2> QED BY <2>2, <2>3
<1> QED BY <1>1, <1>2, <1>3, <1>4, <1>5, <1>6

\* Every step keeps the stores within the grants.
LEMMA NextQuota == TypeInv /\ QuotaInv /\ [Next]_vars => QuotaInv'
<1> SUFFICES ASSUME TypeInv, QuotaInv, [Next]_vars PROVE QuotaInv'
  OBVIOUS
<1>1. CASE UNCHANGED vars
  BY <1>1 DEF QuotaInv, QuotaRow, vars
<1>2. ASSUME NEW r \in Reqs, Arrive(r) PROVE QuotaInv'
  BY <1>2, ArriveQuota
<1>3. ASSUME NEW r \in Reqs, Continue(r) PROVE QuotaInv'
  BY <1>3, ReadQuota, TxQuota, WriteQuota DEF Continue
<1>4. ASSUME NEW r \in Reqs, Fail(r) \/ LockTimeout(r) PROVE QuotaInv'
  BY <1>4, QuotaDone DEF Fail, LockTimeout, tables, history
<1> QED BY <1>1, <1>2, <1>3, <1>4 DEF Next

\* Empty stores, and slots that hold no row.
LEMMA InitQuota == Init => QuotaInv
BY StorageAssumption, IdleFits DEF Init, QuotaInv, QuotaRow

\* Whatever runs concurrently, is cut short or fails, no store is ever charged
\* more than the largest volume its user was granted (model/file_store.go).
THEOREM QuotaKept == Spec => []QuotaRow
<1>1. QuotaInv => QuotaRow
  BY DEF QuotaInv
<1> QED BY <1>1, InitType, NextType, InitQuota, NextQuota, PTL DEF Spec

-----------------------------------------------------------------------------
(* Walks.  What a walk reaches is proved by induction over its steps, for    *)
(* which a least number is found that a set misses.                          *)

\* A set that holds 0, and n + 1 with every n, holds every natural number.
LEMMA Induction ==
  ASSUME NEW S, 0 \in S, \A n \in Nat : n \in S => n + 1 \in S
  PROVE  Nat \subseteq S
<1> DEFINE T == Nat \ S
<1> SUFFICES ASSUME T # {} PROVE FALSE
  OBVIOUS
<1>1. \E x \in T : \A y \in T : ~(y < x)
  <2>1. PICK x \in T : \A y \in T : ~ (<<y, x>> \in OpToRel(<,Nat))
    BY NatLessThanWellFounded, WFMin
  <2>2. \A y \in Nat : y < x => <<y, x>> \in OpToRel(<,Nat)
    BY DEF OpToRel
  <2> QED BY <2>1, <2>2
<1> PICK x \in T : \A y \in T : ~(y < x)
  BY <1>1
<1>2. x - 1 \in Nat /\ x - 1 < x /\ x = (x - 1) + 1
  OBVIOUS
<1> QED BY <1>2

LEMMA DepthType == Depth \in Nat
BY FoldersAssumption, FS_CardinalityType DEF Depth

\* Where a walk that is at g goes on.
Up(v, g) == IF g \in Folders /\ v[g] # None THEN v[g].parent ELSE Top

\* The equation of the recursive function that a walk is.
LEMMA ClimbDef ==
  ASSUME NEW v, NEW f
  PROVE  Climb(v, f) = [n \in 0..Depth |-> IF n = 0 THEN f ELSE Up(v, Climb(v, f)[n - 1])]
<1> DEFINE Is(at, m) == at = [n \in 0..m |-> IF n = 0 THEN f ELSE Up(v, at[n - 1])]
           S == {m \in Nat : \E at : Is(at, m)}
<1>1. 0 \in S
  <2>1. Is([n \in 0..0 |-> f], 0)
    OBVIOUS
  <2> QED BY <2>1
<1>2. ASSUME NEW m \in Nat, m \in S PROVE m + 1 \in S
  <2>1. PICK at : Is(at, m)
    BY <1>2
  <2> DEFINE more == [n \in 0..(m + 1) |-> IF n = m + 1 THEN Up(v, at[m]) ELSE at[n]]
  <2>2. ASSUME NEW n \in 0..(m + 1)
        PROVE  more[n] = IF n = 0 THEN f ELSE Up(v, more[n - 1])
    <3>1. CASE n = m + 1
      <4>1. more[n] = Up(v, at[m]) /\ n # 0 /\ n - 1 = m /\ m \in 0..(m + 1) /\ m # m + 1
        BY <3>1
      <4>2. more[m] = at[m]
        BY <4>1
      <4> QED BY <4>1, <4>2
    <3>2. CASE n # m + 1 /\ n # 0
      <4>1. n \in 0..m /\ n - 1 \in 0..(m + 1) /\ n - 1 # m + 1
        BY <3>2
      <4>2. at[n] = Up(v, at[n - 1])
        BY <2>1, <3>2, <4>1
      <4> QED BY <3>2, <4>1, <4>2
    <3>3. CASE n # m + 1 /\ n = 0
      <4>1. at[0] = f
        BY <2>1
      <4> QED BY <3>3, <4>1
    <3> QED BY <3>1, <3>2, <3>3
  <2>3. Is(more, m + 1)
    BY <2>2
  <2> HIDE DEF Is, more
  <2> QED BY <2>3
<1>3. PICK at : Is(at, Depth)
  <2> HIDE DEF S
  <2>1. Nat \subseteq S
    BY <1>1, <1>2, Induction
  <2> QED BY <2>1, DepthType DEF S
<1>4. Climb(v, f) = CHOOSE x : Is(x, Depth)
  BY DEF Climb, Up
<1> HIDE DEF Is
<1>5. Is(Climb(v, f), Depth)
  BY <1>3, <1>4
<1> QED BY <1>5 DEF Is

\* A walk stays in a set that holds its start and is closed under parents.
LEMMA ClimbWithin ==
  ASSUME NEW v, NEW f, NEW S, f \in S, \A g \in S : Up(v, g) \in S
  PROVE  \A n \in 0..Depth : Climb(v, f)[n] \in S
<1> DEFINE at == Climb(v, f)
           T == {n \in Nat : n <= Depth => at[n] \in S}
<1>0. at = [n \in 0..Depth |-> IF n = 0 THEN f ELSE Up(v, at[n - 1])]
  BY ClimbDef
<1> HIDE DEF at
<1>1. \A n \in 0..Depth : at[n] = IF n = 0 THEN f ELSE Up(v, at[n - 1])
  BY <1>0
<1>2. 0 \in T
  BY <1>1, DepthType
<1>3. ASSUME NEW n \in Nat, n \in T PROVE n + 1 \in T
  <2> SUFFICES ASSUME n + 1 <= Depth PROVE at[n + 1] \in S
    OBVIOUS
  <2>1. n <= Depth /\ n + 1 \in 0..Depth /\ n + 1 # 0 /\ (n + 1) - 1 = n
    BY DepthType
  <2>2. at[n] \in S
    BY <1>3, <2>1
  <2> QED BY <1>1, <2>1, <2>2
<1> HIDE DEF T
<1>4. Nat \subseteq T
  BY <1>2, <1>3, Induction
<1> QED BY <1>4 DEF T, at

\* gone is the recursive function that the first k rounds of a folder delete are.
Rounds(v, f, gone, k) ==
  gone = [i \in 0..k |->
            IF i = 0 THEN {}
            ELSE IF i = 1 THEN {f}
            ELSE gone[i - 1] \cup {g \in Folders : v[g] # None /\ v[g].parent \in gone[i - 1]}]

LEMMA RoundsExist ==
  ASSUME NEW v, NEW f, NEW k \in Nat
  PROVE  \E gone : Rounds(v, f, gone, k)
<1> DEFINE Round(gone, i) == IF i = 0 THEN {} ELSE IF i = 1 THEN {f}
                             ELSE gone[i - 1] \cup
                                  {g \in Folders : v[g] # None /\ v[g].parent \in gone[i - 1]}
           Part(gone, m) == gone = [i \in 0..m |-> Round(gone, i)]
           M == {m \in Nat : \E gone : Part(gone, m)}
<1>1. 0 \in M
  <2>1. Part([i \in 0..0 |-> {}], 0)
    OBVIOUS
  <2> QED BY <2>1
<1>2. ASSUME NEW m \in Nat, m \in M PROVE m + 1 \in M
  <2>1. PICK gone : Part(gone, m)
    BY <1>2
  <2> DEFINE more == [i \in 0..(m + 1) |-> IF i = m + 1 THEN Round(gone, i) ELSE gone[i]]
  <2>2. ASSUME NEW i \in 0..(m + 1) PROVE more[i] = Round(more, i)
    <3>1. CASE i = 0 \/ i = 1
      <4>1. Round(more, i) = Round(gone, i)
        BY <3>1
      <4>2. i # m + 1 => i \in 0..m
        OBVIOUS
      <4> HIDE DEF Round
      <4> QED BY <2>1, <4>1, <4>2
    <3>2. CASE i # 0 /\ i # 1
      <4>1. i - 1 \in 0..(m + 1) /\ i - 1 # m + 1 /\ (i # m + 1 => i \in 0..m)
        BY <3>2
      <4>2. more[i - 1] = gone[i - 1]
        BY <4>1
      <4>3. Round(more, i) = Round(gone, i)
        BY <4>2
      <4> HIDE DEF Round
      <4> QED BY <2>1, <4>1, <4>3
    <3> QED BY <3>1, <3>2
  <2>3. Part(more, m + 1)
    <3> HIDE DEF Round
    <3> QED BY <2>2
  <2> HIDE DEF Part, more
  <2> QED BY <2>3
<1> HIDE DEF M
<1>3. k \in M
  BY <1>1, <1>2, Induction
<1> QED BY <1>3 DEF M, Rounds

\* How many rounds there will be does not matter to the first of them.
LEMMA RoundsAlike ==
  ASSUME NEW v, NEW f, NEW k \in Nat, NEW m \in Nat, k <= m, NEW a, Rounds(v, f, a, k),
         NEW b, Rounds(v, f, b, m)
  PROVE  \A i \in 0..k : a[i] = b[i]
<1> DEFINE T == {i \in Nat : i <= k => a[i] = b[i]}
<1>1. 0 \in T
  BY DEF Rounds
<1>2. ASSUME NEW i \in Nat, i \in T PROVE i + 1 \in T
  <2> SUFFICES ASSUME i + 1 <= k PROVE a[i + 1] = b[i + 1]
    OBVIOUS
  <2>1. i <= k /\ i + 1 \in 0..k /\ i + 1 \in 0..m /\ i + 1 # 0 /\ (i + 1) - 1 = i
    OBVIOUS
  <2>2. a[i] = b[i]
    BY <1>2, <2>1
  <2>3. /\ a[i + 1] = IF i + 1 = 1 THEN {f}
                      ELSE a[i] \cup {g \in Folders : v[g] # None /\ v[g].parent \in a[i]}
        /\ b[i + 1] = IF i + 1 = 1 THEN {f}
                      ELSE b[i] \cup {g \in Folders : v[g] # None /\ v[g].parent \in b[i]}
    BY <2>1 DEF Rounds
  <2> QED BY <2>2, <2>3
<1> HIDE DEF T
<1>3. Nat \subseteq T
  BY <1>1, <1>2, Induction
<1> QED BY <1>3 DEF T

\* What each round of a folder delete adds.
LEMMA DoomedRounds ==
  ASSUME NEW v, NEW f \in Folders
  PROVE  /\ Doomed(v, f, 0) = {} /\ Doomed(v, f, 1) = {f}
         /\ \A n \in Nat \ {0} :
              Doomed(v, f, n + 1) = Doomed(v, f, n) \cup
                {g \in Folders : v[g] # None /\ v[g].parent \in Doomed(v, f, n)}
<1> DEFINE G(n) == CHOOSE gone : Rounds(v, f, gone, n)
<1>1. \A n : Doomed(v, f, n) = {g \in Folders : g \in G(n)[n]}
  BY DEF Doomed, Rounds
<1>2. ASSUME NEW n \in Nat PROVE Rounds(v, f, G(n), n)
  BY RoundsExist
<1> HIDE DEF G
<1>3. G(0)[0] = {} /\ G(1)[1] = {f}
  <2>1. Rounds(v, f, G(0), 0) /\ Rounds(v, f, G(1), 1)
    BY <1>2
  <2> QED BY <2>1 DEF Rounds
<1>4. ASSUME NEW n \in Nat \ {0}
      PROVE  G(n + 1)[n + 1] = G(n)[n] \cup {g \in Folders : v[g] # None /\ v[g].parent \in G(n)[n]}
  <2>1. /\ n \in Nat /\ n + 1 \in Nat /\ n <= n + 1 /\ n \in 0..n /\ n + 1 \in 0..(n + 1)
        /\ n + 1 # 0 /\ n + 1 # 1 /\ (n + 1) - 1 = n
    OBVIOUS
  <2> DEFINE a == G(n)
             b == G(n + 1)
  <2>2. Rounds(v, f, a, n) /\ Rounds(v, f, b, n + 1)
    BY <1>2, <2>1
  <2> HIDE DEF a, b
  <2>3. a[n] = b[n]
    BY <2>1, <2>2, RoundsAlike
  <2>4. b[n + 1] = b[n] \cup {g \in Folders : v[g] # None /\ v[g].parent \in b[n]}
    BY <2>1, <2>2 DEF Rounds
  <2> QED BY <2>3, <2>4 DEF a, b
<1> DEFINE T == {n \in Nat : G(n)[n] \subseteq Folders}
<1>5. 0 \in T
  BY <1>3
<1>6. ASSUME NEW n \in Nat, n \in T PROVE n + 1 \in T
  <2>1. CASE n = 0
    <3>1. n + 1 = 1
      BY <2>1
    <3> QED BY <1>3, <3>1
  <2>2. CASE n # 0
    BY <1>4, <1>6, <2>2
  <2> QED BY <2>1, <2>2
<1> HIDE DEF T
<1>7. Nat \subseteq T
  BY <1>5, <1>6, Induction
<1>8. \A n \in Nat : Doomed(v, f, n) = G(n)[n]
  BY <1>1, <1>7 DEF T
<1>9. ASSUME NEW n \in Nat \ {0}
      PROVE  Doomed(v, f, n + 1) = Doomed(v, f, n) \cup
                {g \in Folders : v[g] # None /\ v[g].parent \in Doomed(v, f, n)}
  <2>1. Doomed(v, f, n) = G(n)[n] /\ Doomed(v, f, n + 1) = G(n + 1)[n + 1]
    BY <1>8
  <2> QED BY <1>4, <2>1
<1> QED BY <1>3, <1>8, <1>9

\* The rounds of a folder delete reach only what a set holds that contains the
\* folder and, with every folder, its children.
LEMMA DoomedWithin ==
  ASSUME NEW v, NEW f \in Folders, NEW S, NEW k \in Nat, f \in S,
         \A g \in Folders : v[g] # None /\ v[g].parent \in S => g \in S
  PROVE  Doomed(v, f, k) \subseteq S
<1> DEFINE T == {n \in Nat : Doomed(v, f, n) \subseteq S}
<1>1. 0 \in T
  BY DoomedRounds
<1>2. ASSUME NEW n \in Nat, n \in T PROVE n + 1 \in T
  <2>1. CASE n = 0
    <3>1. n + 1 = 1
      BY <2>1
    <3> QED BY <3>1, DoomedRounds
  <2>2. CASE n # 0
    <3>1. Doomed(v, f, n + 1) = Doomed(v, f, n) \cup
            {g \in Folders : v[g] # None /\ v[g].parent \in Doomed(v, f, n)}
      BY <2>2, DoomedRounds
    <3> QED BY <1>2, <3>1
  <2> QED BY <2>1, <2>2
<1> HIDE DEF T
<1>3. Nat \subseteq T
  BY <1>1, <1>2, Induction
<1> QED BY <1>3 DEF T

-----------------------------------------------------------------------------
(* Accounts.  A folder belongs to whoever's request first inserted its id;    *)
(* the folder above it may be another account's, but then the two are linked, *)
(* and the accounts fall into classes.  What a request reads, walks along and *)
(* writes belongs to the class of its user.  B stands for born, S for a class.*)

\* A row of g's owner, at a folder and below a folder of the class.
Fit(B, S, g, row) ==
  B[g] \in S /\ row.owner = B[g] /\ (row.parent \in Folders => B[row.parent] \in S)

\* The class's folders in a table fit; writes are of such folders only.
Mated(B, S, v) == \A g \in Folders : v[g] # None /\ B[g] \in S => Fit(B, S, g, v[g])
Mates(B, S, w) == \A g \in Folders : w[g] # None => Fit(B, S, g, w[g])

\* A walk that starts at a folder of the class meets folders of the class only.
LEMMA ChainKin ==
  ASSUME NEW B, NEW S, NEW v \in View, Mated(B, S, v), NEW f \in Folders, B[f] \in S,
         NEW k \in 0..Depth
  PROVE  \A g \in Chain(v, f, k) : g \in Folders /\ v[g] # None /\ B[g] \in S
<1> DEFINE Ours == {g \in Folders : B[g] \in S} \cup {Top}
<1>1. \A g \in Ours : Up(v, g) \in Ours
  <2> SUFFICES ASSUME NEW g \in Ours PROVE Up(v, g) \in Ours
    OBVIOUS
  <2>1. CASE g \in Folders /\ v[g] # None
    <3>1. B[g] \in S
      BY <2>1, FoldersAssumption
    <3>2. v[g] \in FolderRow /\ Fit(B, S, g, v[g])
      BY <2>1, <3>1 DEF View, Mated
    <3> QED BY <2>1, <3>2 DEF Up, Fit, FolderRow
  <2>2. CASE ~(g \in Folders /\ v[g] # None)
    BY <2>2 DEF Up
  <2> QED BY <2>1, <2>2
<1>2. f \in Ours
  OBVIOUS
<1> HIDE DEF Ours
<1>3. \A n \in 0..Depth : Climb(v, f)[n] \in Ours
  BY <1>1, <1>2, ClimbWithin
<1>4. \A n \in 0..(k - 1) : n \in 0..Depth
  BY DepthType
<1> QED BY <1>3, <1>4, FoldersAssumption DEF Chain, Ours

\* Both walks write folders of the class only, and as their owners'.
LEMMA WalkKin ==
  ASSUME NEW B, NEW S, NEW v \in View, Mated(B, S, v), NEW f,
         NEW row \in FolderRow \cup {None},
         row # None => f \in Folders /\ Fit(B, S, f, row),
         NEW s \in Nat, NEW k \in 0..Depth
  PROVE  /\ Mates(B, S, AddFileFolderSize(v, f, row, s, k))
         /\ Mates(B, S, SubFileFolderSize(v, f, row, s, k))
<1>1. CASE row = None
  BY <1>1 DEF AddFileFolderSize, SubFileFolderSize, NoWrites, Mates
<1>2. CASE row # None
  <2> DEFINE seen == [v EXCEPT ![f] = row]
  <2>1. seen \in View /\ Mated(B, S, seen) /\ B[f] \in S
    BY <1>2 DEF View, Mated, Fit
  <2> HIDE DEF seen
  <2>2. ASSUME NEW g \in Chain(seen, f, k)
        PROVE  /\ g \in Folders
               /\ Fit(B, S, g, [seen[g] EXCEPT !.size = @ + s])
               /\ Fit(B, S, g, SubSize(seen[g], s))
    <3>1. g \in Folders /\ B[g] \in S /\ seen[g] # None
      BY <1>2, <2>1, ChainKin
    <3>2. seen[g] \in FolderRow /\ Fit(B, S, g, seen[g])
      BY <2>1, <3>1 DEF View, Mated
    <3> QED BY <3>1, <3>2 DEF Fit, FolderRow, SubSize
  <2>3. /\ AddFileFolderSize(v, f, row, s, k)
             = [g \in Folders |-> IF g \in Chain(seen, f, k)
                                  THEN [seen[g] EXCEPT !.size = @ + s] ELSE None]
        /\ SubFileFolderSize(v, f, row, s, k)
             = [g \in Folders |-> IF g \in Chain(seen, f, k)
                                  THEN SubSize(seen[g], s) ELSE None]
    BY <1>2 DEF AddFileFolderSize, SubFileFolderSize, seen
  <2> QED BY <2>2, <2>3 DEF Mates
<1> QED BY <1>1, <1>2

\* Writes of the class over a table or over other writes of the class.
LEMMA OverlayKin ==
  ASSUME NEW B, NEW S, NEW v, NEW w, Mates(B, S, w)
  PROVE  /\ Mated(B, S, v) => Mated(B, S, Overlay(v, w))
         /\ Mates(B, S, v) => Mates(B, S, Overlay(v, w))
BY DEF Mated, Mates, Overlay

\* And so does a move.
LEMMA TransferKin ==
  ASSUME NEW B, NEW S, NEW v \in View, Mated(B, S, v),
         NEW from, NEW src \in FolderRow \cup {None},
         src # None => from \in Folders /\ Fit(B, S, from, src),
         NEW to, NEW dst \in FolderRow \cup {None},
         dst # None => to \in Folders /\ Fit(B, S, to, dst),
         NEW s \in Nat, NEW k \in 0..Depth
  PROVE  Mates(B, S, Transfer(v, from, src, to, dst, s, k))
<1> DEFINE sub == SubFileFolderSize(v, from, src, s, Depth)
           over == Overlay(v, sub)
<1>1. Depth \in 0..Depth
  BY DepthType
<1>2. sub \in View /\ Mates(B, S, sub)
  BY <1>1, SubType, WalkKin
<1>3. over \in View /\ Mated(B, S, over)
  BY <1>2, OverlayType, OverlayKin
<1> HIDE DEF sub, over
<1>4. Mates(B, S, AddFileFolderSize(over, to, dst, s, k))
  BY <1>3, WalkKin
<1> QED BY <1>2, <1>4, OverlayKin DEF Transfer, sub, over

\* Everything below a folder of the class is of the class.
LEMMA DoomedKin ==
  ASSUME NEW B, NEW S, NEW v,
         \A g \in Folders : v[g] # None /\ v[g].parent \in Folders /\ B[v[g].parent] \in S
           => B[g] \in S,
         NEW f \in Folders, B[f] \in S, NEW k \in Nat
  PROVE  \A g \in Doomed(v, f, k) : g \in Folders /\ B[g] \in S
<1> DEFINE Ours == {g \in Folders : B[g] \in S}
<1>1. \A g \in Folders : v[g] # None /\ v[g].parent \in Ours => g \in Ours
  OBVIOUS
<1>2. f \in Ours
  OBVIOUS
<1> HIDE DEF Ours
<1>3. Doomed(v, f, k) \subseteq Ours
  BY <1>1, <1>2, DoomedWithin
<1> QED BY <1>3 DEF Ours

Own(B, S, g) == g \in Folders /\ B[g] \in S

\* The request names another account's folder, or moves one.
Astray(q) == Foreign /\ (q.op = "movefolder" => q.dir = None)

\* What belongs together in a request's local variables, for the class of its
\* user.
Kin(B, S, q) ==
  q.pc # "idle" =>
    /\ Mates(B, S, q.out.folders)
    /\ \A g \in q.out.drop : Own(B, S, g)
    /\ q.from \in Folders => Own(B, S, q.from)
    /\ q.g \in Folders => Own(B, S, q.g) \/ (q.op = "movefolder" /\ Astray(q))
    /\ q.op \in {"movefolder", "sharesave"} /\ q.to \in Folders => Own(B, S, q.to) \/ Astray(q)
    /\ q.src # None => Fit(B, S, q.from, q.src)
    /\ q.dst # None => Own(B, S, q.to) /\ Fit(B, S, q.to, q.dst)
    /\ q.dir # None => Own(B, S, q.g) /\ Fit(B, S, q.g, q.dir)
    /\ q.op = "movefile" => q.file.owner = q.user /\ (q.pc = "tx" => q.dst # None)
    /\ q.out.insert # None => /\ q.op = "upload" /\ q.out.insert.owner = q.user
                              /\ Own(B, S, q.out.insert.folder)
    /\ q.out.moved # None => /\ q.out.moved.owner = q.user
                             /\ Own(B, S, q.out.moved.folder)

\* Every account is in its class, and the classes are disjoint.
Classes(L) == \A u \in Users : /\ u \in L[u] /\ L[u] \subseteq Users
                               /\ \A v \in L[u] : L[v] = L[u]

\* The rows of the tables, and the requests.
KinInv ==
  /\ Classes(linked)
  /\ \A g \in Folders : folders[g] # None =>
       born[g] \in Users /\ Fit(born, linked[born[g]], g, folders[g])
  /\ \A f \in Files : files[f] # None /\ files[f].owner # None =>
       Own(born, linked[files[f].owner], files[f].folder)
  /\ \A r \in Reqs : Kin(born, linked[req[r].user], req[r])

\* The class of a user whose folders are being looked at.
LEMMA ClassKin ==
  ASSUME TypeInv, KinInv, NEW u \in Users
  PROVE  /\ u \in linked[u] /\ linked[u] \subseteq Users
         /\ Mated(born, linked[u], folders)
         /\ \A g \in Folders : folders[g] # None /\ folders[g].owner \in linked[u] =>
              Own(born, linked[u], g) /\ Fit(born, linked[u], g, folders[g])
         /\ \A g \in Folders : /\ folders[g] # None /\ folders[g].parent \in Folders
                               /\ born[folders[g].parent] \in linked[u]
                               => born[g] \in linked[u]
         /\ \A f \in Files : files[f] # None /\ files[f].owner = u =>
              Own(born, linked[u], files[f].folder)
<1>1. u \in linked[u] /\ linked[u] \subseteq Users /\ \A v \in linked[u] : linked[v] = linked[u]
  BY DEF KinInv, Classes
<1>2. ASSUME NEW g \in Folders, folders[g] # None
      PROVE  born[g] \in Users /\ Fit(born, linked[born[g]], g, folders[g])
  BY <1>2 DEF KinInv
<1>3. Mated(born, linked[u], folders)
  BY <1>1, <1>2 DEF Mated
<1>4. ASSUME NEW g \in Folders, folders[g] # None, folders[g].owner \in linked[u]
      PROVE  Own(born, linked[u], g) /\ Fit(born, linked[u], g, folders[g])
  BY <1>1, <1>2, <1>4 DEF Own, Fit
<1>5. ASSUME NEW g \in Folders, folders[g] # None, folders[g].parent \in Folders,
             born[folders[g].parent] \in linked[u]
      PROVE  born[g] \in linked[u]
  <2>1. born[g] \in Users /\ born[folders[g].parent] \in linked[born[g]]
    BY <1>2, <1>5 DEF Fit
  <2>2. linked[born[folders[g].parent]] = linked[born[g]] /\ born[g] \in linked[born[g]]
    BY <2>1 DEF KinInv, Classes
  <2>3. linked[born[folders[g].parent]] = linked[u]
    BY <1>1, <1>5
  <2> QED BY <2>2, <2>3
<1>6. ASSUME NEW f \in Files, files[f] # None, files[f].owner = u
      PROVE  Own(born, linked[u], files[f].folder)
  BY <1>6, StorageAssumption DEF KinInv
<1> QED BY <1>1, <1>3, <1>4, <1>5, <1>6

\* A free slot holds nothing.
LEMMA IdleKin == \A B, S : Kin(B, S, Idle)
BY DEF Kin, Idle

\* An id that is somebody's stays so, and so do links.
Grows(B, B2) == \A x \in Files \cup Folders : B[x] # None => B2[x] = B[x]
Widens(L, L2) == \A u \in Users : L[u] \subseteq L2[u]

LEMMA GrowKin ==
  ASSUME NEW B, NEW B2, Grows(B, B2), NEW S, None \notin S, NEW S2, S \subseteq S2
  PROVE  /\ \A g : Own(B, S, g) => Own(B2, S2, g)
         /\ \A row : \A g \in Folders : Fit(B, S, g, row) => Fit(B2, S2, g, row)
         /\ \A w : Mates(B, S, w) => Mates(B2, S2, w)
<1>1. \A g : Own(B, S, g) => Own(B2, S2, g)
  BY DEF Own, Grows
<1>2. \A row : \A g \in Folders : Fit(B, S, g, row) => Fit(B2, S2, g, row)
  BY DEF Fit, Grows
<1>3. \A w : Mates(B, S, w) => Mates(B2, S2, w)
  BY <1>2 DEF Mates
<1> QED BY <1>1, <1>2, <1>3

LEMMA GrowRequest ==
  ASSUME NEW B, NEW B2, Grows(B, B2), NEW S, None \notin S, NEW S2, S \subseteq S2,
         NEW q \in Request, ReqOK(q), Kin(B, S, q)
  PROVE  Kin(B2, S2, q)
<1> SUFFICES ASSUME q.pc # "idle" PROVE Kin(B2, S2, q)
  BY DEF Kin
<1>1. /\ \A g : Own(B, S, g) => Own(B2, S2, g)
      /\ \A row : \A g \in Folders : Fit(B, S, g, row) => Fit(B2, S2, g, row)
      /\ \A w : Mates(B, S, w) => Mates(B2, S2, w)
  BY GrowKin
<1>2. /\ q.src # None => Fit(B2, S2, q.from, q.src)
      /\ q.dst # None => Own(B2, S2, q.to) /\ Fit(B2, S2, q.to, q.dst)
      /\ q.dir # None => Own(B2, S2, q.g) /\ Fit(B2, S2, q.g, q.dir)
  BY <1>1 DEF Kin, ReqOK, Own
<1> QED BY <1>1, <1>2 DEF Kin

\* Rows written as their owners', with the ids and links of the time after.
LEMMA TableKin ==
  ASSUME TypeInv, KinInv, Grows(born, born'), Widens(linked, linked'), Classes(linked'),
         NEW r \in Reqs, NEW q, Kin(born', linked'[q.user], q),
         req' = [req EXCEPT ![r] = q],
         \A g \in Folders : folders'[g] # None =>
           \/ folders'[g] = folders[g]
           \/ born'[g] \in Users /\ Fit(born', linked'[born'[g]], g, folders'[g]),
         \A f \in Files : files'[f] # None /\ files'[f].owner # None =>
           \/ files'[f] = files[f]
           \/ Own(born', linked'[files'[f].owner], files'[f].folder)
  PROVE  KinInv'
<1>g. ASSUME NEW u \in Users
      PROVE  /\ None \notin linked[u] /\ linked[u] \subseteq linked'[u]
             /\ \A g : Own(born, linked[u], g) => Own(born', linked'[u], g)
             /\ \A row : \A g \in Folders : Fit(born, linked[u], g, row) => Fit(born', linked'[u], g, row)
  <2>1. None \notin linked[u] /\ linked[u] \subseteq linked'[u]
    BY StorageAssumption DEF Widens, KinInv, Classes
  <2> QED BY <2>1, GrowKin
<1>1. ASSUME NEW g \in Folders, folders'[g] # None
      PROVE  born'[g] \in Users /\ Fit(born', linked'[born'[g]], g, folders'[g])
  <2>1. CASE folders'[g] = folders[g]
    <3>1. born[g] \in Users /\ Fit(born, linked[born[g]], g, folders[g])
      BY <1>1, <2>1 DEF KinInv
    <3>2. born'[g] = born[g]
      BY <3>1, StorageAssumption DEF Grows
    <3> QED BY <1>g, <2>1, <3>1, <3>2
  <2>2. CASE folders'[g] # folders[g]
    BY <1>1, <2>2
  <2> QED BY <2>1, <2>2
<1>2. ASSUME NEW f \in Files, files'[f] # None, files'[f].owner # None
      PROVE  Own(born', linked'[files'[f].owner], files'[f].folder)
  <2>1. CASE files'[f] = files[f]
    <3>1. files[f].owner \in Users
      BY <1>2, <2>1, TableTypes DEF FileRow
    <3> QED BY <1>2, <1>g, <2>1, <3>1 DEF KinInv
  <2>2. CASE files'[f] # files[f]
    BY <1>2, <2>2
  <2> QED BY <2>1, <2>2
<1>3. ASSUME NEW x \in Reqs PROVE Kin(born', linked'[req'[x].user], req'[x])
  <2>1. /\ req[x] \in Request /\ ReqOK(req[x]) /\ Kin(born, linked[req[x].user], req[x])
        /\ req \in [Reqs -> Request]
    BY DEF TypeInv, TypeOK, KinInv
  <2>2. CASE req[x].pc = "idle"
    BY <2>1, <2>2 DEF Kin
  <2>3. CASE req[x].pc # "idle"
    <3>1. req[x].user \in Users
      BY <2>1, <2>3 DEF ReqOK
    <3>2. Kin(born', linked'[req[x].user], req[x])
      BY <1>g, <2>1, <3>1, GrowRequest
    <3> QED BY <2>1, <3>2
  <2> QED BY <2>2, <2>3
<1> QED BY <1>1, <1>2, <1>3 DEF KinInv

\* A slot gets local variables that belong together; the rows stay.
LEMMA StepKin ==
  ASSUME TypeInv, KinInv, NEW r \in Reqs, NEW q, Kin(born, linked[q.user], q),
         req' = [req EXCEPT ![r] = q], UNCHANGED <<files, folders, born, linked>>
  PROVE  KinInv'
<1>1. Grows(born, born') /\ Widens(linked, linked') /\ Classes(linked')
  BY DEF Grows, Widens, KinInv
<1> QED BY <1>1, TableKin

\* Linking two accounts joins their classes.
LEMMA LinkGrows ==
  ASSUME TypeInv, Classes(linked), NEW u \in Users, NEW g, g \in Folders => born[g] \in Users,
         Link(u, g)
  PROVE  /\ Classes(linked') /\ Widens(linked, linked')
         /\ g \in Folders => born[g] \in linked'[u]
<1> DEFINE all == IF g \in Folders THEN linked[u] \cup linked[born[g]] ELSE linked[u]
<1>1. linked' = [v \in Users |-> IF v \in all THEN all ELSE linked[v]]
  BY DEF Link
<1>2. u \in all /\ all \subseteq Users /\ (g \in Folders => born[g] \in all)
  BY DEF Classes
<1>3. \A v \in all : linked[v] \subseteq all
  BY DEF Classes
<1>4. \A v \in Users \ all, x \in all : x \notin linked[v]
  <2> SUFFICES ASSUME NEW v \in Users \ all, NEW x \in all, x \in linked[v] PROVE FALSE
    OBVIOUS
  <2>1. linked[x] = linked[v] /\ v \in linked[v]
    BY DEF Classes
  <2> QED BY <1>3, <2>1
<1> HIDE DEF all
<1>5. Classes(linked')
  BY <1>1, <1>2, <1>4 DEF Classes
<1>6. Widens(linked, linked')
  BY <1>1, <1>3 DEF Widens
<1> QED BY <1>1, <1>2, <1>5, <1>6

LEMMA LinkKin ==
  ASSUME TypeInv, KinInv, NEW r \in Reqs, NEW u \in Users, NEW g,
         g \in Folders => born[g] \in Users, Link(u, g),
         NEW q, q.user = u, Kin(born, linked'[u], q),
         req' = [req EXCEPT ![r] = q], UNCHANGED <<files, folders, born>>
  PROVE  KinInv'
<1>1. Grows(born, born') /\ Widens(linked, linked') /\ Classes(linked')
  BY LinkGrows DEF Grows, KinInv
<1> QED BY <1>1, TableKin

\* Ending a request.
LEMMA KinDone ==
  ASSUME TypeInv, KinInv, NEW r \in Reqs, Done(r), UNCHANGED <<files, folders, born, linked>>
  PROVE  KinInv'
BY IdleKin, StepKin DEF Done

\* Accepting a request: what the rows read say is of the class; where a client
\* names another account's folder and the handler does not stop, the two are
\* linked.
LEMMA ArriveKin == ASSUME TypeInv, KinInv, NEW r \in Reqs, Arrive(r) PROVE KinInv'
<1>t. /\ \A f \in Files : files[f] \in FileRow \cup {None}
      /\ \A g \in Folders : folders[g] \in FolderRow \cup {None}
      /\ folders \in View
  BY TableTypes
<1>n. \A B, S : Mates(B, S, NoWrites)
  BY DEF Mates, NoWrites
<1>1. ASSUME NEW u \in Users, NEW g \in Folders, NEW c \in Contents, UploadCheck(r, u, g, c) PROVE KinInv'
  <2> DEFINE q == [Idle EXCEPT !.op = "upload", !.user = u, !.pc = "tx",
                              !.g = g, !.c = c, !.store = stores[u]]
  <2>1. /\ req' = [req EXCEPT ![r] = q] /\ UNCHANGED <<files, folders, born>>
        /\ Link(u, g) /\ g \in Named(u) /\ q.user = u
    BY <1>1 DEF UploadCheck, tables, Idle
  <2>2. born[g] \in Users /\ Own(born, linked'[u], g)
    BY <2>1, NamedBorn, LinkGrows DEF KinInv, Own
  <2>3. Kin(born, linked'[u], q)
    BY <1>n, <2>2, FoldersAssumption DEF Kin, Idle, Nothing
  <2> HIDE DEF q
  <2> QED BY <2>1, <2>2, <2>3, LinkKin
<1>2. ASSUME NEW u \in Users, NEW f \in Files, DeleteRead(r, u, f) PROVE KinInv'
  <2> DEFINE S == linked[u]
             row == files[f]
             w == SubFileFolderSize(folders, row.folder, folders[row.folder],
                                    Length(row.md5), Depth)
             spin == WalkSpins(folders, row.folder, folders[row.folder], Depth)
             q == [Idle EXCEPT !.op = "deletefile", !.user = u, !.pc = "chain",
                     !.f = f, !.c = row.md5, !.file = row, !.store = stores[u],
                     !.out = [Nothing EXCEPT !.folders = w, !.spin = spin]]
  <2>1. req' = [req EXCEPT ![r] = q] /\ UNCHANGED <<files, folders, born, linked>> /\ q.user = u
    BY <1>2 DEF DeleteRead, tables, history, Idle
  <2>2. Own(born, S, row.folder) /\ Mated(born, S, folders)
    BY <1>2, ClassKin DEF DeleteRead
  <2>3. Length(row.md5) \in Nat /\ Depth \in 0..Depth
    BY LengthType, DepthType
  <2>4. folders[row.folder] # None => Fit(born, S, row.folder, folders[row.folder])
    BY <2>2 DEF Mated, Own
  <2>5. row.folder \in Folders /\ folders[row.folder] \in FolderRow \cup {None}
    BY <1>t, <2>2 DEF Own
  <2> HIDE DEF row, S
  <2>6. Mates(born, S, w)
    BY <1>t, <2>2, <2>3, <2>4, <2>5, WalkKin
  <2> HIDE DEF w, spin
  <2>7. Kin(born, S, q)
    BY <2>6, FoldersAssumption DEF Kin, Idle, Nothing
  <2> HIDE DEF q
  <2> QED BY <2>1, <2>7, StepKin DEF S
<1>3. ASSUME NEW u \in Users, NEW f \in Files, NEW to \in Folders, MoveFileRead(r, u, f, to) PROVE KinInv'
  <2> DEFINE q == [Idle EXCEPT !.op = "movefile", !.user = u, !.pc = "read2",
                              !.f = f, !.file = files[f],
                              !.from = files[f].folder, !.to = to]
  <2>1. req' = [req EXCEPT ![r] = q] /\ UNCHANGED <<files, folders, born, linked>> /\ q.user = u
    BY <1>3 DEF MoveFileRead, tables, history, Idle
  <2>2. files[f].owner = u /\ Own(born, linked[u], files[f].folder)
    BY <1>3, ClassKin DEF MoveFileRead
  <2>3. Kin(born, linked[u], q)
    BY <1>n, <2>2, FoldersAssumption DEF Kin, Idle, Nothing
  <2> HIDE DEF q
  <2> QED BY <2>1, <2>3, StepKin
<1>4. ASSUME NEW u \in Users, NEW g \in Folders, CreateFolderCheck(r, u, g) PROVE KinInv'
  <2> DEFINE q == [Idle EXCEPT !.op = "createfolder", !.user = u,
                              !.pc = "tx", !.g = g]
  <2>1. req' = [req EXCEPT ![r] = q] /\ UNCHANGED <<files, folders, born, linked>> /\ q.user = u
    BY <1>4 DEF CreateFolderCheck, tables, history, Idle
  <2>2. Own(born, linked[u], g)
    BY <1>4, ClassKin DEF CreateFolderCheck
  <2>3. Kin(born, linked[u], q)
    BY <1>n, <2>2, FoldersAssumption DEF Kin, Idle, Nothing
  <2> HIDE DEF q
  <2> QED BY <2>1, <2>3, StepKin
<1>5. ASSUME NEW u \in Users, NEW g \in Folders, NEW to \in Folders \cup {Top},
              MoveFolderRead(r, u, g, to)
     PROVE  KinInv'
  <2> DEFINE dir == IF folders[g] # None /\ folders[g].owner = u THEN folders[g] ELSE None
             from == IF dir = None THEN None ELSE dir.parent
             with == IF dir = None THEN Top ELSE to
             q == [Idle EXCEPT !.op = "movefolder", !.user = u, !.pc = "read2",
                               !.g = g, !.dir = dir, !.to = to, !.from = from]
  <2>1. /\ req' = [req EXCEPT ![r] = q] /\ UNCHANGED <<files, folders, born>>
        /\ Link(u, with) /\ g \in Named(u) /\ to \in Named(u) \cup {Top} /\ q.user = u
    BY <1>5 DEF MoveFolderRead, tables, Idle
  <2>2. /\ to \in Folders => born[to] \in Users /\ (~Foreign => born[to] = u)
        /\ ~Foreign => born[g] = u
        /\ Top \notin Folders /\ None \notin Folders
    BY <2>1, NamedBorn, FoldersAssumption
  <2>3. /\ u \in linked'[u] /\ linked[u] \subseteq linked'[u]
        /\ dir # None /\ to \in Folders => born[to] \in linked'[u]
    BY <2>1, <2>2, LinkGrows DEF Classes, KinInv, Widens
  <2>4. dir # None => Own(born, linked'[u], g) /\ Fit(born, linked'[u], g, dir)
    BY <2>3, ClassKin DEF Own, Fit
  <2>5. from \in Folders => Own(born, linked'[u], from)
    BY <2>2, <2>4 DEF Fit, Own
  <2>6. \/ Own(born, linked'[u], g)
        \/ Foreign /\ dir = None
    BY <2>2, <2>3, <2>4 DEF Own
  <2>7. to \in Folders => Own(born, linked'[u], to) \/ (Foreign /\ dir = None)
    BY <2>2, <2>3 DEF Own
  <2>8. with \in Folders => born[with] \in Users
    BY <2>2
  <2> HIDE DEF dir, from, with
  <2>9. Kin(born, linked'[u], q)
    BY <1>n, <2>4, <2>5, <2>6, <2>7 DEF Kin, Astray, Idle, Nothing
  <2> HIDE DEF q
  <2> QED BY <2>1, <2>8, <2>9, LinkKin
<1>6. ASSUME NEW u \in Users, NEW g \in Folders, DeleteFolderCheck(r, u, g) PROVE KinInv'
  <2> DEFINE q == [Idle EXCEPT !.op = "deletefolder", !.user = u, !.pc = "tx",
                              !.g = g, !.dir = folders[g],
                              !.from = folders[g].parent]
  <2>1. req' = [req EXCEPT ![r] = q] /\ UNCHANGED <<files, folders, born, linked>> /\ q.user = u
    BY <1>6 DEF DeleteFolderCheck, tables, history, Idle
  <2>2. Own(born, linked[u], g) /\ Fit(born, linked[u], g, folders[g])
    BY <1>6, ClassKin DEF DeleteFolderCheck
  <2>3. folders[g].parent \in Folders => Own(born, linked[u], folders[g].parent)
    BY <2>2 DEF Fit, Own
  <2>4. Kin(born, linked[u], q)
    BY <1>n, <2>2, <2>3 DEF Kin, Idle, Nothing
  <2> HIDE DEF q
  <2> QED BY <2>1, <2>4, StepKin
<1>7. ASSUME NEW u \in Users, NEW f \in Files, NEW to \in Folders, ShareRead(r, u, f, to) PROVE KinInv'
  <2> DEFINE q == [Idle EXCEPT !.op = "sharesave", !.user = u, !.pc = "read2",
                              !.f = f, !.file = files[f], !.to = to,
                              !.c = IF files[f] = None THEN Blank ELSE files[f].md5]
  <2>1. /\ req' = [req EXCEPT ![r] = q] /\ UNCHANGED <<files, folders, born, linked>>
        /\ to \in Named(u) /\ q.user = u
    BY <1>7 DEF ShareRead, tables, history, Idle
  <2>2. Own(born, linked[u], to) \/ Foreign
    BY <2>1, NamedBorn, ClassKin DEF Own
  <2>3. Kin(born, linked[u], q)
    BY <1>n, <2>2, FoldersAssumption DEF Kin, Astray, Idle, Nothing
  <2> HIDE DEF q
  <2> QED BY <2>1, <2>3, StepKin
<1>8. ASSUME NEW u \in Users, NEW v \in Volumes, SetVolumeRead(r, u, v) PROVE KinInv'
  <2> DEFINE q == [Idle EXCEPT !.op = "setvolume", !.user = u, !.pc = "tx",
                              !.vol = v, !.store = stores[u]]
  <2>1. req' = [req EXCEPT ![r] = q] /\ UNCHANGED <<files, folders, born, linked>>
    BY <1>8 DEF SetVolumeRead, tables, history
  <2>2. Kin(born, linked[q.user], q)
    BY <1>n, FoldersAssumption DEF Kin, Idle, Nothing
  <2> HIDE DEF q
  <2> QED BY <2>1, <2>2, StepKin
<1>9. ASSUME NEW f \in Files, AdminDeleteRead(r, f) PROVE KinInv'
  <2> DEFINE q == [Idle EXCEPT !.op = "admindelete", !.user = born[f],
                              !.pc = "read2",
                              !.c = IF files[f] = None THEN Blank ELSE files[f].md5]
  <2>1. req' = [req EXCEPT ![r] = q] /\ UNCHANGED <<files, folders, born, linked>>
    BY <1>9 DEF AdminDeleteRead, tables, history
  <2>2. Kin(born, linked[q.user], q)
    BY <1>n, FoldersAssumption DEF Kin, Idle, Nothing
  <2> HIDE DEF q
  <2> QED BY <2>1, <2>2, StepKin
<1> QED BY <1>1, <1>2, <1>3, <1>4, <1>5, <1>6, <1>7, <1>8, <1>9 DEF Arrive

\* A step that reads a row reads one of the class, or moves on.
LEMMA ReadKin == ASSUME TypeInv, KinInv, NEW r \in Reqs,
                        \/ MoveFileRead2(r) \/ MoveFileRead3(r)
                        \/ MoveFolderRead2(r) \/ MoveFolderRead3(r)
                        \/ ShareRead2(r) \/ ShareRead3(r)
                        \/ AdminDeleteFind(r) \/ LockChain(r)
                 PROVE  KinInv'
<1> DEFINE q == req[r]
           S == linked[q.user]
<1>q. q \in Request /\ ReqOK(q) /\ Kin(born, S, q)
  BY DEF TypeInv, TypeOK, KinInv
<1>k. UNCHANGED <<files, folders, born, linked>>
  BY DEF MoveFileRead2, MoveFileRead3, MoveFolderRead2, MoveFolderRead3, ShareRead2,
         ShareRead3, AdminDeleteFind, LockChain, tables, history
<1>n. q.pc # "idle" /\ q.user \in Users
  BY <1>q DEF MoveFileRead2, MoveFileRead3, MoveFolderRead2, MoveFolderRead3, ShareRead2,
         ShareRead3, AdminDeleteFind, LockChain, At, ReqOK
<1>g. \A g \in Folders : folders[g] # None /\ (folders[g].owner \in S \/ born[g] \in S) =>
        Own(born, S, g) /\ Fit(born, S, g, folders[g])
  BY <1>n, ClassKin DEF Mated, Own
<1>o. q.user \in S
  BY <1>n, ClassKin
<1> HIDE DEF S
<1>st. ASSUME NEW w, w.user = q.user, Kin(born, S, w), req' = [req EXCEPT ![r] = w]
       PROVE  KinInv'
  BY <1>k, <1>st, StepKin DEF S
<1>1. CASE MoveFileRead2(r)
  <2> DEFINE src == folders[q.from]
             w == [q EXCEPT !.src = src, !.pc = "read3"]
  <2>1. req' = [req EXCEPT ![r] = w] /\ q.from \in Folders
    BY <1>1, <1>q DEF MoveFileRead2, At, TypeInv, TypeOK, ReqOK
  <2>2. src # None => Fit(born, S, q.from, src)
    BY <1>g, <1>n, <1>q, <2>1 DEF Kin, Own
  <2> HIDE DEF src
  <2>3. Kin(born, S, w)
    BY <1>n, <1>q, <2>2 DEF Kin, Astray, Request
  <2>w. w.user = q.user
    BY <1>q DEF Request
  <2> QED BY <1>k, <1>st, <2>1, <2>3, <2>w
<1>2. CASE MoveFileRead3(r)
  <2> DEFINE dst == folders[q.to]
             w == [q EXCEPT !.dst = dst, !.pc = "tx"]
  <2>1. CASE Done(r)
    BY <1>k, <2>1, KinDone
  <2>2. CASE ~Done(r)
    <3>1. req' = [req EXCEPT ![r] = w] /\ q.to \in Folders /\ dst # None /\ dst.owner = q.user
      BY <1>2, <1>q, <2>2 DEF MoveFileRead3, At, TypeInv, TypeOK, ReqOK
    <3>2. Own(born, S, q.to) /\ Fit(born, S, q.to, dst)
      BY <1>g, <1>o, <3>1
    <3> HIDE DEF dst
    <3>3. Kin(born, S, w)
      BY <1>n, <1>q, <3>1, <3>2 DEF Kin, Astray, Request
    <3>w. w.user = q.user
      BY <1>q DEF Request
    <3> QED BY <1>k, <1>st, <3>1, <3>3, <3>w
  <2> QED BY <2>1, <2>2
<1>3. CASE MoveFolderRead2(r) \/ ShareRead2(r)
  <2> DEFINE row == RowAt(folders, q.to)
             dst == IF row # None /\ row.owner = q.user THEN row ELSE None
             w == [q EXCEPT !.dst = dst, !.pc = "read3"]
  <2>1. req' = [req EXCEPT ![r] = w] /\ q.op \in {"movefolder", "sharesave"}
    BY <1>3, <1>q DEF MoveFolderRead2, ShareRead2, At, TypeInv, TypeOK, ReqOK, RowAt
  <2>2. dst # None => Own(born, S, q.to) /\ Fit(born, S, q.to, dst)
    BY <1>g, <1>o, <2>1 DEF RowAt
  <2> HIDE DEF dst
  <2>3. Kin(born, S, w)
    BY <1>n, <1>q, <2>1, <2>2 DEF Kin, Astray, Request
  <2>w. w.user = q.user
    BY <1>q DEF Request
  <2> QED BY <1>k, <1>st, <2>1, <2>3, <2>w
<1>4. CASE MoveFolderRead3(r)
  <2> DEFINE src == RowAt(folders, q.from)
             w == [q EXCEPT !.src = src, !.pc = "tx"]
  <2>1. req' = [req EXCEPT ![r] = w] /\ q.op = "movefolder"
    BY <1>4 DEF MoveFolderRead3, At, TypeInv, TypeOK
  <2>2. src # None => Fit(born, S, q.from, src)
    BY <1>g, <1>n, <1>q DEF RowAt, Kin, Own
  <2> HIDE DEF src
  <2>3. Kin(born, S, w)
    BY <1>n, <1>q, <2>1, <2>2 DEF Kin, Astray, Request
  <2>w. w.user = q.user
    BY <1>q DEF Request
  <2> QED BY <1>k, <1>st, <2>1, <2>3, <2>w
<1>5. CASE ShareRead3(r)
  <2> DEFINE st == IF q.dst = None THEN None ELSE stores[q.user]
             w == [q EXCEPT !.pc = "tx", !.store = st]
  <2>1. (req' = [req EXCEPT ![r] = w] \/ Done(r)) /\ q.op = "sharesave"
    BY <1>5 DEF ShareRead3, At, TypeInv, TypeOK
  <2> HIDE DEF st
  <2>2. Kin(born, S, w)
    BY <1>n, <1>q, <2>1 DEF Kin, Astray, Request
  <2>w. w.user = q.user
    BY <1>q DEF Request
  <2> QED BY <1>k, <1>st, <2>1, <2>2, <2>w, KinDone
<1>6. CASE AdminDeleteFind(r)
  <2> DEFINE same == {x \in Files : files[x] # None /\ files[x].md5 = q.c}
             x0 == CHOOSE x \in same : TRUE
             w == [q EXCEPT !.f = x0, !.pc = "tx"]
  <2>1. (req' = [req EXCEPT ![r] = w] \/ Done(r)) /\ q.op = "admindelete"
    BY <1>6 DEF AdminDeleteFind, At, TypeInv, TypeOK
  <2> HIDE DEF x0
  <2>2. Kin(born, S, w)
    BY <1>n, <1>q, <2>1 DEF Kin, Astray, Request
  <2>w. w.user = q.user
    BY <1>q DEF Request
  <2> QED BY <1>k, <1>st, <2>1, <2>2, <2>w, KinDone
<1>7. CASE LockChain(r)
  <2> DEFINE held == q.held \cup Rows(q.out, q.user)
             pc == IF q.out.spin THEN "spin"
                   ELSE IF q.op = "deletefile" THEN "delete" ELSE "create"
             w == [q EXCEPT !.held = held, !.pc = pc]
  <2>1. req' = [req EXCEPT ![r] = w] /\ pc # "tx"
    BY <1>7 DEF LockChain, TypeInv, TypeOK
  <2> HIDE DEF held, pc
  <2>2. Kin(born, S, w)
    BY <1>n, <1>q, <2>1 DEF Kin, Astray, Request
  <2>w. w.user = q.user
    BY <1>q DEF Request
  <2> QED BY <1>k, <1>st, <2>1, <2>2, <2>w
<1> QED BY <1>1, <1>2, <1>3, <1>4, <1>5, <1>6, <1>7

\* A transaction prepares writes of the class's folders, and file rows that are
\* the user's in a folder of the class.
LEMMA PrepareKin ==
  ASSUME TypeInv, KinInv, NEW r \in Reqs, NEW S, S = linked[req[r].user], NEW held, NEW o, NEW whole,
         NEW next \in {"commit", "chain"}, req[r].pc # "idle",
         Mates(born, S, o.folders),
         \A g \in o.drop : Own(born, S, g),
         o.insert # None => /\ req[r].op = "upload" /\ o.insert.owner = req[r].user
                            /\ Own(born, S, o.insert.folder),
         o.moved # None => /\ o.moved.owner = req[r].user
                           /\ Own(born, S, o.moved.folder),
         Prepare(r, held, o, whole, next), UNCHANGED <<tables, history, served>>
  PROVE  KinInv'
<1> DEFINE pc == IF o.spin /\ next = "commit" THEN "spin" ELSE next
           q == [req[r] EXCEPT !.held = held, !.out = o, !.whole = whole, !.pc = pc]
<1>1. req[r] \in Request /\ Kin(born, S, req[r])
  BY DEF TypeInv, TypeOK, KinInv
<1>2. req' = [req EXCEPT ![r] = q] /\ pc # "tx"
  BY DEF Prepare, TypeInv, TypeOK
<1> HIDE DEF pc
<1>3. Kin(born, S, q) /\ q.user = req[r].user
  BY <1>1, <1>2 DEF Kin, Astray, Request
<1> QED BY <1>2, <1>3, StepKin DEF tables, history
\* What a transaction will write belongs to the class of the request's user.
LEMMA TxKin == ASSUME TypeInv, KinInv, NEW r \in Reqs,
                      \/ UploadTx(r) \/ MoveFileTx(r) \/ MoveFolderTx(r)
                      \/ DeleteFolderTx(r) \/ ShareTx(r)
               PROVE  KinInv'
<1> DEFINE q == req[r]
           u == q.user
           S == linked[q.user]
<1>q. q \in Request /\ ReqOK(q) /\ Kin(born, S, q)
  BY DEF TypeInv, TypeOK, KinInv
<1>t. folders \in View /\ \A g : RowAt(folders, g) \in FolderRow \cup {None}
  BY TableTypes
<1>n. q.pc # "idle" /\ q.pc = "tx" /\ u \in Users
  BY <1>q DEF UploadTx, UploadSaves, MoveFileTx, MoveFolderTx, DeleteFolderTx, ShareTx, At, ReqOK
<1>m. Mated(born, S, folders)
  BY <1>n, ClassKin
<1>g. \A g \in Folders : /\ folders[g] # None /\ folders[g].parent \in Folders
                         /\ born[folders[g].parent] \in S
                         => born[g] \in S
  BY <1>n, ClassKin
<1>d. q.src \in FolderRow \cup {None} /\ q.dst \in FolderRow \cup {None}
      /\ q.dir \in FolderRow \cup {None}
  BY <1>q DEF Request
<1>s. q.src # None => q.from \in Folders /\ Fit(born, S, q.from, q.src)
  BY <1>n, <1>q DEF Kin, ReqOK
<1>e. q.dst # None => q.to \in Folders /\ Fit(born, S, q.to, q.dst)
  BY <1>n, <1>q DEF Kin, Own
<1>c. Cuts \subseteq 0..Depth /\ Depth \in 0..Depth
  BY DepthType DEF Cuts
<1>w. \A B, T : Mates(B, T, NoWrites)
  BY DEF Mates, NoWrites
<1>p. ASSUME NEW held, NEW o, NEW whole, NEW next \in {"commit", "chain"},
             Prepare(r, held, o, whole, next), UNCHANGED <<tables, history, served>>,
             Mates(born, S, o.folders), \A g \in o.drop : Own(born, S, g),
             o.insert # None => /\ q.op = "upload" /\ o.insert.owner = u
                                /\ Own(born, S, o.insert.folder),
             o.moved # None => o.moved.owner = u /\ Own(born, S, o.moved.folder)
      PROVE  KinInv'
  BY <1>n, <1>p, PrepareKin
<1> HIDE DEF S
<1>1. CASE UploadTx(r)
  <2> DEFINE s == Length(q.c)
             st == AddCurrentSize(q.store, s)
             row == RowAt(folders, q.g)
             ins == [owner |-> q.user, md5 |-> q.c, folder |-> q.g]
             w == AddFileFolderSize(folders, q.g, row, s, Depth)
             spin == WalkSpins(folders, q.g, row, Depth)
             o == [Nothing EXCEPT !.insert = ins, !.store = st, !.folders = w, !.spin = spin]
  <2>1. q.op = "upload" /\ Own(born, S, q.g) /\ q.g \in Folders
    BY <1>1, <1>n, <1>q DEF UploadTx, UploadSaves, At, ReqOK, Kin
  <2>2. row # None => Fit(born, S, q.g, row)
    BY <1>m, <2>1 DEF RowAt, Own, Mated
  <2>3. Mates(born, S, w)
    BY <1>c, <1>m, <1>t, <2>1, <2>2, LengthType, WalkKin DEF Own
  <2>4. ins.owner = u /\ Own(born, S, ins.folder)
    BY <2>1
  <2>5. /\ UNCHANGED <<tables, history, served>>
        /\ Done(r) \/ Prepare(r, {q.user, q.c}, o, TRUE, "commit")
    BY <1>1 DEF UploadTx, UploadSaves
  <2> HIDE DEF st, ins, w, spin
  <2>6. o.folders = w /\ o.drop = {} /\ o.insert = ins /\ o.moved = None
    BY DEF Nothing
  <2> HIDE DEF o
  <2>7. CASE Done(r)
    BY <2>5, <2>7, KinDone DEF tables, history
  <2> QED BY <1>p, <2>1, <2>3, <2>4, <2>5, <2>6, <2>7
<1>2. CASE MoveFileTx(r)
  <2> DEFINE s == Length(q.file.md5)
             t == Transfer(folders, q.from, q.src, q.to, q.dst, s, Depth)
             w == IF Moving(q) THEN t ELSE NoWrites
             spin == Moving(q) /\ TransferSpins(folders, q.from, q.src, q.to, q.dst, s, Depth)
             mv == [q.file EXCEPT !.folder = q.to]
             o == [Nothing EXCEPT !.moved = mv, !.folders = w, !.spin = spin]
  <2>1. q.file \in FileRow /\ q.file.owner = u /\ q.dst # None
    BY <1>2, <1>n, <1>q DEF MoveFileTx, At, ReqOK, Kin
  <2>2. mv.owner = u /\ Own(born, S, mv.folder)
    BY <1>e, <2>1 DEF FileRow, Own, Fit
  <2>3. Mates(born, S, t)
    <3>1. s \in Nat
      BY LengthType
    <3> HIDE DEF s
    <3> QED BY <1>c, <1>d, <1>e, <1>m, <1>s, <1>t, <3>1, TransferKin
  <2>4. UNCHANGED <<tables, history, served>> /\ Prepare(r, Wants(q), o, TRUE, "commit")
    BY <1>2 DEF MoveFileTx
  <2>5. Mates(born, S, w)
    BY <1>w, <2>3
  <2> HIDE DEF w, spin, mv
  <2>6. o.folders = w /\ o.drop = {} /\ o.insert = None /\ o.moved = mv
    BY DEF Nothing
  <2> HIDE DEF o
  <2> QED BY <1>p, <2>2, <2>4, <2>5, <2>6
<1>3. CASE MoveFolderTx(r)
  <2> DEFINE size == IF q.dir = None THEN 0 ELSE q.dir.size
             saved == IF q.dir = None THEN NoWrites
                      ELSE [NoWrites EXCEPT ![q.g] = [q.dir EXCEPT !.parent = q.to]]
             seen == Overlay(folders, saved)
             t(k) == Transfer(seen, q.from, q.src, q.to, q.dst, size, k)
             w(k) == IF Moving(q) THEN Overlay(saved, t(k)) ELSE saved
             spin(k) == Moving(q) /\ TransferSpins(seen, q.from, q.src, q.to, q.dst, size, k)
             o(k) == [Nothing EXCEPT !.folders = w(k), !.spin = spin(k)]
  <2>1. /\ q.g \in Folders /\ q.to \in Folders \cup {Top} /\ Top \notin Folders
        /\ q.dir # None => /\ Own(born, S, q.g) /\ Fit(born, S, q.g, q.dir)
                           /\ q.to \in Folders => Own(born, S, q.to)
    BY <1>3, <1>n, <1>q, FoldersAssumption DEF MoveFolderTx, At, ReqOK, Kin, Astray
  <2>2. size \in Nat
    BY <1>d DEF FolderRow
  <2>3. saved \in View /\ Mates(born, S, saved)
    <3>1. CASE q.dir = None
      BY <1>w, <3>1 DEF NoWrites, View
    <3>2. CASE q.dir # None
      <4> DEFINE row == [q.dir EXCEPT !.parent = q.to]
      <4>1. row \in FolderRow /\ Fit(born, S, q.g, row)
        BY <1>d, <2>1, <3>2 DEF FolderRow, Fit, Own
      <4>2. saved = [g \in Folders |-> IF g = q.g THEN row ELSE None]
        BY <3>2 DEF NoWrites
      <4> HIDE DEF row, saved
      <4> QED BY <2>1, <4>1, <4>2 DEF View, Mates
    <3> QED BY <3>1, <3>2
  <2>4. UNCHANGED <<tables, history, served>>
        /\ \E k \in Cuts : Prepare(r, Wants(q), o(k), k = Depth, "commit")
    BY <1>3 DEF MoveFolderTx
  <2>5. PICK k \in Cuts : Prepare(r, Wants(q), o(k), k = Depth, "commit")
    BY <2>4
  <2> HIDE DEF size, saved
  <2>6. seen \in View /\ Mated(born, S, seen)
    BY <1>m, <1>t, <2>3, OverlayType, OverlayKin
  <2> HIDE DEF seen
  <2>7. Mates(born, S, t(k))
    BY <1>c, <1>d, <1>e, <1>s, <2>2, <2>6, TransferKin
  <2> HIDE DEF t
  <2>8. Mates(born, S, w(k))
    BY <2>3, <2>7, OverlayKin
  <2> HIDE DEF w, spin
  <2>9. o(k).folders = w(k) /\ o(k).drop = {} /\ o(k).insert = None /\ o(k).moved = None
    BY DEF Nothing
  <2> HIDE DEF o
  <2> QED BY <1>p, <2>4, <2>5, <2>8, <2>9
<1>4. CASE DeleteFolderTx(r)
  <2> DEFINE down(n) == Doomed(folders, q.g, n)
             left == [g \in Folders |-> IF g \in down(Depth) THEN None ELSE folders[g]]
             cut(n, m) == [Nothing EXCEPT !.drop = down(n), !.purge = down(m)]
             sub(k) == SubFileFolderSize(left, q.from, RowAt(left, q.from), q.dir.size, k)
             spin(k) == WalkSpins(left, q.from, RowAt(left, q.from), k)
             up(k) == [cut(Depth, Depth) EXCEPT !.folders = sub(k), !.spin = spin(k)]
             st == SubCurrentSize(stores[q.user], q.dir.size)
             full == [up(Depth) EXCEPT !.store = st]
  <2>1. q.g \in Folders /\ Own(born, S, q.g) /\ q.dir.size \in Nat
        /\ (q.from \in Folders => Own(born, S, q.from))
    BY <1>4, <1>n, <1>q DEF DeleteFolderTx, At, ReqOK, FolderRow, Kin
  <2>2. /\ UNCHANGED <<tables, history, served>>
        /\ \/ Prepare(r, {}, full, TRUE, "commit")
           \/ \E n \in 1..Depth, m \in {0, 1} : Prepare(r, {}, cut(n, n - m), FALSE, "commit")
           \/ \E k \in 0..Depth : Prepare(r, {}, up(k), FALSE, "commit")
    BY <1>4 DEF DeleteFolderTx
  <2>3. \A n \in Nat : \A g \in down(n) : Own(born, S, g)
    <3> SUFFICES ASSUME NEW n \in Nat PROVE \A g \in Doomed(folders, q.g, n) : Own(born, S, g)
      OBVIOUS
    <3>1. q.g \in Folders /\ born[q.g] \in S
      BY <2>1 DEF Own
    <3>2. \A g \in Doomed(folders, q.g, n) : g \in Folders /\ born[g] \in S
      BY <1>g, <3>1, DoomedKin
    <3> QED BY <3>2 DEF Own
  <2>4. left \in View /\ Mated(born, S, left)
    <3> HIDE DEF down
    <3> QED BY <1>m, <1>t DEF View, Mated
  <2>5. /\ RowAt(left, q.from) \in FolderRow \cup {None}
        /\ RowAt(left, q.from) # None =>
             /\ q.from \in Folders
             /\ Fit(born, S, q.from, RowAt(left, q.from))
    <3> HIDE DEF left
    <3> QED BY <2>1, <2>4 DEF RowAt, View, Mated, Own
  <2> HIDE DEF left, down
  <2>6. \A k \in 0..Depth : Mates(born, S, sub(k))
    BY <2>1, <2>4, <2>5, WalkKin
  <2> HIDE DEF sub, spin, st
  <2>7. \A n, m : /\ cut(n, m).folders = NoWrites /\ cut(n, m).drop = down(n)
                  /\ cut(n, m).insert = None /\ cut(n, m).moved = None
    BY DEF Nothing
  <2>8. \A k : /\ up(k).folders = sub(k) /\ up(k).drop = down(Depth)
               /\ up(k).insert = None /\ up(k).moved = None
    BY DEF Nothing
  <2>9. /\ full.folders = sub(Depth) /\ full.drop = down(Depth)
        /\ full.insert = None /\ full.moved = None
    BY DEF Nothing
  <2> HIDE DEF cut, up, full
  <2>10. CASE Prepare(r, {}, full, TRUE, "commit")
    BY <1>c, <1>p, <2>2, <2>3, <2>6, <2>9, <2>10, DepthType
  <2>11. ASSUME NEW n \in 1..Depth, NEW m \in {0, 1},
                Prepare(r, {}, cut(n, n - m), FALSE, "commit")
         PROVE  KinInv'
    <3>1. n \in Nat
      BY DepthType
    <3> QED BY <1>p, <1>w, <2>2, <2>3, <2>7, <2>11, <3>1
  <2>12. ASSUME NEW k \in 0..Depth, Prepare(r, {}, up(k), FALSE, "commit")
         PROVE  KinInv'
    BY <1>p, <2>2, <2>3, <2>6, <2>8, <2>12, DepthType
  <2> QED BY <2>2, <2>10, <2>11, <2>12
<1>5. CASE ShareTx(r)
  <2> DEFINE s == Length(q.c)
             st == IF q.store = None THEN None ELSE AddCurrentSize(q.store, s)
             w(k) == AddFileFolderSize(folders, q.to, q.dst, s, k)
             spin(k) == WalkSpins(folders, q.to, q.dst, k)
             o(k) == [Nothing EXCEPT !.store = st, !.folders = w(k), !.spin = spin(k)]
  <2>1. /\ UNCHANGED <<tables, history, served>>
        /\ \E k \in Cuts : Prepare(r, Wants(q), o(k), k = Depth,
                                   IF k = Depth THEN "chain" ELSE "commit")
    BY <1>5 DEF ShareTx
  <2>2. PICK k \in Cuts : Prepare(r, Wants(q), o(k), k = Depth,
                                  IF k = Depth THEN "chain" ELSE "commit")
    BY <2>1
  <2>3. Mates(born, S, w(k))
    BY <1>c, <1>d, <1>e, <1>m, <1>t, LengthType, WalkKin
  <2> HIDE DEF st, w, spin
  <2>4. o(k).folders = w(k) /\ o(k).drop = {} /\ o(k).insert = None /\ o(k).moved = None
    BY DEF Nothing
  <2> HIDE DEF o
  <2> QED BY <1>p, <2>1, <2>2, <2>3, <2>4
<1> QED BY <1>1, <1>2, <1>3, <1>4, <1>5
-----------------------------------------------------------------------------
(* Ids.  An id that is inserted is nobody's yet: every request that is going *)
(* to insert one has one left.                                               *)

Inserting == {"upload", "sharesave"}

Pending(ops) == {r \in Reqs : req[r].op \in ops /\ ~At(r, "sharesave", "commit")}

Free(S) == {x \in S : born[x] = None}

IdInv ==
  /\ Cardinality(Pending(Inserting)) <= Cardinality(Free(Files))
  /\ Cardinality(Pending({"createfolder"})) <= Cardinality(Free(Folders))

\* Only finitely many requests are pending, and finitely many ids are free.
LEMMA IdTypes ==
  /\ \A ops : IsFiniteSet(Pending(ops)) /\ Cardinality(Pending(ops)) \in Nat
  /\ \A S \in {Files, Folders} : IsFiniteSet(Free(S)) /\ Cardinality(Free(S)) \in Nat
<1>1. \A ops : IsFiniteSet(Pending(ops))
  BY StorageAssumption, FS_Subset DEF Pending
<1>2. \A S \in {Files, Folders} : IsFiniteSet(Free(S))
  BY StorageAssumption, FoldersAssumption, FS_Subset DEF Free
<1> QED BY <1>1, <1>2, FS_CardinalityType

\* A request that is going to insert an id finds one that is free.
LEMMA NewIdFree ==
  ASSUME NEW ops, NEW S \in {Files, Folders}, NEW r \in Pending(ops),
         Cardinality(Pending(ops)) <= Cardinality(Free(S))
  PROVE  NewId(S) \in Free(S)
<1>1. Free(S) # {}
  BY IdTypes, FS_EmptySet
<1> QED BY <1>1 DEF NewId, Free

\* One request less, and one id.
LEMMA TakeId ==
  ASSUME NEW P, NEW F, IsFiniteSet(P), IsFiniteSet(F), Cardinality(P) <= Cardinality(F),
         NEW r \in P, NEW x \in F, NEW P2, P2 \subseteq P \ {r}
  PROVE  Cardinality(P2) <= Cardinality(F \ {x})
<1>1. IsFiniteSet(P \ {r}) /\ Cardinality(P \ {r}) = Cardinality(P) - 1
  BY FS_RemoveElement
<1>2. IsFiniteSet(F \ {x}) /\ Cardinality(F \ {x}) = Cardinality(F) - 1
  BY FS_RemoveElement
<1>3. Cardinality(P2) <= Cardinality(P \ {r}) /\ IsFiniteSet(P2)
  BY <1>1, FS_Subset
<1> QED BY <1>1, <1>2, <1>3, FS_CardinalityType

\* A request that goes on stays the request it is, and never leaves the commit
\* but for its end.
LEMMA ContinueOp ==
  ASSUME TypeInv, NEW r \in Reqs, Continue(r)
  PROVE  \/ Done(r)
         \/ \E w : /\ req' = [req EXCEPT ![r] = w] /\ req[r].pc # "commit"
                  /\ w.op = req[r].op /\ w.user = req[r].user
<1> DEFINE q == req[r]
           Goal == \/ Done(r)
                   \/ \E w : /\ req' = [req EXCEPT ![r] = w] /\ q.pc # "commit"
                            /\ w.op = q.op /\ w.user = q.user
<1>q. q \in Request /\ req \in [Reqs -> Request]
  BY DEF TypeInv, TypeOK
<1>p. ASSUME NEW held, NEW o, NEW whole, NEW next, q.pc # "commit",
             Prepare(r, held, o, whole, next)
      PROVE  Goal
  <2> DEFINE pc == IF o.spin /\ next = "commit" THEN "spin" ELSE next
             w == [q EXCEPT !.held = held, !.out = o, !.whole = whole, !.pc = pc]
  <2>1. req' = [req EXCEPT ![r] = w]
    BY <1>q, <1>p DEF Prepare
  <2> HIDE DEF pc
  <2>2. w.op = q.op /\ w.user = q.user
    BY <1>q DEF Request
  <2> QED BY <1>p, <2>1, <2>2
<1>1. CASE UploadTx(r) \/ MoveFileTx(r)
  BY <1>1, <1>p DEF UploadTx, UploadSaves, MoveFileTx, At
<1>2. CASE MoveFolderTx(r) \/ ShareTx(r)
  BY <1>2, <1>p DEF MoveFolderTx, ShareTx, At
<1>3. CASE DeleteFolderTx(r)
  BY <1>3, <1>p DEF DeleteFolderTx, At
<1>4. CASE MoveFileRead2(r) \/ MoveFileRead3(r) \/ MoveFolderRead2(r) \/ MoveFolderRead3(r)
  BY <1>4, <1>q DEF MoveFileRead2, MoveFileRead3, MoveFolderRead2, MoveFolderRead3, At, Request
<1>5. CASE ShareRead2(r) \/ ShareRead3(r) \/ AdminDeleteFind(r) \/ LockChain(r)
  BY <1>5, <1>q DEF ShareRead2, ShareRead3, AdminDeleteFind, LockChain, At, Request
<1>6. CASE DeleteRow(r) \/ DeleteRefund(r) \/ ShareCreate(r)
  BY <1>6, <1>q DEF DeleteRow, DeleteRefund, ShareCreate, At, Request
<1>7. CASE CreateFolder(r) \/ SetVolume(r) \/ AdminDelete(r) \/ Commit(r)
  BY <1>7 DEF CreateFolder, SetVolume, AdminDelete, Commit
<1> QED BY <1>1, <1>2, <1>3, <1>4, <1>5, <1>6, <1>7 DEF Continue

\* Going on makes no request pending.
LEMMA ContinuePending ==
  ASSUME TypeInv, NEW r \in Reqs, Continue(r), NEW ops, "none" \notin ops
  PROVE  Pending(ops)' \subseteq Pending(ops)
<1>1. req \in [Reqs -> Request]
  BY DEF TypeInv, TypeOK
<1>2. CASE Done(r)
  BY <1>1, <1>2 DEF Done, Idle, Pending, At
<1>3. CASE \E w : req' = [req EXCEPT ![r] = w] /\ w.op = req[r].op /\ req[r].pc # "commit"
  BY <1>1, <1>3 DEF Pending, At
<1> QED BY <1>2, <1>3, ContinueOp
\* Accepting a request leaves one id more than requests that need one.
LEMMA ArriveIds == ASSUME TypeInv, IdInv, NEW r \in Reqs, Arrive(r) PROVE IdInv'
<1>r. req \in [Reqs -> Request]
  BY DEF TypeInv, TypeOK
<1>b. UNCHANGED born
  BY DEF Arrive, UploadCheck, DeleteRead, MoveFileRead, CreateFolderCheck, MoveFolderRead,
         DeleteFolderCheck, ShareRead, SetVolumeRead, AdminDeleteRead, history
<1> DEFINE op == req'[r].op
<1>1. /\ \A x \in Reqs \ {r} : req'[x] = req[x]
      /\ op \in Inserting => IdsLeft(Files, Inserting)
      /\ op = "createfolder" => IdsLeft(Folders, {"createfolder"})
  <2> DEFINE Goal == /\ \A x \in Reqs \ {r} : req'[x] = req[x]
                     /\ op \in Inserting => IdsLeft(Files, Inserting)
                     /\ op = "createfolder" => IdsLeft(Folders, {"createfolder"})
  <2>1. ASSUME NEW u \in Users, NEW g \in Folders, NEW c \in Contents, UploadCheck(r, u, g, c) PROVE Goal
    BY <1>r, <2>1 DEF UploadCheck, Inserting, Idle
  <2>2. ASSUME NEW u \in Users, NEW f \in Files, DeleteRead(r, u, f) PROVE Goal
    BY <1>r, <2>2 DEF DeleteRead, Inserting, Idle
  <2>3. ASSUME NEW u \in Users, NEW f \in Files, NEW to \in Folders, MoveFileRead(r, u, f, to) PROVE Goal
    BY <1>r, <2>3 DEF MoveFileRead, Inserting, Idle
  <2>4. ASSUME NEW u \in Users, NEW g \in Folders, CreateFolderCheck(r, u, g) PROVE Goal
    BY <1>r, <2>4 DEF CreateFolderCheck, Inserting, Idle
  <2>5. ASSUME NEW u \in Users, NEW g \in Folders, NEW to \in Folders \cup {Top}, MoveFolderRead(r, u, g, to) PROVE Goal
    BY <1>r, <2>5 DEF MoveFolderRead, Inserting, Idle
  <2>6. ASSUME NEW u \in Users, NEW g \in Folders, DeleteFolderCheck(r, u, g) PROVE Goal
    BY <1>r, <2>6 DEF DeleteFolderCheck, Inserting, Idle
  <2>7. ASSUME NEW u \in Users, NEW f \in Files, NEW to \in Folders, ShareRead(r, u, f, to) PROVE Goal
    BY <1>r, <2>7 DEF ShareRead, Inserting, Idle
  <2>8. ASSUME NEW u \in Users, NEW v \in Volumes, SetVolumeRead(r, u, v) PROVE Goal
    BY <1>r, <2>8 DEF SetVolumeRead, Inserting, Idle
  <2>9. ASSUME NEW f \in Files, AdminDeleteRead(r, f) PROVE Goal
    BY <1>r, <2>9 DEF AdminDeleteRead, Inserting, Idle
  <2> QED BY <2>1, <2>2, <2>3, <2>4, <2>5, <2>6, <2>7, <2>8, <2>9 DEF Arrive
<1> HIDE DEF op
<1>2. ASSUME NEW ops, NEW S \in {Files, Folders},
             Cardinality(Pending(ops)) <= Cardinality(Free(S)),
             op \in ops => IdsLeft(S, ops)
      PROVE  Cardinality(Pending(ops)') <= Cardinality(Free(S))
  <2> DEFINE All == {x \in Reqs : req[x].op \in ops}
  <2>1. CASE op \notin ops
    <3>1. Pending(ops)' \subseteq Pending(ops)
      BY <1>1, <1>r, <2>1 DEF Pending, At, op
    <3>2. Cardinality(Pending(ops)') <= Cardinality(Pending(ops))
      BY <3>1, IdTypes, FS_Subset
    <3>3. IsFiniteSet(Pending(ops)')
      BY <3>1, IdTypes, FS_Subset
    <3> QED BY <1>2, <3>2, <3>3, IdTypes, FS_CardinalityType
  <2>2. CASE op \in ops
    <3>1. Pending(ops)' \subseteq All \cup {r}
      BY <1>1, <1>r DEF Pending
    <3>2. IsFiniteSet(All) /\ Cardinality(All) \in Nat
      BY StorageAssumption, FS_Subset, FS_CardinalityType
    <3>3. Cardinality(All) < Cardinality(Free(S))
      BY <1>2, <2>2 DEF IdsLeft, Free
    <3> HIDE DEF All
    <3>4. /\ IsFiniteSet(All \cup {r})
          /\ Cardinality(All \cup {r}) \in {Cardinality(All), Cardinality(All) + 1}
      BY <3>2, FS_AddElement
    <3>5. /\ Cardinality(Pending(ops)') <= Cardinality(All \cup {r})
          /\ IsFiniteSet(Pending(ops)')
      BY <3>1, <3>4, FS_Subset
    <3> QED BY <3>2, <3>3, <3>4, <3>5, IdTypes, FS_CardinalityType
  <2> QED BY <2>1, <2>2
<1>3. Cardinality(Pending(Inserting)') <= Cardinality(Free(Files))
  BY <1>1, <1>2 DEF IdInv
<1>4. Cardinality(Pending({"createfolder"})') <= Cardinality(Free(Folders))
  BY <1>1, <1>2 DEF IdInv
<1> QED BY <1>b, <1>3, <1>4 DEF IdInv, Free

\* A step that inserts nothing leaves the ids as they are.
LEMMA KeepIds ==
  ASSUME TypeInv, IdInv, UNCHANGED born,
         \A ops : "none" \notin ops => Pending(ops)' \subseteq Pending(ops)
  PROVE  IdInv'
<1>1. ASSUME NEW ops, "none" \notin ops
      PROVE  /\ Cardinality(Pending(ops)') <= Cardinality(Pending(ops))
             /\ Cardinality(Pending(ops)') \in Nat
  <2>1. Pending(ops)' \subseteq Pending(ops)
    BY <1>1
  <2> QED BY <2>1, IdTypes, FS_Subset, FS_CardinalityType
<1>2. \A S : Free(S)' = Free(S)
  BY DEF Free
<1>3. Cardinality(Pending(Inserting)') <= Cardinality(Free(Files))
  BY <1>1, IdTypes DEF IdInv, Inserting
<1>4. Cardinality(Pending({"createfolder"})') <= Cardinality(Free(Folders))
  BY <1>1, IdTypes DEF IdInv
<1> QED BY <1>2, <1>3, <1>4 DEF IdInv

\* A step that inserts a row takes an id and ends what the request needs it for.
LEMMA InsertIds ==
  ASSUME TypeInv, IdInv, NEW r \in Reqs, Continue(r),
         NEW ops \in {Inserting, {"createfolder"}}, NEW S \in {Files, Folders},
         ops = Inserting <=> S = Files,
         r \in Pending(ops), r \notin Pending(ops)', NEW u \in Users,
         born' = [born EXCEPT ![NewId(S)] = u]
  PROVE  IdInv'
<1>o. "none" \notin Inserting /\ Inserting # {"createfolder"}
  BY DEF Inserting
<1>1. Cardinality(Pending(ops)) <= Cardinality(Free(S))
  BY DEF IdInv
<1>2. NewId(S) \in Free(S) /\ NewId(S) \in S
  BY <1>1, NewIdFree DEF Free
<1>3. Free(S)' = Free(S) \ {NewId(S)}
  BY <1>2, StorageAssumption DEF Free, TypeInv, TypeOK
<1>4. Cardinality(Pending(ops)') <= Cardinality(Free(S)')
  <2>1. Pending(ops)' \subseteq Pending(ops) \ {r}
    BY <1>o, ContinuePending
  <2> QED BY <1>1, <1>2, <1>3, <2>1, IdTypes, TakeId
<1>5. ASSUME NEW ops2 \in {Inserting, {"createfolder"}}, NEW S2 \in {Files, Folders} \ {S},
             Cardinality(Pending(ops2)) <= Cardinality(Free(S2))
      PROVE  Cardinality(Pending(ops2)') <= Cardinality(Free(S2)')
  <2>1. Free(S2)' = Free(S2)
    BY <1>2, StorageAssumption DEF Free, TypeInv, TypeOK
  <2>2. Pending(ops2)' \subseteq Pending(ops2)
    BY <1>o, ContinuePending
  <2>3. /\ Cardinality(Pending(ops2)') <= Cardinality(Pending(ops2))
        /\ Cardinality(Pending(ops2)') \in Nat
    BY <2>2, IdTypes, FS_Subset, FS_CardinalityType
  <2> QED BY <1>5, <2>1, <2>3, IdTypes
<1>6. CASE S = Files
  <2>1. Folders # S
    BY <1>2, <1>6, StorageAssumption
  <2> QED BY <1>4, <1>5, <1>6, <2>1 DEF IdInv
<1>7. CASE S # Files
  BY <1>4, <1>5, <1>7 DEF IdInv
<1> QED BY <1>6, <1>7
\* The id an insert takes was nobody's.
LEMMA InsertGrows ==
  ASSUME TypeInv, NEW S \in {Files, Folders}, NewId(S) \in Free(S), NEW u,
         born' = [born EXCEPT ![NewId(S)] = u]
  PROVE  Grows(born, born') /\ born'[NewId(S)] = u
BY DEF TypeInv, TypeOK, Grows, Free

\* What is written in the tables is of the class.
LEMMA WriteKin == ASSUME TypeInv, KinInv, IdInv, NEW r \in Reqs,
                         \/ DeleteRow(r) \/ DeleteRefund(r) \/ CreateFolder(r)
                         \/ ShareCreate(r) \/ SetVolume(r) \/ AdminDelete(r)
                         \/ Commit(r)
                  PROVE  KinInv'
<1> DEFINE q == req[r]
           u == q.user
           S == linked[q.user]
<1>q. q \in Request /\ ReqOK(q) /\ Kin(born, S, q) /\ req \in [Reqs -> Request]
  BY DEF TypeInv, TypeOK, KinInv
<1>n. q.pc # "idle" /\ u \in Users
  BY <1>q DEF DeleteRow, DeleteRefund, CreateFolder, ShareCreate, SetVolume,
              AdminDelete, Commit, At, ReqOK
<1>t. /\ files \in [Files -> FileRow \cup {None}]
      /\ folders \in [Folders -> FolderRow \cup {None}]
  BY DEF TypeInv, TypeOK, View
<1>s. Grows(born, born) /\ UNCHANGED linked
  BY DEF Grows, DeleteRow, DeleteRefund, CreateFolder, ShareCreate, SetVolume, AdminDelete,
         Commit, history
<1>c. /\ u \in S /\ S \subseteq Users /\ None \notin S /\ \A v \in S : linked[v] = S
      /\ Classes(linked') /\ Widens(linked, linked')
  BY <1>n, <1>s, StorageAssumption DEF KinInv, Classes, Widens
<1>k. ASSUME NEW w, w = Idle \/ (w.user = u /\ Kin(born', S, w)),
             req' = [req EXCEPT ![r] = w], Grows(born, born'),
             \A g \in Folders : folders'[g] # None =>
               folders'[g] = folders[g] \/ Fit(born', S, g, folders'[g]),
             \A f \in Files : files'[f] # None /\ files'[f].owner # None =>
               \/ files'[f] = files[f]
               \/ files'[f].owner = u /\ Own(born', S, files'[f].folder)
      PROVE  KinInv'
  <2>1. Kin(born', linked'[w.user], w)
    BY <1>k, <1>s, IdleKin
  <2>2. \A g \in Folders : folders'[g] # None =>
          \/ folders'[g] = folders[g]
          \/ born'[g] \in Users /\ Fit(born', linked'[born'[g]], g, folders'[g])
    BY <1>c, <1>k, <1>s DEF Fit
  <2>3. \A f \in Files : files'[f] # None /\ files'[f].owner # None =>
          \/ files'[f] = files[f]
          \/ Own(born', linked'[files'[f].owner], files'[f].folder)
    BY <1>k, <1>s
  <2> QED BY <1>c, <1>k, <2>1, <2>2, <2>3, TableKin
<1> HIDE DEF S
<1>1. CASE DeleteRow(r) \/ DeleteRefund(r)
  <2>1. PICK pc \in {"refund", "commit"} : req' = [req EXCEPT ![r].pc = pc]
    BY <1>1 DEF DeleteRow, DeleteRefund
  <2> DEFINE w == [q EXCEPT !.pc = pc]
  <2>2. UNCHANGED <<folders, born>> /\ \A f \in Files : files'[f] \in {files[f], None}
    BY <1>1, <1>t DEF DeleteRow, DeleteRefund, history
  <2>3. Kin(born, S, w) /\ w.user = u
    BY <1>n, <1>q DEF Kin, Astray, Request
  <2>4. req' = [req EXCEPT ![r] = w]
    BY <1>q, <2>1
  <2> HIDE DEF w
  <2> QED BY <1>k, <1>s, <2>2, <2>3, <2>4
<1>2. CASE SetVolume(r) \/ AdminDelete(r)
  <2>1. /\ req' = [req EXCEPT ![r] = Idle] /\ UNCHANGED <<folders, born>>
        /\ \A f \in Files : files'[f] \in {files[f], None}
    BY <1>2, <1>t DEF SetVolume, AdminDelete, history, Done
  <2> QED BY <1>k, <1>s, <2>1
<1>3. CASE CreateFolder(r)
  <2> DEFINE x == NewId(Folders)
             row == [parent |-> q.g, owner |-> u, size |-> 0]
  <2>1. /\ req' = [req EXCEPT ![r] = Idle] /\ UNCHANGED files
        /\ folders' = [folders EXCEPT ![x] = row] /\ born' = [born EXCEPT ![x] = u]
    BY <1>3 DEF CreateFolder, Done
  <2>2. r \in Pending({"createfolder"}) /\ q.g \in Folders /\ Own(born, S, q.g)
    BY <1>3, <1>n, <1>q DEF CreateFolder, Pending, At, ReqOK, Kin
  <2>3. x \in Free(Folders)
    BY <2>2, NewIdFree DEF IdInv
  <2>4. Grows(born, born') /\ born'[x] = u
    BY <2>1, <2>3, InsertGrows
  <2>5. Fit(born', S, x, row)
    <3>1. Own(born', S, q.g)
      BY <1>c, <2>2, <2>4, GrowKin
    <3> QED BY <1>c, <2>4, <3>1 DEF Fit, Own
  <2> HIDE DEF x, row
  <2>6. \A g \in Folders : folders'[g] = folders[g] \/ (g = x /\ folders'[g] = row)
    BY <1>t, <2>1
  <2> QED BY <1>k, <2>1, <2>4, <2>5, <2>6
<1>4. CASE ShareCreate(r)
  <2> DEFINE x == NewId(Files)
             row == [owner |-> IF q.dst = None THEN None ELSE u, md5 |-> q.c, folder |-> q.to]
             w == [q EXCEPT !.pc = "commit"]
  <2>1. /\ req' = [req EXCEPT ![r] = w] /\ UNCHANGED folders
        /\ \/ UNCHANGED <<files, born>>
           \/ files' = [files EXCEPT ![x] = row] /\ born' = [born EXCEPT ![x] = u]
    BY <1>4 DEF ShareCreate
  <2>2. Kin(born, S, w) /\ w.user = u
    BY <1>n, <1>q DEF Kin, Astray, Request
  <2>3. CASE UNCHANGED <<files, born>>
    <3> HIDE DEF w
    <3> QED BY <1>k, <1>s, <2>1, <2>2, <2>3
  <2>4. CASE files' = [files EXCEPT ![x] = row] /\ born' = [born EXCEPT ![x] = u]
    <3>1. r \in Pending(Inserting) /\ (q.dst # None => Own(born, S, q.to))
      BY <1>4, <1>n, <1>q DEF ShareCreate, Pending, At, Inserting, Kin
    <3>2. x \in Free(Files)
      BY <3>1, NewIdFree DEF IdInv
    <3>3. Grows(born, born')
      BY <2>4, <3>2, InsertGrows
    <3>4. row.owner # None => row.owner = u /\ Own(born', S, row.folder)
      BY <1>c, <3>1, <3>3, GrowKin
    <3>5. w \in Request /\ ReqOK(w)
      BY <1>n, <1>q DEF Request, ReqOK, Pcs
    <3> HIDE DEF x, row, w
    <3>6. Kin(born', S, w)
      BY <1>c, <2>2, <3>3, <3>5, GrowRequest
    <3>7. \A f \in Files : files'[f] = files[f] \/ files'[f] = row
      BY <1>t, <2>4
    <3> QED BY <1>k, <2>1, <2>2, <3>3, <3>4, <3>6, <3>7
  <2> QED BY <2>1, <2>3, <2>4
<1>5. CASE Commit(r)
  <2> DEFINE o == q.out
             kept == [f \in Files |->
                        IF files[f] # None /\ files[f].folder \in o.purge THEN None ELSE files[f]]
             left == [g \in Folders |-> IF g \in o.drop THEN None ELSE folders[g]]
  <2>1. /\ req' = [req EXCEPT ![r] = Idle]
        /\ folders' = Overlay(left, o.folders)
        /\ born' = IF o.insert = None THEN born ELSE [born EXCEPT ![NewId(Files)] = u]
        /\ files' = IF o.insert # None THEN [kept EXCEPT ![NewId(Files)] = o.insert]
                    ELSE IF o.moved # None
                         THEN [kept EXCEPT ![SaveTarget(q.f, o.moved)] = o.moved]
                    ELSE kept
    BY <1>5 DEF Commit, Done
  <2>2. /\ Mates(born, S, o.folders)
        /\ o.insert # None => q.op = "upload" /\ o.insert.owner = u /\ Own(born, S, o.insert.folder)
        /\ o.moved # None => o.moved.owner = u /\ Own(born, S, o.moved.folder)
    BY <1>n, <1>q DEF Kin
  <2>3. Grows(born, born')
    <3>1. CASE o.insert = None
      BY <1>s, <2>1, <3>1
    <3>2. CASE o.insert # None
      <4>1. r \in Pending(Inserting)
        BY <2>2, <3>2 DEF Pending, At, Inserting
      <4>2. NewId(Files) \in Free(Files)
        BY <4>1, NewIdFree DEF IdInv
      <4> QED BY <2>1, <3>2, <4>2, InsertGrows
    <3> QED BY <3>1, <3>2
  <2>4. Mates(born', S, o.folders)
    BY <1>c, <2>2, <2>3, GrowKin
  <2>5. \A g \in Folders : folders'[g] # None =>
          folders'[g] = folders[g] \/ Fit(born', S, g, folders'[g])
    <3> HIDE DEF o
    <3> QED BY <2>1, <2>4 DEF Overlay, Mates
  <2>6. \A f \in Files : kept[f] \in {files[f], None}
    OBVIOUS
  <2>7. \A f \in Files : files'[f] # None /\ files'[f].owner # None =>
          files'[f] = files[f] \/ (files'[f].owner = u /\ Own(born', S, files'[f].folder))
    <3>1. /\ o.insert # None => o.insert.owner = u /\ Own(born', S, o.insert.folder)
          /\ o.moved # None => o.moved.owner = u /\ Own(born', S, o.moved.folder)
      BY <1>c, <2>2, <2>3, GrowKin
    <3>2. kept = [f \in Files |-> kept[f]]
      OBVIOUS
    <3> HIDE DEF o, kept
    <3>3. \A f \in Files : \/ files'[f] = kept[f]
                           \/ o.insert # None /\ files'[f] = o.insert
                           \/ o.moved # None /\ files'[f] = o.moved
      BY <2>1, <3>2
    <3> QED BY <2>6, <3>1, <3>3
  <2> QED BY <1>k, <2>1, <2>3, <2>5, <2>7
<1> QED BY <1>1, <1>2, <1>3, <1>4, <1>5

\* What is inserted was pending, and is so no more.
LEMMA WriteIds == ASSUME TypeInv, KinInv, IdInv, NEW r \in Reqs, Continue(r) PROVE IdInv'
<1> DEFINE q == req[r]
           S == linked[q.user]
<1>q. q \in Request /\ ReqOK(q) /\ Kin(born, S, q) /\ req \in [Reqs -> Request]
  BY DEF TypeInv, TypeOK, KinInv
<1>1. CASE UNCHANGED born
  BY <1>1, ContinuePending, KeepIds
<1>2. CASE CreateFolder(r)
  <2>1. /\ r \in Pending({"createfolder"}) /\ req' = [req EXCEPT ![r] = Idle]
        /\ born' = [born EXCEPT ![NewId(Folders)] = q.user] /\ q.user \in Users
    BY <1>2, <1>q DEF CreateFolder, Pending, At, Done, ReqOK
  <2>2. r \notin Pending({"createfolder"})'
    BY <1>q, <2>1 DEF Pending, Idle
  <2>3. Folders # Files \/ Folders = {}
    BY StorageAssumption
  <2>4. Folders # {}
    BY <1>2, <1>q DEF CreateFolder, At, ReqOK
  <2> QED BY <2>1, <2>2, <2>3, <2>4, InsertIds DEF Inserting
<1>3. CASE ShareCreate(r) /\ ~UNCHANGED born
  <2>1. /\ r \in Pending(Inserting) /\ req' = [req EXCEPT ![r].pc = "commit"]
        /\ born' = [born EXCEPT ![NewId(Files)] = q.user] /\ q.user \in Users
        /\ q.op = "sharesave"
    BY <1>3, <1>q DEF ShareCreate, Pending, Inserting, At, ReqOK
  <2>2. r \notin Pending(Inserting)'
    BY <1>q, <2>1 DEF Pending, At, Request
  <2> QED BY <2>1, <2>2, InsertIds DEF Inserting
<1>4. CASE Commit(r) /\ ~UNCHANGED born
  <2>1. /\ req' = [req EXCEPT ![r] = Idle] /\ q.out.insert # None /\ q.pc = "commit"
        /\ born' = [born EXCEPT ![NewId(Files)] = q.user] /\ q.user \in Users
    BY <1>4, <1>q DEF Commit, Done, ReqOK
  <2>2. r \in Pending(Inserting)
    BY <1>q, <2>1 DEF Kin, Pending, Inserting, At
  <2>3. r \notin Pending(Inserting)'
    BY <1>q, <2>1 DEF Pending, Inserting, Idle
  <2> QED BY <2>1, <2>2, <2>3, InsertIds DEF Inserting
<1>5. UNCHANGED born \/ CreateFolder(r) \/ ShareCreate(r) \/ Commit(r)
  BY DEF Continue, UploadTx, UploadSaves, LockChain, DeleteRow, DeleteRefund, MoveFileRead2,
         MoveFileRead3, MoveFileTx, MoveFolderRead2, MoveFolderRead3, MoveFolderTx,
         DeleteFolderTx, ShareRead2, ShareRead3, ShareTx, SetVolume, AdminDeleteFind,
         AdminDelete, history
<1> QED BY <1>1, <1>2, <1>3, <1>4, <1>5
KinIdInv == KinInv /\ IdInv

\* Every step keeps what belongs together, and an id for every insert.
LEMMA NextKin == TypeInv /\ KinIdInv /\ [Next]_vars => KinIdInv'
<1> SUFFICES ASSUME TypeInv, KinInv, IdInv, [Next]_vars PROVE KinInv' /\ IdInv'
  BY DEF KinIdInv
<1>1. CASE UNCHANGED vars
  BY <1>1 DEF KinInv, IdInv, Pending, Free, At, vars
<1>2. ASSUME NEW r \in Reqs, Arrive(r) PROVE KinInv' /\ IdInv'
  BY <1>2, ArriveKin, ArriveIds
<1>3. ASSUME NEW r \in Reqs, Continue(r) PROVE KinInv' /\ IdInv'
  <2>1. IdInv'
    BY <1>3, WriteIds
  <2>2. KinInv'
    BY <1>3, ReadKin, TxKin, WriteKin DEF Continue
  <2> QED BY <2>1, <2>2
<1>4. ASSUME NEW r \in Reqs, Fail(r) \/ LockTimeout(r) PROVE KinInv' /\ IdInv'
  <2>1. Done(r) /\ UNCHANGED <<files, folders, born, linked>>
    BY <1>4 DEF Fail, LockTimeout, tables, history
  <2>2. \A ops : "none" \notin ops => Pending(ops)' \subseteq Pending(ops)
    BY <2>1 DEF Done, Idle, Pending, At, TypeInv, TypeOK
  <2> QED BY <2>1, <2>2, KinDone, KeepIds
<1> QED BY <1>1, <1>2, <1>3, <1>4 DEF Next

\* Base folders are their users', and nothing is pending.
LEMMA InitKin == Init => KinIdInv
<1> SUFFICES ASSUME Init PROVE KinInv /\ IdInv
  BY DEF KinIdInv
<1>1. ASSUME NEW g \in Folders, folders[g] # None
      PROVE  born[g] \in Users /\ Fit(born, linked[born[g]], g, folders[g])
  BY <1>1, FoldersAssumption DEF Init, Fit
<1>2. /\ \A f \in Files : files[f] = None
      /\ \A r \in Reqs : Kin(born, linked[req[r].user], req[r])
      /\ Classes(linked)
  BY IdleKin DEF Init, Classes
<1>3. IdInv
  <2>1. \A ops \in {Inserting, {"createfolder"}} : Pending(ops) = {}
    BY DEF Init, Idle, Pending, Inserting
  <2> QED BY <2>1, IdTypes, FS_EmptySet DEF IdInv
<1> QED BY <1>1, <1>2, <1>3 DEF KinInv

\* A request writes no store of another account's, and no folder of another
\* class's.
LEMMA Apart ==
  ASSUME TypeInv, KinIdInv, NEW r \in Reqs, Arrive(r) \/ Continue(r) \/ Fail(r) \/ LockTimeout(r),
         NEW u \in Users, u \in {req[r].user, req'[r].user}, NEW v \in Users, v # u
  PROVE  /\ stores'[v] = stores[v]
         /\ v \in linked'[u] \/ \A g \in Folders :
              folders[g] # None /\ folders[g].owner = v => folders'[g] = folders[g]
<1> DEFINE q == req[r]
<1>q. q \in Request /\ ReqOK(q) /\ Kin(born, linked[q.user], q) /\ KinInv /\ IdInv
  BY DEF TypeInv, TypeOK, KinIdInv, KinInv
<1>t. /\ stores \in [Users -> StoreRow] /\ folders \in [Folders -> FolderRow \cup {None}]
      /\ req \in [Reqs -> Request]
  BY DEF TypeInv, TypeOK, View
<1>1. CASE UNCHANGED <<stores, folders>>
  BY <1>1
<1>u. CASE ~UNCHANGED <<stores, folders>>
  <2>1. Continue(r)
    <3>1. Arrive(r) => UNCHANGED <<stores, folders>>
      BY DEF Arrive, UploadCheck, DeleteRead, MoveFileRead, CreateFolderCheck, MoveFolderRead,
             DeleteFolderCheck, ShareRead, SetVolumeRead, AdminDeleteRead, tables
    <3>2. Fail(r) \/ LockTimeout(r) => UNCHANGED <<stores, folders>>
      BY DEF Fail, LockTimeout, tables
    <3> QED BY <1>u, <3>1, <3>2
  <2>2. CreateFolder(r) \/ Commit(r) \/ DeleteRefund(r) \/ SetVolume(r)
    BY <1>u, <2>1
       DEF Continue, UploadTx, UploadSaves, LockChain, DeleteRow, MoveFileRead2,
           MoveFileRead3, MoveFileTx, MoveFolderRead2, MoveFolderRead3, MoveFolderTx,
           DeleteFolderTx, ShareRead2, ShareRead3, ShareTx, ShareCreate,
           AdminDeleteFind, AdminDelete, tables
  <2>3. q.pc # "idle" /\ q.user \in Users
    BY <1>q, <2>2 DEF CreateFolder, Commit, DeleteRefund, SetVolume, At, ReqOK
  <2>4. u = q.user
    <3>1. req'[r].user \in {q.user, None}
      BY <1>q, <1>t, <2>1, ContinueOp DEF Done, Idle
    <3> QED BY <3>1, StorageAssumption
  <2>5. UNCHANGED linked
    BY <2>2 DEF CreateFolder, Commit, DeleteRefund, SetVolume, history
  <2>6. CASE DeleteRefund(r) \/ SetVolume(r)
    BY <1>t, <2>4, <2>6 DEF DeleteRefund, SetVolume
  <2>7. CASE CreateFolder(r)
    <3>1. r \in Pending({"createfolder"})
      BY <2>7 DEF CreateFolder, Pending, At
    <3>2. born[NewId(Folders)] = None
      BY <1>q, <3>1, NewIdFree DEF IdInv, Free
    <3>3. ASSUME NEW g \in Folders, folders[g] # None PROVE g # NewId(Folders)
      BY <1>q, <3>2, <3>3, StorageAssumption DEF KinInv
    <3> QED BY <1>t, <2>7, <3>3 DEF CreateFolder
  <2>8. CASE Commit(r)
    <3>1. stores'[v] = stores[v]
      BY <1>t, <2>4, <2>8 DEF Commit
    <3>2. ASSUME NEW g \in Folders, folders[g] # None, folders[g].owner = v, v \notin linked[u]
          PROVE  g \notin q.out.drop /\ q.out.folders[g] = None
      <4>1. born[g] = v
        BY <1>q, <3>2 DEF KinInv, Fit
      <4> QED BY <1>q, <2>3, <2>4, <3>2, <4>1 DEF Kin, Mates, Fit, Own
    <3> QED BY <2>5, <2>8, <3>1, <3>2 DEF Commit, Overlay
  <2> QED BY <2>2, <2>6, <2>7, <2>8
<1> QED BY <1>1, <1>u

\* Only the request that makes a step changes.
LEMMA OneActs ==
  ASSUME TypeInv, NEW r \in Reqs, Arrive(r) \/ Continue(r) \/ Fail(r) \/ LockTimeout(r),
         NEW x \in Reqs, req'[x] # req[x]
  PROVE  x = r
<1>r. req \in [Reqs -> Request]
  BY DEF TypeInv, TypeOK
<1>1. CASE Arrive(r)
  BY <1>1, <1>r DEF Arrive, UploadCheck, DeleteRead, MoveFileRead, CreateFolderCheck,
                    MoveFolderRead, DeleteFolderCheck, ShareRead, SetVolumeRead, AdminDeleteRead
<1>2. CASE Continue(r)
  BY <1>2, <1>r, ContinueOp DEF Done
<1>3. CASE Fail(r) \/ LockTimeout(r)
  BY <1>3, <1>r DEF Fail, LockTimeout, Done
<1> QED BY <1>1, <1>2, <1>3

\* Whatever ids clients name, whatever runs concurrently and fails where, a
\* request on one account changes no store of another's, and another's folder
\* only once an upload or a folder move has linked the two.  The handlers do
\* not check the owner of the chains, subtrees and targets they write: that
\* these stay within the accounts linked so far is the invariant's to show.
THEOREM Isolated == Spec => AccountsIsolated
<1> DEFINE Step == \A r \in Reqs : \A u, v \in Users :
                     req'[r] # req[r] /\ u \in {req[r].user, req'[r].user} \ {v} =>
                       /\ stores'[v] = stores[v]
                       /\ v \in linked'[u] \/ \A g \in Folders :
                            folders[g] # None /\ folders[g].owner = v => folders'[g] = folders[g]
<1>1. TypeInv /\ KinIdInv /\ [Next]_vars => [Step]_vars
  <2> SUFFICES ASSUME TypeInv, KinIdInv, Next PROVE Step
    OBVIOUS
  <2>1. PICK r \in Reqs : Arrive(r) \/ Continue(r) \/ Fail(r) \/ LockTimeout(r)
    BY DEF Next
  <2> QED BY <2>1, OneActs, Apart
<1>2. AccountsIsolated <=> [][Step]_vars
  BY DEF AccountsIsolated
<1> HIDE DEF Step
<1> QED BY <1>1, <1>2, InitType, NextType, InitKin, NextKin, PTL DEF Spec

-----------------------------------------------------------------------------
(* The pool.  The storage requests use their connections as clients of        *)
(* ConnPool, for every pool size and every number of requests; what PoolProofs *)
(* shows of the pool therefore holds of them, and what is shown of the         *)
(* requests above holds with a pool as well.                                   *)

PP == INSTANCE PoolProofs WITH
        Clients <- Reqs, Size <- PoolSize,
        need <- [r \in Reqs |-> Demand(req[r])]

\* A step of a request leaves the local variables of the others alone.
Alone(r) == \A x \in Reqs \ {r} : req'[x] = req[x]

-----------------------------------------------------------------------------

LEMMA DemandType == \A q : Demand(q) \in 0..2
BY DEF Demand

LEMMA SetAlone ==
  ASSUME TypeOK, NEW r \in Reqs, NEW q, req' = [req EXCEPT ![r] = q]
  PROVE  Alone(r)
BY DEF TypeOK, Alone

LEMMA DoneAlone == ASSUME TypeOK, NEW r \in Reqs, Done(r) PROVE Alone(r)
BY SetAlone DEF Done

LEMMA PrepareAlone ==
  ASSUME TypeOK, NEW r \in Reqs, NEW held, NEW o, NEW whole, NEW next,
         Prepare(r, held, o, whole, next)
  PROVE  Alone(r)
BY DEF Prepare, TypeOK, Alone

LEMMA ArriveAlone == ASSUME TypeOK, NEW r \in Reqs, Arrive(r) PROVE Alone(r)
<1>1. ASSUME NEW u \in Users, NEW g \in Folders, NEW c \in Contents, UploadCheck(r, u, g, c)
      PROVE  Alone(r)
  BY <1>1, SetAlone DEF UploadCheck
<1>2. ASSUME NEW u \in Users, NEW f \in Files, DeleteRead(r, u, f) PROVE Alone(r)
  BY <1>2, SetAlone DEF DeleteRead
<1>3. ASSUME NEW u \in Users, NEW f \in Files, NEW to \in Folders, MoveFileRead(r, u, f, to)
      PROVE  Alone(r)
  BY <1>3, SetAlone DEF MoveFileRead
<1>4. ASSUME NEW u \in Users, NEW g \in Folders, CreateFolderCheck(r, u, g) PROVE Alone(r)
  BY <1>4, SetAlone DEF CreateFolderCheck
<1>5. ASSUME NEW u \in Users, NEW g \in Folders, NEW to \in Folders \cup {Top}, MoveFolderRead(r, u, g, to)
      PROVE  Alone(r)
  BY <1>5, SetAlone DEF MoveFolderRead
<1>6. ASSUME NEW u \in Users, NEW g \in Folders, DeleteFolderCheck(r, u, g) PROVE Alone(r)
  BY <1>6, SetAlone DEF DeleteFolderCheck
<1>7. ASSUME NEW u \in Users, NEW f \in Files, NEW to \in Folders, ShareRead(r, u, f, to)
      PROVE  Alone(r)
  BY <1>7, SetAlone DEF ShareRead
<1>8. ASSUME NEW u \in Users, NEW v \in Volumes, SetVolumeRead(r, u, v) PROVE Alone(r)
  BY <1>8, SetAlone DEF SetVolumeRead
<1>9. ASSUME NEW f \in Files, AdminDeleteRead(r, f) PROVE Alone(r)
  BY <1>9, SetAlone DEF AdminDeleteRead
<1> QED BY <1>1, <1>2, <1>3, <1>4, <1>5, <1>6, <1>7, <1>8, <1>9 DEF Arrive

\* Only a request in flight goes on.
LEMMA ContinueAlone ==
  ASSUME TypeOK, NEW r \in Reqs, Continue(r)
  PROVE  Alone(r) /\ req[r].pc # "idle"
<1>1. CASE UploadTx(r)
  BY <1>1, DoneAlone, PrepareAlone DEF UploadTx, UploadSaves, At
<1>2. CASE LockChain(r) \/ DeleteRow(r) \/ DeleteRefund(r)
  BY <1>2 DEF LockChain, DeleteRow, DeleteRefund, At, TypeOK, Alone
<1>3. CASE MoveFileRead2(r) \/ MoveFileRead3(r)
  BY <1>3, DoneAlone DEF MoveFileRead2, MoveFileRead3, At, TypeOK, Alone
<1>4. CASE MoveFileTx(r)
  BY <1>4, PrepareAlone DEF MoveFileTx, At
<1>5. CASE CreateFolder(r)
  BY <1>5, DoneAlone DEF CreateFolder, At
<1>6. CASE MoveFolderRead2(r) \/ MoveFolderRead3(r)
  BY <1>6 DEF MoveFolderRead2, MoveFolderRead3, At, TypeOK, Alone
<1>7. CASE MoveFolderTx(r)
  BY <1>7, PrepareAlone DEF MoveFolderTx, At
<1>8. CASE DeleteFolderTx(r)
  BY <1>8, PrepareAlone DEF DeleteFolderTx, At
<1>9. CASE ShareRead2(r) \/ ShareRead3(r)
  BY <1>9, DoneAlone DEF ShareRead2, ShareRead3, At, TypeOK, Alone
<1>10. CASE ShareTx(r)
  BY <1>10, PrepareAlone DEF ShareTx, At
<1>11. CASE ShareCreate(r)
  BY <1>11 DEF ShareCreate, At, TypeOK, Alone
<1>12. CASE SetVolume(r)
  BY <1>12, DoneAlone DEF SetVolume, At
<1>13. CASE AdminDeleteFind(r)
  BY <1>13, DoneAlone DEF AdminDeleteFind, At, TypeOK, Alone
<1>14. CASE AdminDelete(r)
  BY <1>14, DoneAlone DEF AdminDelete, At
<1>15. CASE Commit(r)
  BY <1>15, DoneAlone DEF Commit
<1> QED BY <1>1, <1>2, <1>3, <1>4, <1>5, <1>6, <1>7, <1>8, <1>9, <1>10, <1>11, <1>12,
           <1>13, <1>14, <1>15 DEF Continue

-----------------------------------------------------------------------------
(* Refinement *)

LEMMA InitMaps == PoolInit => Pool!Init
BY DEF PoolInit, Init, Idle, Demand, Pool!Init

\* What a step of request r does to its connections is a turn of a client.
LEMMA TurnMaps ==
  ASSUME TypeOK, NEW r \in Reqs, Alone(r), Settle(r), ~Pool!Waits(r),
         InTransaction(req'[r]) => r \in first \/ Pool!Free
  PROVE  Pool!Turn(r)
<1> DEFINE need(q) == [x \in Reqs |-> Demand(q[x])]
<1>1. need(req)' = [need(req) EXCEPT ![r] = Demand(req'[r])]
  BY DEF Alone
<1>2. InTransaction(req'[r]) => need(req)'[r] # 0
  BY DEF InTransaction, Demand
<1>3. Demand(req'[r]) \in 0..2
  BY DemandType
<1> QED BY <1>1, <1>2, <1>3 DEF Pool!Turn, Settle

LEMMA NextMaps == TypeOK /\ [PoolNext]_poolVars => [Pool!Next]_(Pool!cvars)
<1> SUFFICES ASSUME TypeOK, [PoolNext]_poolVars PROVE [Pool!Next]_(Pool!cvars)
  OBVIOUS
<1>1. CASE UNCHANGED poolVars
  BY <1>1 DEF poolVars, vars, Pool!cvars
<1>2. ASSUME NEW r \in Reqs, Connect(r) PROVE Pool!Connect(r)
  BY <1>2 DEF Connect, Pool!Connect, vars
<1>3. ASSUME NEW r \in Reqs, Begin(r) PROVE Pool!Turn(r)
  <2>1. req[r].pc = "idle"
    BY <1>3 DEF Begin, Arrive, Accept, UploadCheck, DeleteRead, MoveFileRead, CreateFolderCheck,
       MoveFolderRead, DeleteFolderCheck, ShareRead, SetVolumeRead, AdminDeleteRead
  <2>2. ~Pool!Waits(r)
    BY <2>1 DEF Pool!Waits, Demand
  <2> QED BY <1>3, <2>2, ArriveAlone, TurnMaps DEF Begin
<1>4. ASSUME NEW r \in Reqs, Proceed(r) PROVE Pool!Turn(r)
  <2>1. Demand(req[r]) >= 1
    BY <1>4, ContinueAlone DEF Proceed, Demand
  <2>2. r \in first
    BY <1>4, <2>1 DEF Proceed, Pool!Waits
  <2> QED BY <1>4, <2>2, ContinueAlone, TurnMaps DEF Proceed
<1>5. ASSUME NEW r \in Reqs, Break(r) \/ Expire(r) PROVE Pool!Turn(r)
  <2>1. Done(r) /\ Settle(r) /\ ~Pool!Waits(r)
    BY <1>5 DEF Break, Expire, Fail, LockTimeout
  <2>2. ~InTransaction(req'[r])
    BY <2>1 DEF Done, Idle, InTransaction, TypeOK
  <2> QED BY <2>1, <2>2, DoneAlone, TurnMaps
<1> QED BY <1>1, <1>2, <1>3, <1>4, <1>5 DEF PoolNext, Pool!Next

LEMMA NextIsNext == [PoolNext]_poolVars => [Next]_vars
BY DEF PoolNext, poolVars, Next, Connect, Begin, Proceed, Break, Expire

LEMMA TypeHolds == PoolSpec => []TypeInv
<1>1. PoolInit => TypeInv
  BY InitType DEF PoolInit
<1>2. TypeInv /\ [PoolNext]_poolVars => TypeInv'
  BY NextIsNext, NextType
<1> QED BY <1>1, <1>2, PTL DEF PoolSpec

\* With a pool of connections the requests do what they do without it, only
\* less: whatever is shown of them in Storage holds here too.
THEOREM PoolOnlyDelays == PoolSpec => Spec
<1>1. PoolInit => Init
  BY DEF PoolInit
<1> QED BY <1>1, NextIsNext, PTL DEF PoolSpec, Spec

\* Every step of every request takes, keeps and gives back connections as a
\* client of the pool does.
THEOREM ImplementsPool == PoolSpec => UsesPool
<1>1. TypeInv => TypeOK
  BY DEF TypeInv
<1> QED BY <1>1, InitMaps, NextMaps, TypeHolds, PTL DEF PoolSpec, UsesPool, Pool!PSpec

\* Fewer file deletes and saves of shared files at a time than connections
\* never drain the pool, so no request then waits for a connection for ever
\* because of others that do.
THEOREM OnlyDeletesAndSavesDrain == PoolSpec => []DrainedByNesting
<1>1. PP!Bounded
  BY PoolAssumption DEF PP!Bounded, PP!IsFiniteSet, IsFiniteSet
<1>2. PP!PSpec => []PP!DrainedByNesting
  BY <1>1, PP!OnlyNestingDrains
<1>3. PP!Init <=> Pool!Init
  BY DEF PP!Init, Pool!Init
<1>4. PP!Next <=> Pool!Next
  BY DEF PP!Next, Pool!Next, PP!Connect, Pool!Connect, PP!Turn, Pool!Turn,
         PP!Waits, Pool!Waits, PP!Free, Pool!Free, PP!Cardinality, Pool!Cardinality
<1>5. UNCHANGED PP!cvars <=> UNCHANGED Pool!cvars
  BY DEF PP!cvars, Pool!cvars
<1>6. PP!DrainedByNesting <=> DrainedByNesting
  BY DEF DrainedByNesting, PP!DrainedByNesting, Pool!DrainedByNesting, PP!Drained,
         Pool!Drained, PP!Nested, Pool!Nested, PP!Waits, Pool!Waits, PP!Free, Pool!Free,
         PP!Cardinality, Pool!Cardinality
<1> QED BY <1>2, <1>3, <1>4, <1>5, <1>6, ImplementsPool, PTL
       DEF UsesPool, PP!PSpec, Pool!PSpec
=============================================================================
