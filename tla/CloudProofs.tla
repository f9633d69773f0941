------------------------------ MODULE CloudProofs ------------------------------
(***************************************************************************)
(* What holds of files in cloud storage for any number of users, names,     *)
(* sessions, contents and uploads in flight, whatever overlaps or fails.    *)
(***************************************************************************)
EXTENDS CloudProps, TLAPS

\* What the local variables of an upload hold at every step.
Local(q) ==
  /\ q.pc # "idle" => q.file \in LocalFile
  /\ q.pc \in {"lookup", "exists", "put", "tx", "cache"} => q.md5 \in Digest
  /\ q.pc \in {"put", "tx", "cache"} => q.path \in Users
  /\ q.pc \in {"save", "hash", "exists", "put"} => ~Chunked(q)
  /\ q.pc = "put" => q.path = q.file.user
  /\ q.copy => q.pc \in {"tx", "cache"} /\ q.path = q.file.user /\ Chunked(q)
  /\ q.pc \in {"lookup", "exists", "put"} /\ ~Chunked(q) => local[q.file] # None

TypeInv == TypeOK /\ \A r \in Reqs : Local(req[r])

LEMMA ConstantTypes ==
  /\ None \notin Digest /\ None \notin Users /\ None \notin LocalFile /\ None \notin UploadIds
  /\ Torn \in Bytes /\ Contents \subseteq Bytes /\ None \notin Bytes
  /\ MergedFile \subseteq LocalFile
  /\ \A f \in LocalFile : f.user \in Users /\ ExtOf[f.name] \in Exts
  /\ \A d \in Bytes, e \in Exts : [data |-> d, ext |-> e] \in Digest
BY CloudAssumption DEF Digest, Bytes, LocalFile, MergedFile

LEMMA FilesAre ==
  ASSUME NEW u \in Users, NEW n \in Names
  PROVE  /\ TempOf(u, n) \in LocalFile /\ TempOf(u, n) \notin MergedFile
         /\ \A i \in UploadIds : MergedOf(u, n, i) \in MergedFile
BY ConstantTypes DEF TempOf, MergedOf, LocalFile, MergedFile

LEMMA PlaceIs == \A u \in Users, d \in Digest : PlaceOf(u, d) \in Place
BY DEF PlaceOf, Place

LEMMA StoredType ==
  ASSUME TypeOK, NEW k \in Key, NEW data \in Bytes
  PROVE  Stored(k, data) \subseteq Object
BY DEF TypeOK, Stored, Object

LEMMA KeyTypes == \A p \in Place : UploadKey(p) \in Key /\ ChunkKey(p) \in Key
BY CloudAssumption DEF UploadKey, ChunkKey, Key, Place, Digest

\* A temporary file that is there stays.
TempStays == \A f \in LocalFile : f.id = None /\ local[f] # None => local'[f] # None

LEMMA LocalStays ==
  ASSUME TempStays, NEW q, q.pc # "idle" => q.file \in LocalFile, Local(q)
  PROVE  Local(q)'
BY DEF TempStays, Local, Chunked

\* A step of one request, or of none.
LEMMA OneStep ==
  ASSUME TypeInv, TempStays, NEW r \in Reqs, NEW p \in Request,
         req' = [req EXCEPT ![r] = p], Local(p)'
  PROVE  req' \in [Reqs -> Request] /\ \A x \in Reqs : Local(req[x])'
<1>1. req' \in [Reqs -> Request] /\ req'[r] = p /\ \A x \in Reqs \ {r} : req'[x] = req[x]
  BY DEF TypeInv, TypeOK
<1>2. ASSUME NEW x \in Reqs, x # r PROVE Local(req[x])'
  <2>1. PICK q : q = req[x]
    OBVIOUS
  <2>2. Local(q) /\ req'[x] = q
    BY <1>1, <1>2, <2>1 DEF TypeInv
  <2>3. Local(q)'
    BY <2>2, LocalStays DEF Local
  <2> QED BY <2>2, <2>3
<1> QED BY <1>1, <1>2

LEMMA DoneStep ==
  ASSUME TypeInv, TempStays, NEW r \in Reqs, Done(r)
  PROVE  req' \in [Reqs -> Request] /\ \A x \in Reqs : Local(req[x])'
<1>1. Idle \in Request
  BY DEF Idle, Request, Pcs
<1>2. Local(Idle)'
  BY DEF Local, Idle
<1>3. req' = [req EXCEPT ![r] = Idle]
  BY DEF Done
<1> QED BY <1>1, <1>2, <1>3, OneStep

LEMMA AcceptStep ==
  ASSUME TypeInv, TempStays, NEW r \in Reqs, NEW f \in LocalFile,
         NEW pc \in {"save", "hash", "merge"}, pc # "merge" => f.id = None, Accept(r, f, pc)
  PROVE  /\ req' \in [Reqs -> Request] /\ \A x \in Reqs : Local(req[x])'
         /\ served' \in Nat
<1>0. served' \in Nat
  <2>1. served \in Nat
    BY DEF TypeInv, TypeOK
  <2>2. served' = served + 1
    BY DEF Accept, Ask
  <2> QED BY <2>1, <2>2
<1>1. /\ req'[r].pc = pc /\ req'[r].file = f /\ ~req'[r].copy
      /\ req'[r] \in Request
  BY DEF Accept, Idle, Request, Pcs, TypeInv, TypeOK
<1>2. \A x \in Reqs \ {r} : /\ req'[x] \in Request
                            /\ \/ req'[x] = [req[x] EXCEPT !.crossed = TRUE]
                               \/ req'[x] = req[x]
  BY DEF Accept, Request, TypeInv, TypeOK
<1>3. req' \in [Reqs -> Request]
  BY <1>1, <1>2 DEF Accept
<1>4. Local(req[r])'
  BY <1>1 DEF Local, Chunked
<1>5. ASSUME NEW x \in Reqs, x # r PROVE Local(req[x])'
  <2>1. PICK q \in Request : q = req[x]
    BY DEF TypeInv, TypeOK
  <2>2. PICK p : p = req'[x]
    OBVIOUS
  <2>3. /\ p.pc = q.pc /\ p.file = q.file /\ p.md5 = q.md5 /\ p.path = q.path
        /\ p.copy = q.copy
    BY <1>2, <1>5, <2>1, <2>2 DEF Request
  <2>4. Local(q)'
    BY <2>1, LocalStays DEF TypeInv, Local
  <2>5. Local(p)'
    BY <2>3, <2>4 DEF Local, Chunked
  <2> QED BY <2>2, <2>5
<1> QED BY <1>0, <1>3, <1>4, <1>5

LEMMA UploadType ==
  ASSUME TypeInv, NEW r \in Reqs, NEW u \in Users, NEW n \in Names, UploadFile(r, u, n)
  PROVE  TypeInv'
<1>1. PICK f : f = TempOf(u, n)
  OBVIOUS
<1>2. f \in LocalFile /\ f.id = None
  BY <1>1, FilesAre DEF TempOf
<1>3. local' \in [LocalFile -> Bytes \cup {None}] /\ TempStays
  BY <1>1, <1>2, ConstantTypes DEF UploadFile, TypeInv, TypeOK, TempStays
<1>4. Accept(r, f, "save") \/ Accept(r, f, "hash")
  BY <1>1 DEF UploadFile
<1>5. /\ req' \in [Reqs -> Request] /\ \A x \in Reqs : Local(req[x])'
      /\ served' \in Nat
  BY <1>2, <1>3, <1>4, AcceptStep
<1> QED BY <1>3, <1>5 DEF TypeInv, TypeOK, UploadFile

LEMMA CompleteType ==
  ASSUME TypeInv, NEW r \in Reqs, NEW u \in Users, NEW n \in Names, NEW i \in UploadIds,
         CompleteChunkUpload(r, u, n, i)
  PROVE  TypeInv'
<1>1. PICK f : f = MergedOf(u, n, i)
  OBVIOUS
<1>2. f \in LocalFile /\ f.id # None
  BY <1>1, FilesAre, ConstantTypes DEF MergedOf
<1>3. local' \in [LocalFile -> Bytes \cup {None}] /\ TempStays
  BY <1>1, <1>2, ConstantTypes DEF CompleteChunkUpload, TypeInv, TypeOK, TempStays
<1>4. Accept(r, f, "merge")
  BY <1>1 DEF CompleteChunkUpload
<1>5. /\ req' \in [Reqs -> Request] /\ \A x \in Reqs : Local(req[x])'
      /\ served' \in Nat
  BY <1>2, <1>3, <1>4, AcceptStep
<1>6. jobs' \subseteq Job
  BY DEF CompleteChunkUpload, TypeInv, TypeOK, Job
<1> QED BY <1>3, <1>5, <1>6 DEF TypeInv, TypeOK, CompleteChunkUpload

LEMMA TakeStep ==
  ASSUME TypeInv, TempStays, NEW r \in Reqs, NEW q, q = req[r], q.pc \in {"hash", "merge"},
         NEW bytes \in Bytes, TakeMD5(r, bytes), ~Chunked(q) => local'[q.file] # None
  PROVE  req' \in [Reqs -> Request] /\ \A x \in Reqs : Local(req[x])'
<1>0. q \in Request /\ Local(q) /\ q.file \in LocalFile
  BY DEF TypeInv, TypeOK, Local
<1>1. PICK d \in Bytes :
        req' = [req EXCEPT ![r].md5 = [data |-> d, ext |-> ExtOf[req[r].file.name]],
                           ![r].crossed = @ \/ d # bytes,
                           ![r].pc = "lookup"]
  BY ConstantTypes DEF TakeMD5, Hashed
<1>2. PICK m : m = [data |-> d, ext |-> ExtOf[q.file.name]]
  OBVIOUS
<1>3. m \in Digest
  BY <1>0, <1>2, ConstantTypes
<1> DEFINE p == [q EXCEPT !.md5 = m, !.crossed = @ \/ d # bytes, !.pc = "lookup"]
<1>4. req' = [req EXCEPT ![r] = p]
  BY <1>0, <1>1, <1>2 DEF Request, TypeInv, TypeOK
<1>5. p \in Request
  BY <1>0, <1>3 DEF Request, Pcs
<1>6. p.pc = "lookup" /\ p.file = q.file /\ p.md5 = m /\ p.copy = q.copy
  BY <1>0 DEF Request
<1> HIDE DEF p
<1>7. Local(p)'
  BY <1>0, <1>3, <1>6 DEF Local, Chunked
<1> QED BY <1>4, <1>5, <1>7, OneStep

\* Removing the merged file of a request touches no temporary file.
LEMMA RemovedType ==
  ASSUME TypeInv, NEW q, q.file \in LocalFile, local' = local \/ local' = Removed(q)
  PROVE  local' \in [LocalFile -> Bytes \cup {None}] /\ TempStays
BY DEF Removed, Chunked, TypeInv, TypeOK, TempStays

\* The steps of an upload, from the record q of its locals.
LEMMA RequestType ==
  ASSUME TypeInv, NEW r \in Reqs, NEW q, q = req[r],
         \/ SaveUploadedFile(r) \/ MergeChunks(r) \/ GetFileMD5(r) \/ GetFileInfoFromRedis(r)
         \/ IsObjectExist(r) \/ PutFromFile(r) \/ Record(r)
         \/ SaveFileUploadInfoToRedis(r) \/ Fail(r)
  PROVE  TypeInv'
<1> DEFINE Others == req' \in [Reqs -> Request] /\ \A x \in Reqs : Local(req[x])'
           Disk   == local' \in [LocalFile -> Bytes \cup {None}] /\ TempStays
<1>1. q \in Request /\ Local(q) /\ (q.pc # "idle" => q.file \in LocalFile)
  BY DEF TypeInv, TypeOK, Local
<1>0. local' = local => Disk
  BY DEF TypeInv, TypeOK, TempStays
<1>2. CASE SaveUploadedFile(r)
  <2>1. q.pc = "save" /\ q.file \in LocalFile /\ ~Chunked(q) /\ ~q.copy
    BY <1>1, <1>2 DEF SaveUploadedFile, Local
  <2>2. Disk
    BY <1>2, <2>1, <1>0, ConstantTypes DEF SaveUploadedFile, TypeInv, TypeOK, TempStays
  <2> DEFINE p == [q EXCEPT !.pc = "hash"]
  <2>3. p \in Request /\ req' = [req EXCEPT ![r] = p]
    BY <1>1, <1>2 DEF SaveUploadedFile, Goto, Request, Pcs
  <2>4. Local(p)'
    BY <1>1, <2>1 DEF Local, Chunked, Request
  <2> HIDE DEF p
  <2>5. Others
    BY <2>2, <2>3, <2>4, OneStep
  <2> QED BY <1>2, <2>2, <2>5 DEF TypeInv, TypeOK, SaveUploadedFile, history
<1>3. CASE MergeChunks(r)
  <2>1. q.pc = "merge" /\ q.file \in LocalFile
    BY <1>1, <1>3 DEF MergeChunks
  <2>2. ASSUME NEW d \in Bytes, local' = [local EXCEPT ![q.file] = d], TakeMD5(r, d)
        PROVE  Disk /\ Others
    <3>1. Disk /\ local'[q.file] # None
      BY <2>1, <2>2, ConstantTypes DEF TypeInv, TypeOK, TempStays
    <3>2. Others
      BY <2>1, <2>2, <3>1, TakeStep
    <3> QED BY <3>1, <3>2
  <2>3. ASSUME Done(r), local' = local PROVE Disk /\ Others
    BY <2>3, <1>0, DoneStep
  <2>4. Disk /\ Others
    BY <1>3, <2>2, <2>3 DEF MergeChunks
  <2> QED BY <1>3, <2>4 DEF TypeInv, TypeOK, MergeChunks, history
<1>4. CASE GetFileMD5(r)
  <2>1. q.pc = "hash" /\ q.file \in LocalFile /\ local' = local /\ Disk
    BY <1>1, <1>4, <1>0 DEF GetFileMD5
  <2>2. PICK bytes : bytes = local[q.file]
    OBVIOUS
  <2>3. ASSUME bytes # None, TakeMD5(r, bytes) PROVE Others
    <3>1. bytes \in Bytes
      BY <2>1, <2>2, <2>3 DEF TypeInv, TypeOK
    <3> QED BY <2>1, <2>2, <2>3, <3>1, TakeStep
  <2>4. ASSUME Done(r) PROVE Others
    BY <2>1, <2>4, DoneStep
  <2>5. Others
    BY <1>4, <2>2, <2>3, <2>4 DEF GetFileMD5
  <2> QED BY <1>4, <2>1, <2>5 DEF TypeInv, TypeOK, GetFileMD5, history
<1>5. CASE GetFileInfoFromRedis(r)
  <2>1. /\ q.pc = "lookup" /\ q.file \in LocalFile /\ q.md5 \in Digest /\ ~q.copy
        /\ local' = local /\ Disk /\ q.file.user \in Users
        /\ ~Chunked(q) => local'[q.file] # None
    BY <1>1, <1>5, <1>0, ConstantTypes DEF GetFileInfoFromRedis, Local
  <2>2. ASSUME Chunked(q),
               req' = [req EXCEPT ![r].path = q.file.user, ![r].copy = TRUE, ![r].pc = "tx"]
        PROVE  Others
    <3> DEFINE p == [q EXCEPT !.path = q.file.user, !.copy = TRUE, !.pc = "tx"]
    <3>1. p \in Request /\ req' = [req EXCEPT ![r] = p]
      BY <1>1, <2>1, <2>2 DEF Request, Pcs
    <3>2. Local(p)'
      BY <1>1, <2>1, <2>2 DEF Request, Local, Chunked
    <3> HIDE DEF p
    <3> QED BY <2>1, <3>1, <3>2, OneStep
  <2>3. ASSUME ~Chunked(q), Goto(r, "exists") PROVE Others
    <3> DEFINE p == [q EXCEPT !.pc = "exists"]
    <3>1. p \in Request /\ req' = [req EXCEPT ![r] = p]
      BY <1>1, <2>1, <2>3 DEF Request, Pcs, Goto
    <3>2. Local(p)'
      BY <1>1, <2>1, <2>3 DEF Request, Local, Chunked
    <3> HIDE DEF p
    <3> QED BY <2>1, <3>1, <3>2, OneStep
  <2>4. ASSUME NEW o \in paths, req' = [req EXCEPT ![r].path = o.path, ![r].pc = "tx"]
        PROVE  Others
    <3> DEFINE p == [q EXCEPT !.path = o.path, !.pc = "tx"]
    <3>1. o.path \in Users
      BY DEF TypeInv, TypeOK, Place
    <3>2. p \in Request /\ req' = [req EXCEPT ![r] = p]
      BY <1>1, <2>1, <2>4, <3>1 DEF Request, Pcs
    <3>3. Local(p)'
      BY <1>1, <2>1, <3>1 DEF Request, Local, Chunked
    <3> HIDE DEF p
    <3> QED BY <2>1, <3>2, <3>3, OneStep
  <2>5. Others
    BY <1>5, <2>2, <2>3, <2>4 DEF GetFileInfoFromRedis
  <2> QED BY <1>5, <2>1, <2>5 DEF TypeInv, TypeOK, GetFileInfoFromRedis, history
<1>6. CASE IsObjectExist(r)
  <2>1. /\ q.pc = "exists" /\ q.file \in LocalFile /\ q.md5 \in Digest /\ ~Chunked(q) /\ ~q.copy
        /\ local' = local /\ Disk /\ q.file.user \in Users /\ local'[q.file] # None
    BY <1>1, <1>6, <1>0, ConstantTypes DEF IsObjectExist, Local
  <2>2. PICK pc \in {"tx", "put"} : req' = [req EXCEPT ![r].path = q.file.user, ![r].pc = pc]
    BY <1>6 DEF IsObjectExist
  <2> DEFINE p == [q EXCEPT !.path = q.file.user, !.pc = pc]
  <2>3. p \in Request /\ req' = [req EXCEPT ![r] = p]
    BY <1>1, <2>1, <2>2 DEF Request, Pcs
  <2>4. Local(p)'
    BY <1>1, <2>1, <2>2 DEF Request, Local, Chunked
  <2> HIDE DEF p
  <2>5. Others
    BY <2>1, <2>3, <2>4, OneStep
  <2> QED BY <1>6, <2>1, <2>5 DEF TypeInv, TypeOK, IsObjectExist, history
<1>7. CASE PutFromFile(r)
  <2>1. /\ q.pc = "put" /\ q.file \in LocalFile /\ q.md5 \in Digest /\ q.path \in Users
        /\ ~Chunked(q) /\ ~q.copy /\ local' = local /\ Disk /\ q.file.user \in Users
    BY <1>1, <1>7, <1>0, ConstantTypes DEF PutFromFile, Local
  <2> DEFINE p == [q EXCEPT !.pc = "tx"]
  <2>2. p \in Request /\ req' = [req EXCEPT ![r] = p]
    BY <1>1, <1>7 DEF PutFromFile, Goto, Request, Pcs
  <2>3. Local(p)'
    BY <1>1, <2>1 DEF Request, Local, Chunked
  <2> HIDE DEF p
  <2>4. Others
    BY <2>1, <2>2, <2>3, OneStep
  <2>5. local[q.file] \in Bytes
    BY <1>1, <2>1 DEF Local, TypeInv, TypeOK
  <2>6. PICK o : o = PlaceOf(q.file.user, q.md5)
    OBVIOUS
  <2>7. o \in Place /\ UploadKey(o) \in Key
    BY <2>1, <2>6, PlaceIs, KeyTypes
  <2>8. objects' \subseteq Object /\ doubtful' \subseteq Place
    BY <1>7, <2>5, <2>6, <2>7, StoredType DEF PutFromFile, TypeInv, TypeOK
  <2> QED BY <1>7, <2>1, <2>4, <2>8 DEF TypeInv, TypeOK, PutFromFile
<1>8. CASE Record(r)
  <2>1. /\ q.pc = "tx" /\ q.file \in LocalFile /\ q.md5 \in Digest /\ q.path \in Users
        /\ q.file.user \in Users
    BY <1>1, <1>8, ConstantTypes DEF Record, Local
  <2>2. Disk
    BY <1>8, <2>1, <1>0, RemovedType DEF Record
  <2>3. ASSUME Goto(r, "cache") PROVE Others
    <3> DEFINE p == [q EXCEPT !.pc = "cache"]
    <3>1. p \in Request /\ req' = [req EXCEPT ![r] = p]
      BY <1>1, <2>3 DEF Goto, Request, Pcs
    <3>2. Local(p)'
      BY <1>1, <2>1 DEF Request, Local, Chunked
    <3> HIDE DEF p
    <3> QED BY <2>2, <3>1, <3>2, OneStep
  <2>4. ASSUME Done(r) PROVE Others
    BY <2>2, <2>4, DoneStep
  <2>5. Others
    BY <1>8, <2>3, <2>4 DEF Record
  <2>6. PlaceOf(q.file.user, q.md5) \in Place /\ PlaceOf(q.path, q.md5) \in Place
    BY <2>1, PlaceIs
  <2>7. files' \subseteq Place /\ adrift' \subseteq Place
    BY <1>8, <2>6 DEF Record, TypeInv, TypeOK
  <2>8. jobs' \subseteq Job
    <3>1. q.copy => q.file \in MergedFile
      BY <1>1, <2>1 DEF Local, Chunked, LocalFile, MergedFile
    <3>2. PICK o \in Place : o = PlaceOf(q.file.user, q.md5)
      BY <2>6
    <3>3. q.copy => [at |-> o, from |-> q.file, pc |-> "copy", data |-> Torn,
                     crossed |-> q.crossed] \in Job
      BY <1>1, <3>1, <3>2, ConstantTypes DEF Job, Request
    <3> QED BY <1>8, <3>2, <3>3 DEF Record, TypeInv, TypeOK
  <2> QED BY <1>8, <2>2, <2>5, <2>7, <2>8 DEF TypeInv, TypeOK, Record
<1>9. CASE SaveFileUploadInfoToRedis(r)
  <2>1. q.file \in LocalFile /\ q.md5 \in Digest /\ q.path \in Users
    BY <1>1, <1>9 DEF SaveFileUploadInfoToRedis, Local
  <2>2. Disk
    BY <1>9, <2>1, RemovedType DEF SaveFileUploadInfoToRedis
  <2>3. Others
    BY <1>9, <2>2, DoneStep DEF SaveFileUploadInfoToRedis
  <2>4. paths' \subseteq Place
    BY <1>9, <2>1, PlaceIs DEF SaveFileUploadInfoToRedis, TypeInv, TypeOK
  <2> QED BY <1>9, <2>2, <2>3, <2>4 DEF TypeInv, TypeOK, SaveFileUploadInfoToRedis, history
<1>10. CASE Fail(r)
  <2>1. Disk
    BY <1>1, <1>10, RemovedType DEF Fail
  <2>2. Others
    BY <1>10, <2>1, DoneStep DEF Fail
  <2> QED BY <1>10, <2>1, <2>2 DEF TypeInv, TypeOK, Fail, history
<1> QED BY <1>2, <1>3, <1>4, <1>5, <1>6, <1>7, <1>8, <1>9, <1>10

\* Goroutines, deletions and time touch no request.
LEMMA OutsideType ==
  ASSUME TypeInv, NEW x,
         \/ x \in jobs /\ (CopyMerged(x) \/ IsCopyExist(x) \/ CopyToCloud(x) \/ LoseCopy(x))
         \/ x \in files /\ DeleteFile(x)
         \/ x \in paths /\ ExpirePath(x)
  PROVE  TypeInv'
<1>1. req' = req /\ local' = local /\ served' \in Nat
  BY DEF CopyMerged, IsCopyExist, CopyToCloud, LoseCopy, DeleteFile, ExpirePath, history, Ask,
         TypeInv, TypeOK
<1>2. \A r \in Reqs : Local(req[r])'
  BY <1>1 DEF TypeInv, Local
<1>3. CASE x \in jobs /\ CopyMerged(x)
  <2>1. x \in Job /\ x.from \in LocalFile
    BY <1>3, ConstantTypes DEF TypeInv, TypeOK, Job
  <2>2. PICK bytes \in Bytes \cup {None} : bytes = local[x.from]
    BY <2>1 DEF TypeInv, TypeOK
  <2>3. bytes # None => [x EXCEPT !.data = bytes, !.pc = "exists"] \in Job
    BY <2>1, <2>2 DEF Job
  <2>4. \A i \in jobs : i \in Job /\ [i EXCEPT !.crossed = @ \/ i.from = x.from] \in Job
    BY DEF TypeInv, TypeOK, Job
  <2>5. jobs' \subseteq Job
    BY <1>3, <2>2, <2>3, <2>4 DEF CopyMerged
  <2> QED BY <1>1, <1>2, <1>3, <2>5 DEF TypeInv, TypeOK, CopyMerged, history
<1>4. CASE x \in jobs /\ IsCopyExist(x)
  <2>1. x \in Job /\ [x EXCEPT !.pc = "put"] \in Job
    BY <1>4 DEF TypeInv, TypeOK, Job
  <2> QED BY <1>1, <1>2, <1>4, <2>1 DEF TypeInv, TypeOK, IsCopyExist, Arrives
<1>5. CASE x \in jobs /\ CopyToCloud(x)
  <2>1. x \in Job /\ x.at \in Place
    BY <1>5 DEF TypeInv, TypeOK, Job
  <2>2. PICK data : /\ data \in IF x.crossed THEN Bytes ELSE {x.data}
                    /\ objects' = Stored(ChunkKey(x.at), data)
    BY <1>5 DEF CopyToCloud
  <2>3. data \in Bytes
    BY <2>1, <2>2 DEF Job
  <2>4. objects' \subseteq Object
    BY <2>1, <2>2, <2>3, KeyTypes, StoredType DEF TypeInv
  <2> QED BY <1>1, <1>2, <1>5, <2>1, <2>4 DEF TypeInv, TypeOK, CopyToCloud, Arrives
<1>6. CASE LoseCopy(x) \/ DeleteFile(x) \/ ExpirePath(x)
  BY <1>1, <1>2, <1>6 DEF TypeInv, TypeOK, LoseCopy, DeleteFile, ExpirePath, history
<1> QED BY <1>3, <1>4, <1>5, <1>6

LEMMA TypeNext == TypeInv /\ [Next]_vars => TypeInv'
<1> SUFFICES ASSUME TypeInv, [Next]_vars PROVE TypeInv'
  OBVIOUS
<1>1. CASE UNCHANGED vars
  BY <1>1 DEF vars, TypeInv, TypeOK, Local
<1> QED BY <1>1, UploadType, CompleteType, RequestType, OutsideType DEF Next

LEMMA InitType == Init => TypeInv
BY DEF Init, TypeInv, TypeOK, Local, Idle, Request, Pcs

\* Local files, objects, rows, cached paths and uploads stay well typed.
THEOREM TypeCorrect == Spec => []TypeOK
<1>1. TypeInv => TypeOK
  BY DEF TypeInv
<1> QED BY <1>1, InitType, TypeNext, PTL DEF Spec
-----------------------------------------------------------------------------
(* Downloads *)

Found(p) == Exists(DownloadKey(p)) \/ p.md5.ext = NoExt \/ p \in adrift

\* An upload that has a path knows that an object is there, or has recorded
\* that one is to come.
Sought(q) == q.pc = "cache" \/ (q.pc = "tx" /\ ~q.copy)

FoundInv == /\ DownloadsFound
            /\ \A r \in Reqs : Sought(req[r]) => Found(PlaceOf(req[r].path, req[r].md5))

LEMMA StoredExists ==
  ASSUME NEW k, NEW data, objects' = Stored(k, data)
  PROVE  Exists(k)'
<1> DEFINE o == [key |-> k, data |-> data]
<1>1. o \in objects' /\ o.key = k
  BY DEF Stored
<1> HIDE DEF o
<1> QED BY <1>1 DEF Exists

\* Keys that are taken stay taken.
LEMMA ExistsStays ==
  ASSUME [Next]_vars, NEW k, Exists(k)
  PROVE  Exists(k)'
<1>1. ASSUME NEW j, NEW data, objects' = Stored(j, data) PROVE Exists(k)'
  <2>1. CASE k = j
    BY <1>1, <2>1, StoredExists
  <2>2. CASE k # j
    BY <1>1, <2>2 DEF Exists, Stored
  <2> QED BY <2>1, <2>2
<1>2. objects' = objects \/ \E j, data : objects' = Stored(j, data)
  BY DEF Next, vars, UploadFile, CompleteChunkUpload, SaveUploadedFile, GetFileMD5,
         GetFileInfoFromRedis, IsObjectExist, PutFromFile, Record, SaveFileUploadInfoToRedis,
         Fail, MergeChunks, CopyMerged, IsCopyExist, CopyToCloud, LoseCopy, DeleteFile, ExpirePath
<1> QED BY <1>1, <1>2 DEF Exists

\* A path leaves adrift when its object arrives where downloads look for it.
LEMMA ArrivesFound ==
  ASSUME NEW j, IsCopyExist(j) \/ CopyToCloud(j), NEW p, p = j.at, p \in adrift, p \notin adrift'
  PROVE  Exists(DownloadKey(p))'
<1>1. p.md5.ext = Png
  BY DEF IsCopyExist, CopyToCloud, Arrives
<1>4. DownloadKey(p) = ChunkKey(p)
  BY <1>1, CloudAssumption DEF DownloadKey, ChunkKey
<1>2. PICK k : k = ChunkKey(p)
  OBVIOUS
<1>3. Exists(k)'
  <2>1. CASE IsCopyExist(j)
    BY <1>2, <2>1 DEF IsCopyExist, Exists
  <2>2. CASE CopyToCloud(j)
    BY <1>2, <2>2, StoredExists DEF CopyToCloud
  <2> QED BY <2>1, <2>2
<1> QED BY <1>2, <1>3, <1>4 DEF DownloadKey

LEMMA FoundStays ==
  ASSUME [Next]_vars, NEW p, Found(p)
  PROVE  Found(p)'
<1>1. ASSUME p \in adrift, p \notin adrift' PROVE Exists(DownloadKey(p))'
  <2>1. PICK j : (IsCopyExist(j) \/ CopyToCloud(j)) /\ p = j.at
    BY <1>1 DEF Next, vars, history, UploadFile, CompleteChunkUpload, SaveUploadedFile, GetFileMD5,
         GetFileInfoFromRedis, IsObjectExist, PutFromFile, Record, SaveFileUploadInfoToRedis,
         Fail, MergeChunks, CopyMerged, IsCopyExist, CopyToCloud, LoseCopy, DeleteFile, ExpirePath,
         Arrives
  <2> QED BY <1>1, <2>1, ArrivesFound
<1>2. PICK k : k = DownloadKey(p)
  OBVIOUS
<1>3. ASSUME Exists(k) PROVE Exists(DownloadKey(p))'
  <2>1. Exists(k)'
    BY <1>3, ExistsStays
  <2> QED BY <1>2, <2>1 DEF DownloadKey
<1> QED BY <1>1, <1>2, <1>3 DEF Found

LEMMA NotedStays ==
  ASSUME TypeInv, FoundInv, [Next]_vars, files' = files, paths' = paths
  PROVE  DownloadsFound'
<1>1. Referenced' = Referenced
  BY DEF Referenced
<1>2. \A p \in Referenced : Found(p)'
  BY FoundStays DEF FoundInv, DownloadsFound, Found
<1> QED BY <1>1, <1>2 DEF DownloadsFound, Found

LEMMA FoundThere ==
  ASSUME NEW r, NEW p, p = PlaceOf(req'[r].path, req'[r].md5), Found(p)'
  PROVE  Found(PlaceOf(req[r].path, req[r].md5))'
BY DEF Found, DownloadKey, PlaceOf

\* Requests other than r stay as they are.
LEMMA OthersFound ==
  ASSUME FoundInv, [Next]_vars, NEW r \in Reqs, \A x \in Reqs \ {r} : req'[x] = req[x],
         (Sought(req[r]) => Found(PlaceOf(req[r].path, req[r].md5)))'
  PROVE  (\A x \in Reqs : Sought(req[x]) => Found(PlaceOf(req[x].path, req[x].md5)))'
<1> SUFFICES ASSUME NEW x \in Reqs, x # r, Sought(req[x])'
             PROVE  Found(PlaceOf(req[x].path, req[x].md5))'
  OBVIOUS
<1>1. PICK q : q = req[x]
  OBVIOUS
<1>2. PICK p : p = PlaceOf(q.path, q.md5)
  OBVIOUS
<1>3. req'[x] = q /\ Sought(q)
  BY <1>1 DEF Sought
<1>4. Found(p)
  BY <1>1, <1>2, <1>3 DEF FoundInv
<1>5. Found(p)'
  BY <1>4, FoundStays
<1> QED BY <1>2, <1>3, <1>5, FoundThere

LEMMA FoundStart ==
  ASSUME TypeInv, FoundInv, [Next]_vars, NEW r \in Reqs, NEW f, NEW pc \in {"save", "hash", "merge"},
         Accept(r, f, pc), files' = files, paths' = paths
  PROVE  FoundInv'
<1>1. DownloadsFound'
  BY NotedStays
<1>2. ASSUME NEW x \in Reqs, Sought(req[x])'
      PROVE  Found(PlaceOf(req[x].path, req[x].md5))'
  <2>1. PICK q \in Request : q = req[x]
    BY DEF TypeInv, TypeOK
  <2>2. PICK p : p = req'[x]
    OBVIOUS
  <2>3. Sought(p)
    BY <1>2, <2>2 DEF Sought
  <2>4. x # r
    BY <2>2, <2>3 DEF Accept, Idle, Sought
  <2>5. p = [q EXCEPT !.crossed = @ \/ q.file = f]
    BY <2>1, <2>2, <2>4 DEF Accept
  <2>6. p.pc = q.pc /\ p.path = q.path /\ p.md5 = q.md5 /\ p.copy = q.copy
    BY <2>1, <2>5 DEF Request
  <2>7. PICK k : k = PlaceOf(q.path, q.md5)
    OBVIOUS
  <2>8. Found(k)
    BY <2>1, <2>3, <2>6, <2>7 DEF FoundInv, Sought
  <2>9. Found(k)'
    BY <2>8, FoundStays
  <2> QED BY <2>2, <2>6, <2>7, <2>9, FoundThere
<1> QED BY <1>1, <1>2 DEF FoundInv

LEMMA FoundStep ==
  ASSUME TypeInv, FoundInv, [Next]_vars, NEW r \in Reqs, NEW q, q = req[r],
         \/ SaveUploadedFile(r) \/ MergeChunks(r) \/ GetFileMD5(r) \/ GetFileInfoFromRedis(r)
         \/ IsObjectExist(r) \/ PutFromFile(r) \/ Record(r)
         \/ SaveFileUploadInfoToRedis(r) \/ Fail(r)
  PROVE  FoundInv'
<1> DEFINE Here == (Sought(req[r]) => Found(PlaceOf(req[r].path, req[r].md5)))'
<1>0. q \in Request /\ Local(q)
  BY DEF TypeInv, TypeOK
<1>1. \A x \in Reqs \ {r} : req'[x] = req[x]
  BY DEF SaveUploadedFile, MergeChunks, GetFileMD5, TakeMD5, GetFileInfoFromRedis, IsObjectExist,
         PutFromFile, Record, SaveFileUploadInfoToRedis, Fail, Goto, Done, TypeInv, TypeOK
<1>2. Done(r) => req'[r].pc = "idle"
  BY DEF Done, Idle, TypeInv, TypeOK
<1>3. CASE SaveUploadedFile(r) \/ MergeChunks(r) \/ GetFileMD5(r) \/ Fail(r)
  <2>1. req'[r].pc \in {"idle", "hash", "lookup"}
    <3>1. \A bytes : TakeMD5(r, bytes) => req'[r].pc = "lookup"
      BY <1>0 DEF TakeMD5, TypeInv, TypeOK, Request
    <3>2. Goto(r, "hash") => req'[r].pc = "hash"
      BY <1>0 DEF Goto, TypeInv, TypeOK, Request
    <3> QED BY <1>2, <1>3, <3>1, <3>2 DEF SaveUploadedFile, MergeChunks, GetFileMD5, Fail
  <2>2. Here
    BY <2>1 DEF Sought
  <2>3. files' = files /\ paths' = paths
    BY <1>3 DEF SaveUploadedFile, MergeChunks, GetFileMD5, Fail
  <2> QED BY <1>1, <2>2, <2>3, NotedStays, OthersFound DEF FoundInv
<1>4. CASE GetFileInfoFromRedis(r)
  <2>1. files' = files /\ paths' = paths /\ q.pc = "lookup"
    BY <1>4 DEF GetFileInfoFromRedis
  <2>2. Here
    <3>1. ASSUME NEW p \in paths, p.md5 = q.md5,
                 req' = [req EXCEPT ![r].path = p.path, ![r].pc = "tx"]
          PROVE  Here
      <4>1. PlaceOf(p.path, q.md5) = p /\ Found(p)
        BY <3>1 DEF TypeInv, TypeOK, Place, PlaceOf, FoundInv, DownloadsFound, Referenced, Found
      <4>2. Found(p)'
        BY <4>1, FoundStays
      <4>3. req'[r].path = p.path /\ req'[r].md5 = q.md5
        BY <1>0, <3>1 DEF TypeInv, TypeOK, Request
      <4> QED BY <4>1, <4>2, <4>3, FoundThere
    <3>2. ASSUME Goto(r, "exists") PROVE Here
      BY <3>2, <1>0 DEF Goto, Sought, TypeInv, TypeOK, Request
    <3>3. ASSUME req' = [req EXCEPT ![r].path = q.file.user, ![r].copy = TRUE, ![r].pc = "tx"]
          PROVE  Here
      BY <3>3, <1>0 DEF Sought, TypeInv, TypeOK, Request
    <3> QED BY <1>4, <3>1, <3>2, <3>3 DEF GetFileInfoFromRedis
  <2> QED BY <1>1, <2>1, <2>2, NotedStays, OthersFound DEF FoundInv
<1>5. CASE IsObjectExist(r) \/ PutFromFile(r)
  <2>1. /\ files' = files /\ paths' = paths /\ q.pc \in {"exists", "put"}
        /\ q.md5 \in Digest /\ ~q.copy
    BY <1>0, <1>5 DEF IsObjectExist, PutFromFile, Local
  <2>2. PICK p : p = PlaceOf(q.file.user, q.md5)
    OBVIOUS
  <2>3. UploadKey(p) = DownloadKey(p) \/ p.md5.ext = NoExt
    BY DEF UploadKey, DownloadKey
  <2>4. ASSUME req'[r].pc = "tx" PROVE Exists(UploadKey(p))'
    <3>1. CASE IsObjectExist(r)
      <4>1. Exists(UploadKey(PlaceOf(q.file.user, q.md5)))
        BY <1>0, <2>4, <3>1 DEF IsObjectExist, TypeInv, TypeOK, Request
      <4> QED BY <2>2, <3>1, <4>1 DEF IsObjectExist, Exists
    <3>2. CASE PutFromFile(r)
      BY <2>2, <3>2, StoredExists DEF PutFromFile, UploadKey
    <3> QED BY <1>5, <3>1, <3>2
  <2>5. req'[r].path = q.file.user /\ req'[r].md5 = q.md5 /\ req'[r].pc \in {"tx", "put"}
    BY <1>0, <1>5 DEF IsObjectExist, PutFromFile, Goto, TypeInv, TypeOK, Request, Local
  <2>6. Here
    <3>1. ASSUME req'[r].pc = "tx" PROVE Found(p)'
      BY <2>3, <2>4, <3>1 DEF Found, DownloadKey, UploadKey
    <3>2. (Sought(req[r]))' => req'[r].pc = "tx"
      BY <2>5 DEF Sought
    <3> QED BY <2>2, <2>5, <3>1, <3>2, FoundThere
  <2> QED BY <1>1, <2>1, <2>6, NotedStays, OthersFound DEF FoundInv
<1>6. CASE Record(r)
  <2>0. q.pc = "tx"
    BY <1>6 DEF Record
  <2>1. CASE Taken(q.md5)
    <3>1. files' = files /\ paths' = paths /\ Done(r)
      BY <1>6, <2>1 DEF Record
    <3>2. Here
      BY <1>2, <3>1 DEF Sought
    <3> QED BY <1>1, <3>1, <3>2, NotedStays, OthersFound DEF FoundInv
  <2>2. CASE ~Taken(q.md5)
    <3>1. PICK p : p = PlaceOf(q.path, q.md5)
      OBVIOUS
    <3>2. Found(p)'
      <4>1. CASE q.copy
        <5>1. q.path = q.file.user
          BY <1>0, <4>1 DEF Local
        <5> QED BY <1>6, <2>2, <3>1, <4>1, <5>1 DEF Record, Found
      <4>2. CASE ~q.copy
        <5>1. Found(p)
          BY <2>0, <3>1, <4>2 DEF FoundInv, Sought
        <5> QED BY <5>1, FoundStays
      <4> QED BY <4>1, <4>2
    <3>3. req'[r].pc = "cache" /\ req'[r].path = q.path /\ req'[r].md5 = q.md5
      BY <1>0, <1>6, <2>2 DEF Record, Goto, TypeInv, TypeOK, Request
    <3>4. Here
      BY <3>1, <3>2, <3>3, FoundThere
    <3>5. Referenced' = Referenced \cup {p}
      BY <1>6, <2>2, <3>1 DEF Record, Referenced
    <3>6. \A x \in Referenced : Found(x)'
      BY FoundStays DEF FoundInv, DownloadsFound, Found
    <3>7. DownloadsFound'
      BY <3>2, <3>5, <3>6 DEF DownloadsFound, Found
    <3> QED BY <1>1, <3>4, <3>7, OthersFound DEF FoundInv
  <2> QED BY <2>1, <2>2
<1>7. CASE SaveFileUploadInfoToRedis(r)
  <2>1. Here
    BY <1>2, <1>7 DEF SaveFileUploadInfoToRedis, Sought
  <2>2. PICK p : p = PlaceOf(q.path, q.md5)
    OBVIOUS
  <2>3. Found(p)
    BY <1>7, <2>2 DEF SaveFileUploadInfoToRedis, FoundInv, Sought
  <2>4. Found(p)'
    BY <2>3, FoundStays
  <2>5. Referenced' \subseteq Referenced \cup {p}
    BY <1>7, <2>2 DEF SaveFileUploadInfoToRedis, Referenced
  <2>6. \A x \in Referenced : Found(x)'
    BY FoundStays DEF FoundInv, DownloadsFound, Found
  <2>7. DownloadsFound'
    BY <2>4, <2>5, <2>6 DEF DownloadsFound, Found
  <2> QED BY <1>1, <2>1, <2>7, OthersFound DEF FoundInv
<1> QED BY <1>3, <1>4, <1>5, <1>6, <1>7

LEMMA FoundOutside ==
  ASSUME TypeInv, FoundInv, [Next]_vars, req' = req,
         files' \subseteq files, paths' \subseteq paths
  PROVE  FoundInv'
<1>1. Referenced' \subseteq Referenced
  BY DEF Referenced
<1>2. \A x \in Referenced : Found(x)'
  BY FoundStays DEF FoundInv, DownloadsFound, Found
<1>3. DownloadsFound'
  BY <1>1, <1>2 DEF DownloadsFound, Found
<1>4. ASSUME NEW x \in Reqs, Sought(req[x])' PROVE Found(PlaceOf(req[x].path, req[x].md5))'
  <2>1. PICK p : p = PlaceOf(req[x].path, req[x].md5)
    OBVIOUS
  <2>2. Found(p)
    BY <1>4, <2>1 DEF FoundInv, Sought
  <2>3. Found(p)'
    BY <2>2, FoundStays
  <2> QED BY <2>1, <2>3, FoundThere
<1> QED BY <1>3, <1>4 DEF FoundInv

\* A download that finds nothing goes back to a chunk upload that recorded the
\* place before anything was there, and whose goroutine has not put it or put it
\* under .png: no order of uploads, copies, deletions and expiries adds to that.
THEOREM FoundAgain == Spec => []DownloadsFound
<1>1. Init => FoundInv
  BY DEF Init, FoundInv, DownloadsFound, Referenced, Sought, Idle
<1>2. TypeInv /\ FoundInv /\ [Next]_vars => FoundInv'
  <2> SUFFICES ASSUME TypeInv, FoundInv, [Next]_vars PROVE FoundInv'
    OBVIOUS
  <2>1. CASE UNCHANGED vars
    BY <2>1, FoundOutside DEF vars
  <2>2. ASSUME NEW p, \/ CopyMerged(p) \/ IsCopyExist(p) \/ CopyToCloud(p) \/ LoseCopy(p)
                      \/ DeleteFile(p) \/ ExpirePath(p)
        PROVE  FoundInv'
    BY <2>2, FoundOutside DEF CopyMerged, IsCopyExist, CopyToCloud, LoseCopy, DeleteFile, ExpirePath
  <2>3. ASSUME NEW r \in Reqs, NEW u, NEW n, UploadFile(r, u, n) PROVE FoundInv'
    BY <2>3, FoundStart DEF UploadFile
  <2>4. ASSUME NEW r \in Reqs, NEW u, NEW n, NEW i, CompleteChunkUpload(r, u, n, i) PROVE FoundInv'
    BY <2>4, FoundStart DEF CompleteChunkUpload
  <2> QED BY <2>1, <2>2, <2>3, <2>4, FoundStep DEF Next
<1>3. FoundInv => DownloadsFound
  BY DEF FoundInv
<1> QED BY <1>1, <1>2, <1>3, InitType, TypeNext, PTL DEF Spec
-----------------------------------------------------------------------------
(* Contents *)

\* While a request writes a local file, all others that use it are crossed.
Crossed ==
  \A r, s \in Reqs :
     r # s /\ Writes(req[r]) /\ req[s].file = req[r].file => req[s].crossed

JobsCrossed ==
  \A r \in Reqs, j \in jobs : Writes(req[r]) /\ req[r].file = j.from => j.crossed

\* What a request with an md5, and a goroutine, has to read is what the md5 was
\* taken of, or gone, unless crossed.
Hashes(q) ==
  q.pc \in {"lookup", "exists", "put", "tx"} => local[q.file] \in {q.md5.data, None} \/ q.crossed

Carries(j) ==
  /\ j.pc = "copy" => local[j.from] \in {j.at.md5.data, None} \/ j.crossed
  /\ j.pc \in {"exists", "put"} => j.data = j.at.md5.data \/ j.crossed

BytesInv == /\ Crossed /\ JobsCrossed
            /\ \A r \in Reqs : Hashes(req[r])
            /\ \A j \in jobs : Carries(j)
            /\ NamedByContent

\* The local variables of a request one step later: it starts to write no file.
Follows(p, q) ==
  \/ p.pc = "idle" /\ p.file = None
  \/ /\ p.file = q.file /\ (q.crossed => p.crossed) /\ (Writes(p) => Writes(q))

\* A local file changes when a request writes it, or goes.
DiskStep(q) ==
  \A f \in LocalFile : \/ local'[f] \in {local[f], None}
                       \/ Writes(q) /\ q.file = f

LEMMA RequestsStay ==
  ASSUME TypeInv, BytesInv, NEW r \in Reqs, NEW p, req' = [req EXCEPT ![r] = p],
         Follows(p, req[r]), DiskStep(req[r]), Hashes(p)'
  PROVE  Crossed' /\ \A x \in Reqs : Hashes(req[x])'
<1>1. req'[r] = p /\ \A s \in Reqs \ {r} : req'[s] = req[s]
  BY DEF TypeInv, TypeOK
<1>2. \A s \in Reqs : req[s].pc # "idle" => req[s].file \in LocalFile
  BY DEF TypeInv, Local
<1>3. Crossed'
  <2> SUFFICES ASSUME NEW x \in Reqs, NEW s \in Reqs, x # s, Writes(req'[x]),
                      req'[s].file = req'[x].file
               PROVE  req'[s].crossed
    BY DEF Crossed, Writes
  <2>1. req'[x].pc # "idle" /\ (x = r => p.file = req[r].file /\ Writes(req[r]))
    BY <1>1 DEF Writes, Follows
  <2>2. Writes(req[x]) /\ req'[x].file = req[x].file
    BY <1>1, <2>1
  <2>3. req[x].file \in LocalFile
    BY <1>2, <2>2 DEF Writes
  <2>4. CASE s # r
    BY <1>1, <2>2, <2>4 DEF BytesInv, Crossed
  <2>5. CASE s = r
    <3>1. p.file # None
      BY <1>1, <2>2, <2>3, <2>5, ConstantTypes
    <3>2. p.file = req[r].file /\ (req[r].crossed => p.crossed)
      BY <3>1 DEF Follows
    <3>3. req[r].crossed
      BY <1>1, <2>2, <2>5, <3>2 DEF BytesInv, Crossed
    <3> QED BY <1>1, <2>5, <3>2, <3>3
  <2> QED BY <2>4, <2>5
<1>4. ASSUME NEW s \in Reqs, s # r PROVE Hashes(req[s])'
  <2>1. PICK q : q = req[s]
    OBVIOUS
  <2>2. req'[s] = q /\ Hashes(q)
    BY <1>1, <1>4, <2>1 DEF BytesInv
  <2>3. ASSUME q.pc # "idle", ~q.crossed PROVE local'[q.file] \in {local[q.file], None}
    <3>1. ~(Writes(req[r]) /\ req[r].file = q.file)
      BY <1>4, <2>1, <2>3 DEF BytesInv, Crossed
    <3>2. q.file \in LocalFile
      BY <1>2, <2>1, <2>3
    <3> QED BY <3>1, <3>2 DEF DiskStep
  <2>4. Hashes(q)'
    BY <2>2, <2>3 DEF Hashes
  <2> QED BY <2>2, <2>4
<1> QED BY <1>1, <1>3, <1>4

\* A goroutine that goes on as it was, but for being crossed.
Same(j, i) == /\ j.at = i.at /\ j.from = i.from /\ j.pc = i.pc /\ j.data = i.data
              /\ i.crossed => j.crossed

LEMMA JobsStay ==
  ASSUME TypeInv, BytesInv, NEW q, q.pc = "idle" \/ \E r \in Reqs : q = req[r],
         \A s \in Reqs : Writes(req'[s]) => Writes(req[s]) /\ req'[s].file = req[s].file,
         DiskStep(q),
         \A j \in jobs' :
            \/ \E i \in jobs : Same(j, i)
            \/ /\ Carries(j)'
               /\ \A s \in Reqs : Writes(req[s]) /\ req[s].file = j.from => j.crossed
  PROVE  JobsCrossed' /\ \A j \in jobs' : Carries(j)'
<1>1. ASSUME NEW j \in jobs', NEW s \in Reqs, Writes(req'[s]), req'[s].file = j.from
      PROVE  j.crossed
  <2>1. Writes(req[s]) /\ req[s].file = j.from
    BY <1>1
  <2>2. ASSUME NEW i \in jobs, Same(j, i) PROVE j.crossed
    BY <2>1, <2>2 DEF Same, BytesInv, JobsCrossed
  <2> QED BY <1>1, <2>1, <2>2
<1>2. JobsCrossed'
  BY <1>1 DEF JobsCrossed, Writes
<1>3. ASSUME NEW j \in jobs', NEW i \in jobs, Same(j, i) PROVE Carries(j)'
  <2>1. Carries(i) /\ i.from \in LocalFile
    BY ConstantTypes DEF BytesInv, TypeInv, TypeOK, Job
  <2>2. i.crossed \/ ~(Writes(q) /\ q.file = i.from)
    BY DEF BytesInv, JobsCrossed, Writes
  <2>3. i.crossed \/ local'[i.from] \in {local[i.from], None}
    BY <2>1, <2>2 DEF DiskStep
  <2> QED BY <1>3, <2>1, <2>3 DEF Same, Carries
<1> QED BY <1>2, <1>3

\* A request starts to write or read a local file.
LEMMA AcceptBytes ==
  ASSUME TypeInv, BytesInv, NEW r \in Reqs, NEW f \in LocalFile,
         NEW pc \in {"save", "merge", "hash"}, Accept(r, f, pc),
         \A k \in LocalFile \ {f} : local'[k] = local[k],
         \A j \in jobs' : /\ j.from = f => j.crossed
                          /\ \E i \in jobs : Same(j, i)
  PROVE  /\ Crossed' /\ JobsCrossed'
         /\ \A x \in Reqs : Hashes(req[x])'
         /\ \A j \in jobs' : Carries(j)'
<1>1. /\ req'[r].pc = pc /\ req'[r].file = f
      /\ (\E y \in Reqs : req[y].file = f /\ Writes(req[y])) => req'[r].crossed
  BY DEF Accept, Idle
<1>2. ASSUME NEW s \in Reqs, s # r
      PROVE  /\ req'[s].pc = req[s].pc /\ req'[s].file = req[s].file /\ req'[s].md5 = req[s].md5
             /\ req[s].crossed \/ req[s].file = f => req'[s].crossed
  <2>1. PICK q \in Request : q = req[s]
    BY DEF TypeInv, TypeOK
  <2>2. req'[s] = [q EXCEPT !.crossed = @ \/ q.file = f]
    BY <1>2, <2>1 DEF Accept
  <2> QED BY <2>1, <2>2 DEF Request
<1>3. Crossed'
  <2> SUFFICES ASSUME NEW x \in Reqs, NEW s \in Reqs, x # s, Writes(req'[x]),
                      req'[s].file = req'[x].file
               PROVE  req'[s].crossed
    BY DEF Crossed, Writes
  <2>1. CASE x = r
    BY <1>1, <1>2, <2>1
  <2>2. CASE s = r
    BY <1>1, <1>2, <2>2 DEF Writes
  <2>3. CASE x # r /\ s # r
    BY <1>2, <2>3 DEF BytesInv, Crossed, Writes
  <2> QED BY <2>1, <2>2, <2>3
<1>4. JobsCrossed'
  <2> SUFFICES ASSUME NEW x \in Reqs, NEW j \in jobs', Writes(req'[x]), req'[x].file = j.from
               PROVE  j.crossed
    BY DEF JobsCrossed, Writes
  <2>1. CASE x = r
    BY <1>1, <2>1
  <2>2. CASE x # r
    BY <1>2, <2>2 DEF BytesInv, JobsCrossed, Writes, Same
  <2> QED BY <2>1, <2>2
<1>5. ASSUME NEW s \in Reqs PROVE Hashes(req[s])'
  <2>1. CASE s = r
    <3>1. PICK p : p = req'[r]
      OBVIOUS
    <3>2. Hashes(p)'
      BY <1>1, <3>1 DEF Hashes
    <3> QED BY <2>1, <3>1, <3>2
  <2>2. CASE s # r
    <3>1. PICK q : q = req[s]
      OBVIOUS
    <3>2. PICK p : p = req'[s]
      OBVIOUS
    <3>3. /\ p.pc = q.pc /\ p.file = q.file /\ p.md5 = q.md5
          /\ q.crossed \/ q.file = f => p.crossed
      BY <1>2, <2>2, <3>1, <3>2
    <3>4. Hashes(q) /\ (q.pc # "idle" => q.file \in LocalFile)
      BY <3>1 DEF BytesInv, TypeInv, Local
    <3>5. Hashes(p)'
      BY <3>3, <3>4 DEF Hashes
    <3> QED BY <3>2, <3>5
  <2> QED BY <2>1, <2>2
<1>6. ASSUME NEW j \in jobs' PROVE Carries(j)'
  <2>1. PICK i \in jobs : Same(j, i)
    BY <1>6
  <2>2. Carries(i) /\ i.from \in LocalFile
    BY ConstantTypes DEF BytesInv, TypeInv, TypeOK, Job
  <2> QED BY <1>6, <2>1, <2>2 DEF Same, Carries
<1> QED BY <1>3, <1>4, <1>5, <1>6

\* All of BytesInv but what is in cloud storage.
Reading == /\ Crossed /\ JobsCrossed
           /\ \A r \in Reqs : Hashes(req[r])
           /\ \A j \in jobs : Carries(j)

LEMMA SelfSame == \A j : Same(j, j)
BY DEF Same

LEMMA UploadBytes ==
  ASSUME TypeInv, BytesInv, NEW r \in Reqs, NEW u \in Users, NEW n \in Names, UploadFile(r, u, n)
  PROVE  Reading'
<1>1. PICK f : f = TempOf(u, n)
  OBVIOUS
<1>2. f \in LocalFile /\ f \notin MergedFile
  BY <1>1, FilesAre
<1>3. \A k \in LocalFile \ {f} : local'[k] = local[k]
  BY <1>1, <1>2 DEF UploadFile, TypeInv, TypeOK
<1>4. \A j \in jobs' : j \in jobs /\ j.from \in MergedFile
  BY DEF UploadFile, TypeInv, TypeOK, Job
<1>5. Accept(r, f, "save") \/ Accept(r, f, "hash")
  BY <1>1 DEF UploadFile
<1> QED BY <1>2, <1>3, <1>4, <1>5, SelfSame, AcceptBytes DEF Reading

LEMMA CompleteBytes ==
  ASSUME TypeInv, BytesInv, NEW r \in Reqs, NEW u \in Users, NEW n \in Names, NEW i \in UploadIds,
         CompleteChunkUpload(r, u, n, i)
  PROVE  Reading'
<1>1. PICK f : f = MergedOf(u, n, i)
  OBVIOUS
<1>2. f \in LocalFile
  BY <1>1, FilesAre, ConstantTypes
<1>3. \A k \in LocalFile \ {f} : local'[k] = local[k]
  BY <1>1, <1>2 DEF CompleteChunkUpload, TypeInv, TypeOK
<1>4. \A j \in jobs' : (j.from = f => j.crossed) /\ \E k \in jobs : Same(j, k)
  <2> SUFFICES ASSUME NEW j \in jobs' PROVE (j.from = f => j.crossed) /\ \E k \in jobs : Same(j, k)
    OBVIOUS
  <2>1. PICK k \in jobs : j = [k EXCEPT !.crossed = @ \/ k.from = f]
    BY <1>1 DEF CompleteChunkUpload
  <2>2. k \in Job
    BY DEF TypeInv, TypeOK
  <2> QED BY <2>1, <2>2 DEF Same, Job
<1>5. Accept(r, f, "merge")
  BY <1>1 DEF CompleteChunkUpload
<1> QED BY <1>2, <1>3, <1>4, <1>5, AcceptBytes DEF Reading

\* A step of one request that starts no goroutine.
LEMMA StepReads ==
  ASSUME TypeInv, BytesInv, NEW r \in Reqs, NEW p, req' = [req EXCEPT ![r] = p],
         Follows(p, req[r]), DiskStep(req[r]), Hashes(p)', jobs' = jobs
  PROVE  Reading'
<1>1. \A s \in Reqs : Writes(req'[s]) => Writes(req[s]) /\ req'[s].file = req[s].file
  BY DEF Writes, Follows, TypeInv, TypeOK
<1>2. Crossed' /\ \A x \in Reqs : Hashes(req[x])'
  BY RequestsStay
<1>3. JobsCrossed' /\ \A j \in jobs' : Carries(j)'
  BY <1>1, SelfSame, JobsStay
<1> QED BY <1>2, <1>3 DEF Reading

LEMMA DoneReads ==
  ASSUME TypeInv, BytesInv, NEW r \in Reqs, Done(r), DiskStep(req[r]), jobs' = jobs
  PROVE  Reading'
<1>1. Follows(Idle, req[r]) /\ Hashes(Idle)'
  BY DEF Follows, Idle, Hashes
<1> QED BY <1>1, StepReads DEF Done

LEMMA TakeReads ==
  ASSUME TypeInv, BytesInv, NEW r \in Reqs, NEW bytes, TakeMD5(r, bytes), DiskStep(req[r]),
         local'[req[r].file] = bytes, jobs' = jobs
  PROVE  Reading'
<1>0. PICK q \in Request : q = req[r]
  BY DEF TypeInv, TypeOK
<1>1. PICK d :
        req' = [req EXCEPT ![r].md5 = [data |-> d, ext |-> ExtOf[req[r].file.name]],
                           ![r].crossed = @ \/ d # bytes,
                           ![r].pc = "lookup"]
  BY DEF TakeMD5
<1>2. PICK m : m = [data |-> d, ext |-> ExtOf[q.file.name]]
  OBVIOUS
<1>3. m.data = d
  BY <1>2
<1> DEFINE p == [q EXCEPT !.md5 = m, !.crossed = @ \/ d # bytes, !.pc = "lookup"]
<1>4. req' = [req EXCEPT ![r] = p]
  BY <1>0, <1>1, <1>2 DEF Request, TypeInv, TypeOK
<1>5. /\ p.pc = "lookup" /\ p.file = q.file /\ p.md5 = m
      /\ q.crossed \/ d # bytes => p.crossed
  BY <1>0 DEF Request
<1> HIDE DEF p
<1>6. Follows(p, q) /\ Hashes(p)'
  BY <1>0, <1>3, <1>5 DEF Follows, Writes, Hashes
<1> QED BY <1>0, <1>4, <1>6, StepReads

\* A request goes on to another program counter, with its local file and md5.
LEMMA GoesOn ==
  ASSUME TypeInv, BytesInv, NEW r \in Reqs, NEW q, q = req[r], NEW p, req' = [req EXCEPT ![r] = p],
         p.file = q.file, p.crossed = q.crossed, p.md5 = q.md5,
         p.pc \in {"exists", "put", "tx"}, q.pc \in {"lookup", "exists", "put"},
         local' = local, jobs' = jobs
  PROVE  Reading'
<1>1. Hashes(q) /\ Follows(p, q)
  BY DEF BytesInv, Follows, Writes
<1>2. Hashes(p)'
  BY <1>1 DEF Hashes
<1>3. DiskStep(q)
  BY DEF DiskStep
<1> QED BY <1>1, <1>2, <1>3, StepReads

LEMMA RequestBytes ==
  ASSUME TypeInv, BytesInv, NEW r \in Reqs, NEW q, q = req[r],
         \/ SaveUploadedFile(r) \/ MergeChunks(r) \/ GetFileMD5(r) \/ GetFileInfoFromRedis(r)
         \/ IsObjectExist(r) \/ PutFromFile(r) \/ Record(r)
         \/ SaveFileUploadInfoToRedis(r) \/ Fail(r)
  PROVE  Reading'
<1>1. q \in Request /\ Local(q) /\ Hashes(q) /\ (q.pc # "idle" => q.file \in LocalFile)
  BY DEF TypeInv, TypeOK, BytesInv, Local
<1>0. local' = local \/ local' = Removed(q) => DiskStep(q)
  BY <1>1 DEF DiskStep, Removed, TypeInv, TypeOK
<1>2. CASE SaveUploadedFile(r)
  <2>1. q.pc = "save" /\ q.file \in LocalFile /\ jobs' = jobs
    BY <1>1, <1>2 DEF SaveUploadedFile
  <2>2. DiskStep(q)
    BY <1>2, <2>1 DEF SaveUploadedFile, DiskStep, Writes, TypeInv, TypeOK
  <2> DEFINE p == [q EXCEPT !.pc = "hash"]
  <2>3. req' = [req EXCEPT ![r] = p]
    BY <1>1, <1>2 DEF SaveUploadedFile, Goto
  <2>4. p.pc = "hash" /\ p.file = q.file /\ p.crossed = q.crossed
    BY <1>1 DEF Request
  <2> HIDE DEF p
  <2>5. Follows(p, q) /\ Hashes(p)'
    BY <2>4 DEF Follows, Writes, Hashes
  <2> QED BY <2>1, <2>2, <2>3, <2>5, StepReads
<1>3. CASE MergeChunks(r)
  <2>1. q.pc = "merge" /\ q.file \in LocalFile /\ jobs' = jobs
    BY <1>1, <1>3 DEF MergeChunks
  <2>2. ASSUME NEW d, local' = [local EXCEPT ![q.file] = d], TakeMD5(r, d) PROVE Reading'
    <3>1. DiskStep(q) /\ local'[q.file] = d
      BY <2>1, <2>2 DEF DiskStep, Writes, TypeInv, TypeOK
    <3> QED BY <2>1, <2>2, <3>1, TakeReads
  <2>3. ASSUME Done(r), local' = local PROVE Reading'
    BY <1>0, <2>1, <2>3, DoneReads
  <2> QED BY <1>3, <2>2, <2>3 DEF MergeChunks
<1>4. CASE GetFileMD5(r)
  <2>1. local' = local /\ jobs' = jobs
    BY <1>4 DEF GetFileMD5
  <2>2. Done(r) \/ TakeMD5(r, local[q.file])
    BY <1>4 DEF GetFileMD5
  <2>3. local'[q.file] = local[q.file]
    BY <2>1
  <2> QED BY <1>0, <2>1, <2>2, <2>3, DoneReads, TakeReads
<1>5. CASE GetFileInfoFromRedis(r)
  <2>1. q.pc = "lookup" /\ local' = local /\ jobs' = jobs
    BY <1>5 DEF GetFileInfoFromRedis
  <2>2. ASSUME NEW u, NEW copy, req' = [req EXCEPT ![r].path = u, ![r].copy = copy, ![r].pc = "tx"]
        PROVE  Reading'
    <3> DEFINE p == [q EXCEPT !.path = u, !.copy = copy, !.pc = "tx"]
    <3>1. req' = [req EXCEPT ![r] = p]
      BY <1>1, <2>2
    <3>2. p.pc = "tx" /\ p.file = q.file /\ p.crossed = q.crossed /\ p.md5 = q.md5
      BY <1>1 DEF Request
    <3> HIDE DEF p
    <3> QED BY <2>1, <3>1, <3>2, GoesOn
  <2>3. ASSUME NEW o, req' = [req EXCEPT ![r].path = o, ![r].pc = "tx"] PROVE Reading'
    <3>1. req' = [req EXCEPT ![r].path = o, ![r].copy = q.copy, ![r].pc = "tx"]
      BY <1>1, <2>3 DEF Request, TypeInv, TypeOK
    <3> QED BY <2>2, <3>1
  <2>4. ASSUME Goto(r, "exists") PROVE Reading'
    <3> DEFINE p == [q EXCEPT !.pc = "exists"]
    <3>1. req' = [req EXCEPT ![r] = p]
      BY <1>1, <2>4 DEF Goto
    <3>2. p.pc = "exists" /\ p.file = q.file /\ p.crossed = q.crossed /\ p.md5 = q.md5
      BY <1>1 DEF Request
    <3> HIDE DEF p
    <3> QED BY <2>1, <3>1, <3>2, GoesOn
  <2> QED BY <1>5, <2>2, <2>3, <2>4 DEF GetFileInfoFromRedis
<1>6. CASE IsObjectExist(r)
  <2>1. q.pc = "exists" /\ local' = local /\ jobs' = jobs
    BY <1>6 DEF IsObjectExist
  <2>2. PICK pc \in {"tx", "put"} : req' = [req EXCEPT ![r].path = q.file.user, ![r].pc = pc]
    BY <1>6 DEF IsObjectExist
  <2> DEFINE p == [q EXCEPT !.path = q.file.user, !.pc = pc]
  <2>3. req' = [req EXCEPT ![r] = p]
    BY <1>1, <2>2
  <2>4. p.pc = pc /\ p.file = q.file /\ p.crossed = q.crossed /\ p.md5 = q.md5
    BY <1>1 DEF Request
  <2> HIDE DEF p
  <2> QED BY <2>1, <2>3, <2>4, GoesOn
<1>7. CASE PutFromFile(r)
  <2>1. q.pc = "put" /\ local' = local /\ jobs' = jobs
    BY <1>7 DEF PutFromFile
  <2> DEFINE p == [q EXCEPT !.pc = "tx"]
  <2>2. req' = [req EXCEPT ![r] = p]
    BY <1>1, <1>7 DEF PutFromFile, Goto
  <2>3. p.pc = "tx" /\ p.file = q.file /\ p.crossed = q.crossed /\ p.md5 = q.md5
    BY <1>1 DEF Request
  <2> HIDE DEF p
  <2> QED BY <2>1, <2>2, <2>3, GoesOn
<1>8. CASE Record(r)
  <2>1. q.pc = "tx" /\ q.file \in LocalFile /\ DiskStep(q)
    BY <1>0, <1>1, <1>8 DEF Record
  <2>2. CASE Taken(q.md5)
    BY <1>8, <2>1, <2>2, DoneReads DEF Record
  <2>3. CASE ~Taken(q.md5)
    <3> DEFINE p == [q EXCEPT !.pc = "cache"]
    <3>1. req' = [req EXCEPT ![r] = p] /\ local' = local
      BY <1>1, <1>8, <2>3 DEF Record, Goto
    <3>2. p.pc = "cache" /\ p.file = q.file /\ p.crossed = q.crossed
      BY <1>1 DEF Request
    <3> HIDE DEF p
    <3>3. Follows(p, q) /\ Hashes(p)'
      BY <3>2 DEF Follows, Writes, Hashes
    <3>4. Crossed' /\ \A x \in Reqs : Hashes(req[x])'
      BY <2>1, <3>1, <3>3, RequestsStay
    <3>5. \A s \in Reqs : Writes(req'[s]) => Writes(req[s]) /\ req'[s].file = req[s].file
      BY <3>1, <3>2 DEF Writes, TypeInv, TypeOK
    <3>6. ASSUME NEW j \in jobs', j \notin jobs
          PROVE  /\ Carries(j)'
                 /\ \A s \in Reqs : Writes(req[s]) /\ req[s].file = j.from => j.crossed
      <4>1. PICK o : o = PlaceOf(q.file.user, q.md5)
        OBVIOUS
      <4>2. j = [at |-> o, from |-> q.file, pc |-> "copy", data |-> Torn, crossed |-> q.crossed]
        BY <1>8, <2>3, <3>6, <4>1 DEF Record
      <4>3. /\ j.at.md5 = q.md5 /\ j.from = q.file /\ j.pc = "copy" /\ j.crossed = q.crossed
        BY <4>1, <4>2 DEF PlaceOf
      <4>4. Carries(j)'
        BY <1>1, <2>1, <3>1, <4>3 DEF Carries, Hashes
      <4>5. ASSUME NEW s \in Reqs, Writes(req[s]), req[s].file = j.from PROVE j.crossed
        <5>1. s # r
          BY <2>1, <4>5 DEF Writes
        <5> QED BY <4>3, <4>5, <5>1 DEF BytesInv, Crossed
      <4> QED BY <4>4, <4>5
    <3>7. \A j \in jobs' :
            \/ \E i \in jobs : Same(j, i)
            \/ /\ Carries(j)'
               /\ \A s \in Reqs : Writes(req[s]) /\ req[s].file = j.from => j.crossed
      BY <3>6, SelfSame
    <3>8. JobsCrossed' /\ \A j \in jobs' : Carries(j)'
      BY <2>1, <3>5, <3>7, JobsStay
    <3> QED BY <3>4, <3>8 DEF Reading
  <2> QED BY <2>2, <2>3
<1>9. CASE SaveFileUploadInfoToRedis(r) \/ Fail(r)
  BY <1>0, <1>9, DoneReads DEF SaveFileUploadInfoToRedis, Fail
<1> QED BY <1>2, <1>3, <1>4, <1>5, <1>6, <1>7, <1>8, <1>9

LEMMA OutsideBytes ==
  ASSUME TypeInv, BytesInv, req' = req, local' = local,
         \A j \in jobs' :
            \/ \E i \in jobs : Same(j, i)
            \/ /\ Carries(j)'
               /\ \A s \in Reqs : Writes(req[s]) /\ req[s].file = j.from => j.crossed
  PROVE  Reading'
<1>1. Crossed' /\ \A x \in Reqs : Hashes(req[x])'
  BY DEF BytesInv, Crossed, Writes, Hashes
<1>2. DiskStep(Idle) /\ Idle.pc = "idle"
  BY DEF DiskStep, Idle
<1>3. JobsCrossed' /\ \A j \in jobs' : Carries(j)'
  BY <1>2, JobsStay
<1> QED BY <1>1, <1>3 DEF Reading

LEMMA JobBytes ==
  ASSUME TypeInv, BytesInv, NEW x \in jobs,
         CopyMerged(x) \/ IsCopyExist(x) \/ CopyToCloud(x) \/ LoseCopy(x)
  PROVE  Reading'
<1>0. /\ req' = req /\ local' = local
      /\ x \in Job /\ Carries(x)
      /\ \A s \in Reqs : Writes(req[s]) /\ req[s].file = x.from => x.crossed
  BY DEF CopyMerged, IsCopyExist, CopyToCloud, LoseCopy, TypeInv, TypeOK, BytesInv, JobsCrossed
<1>1. CASE CopyMerged(x)
  <2>1. PICK bytes : bytes = local[x.from]
    OBVIOUS
  <2> DEFINE y == [x EXCEPT !.data = bytes, !.pc = "exists"]
  <2>2. /\ y.pc = "exists" /\ y.data = bytes /\ y.from = x.from /\ y.at = x.at
        /\ y.crossed = x.crossed
    BY <1>0 DEF Job
  <2>3. \A j \in jobs' : \/ j \in jobs
                          \/ (j = y /\ bytes # None)
                          \/ \E i \in jobs : j = [i EXCEPT !.crossed = @ \/ i.from = x.from]
    <3>1. bytes = None => jobs' \subseteq jobs
      BY <1>1, <2>1 DEF CopyMerged
    <3>2. bytes # None => jobs' = {[i EXCEPT !.crossed = @ \/ i.from = x.from] : i \in jobs \ {x}}
                                    \cup {y}
      BY <1>1, <2>1 DEF CopyMerged
    <3> HIDE DEF y
    <3> QED BY <3>1, <3>2
  <2> HIDE DEF y
  <2>4. bytes # None => Carries(y)'
    BY <1>0, <1>1, <2>1, <2>2 DEF CopyMerged, Carries
  <2>5. ASSUME NEW i \in jobs, NEW j, j = [i EXCEPT !.crossed = @ \/ i.from = x.from]
        PROVE  Same(j, i)
    BY <2>5 DEF Same, TypeInv, TypeOK, Job
  <2> QED BY <1>0, <2>2, <2>3, <2>4, <2>5, SelfSame, OutsideBytes
<1>2. CASE IsCopyExist(x)
  <2> DEFINE y == [x EXCEPT !.pc = "put"]
  <2>1. /\ y.pc = "put" /\ y.data = x.data /\ y.from = x.from /\ y.at = x.at
        /\ y.crossed = x.crossed
    BY <1>0 DEF Job
  <2>2. \A j \in jobs' : j \in jobs \/ j = y
    BY <1>2 DEF IsCopyExist
  <2> HIDE DEF y
  <2>3. Carries(y)'
    BY <1>0, <1>2, <2>1 DEF IsCopyExist, Carries
  <2> QED BY <1>0, <2>1, <2>2, <2>3, SelfSame, OutsideBytes
<1>3. CASE CopyToCloud(x) \/ LoseCopy(x)
  BY <1>0, <1>3, SelfSame, OutsideBytes DEF CopyToCloud, LoseCopy
<1> QED BY <1>1, <1>2, <1>3

LEMMA ReadingNext ==
  ASSUME TypeInv, BytesInv, [Next]_vars
  PROVE  Reading'
<1>1. CASE UNCHANGED vars
  BY <1>1, SelfSame, OutsideBytes DEF vars
<1>2. ASSUME NEW x, DeleteFile(x) \/ ExpirePath(x) PROVE Reading'
  BY <1>2, SelfSame, OutsideBytes DEF DeleteFile, ExpirePath
<1> QED BY <1>1, <1>2, UploadBytes, CompleteBytes, RequestBytes, JobBytes DEF Next

\* What a step does to cloud storage.
LEMMA ObjectStep ==
  ASSUME TypeInv, BytesInv, [Next]_vars
  PROVE  /\ doubtful \subseteq doubtful'
         /\ \/ objects' = objects
            \/ \E k, data : /\ objects' = Stored(k, data)
                            /\ data = k.at.md5.data \/ k.at \in doubtful'
<1>1. ASSUME NEW r \in Reqs, PutFromFile(r)
      PROVE  \E k, data : /\ objects' = Stored(k, data)
                          /\ data = k.at.md5.data \/ k.at \in doubtful'
  <2>1. PICK q : q = req[r]
    OBVIOUS
  <2>2. q.pc = "put" /\ Local(q) /\ Hashes(q)
    BY <1>1, <2>1 DEF PutFromFile, TypeInv, BytesInv
  <2>3. local[q.file] = q.md5.data \/ q.crossed
    BY <2>2 DEF Local, Hashes
  <2>4. PICK p : p = PlaceOf(q.file.user, q.md5)
    OBVIOUS
  <2>5. PICK k : k = UploadKey(p)
    OBVIOUS
  <2>6. k.at = p /\ p.md5 = q.md5
    BY <2>4, <2>5 DEF UploadKey, PlaceOf
  <2>7. objects' = Stored(k, local[q.file]) /\ (q.crossed => p \in doubtful')
    BY <1>1, <2>1, <2>4, <2>5 DEF PutFromFile
  <2> QED BY <2>3, <2>6, <2>7
<1>2. ASSUME NEW j \in jobs, CopyToCloud(j)
      PROVE  \E k, data : /\ objects' = Stored(k, data)
                          /\ data = k.at.md5.data \/ k.at \in doubtful'
  <2>1. j.data = j.at.md5.data \/ j.crossed
    BY <1>2 DEF CopyToCloud, BytesInv, Carries
  <2>2. PICK k : k = ChunkKey(j.at)
    OBVIOUS
  <2>3. k.at = j.at
    BY <2>2 DEF ChunkKey
  <2>4. PICK data : /\ data \in IF j.crossed THEN Bytes ELSE {j.data}
                    /\ objects' = Stored(k, data)
    BY <1>2, <2>2 DEF CopyToCloud
  <2>5. j.crossed => j.at \in doubtful'
    BY <1>2 DEF CopyToCloud
  <2> QED BY <2>1, <2>3, <2>4, <2>5
<1>3. doubtful \subseteq doubtful'
  BY DEF Next, vars, history, UploadFile, CompleteChunkUpload, SaveUploadedFile, GetFileMD5,
         GetFileInfoFromRedis, IsObjectExist, PutFromFile, Record, SaveFileUploadInfoToRedis,
         Fail, MergeChunks, CopyMerged, IsCopyExist, CopyToCloud, LoseCopy, DeleteFile, ExpirePath
<1>4. \/ objects' = objects
      \/ \E r \in Reqs : PutFromFile(r)
      \/ \E j \in jobs : CopyToCloud(j)
  BY DEF Next, vars, UploadFile, CompleteChunkUpload, SaveUploadedFile, GetFileMD5,
         GetFileInfoFromRedis, IsObjectExist, Record, SaveFileUploadInfoToRedis,
         Fail, MergeChunks, CopyMerged, IsCopyExist, LoseCopy, DeleteFile, ExpirePath
<1> QED BY <1>1, <1>2, <1>3, <1>4

LEMMA NamedNext ==
  ASSUME TypeInv, BytesInv, [Next]_vars
  PROVE  NamedByContent' /\ \A o \in objects \ objects' : o.key.at \in doubtful'
<1>1. ASSUME NEW k, NEW data, objects' = Stored(k, data), data = k.at.md5.data \/ k.at \in doubtful',
             doubtful \subseteq doubtful'
      PROVE  NamedByContent' /\ \A o \in objects \ objects' : o.key.at \in doubtful'
  <2> DEFINE n == [key |-> k, data |-> data]
  <2>1. n.key = k /\ n.data = data /\ objects' = {o \in objects : o.key # k} \cup {n}
    BY <1>1 DEF Stored
  <2>2. ASSUME NEW o \in objects, o \notin objects', o.key.at \notin doubtful' PROVE FALSE
    <3>1. o.key = k
      BY <2>1, <2>2
    <3>2. o.data = data
      BY <1>1, <2>2, <3>1 DEF BytesInv, NamedByContent
    <3>3. o = n
      BY <3>1, <3>2 DEF TypeInv, TypeOK, Object
    <3> QED BY <2>1, <2>2, <3>3
  <2> HIDE DEF n
  <2>3. NamedByContent'
    BY <1>1, <2>1 DEF BytesInv, NamedByContent
  <2> QED BY <2>2, <2>3
<1>2. CASE objects' = objects
  BY <1>2, ObjectStep DEF BytesInv, NamedByContent
<1> QED BY <1>1, <1>2, ObjectStep

LEMMA BytesInit == Init => BytesInv
BY DEF Init, BytesInv, Crossed, JobsCrossed, Writes, Hashes, Idle, NamedByContent

LEMMA BytesNext == TypeInv /\ BytesInv /\ [Next]_vars => BytesInv'
BY ReadingNext, NamedNext DEF BytesInv, Reading

\* An object holds what its name says: what was read for the md5 is what is read
\* for the copy, or the local file was crossed in between and its place is doubtful.
THEOREM NamedAlways == Spec => []NamedByContent
<1>1. BytesInv => NamedByContent
  BY DEF BytesInv
<1>2. TypeInv /\ BytesInv /\ [Next]_vars => BytesInv'
  BY BytesNext
<1> QED BY <1>1, <1>2, BytesInit, InitType, TypeNext, PTL DEF Spec

\* No upload, completed copy or deletion takes an object from under a file, or
\* other bytes than it holds to its key, the doubtful places apart: look-up and
\* put may be separated by any steps of others.
THEOREM ObjectsKept == Spec => ObjectsStay
<1>1. TypeInv /\ BytesInv /\ [Next]_vars
        => [\A o \in objects \ objects' : o.key.at \in doubtful']_vars
  BY NamedNext
<1>2. TypeInv /\ BytesInv /\ [Next]_vars => BytesInv'
  BY BytesNext
<1> QED BY <1>1, <1>2, BytesInit, InitType, TypeNext, PTL DEF Spec, ObjectsStay
=============================================================================
