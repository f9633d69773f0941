----------------------------- MODULE ChunkUpload -----------------------------
(***************************************************************************)
(* Uploading a file in chunks: a session in Redis lists the chunks that    *)
(* have arrived, the chunks lie in a directory of the server, and a        *)
(* request completes the session by merging them into one file, recording  *)
(* it in the database and handing it to a goroutine that copies it to      *)
(* cloud storage.                                                          *)
(*                                                                         *)
(* A request is one goroutine; each access to Redis, to a file or to the   *)
(* database is a step.  Bytes are abstracted to whether they are right: a  *)
(* chunk file is whole or not, and a merged file is the set of chunk       *)
(* positions that hold the right bytes.  Folder sizes and the other        *)
(* requests on stores and files are the Storage module's.                  *)
(***************************************************************************)
EXTENDS Integers, FiniteSets

CONSTANTS Sessions,     \* upload ids
          Users,
          Contents,     \* file contents
          SizeOf,       \* the size of every content
          ChunkSize,    \* the size of a chunk
          MaxChunks,    \* bound: no content has more chunks
          MaxSize,      \* what every user may store
          Reqs,         \* request slots: how many requests are in flight
          PerSession,   \* how many requests on one session run at a time
          Duplicates,   \* whether clients send what is listed or on its way
          Failures,     \* whether steps fail and the process dies
          None

TotalChunks(c) == (SizeOf[c] + ChunkSize - 1) \div ChunkSize

Numbers == 1..MaxChunks

ASSUME ChunkAssumption ==
  /\ SizeOf \in [Contents -> Nat]
  /\ ChunkSize \in Nat \ {0}
  /\ MaxChunks \in Nat /\ MaxSize \in Nat
  /\ \A c \in Contents : TotalChunks(c) \in 0..MaxChunks
  /\ PerSession \in Nat
  /\ Duplicates \in BOOLEAN /\ Failures \in BOOLEAN
  /\ None \notin Sessions /\ None \notin Users
  /\ None \notin [user : Users, c : Contents]
  /\ None \notin [c : Contents, right : SUBSET Numbers]
  /\ \A S \in SUBSET Numbers : S # None
  /\ Reqs \cap {"none", "part", "whole"} = {}

VARIABLES upload,    \* whose file a session is for (never changes)
          list,      \* UploadedChunks of the session's hash in Redis
          chunks,    \* the chunk files of a session
          merged,    \* the merged file of a session
          files,     \* table files
          stores,    \* the CurrentSize of every user
          paths,     \* md5s cached in Redis, with the path of their object
          objects,   \* cloud storage
          jobs,      \* the goroutines that copy merged files to it
          req,       \* the requests in flight
          received,  \* history: the chunks received in full at least once
          recorded   \* history: the sessions that made a file row

redis   == <<list, paths>>
disk    == <<chunks, merged>>
tables  == <<files, stores>>
cloud   == <<objects, jobs>>
history == <<upload, received, recorded>>
vars    == <<upload, list, chunks, merged, files, stores, paths, objects, jobs,
             req, received, recorded>>

\* The chunks a session waits for.
Pieces(s) == 1..TotalChunks(upload[s].c)

\* The md5 of a merged file: its bytes.
Digest == [c : Contents, right : SUBSET Numbers]

UploadInfo == [user : Users, c : Contents]
FileRow == [s : Sessions, user : Users, md5 : Digest]
Path    == [md5 : Digest, user : Users]
Object  == [path : Path, data : Digest]
Job     == [s : Sessions, path : Path, data : Digest \cup {None}]

\* A chunk file is absent, whole, cut short for good, or being written by the
\* request that truncated it last.
ChunkFile == {"none", "part", "whole"} \cup Reqs

Pcs == {"idle", "create", "copy", "save",
        "open", "merge", "hash", "check", "tx", "del", "clean", "info", "remove"}

\* A handler's local variables: the session, the chunk number (or the next one
\* to merge), the list it read, whether its merged file still has a name and
\* was written without a gap, the md5, the store and the path it found.
Request ==
  [pc : Pcs, s : Sessions \cup {None}, i : Nat, list : SUBSET Numbers,
   linked : BOOLEAN, even : BOOLEAN, md5 : Digest \cup {None}, size : Nat,
   path : Users \cup {None}]

Idle ==
  [pc |-> "idle", s |-> None, i |-> 0, list |-> {}, linked |-> FALSE,
   even |-> TRUE, md5 |-> None, size |-> 0, path |-> None]

Init ==
  /\ upload = [s \in Sessions |-> None]
  /\ list = [s \in Sessions |-> None]
  /\ chunks = [s \in Sessions |-> [i \in Numbers |-> "none"]]
  /\ merged = [s \in Sessions |-> None]
  /\ files = {}
  /\ stores = [u \in Users |-> 0]
  /\ paths = {}
  /\ objects = {}
  /\ jobs = {}
  /\ req = [r \in Reqs |-> Idle]
  /\ received = [s \in Sessions |-> {}]
  /\ recorded = {}

TypeOK ==
  /\ upload \in [Sessions -> UploadInfo \cup {None}]
  /\ list \in [Sessions -> {None} \cup SUBSET Numbers]
  /\ chunks \in [Sessions -> [Numbers -> ChunkFile]]
  /\ merged \in [Sessions -> {None} \cup SUBSET Numbers]
  /\ files \subseteq FileRow
  /\ stores \in [Users -> Nat]
  /\ paths \subseteq Path
  /\ objects \subseteq Object
  /\ jobs \subseteq Job
  /\ req \in [Reqs -> Request]
  /\ received \in [Sessions -> SUBSET Numbers]
  /\ recorded \subseteq Sessions

-----------------------------------------------------------------------------
(* Requests *)

Uploading == {"create", "copy", "save"}
Completing == Pcs \ (Uploading \cup {"idle"})

On(s) == {r \in Reqs : req[r].s = s}

\* A free slot takes a request on a session its client can find in Redis.
Accept(r, s) ==
  /\ req[r].pc = "idle"
  /\ list[s] # None
  /\ Cardinality(On(s)) < PerSession

At(r, pc) == req[r].pc = pc

Done(r) == req' = [req EXCEPT ![r] = Idle]

Step(r, pc) == req' = [req EXCEPT ![r].pc = pc]

Fits(current, c) == current + SizeOf[c] <= MaxSize

-----------------------------------------------------------------------------
(* ChunkInitService.InitChunkUpload *)

\* A file that does not fit is refused.
InitChunkUpload(s, u, c) ==
  /\ upload[s] = None
  /\ Fits(stores[u], c)
  /\ upload' = [upload EXCEPT ![s] = [user |-> u, c |-> c]]
  /\ list' = [list EXCEPT ![s] = {}]
  /\ UNCHANGED <<paths, disk, tables, cloud, req, received, recorded>>

\* A session nobody has saved for 24 hours disappears; its chunks stay.
Expire(s) ==
  /\ list[s] # None /\ On(s) = {}
  /\ list' = [list EXCEPT ![s] = None]
  /\ UNCHANGED <<paths, disk, tables, cloud, req, history>>

-----------------------------------------------------------------------------
(* FileChunkUploadService.UploadChunk *)

\* The size chunk i of a file that a client cuts up has.
Piece(c, i) ==
  IF i * ChunkSize <= SizeOf[c] THEN ChunkSize ELSE SizeOf[c] - (i - 1) * ChunkSize

\* Deviation: the last chunk is taken to follow all the others and itself.
ExpectedSizeOff(c, i) ==
  IF i = TotalChunks(c) THEN SizeOf[c] - ChunkSize * TotalChunks(c) ELSE ChunkSize

ExpectedSize(c, i) ==
  IF i = TotalChunks(c) THEN SizeOf[c] - ChunkSize * (TotalChunks(c) - 1) ELSE ChunkSize

\* A client that has asked which chunks have arrived sends no other again.
Wanted(s, i) ==
  /\ i \notin list[s]
  /\ ~\E r \in On(s) : req[r].pc \in Uploading /\ req[r].i = i

\* The session is read; the list read is the one that is saved in the end.
UploadChunk(r, s, i) ==
  /\ Accept(r, s)
  /\ i \in Pieces(s)
  /\ Piece(upload[s].c, i) = ExpectedSize(upload[s].c, i)
  /\ Duplicates \/ Wanted(s, i)
  /\ req' = [req EXCEPT ![r] = [Idle EXCEPT !.pc = "create", !.s = s, !.i = i,
                                            !.list = list[s]]]
  /\ UNCHANGED <<redis, disk, tables, cloud, history>>

\* Deviation: the list is saved before the chunk is.
ListBeforeWriting(r) ==
  LET q == req[r]
  IN  /\ At(r, "create")
      /\ chunks' = [chunks EXCEPT ![q.s][q.i] = r]
      /\ list' = [list EXCEPT ![q.s] = q.list \cup {q.i}]
      /\ Step(r, "copy")
      /\ UNCHANGED <<merged, paths, tables, cloud, history>>

\* The directory is made, the chunk's file created or truncated.
CreateChunk(r) ==
  LET q == req[r]
  IN  /\ At(r, "create")
      /\ chunks' = [chunks EXCEPT ![q.s][q.i] = r]
      /\ Step(r, "copy")
      /\ UNCHANGED <<merged, redis, tables, cloud, history>>

\* What a chunk file is after r has written its bytes: when another request
\* truncated it meanwhile, r wrote all of them after that, or not.
Written(r, file) ==
  IF file \in {r, "whole"} THEN {"whole"} ELSE {file, "whole"}

\* The bytes are written and the file's md5 is taken; it is not found when
\* the directory was removed meanwhile.
SaveChunk(r) ==
  LET q == req[r]
      file == chunks[q.s][q.i]
  IN  /\ At(r, "copy")
      /\ IF file = "none"
         THEN Done(r) /\ UNCHANGED <<chunks, received>>
         ELSE /\ \E w \in Written(r, file) : chunks' = [chunks EXCEPT ![q.s][q.i] = w]
              /\ received' = [received EXCEPT ![q.s] = @ \cup {q.i}]
              /\ Step(r, "save")
      /\ UNCHANGED <<merged, redis, tables, cloud, upload, recorded>>

\* Deviation: the number is saved counted from zero.
SaveListFromZero(r) ==
  LET q == req[r]
  IN  /\ At(r, "save")
      /\ list' = [list EXCEPT ![q.s] = q.list \cup {q.i - 1}]
      /\ Done(r)
      /\ UNCHANGED <<paths, disk, tables, cloud, history>>

\* The whole session is saved with the list read at first, the number added,
\* whatever was saved or deleted meanwhile.
SaveList(r) ==
  LET q == req[r]
  IN  /\ At(r, "save")
      /\ list' = [list EXCEPT ![q.s] = q.list \cup {q.i}]
      /\ Done(r)
      /\ UNCHANGED <<paths, disk, tables, cloud, history>>

-----------------------------------------------------------------------------
(* FileChunkCompleteService.CompleteChunkUpload *)

\* Deviation: no check that every chunk is listed.
CompleteUnchecked(r, s) ==
  /\ Accept(r, s)
  /\ Duplicates \/ ~\E x \in On(s) : req[x].pc \in Completing
  /\ req' = [req EXCEPT ![r] = [Idle EXCEPT !.pc = "open", !.s = s, !.list = list[s]]]
  /\ UNCHANGED <<redis, disk, tables, cloud, history>>

\* A session that does not list every chunk is refused.
CompleteChunkUpload(r, s) ==
  /\ Accept(r, s)
  /\ list[s] = Pieces(s)
  /\ Duplicates \/ ~\E x \in On(s) : req[x].pc \in Completing
  /\ req' = [req EXCEPT ![r] = [Idle EXCEPT !.pc = "open", !.s = s, !.list = list[s]]]
  /\ UNCHANGED <<redis, disk, tables, cloud, history>>

\* Where a merge goes on after chunk i.
MergePc(s, i) == IF i < TotalChunks(upload[s].c) THEN "merge" ELSE "hash"

\* Every completion of a session merges into the same path; creating the file
\* truncates what another one has merged so far.
OpenMerged(r) ==
  LET q == req[r]
  IN  /\ At(r, "open")
      /\ merged' = [merged EXCEPT ![q.s] = {}]
      /\ req' = [req EXCEPT ![r].linked = TRUE, ![r].i = 1, ![r].pc = MergePc(q.s, 0)]
      /\ UNCHANGED <<chunks, redis, tables, cloud, history>>

\* The next chunk is appended.  One cut short puts those after it out of
\* place; one that is missing ends the request and leaves the merged file.
MergeChunk(r) ==
  LET q == req[r]
      file == chunks[q.s][q.i]
      even == q.even /\ file = "whole"
  IN  /\ At(r, "merge")
      /\ IF file = "none"
         THEN Done(r) /\ UNCHANGED merged
         ELSE /\ req' = [req EXCEPT ![r].i = @ + 1, ![r].even = even,
                                    ![r].pc = MergePc(q.s, q.i)]
              /\ merged' = IF ~q.linked \/ merged[q.s] = None THEN merged
                           ELSE [merged EXCEPT ![q.s] =
                                   IF even THEN @ \cup {q.i} ELSE @ \ {q.i}]
      /\ UNCHANGED <<chunks, redis, tables, cloud, history>>

\* The md5 is that of the file the path now names; there may be none.
HashMerged(r) ==
  LET q == req[r]
  IN  /\ At(r, "hash")
      /\ IF merged[q.s] = None THEN Done(r)
         ELSE req' = [req EXCEPT ![r].pc = "check",
                        ![r].md5 = [c |-> upload[q.s].c, right |-> merged[q.s]]]
      /\ UNCHANGED <<redis, disk, tables, cloud, history>>

\* The request ends and removes the merged file, from under any other that is
\* merging into it.
EndMerged(r) ==
  LET s == req[r].s
  IN  /\ merged' = [merged EXCEPT ![s] = None]
      /\ req' = [x \in Reqs |-> IF x = r THEN Idle
                                ELSE IF req[x].s = s THEN [req[x] EXCEPT !.linked = FALSE]
                                ELSE req[x]]

\* The quota is checked on the store as it is now, and the object's path
\* looked up: with none cached, the file will go to the user's.
CheckQuota(r) ==
  LET q == req[r]
      u == upload[q.s].user
      known == {p \in paths : p.md5 = q.md5}
  IN  /\ At(r, "check")
      /\ IF Fits(stores[u], upload[q.s].c)
         THEN /\ req' = [req EXCEPT ![r].pc = "tx", ![r].size = stores[u],
                           ![r].path = IF known = {} THEN None
                                       ELSE (CHOOSE p \in known : TRUE).user]
              /\ UNCHANGED merged
         ELSE EndMerged(r)
      /\ UNCHANGED <<chunks, redis, tables, cloud, history>>

\* md5 is a unique column of table files.
Taken(md5) == \E f \in files : f.md5 = md5

\* The transaction: the row is inserted and the store saved as it was read,
\* plus the size.  A goroutine is started when the object is not known.
Record(r) ==
  LET q == req[r]
      info == upload[q.s]
      path == [md5 |-> q.md5, user |-> info.user]
  IN  /\ files' = files \cup {[s |-> q.s, user |-> info.user, md5 |-> q.md5]}
      /\ stores' = [stores EXCEPT ![info.user] = q.size + SizeOf[info.c]]
      /\ recorded' = recorded \cup {q.s}
      /\ jobs' = IF q.path # None THEN jobs
                 ELSE jobs \cup {[s |-> q.s, path |-> path, data |-> None]}
      /\ req' = [req EXCEPT ![r].pc = "del",
                            ![r].path = IF @ = None THEN info.user ELSE @]
      /\ UNCHANGED merged

\* Deviation: md5 is not unique.
RecordAnyway(r) ==
  /\ At(r, "tx") /\ Record(r)
  /\ UNCHANGED <<chunks, redis, objects, upload, received>>

CreateFileRecord(r) ==
  /\ At(r, "tx")
  /\ IF Taken(req[r].md5)
     THEN EndMerged(r) /\ UNCHANGED <<tables, jobs, recorded>>
     ELSE Record(r)
  /\ UNCHANGED <<chunks, redis, objects, upload, received>>

CleanupChunkInfo(r) ==
  /\ At(r, "del")
  /\ list' = [list EXCEPT ![req[r].s] = None]
  /\ Step(r, "clean")
  /\ UNCHANGED <<paths, disk, tables, cloud, history>>

CleanupLocalChunkFiles(r) ==
  /\ At(r, "clean")
  /\ chunks' = [chunks EXCEPT ![req[r].s] = [i \in Numbers |-> "none"]]
  /\ Step(r, "info")
  /\ UNCHANGED <<merged, redis, tables, cloud, history>>

SaveFileInfo(r) ==
  LET q == req[r]
  IN  /\ At(r, "info")
      /\ paths' = {p \in paths : p.md5 # q.md5} \cup {[md5 |-> q.md5, user |-> q.path]}
      /\ Step(r, "remove")
      /\ UNCHANGED <<list, disk, tables, cloud, history>>

RemoveMerged(r) ==
  /\ At(r, "remove")
  /\ EndMerged(r)
  /\ UNCHANGED <<chunks, redis, tables, cloud, history>>

-----------------------------------------------------------------------------
(* The goroutine that copies the merged file and stores the copy *)

\* The merged file may be gone: then the goroutine gives up.
CopyMerged(j) ==
  /\ j \in jobs /\ j.data = None
  /\ jobs' = (jobs \ {j}) \cup
       (IF merged[j.s] = None THEN {}
        ELSE {[j EXCEPT !.data = [c |-> upload[j.s].c, right |-> merged[j.s]]]})
  /\ UNCHANGED <<redis, disk, tables, objects, req, history>>

UploadSimpleFile(j) ==
  /\ j \in jobs /\ j.data # None
  /\ jobs' = jobs \ {j}
  /\ objects' = {o \in objects : o.path # j.path} \cup {[path |-> j.path, data |-> j.data]}
  /\ UNCHANGED <<redis, disk, tables, req, history>>

-----------------------------------------------------------------------------
(* What else happens to the same tables, and failures *)

\* A user deletes a file: a whole delete of the Storage module.
DeleteFile(f) ==
  /\ f \in files
  /\ files' = files \ {f}
  /\ stores' = [stores EXCEPT ![f.user] =
       IF @ >= SizeOf[f.md5.c] THEN @ - SizeOf[f.md5.c] ELSE 0]
  /\ UNCHANGED <<redis, disk, cloud, req, history>>

\* A cached path expires after 12 hours.
ExpirePath(p) ==
  /\ p \in paths
  /\ paths' = paths \ {p}
  /\ UNCHANGED <<list, disk, tables, cloud, req, history>>

\* A chunk file whose writer stops stays as it is.
Stopped(S) ==
  chunks' = [s \in Sessions |-> [i \in Numbers |->
               IF chunks[s][i] \in S THEN "part" ELSE chunks[s][i]]]

\* A step of a request fails and ends it; before the md5 is known the merged
\* file stays, then it is removed.  A target folder that is gone is a failure
\* of the transaction.
Fail(r) ==
  /\ Failures
  /\ \/ /\ req[r].pc \in Uploading \cup {"open", "merge", "hash"}
        /\ Stopped({r}) /\ Done(r) /\ UNCHANGED merged
     \/ /\ req[r].pc \in {"check", "tx"}
        /\ EndMerged(r) /\ UNCHANGED chunks
  /\ UNCHANGED <<redis, tables, cloud, history>>

\* After the transaction a failure is logged and the request goes on.
Skip(r) ==
  /\ Failures
  /\ \/ At(r, "del") /\ Step(r, "clean")
     \/ At(r, "clean") /\ Step(r, "info")
     \/ At(r, "info") /\ Step(r, "remove")
  /\ UNCHANGED <<redis, disk, tables, cloud, history>>

FailJob(j) ==
  /\ Failures
  /\ j \in jobs
  /\ jobs' = jobs \ {j}
  /\ UNCHANGED <<redis, disk, tables, objects, req, history>>

\* The process dies: Redis, the disk and the tables stay as they are.
Crash ==
  /\ Failures
  /\ \E r \in Reqs : req[r] # Idle
  /\ Stopped(Reqs)
  /\ req' = [r \in Reqs |-> Idle]
  /\ jobs' = {}
  /\ UNCHANGED <<merged, redis, tables, objects, history>>

-----------------------------------------------------------------------------

\* The steps a goroutine takes once it has started.
Proceed(r) ==
  \/ CreateChunk(r) \/ SaveChunk(r) \/ SaveList(r)
  \/ OpenMerged(r) \/ MergeChunk(r) \/ HashMerged(r) \/ CheckQuota(r)
  \/ CreateFileRecord(r) \/ CleanupChunkInfo(r) \/ CleanupLocalChunkFiles(r)
  \/ SaveFileInfo(r) \/ RemoveMerged(r)

Store(j) == CopyMerged(j) \/ UploadSimpleFile(j)

Next ==
  \/ \E s \in Sessions, u \in Users, c \in Contents : InitChunkUpload(s, u, c)
  \/ \E r \in Reqs, s \in Sessions : \E i \in Numbers : UploadChunk(r, s, i)
  \/ \E r \in Reqs, s \in Sessions : CompleteChunkUpload(r, s)
  \/ \E r \in Reqs : Proceed(r)
  \/ \E j \in jobs : Store(j)
  \/ \E s \in Sessions : Expire(s)
  \/ \E f \in files : DeleteFile(f)
  \/ \E p \in paths : ExpirePath(p)
  \/ \E r \in Reqs : Fail(r) \/ Skip(r)
  \/ \E j \in jobs : FailJob(j)
  \/ Crash

Spec == Init /\ [][Next]_vars

\* Goroutines run, and a client sends a chunk again and again as long as it is
\* not listed, and completes a session that lists every chunk.
FairSpec ==
  /\ Spec
  /\ \A r \in Reqs : WF_vars(Proceed(r))
  /\ \A s \in Sessions :
       /\ \A i \in Numbers : SF_vars(\E r \in Reqs : UploadChunk(r, s, i))
       /\ SF_vars(\E r \in Reqs : CompleteChunkUpload(r, s))
=============================================================================
