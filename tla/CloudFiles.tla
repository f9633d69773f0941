------------------------------ MODULE CloudFiles ------------------------------
(***************************************************************************)
(* How a file gets into cloud storage and is found there again: simple     *)
(* uploads through a temporary file, completed chunk uploads through a     *)
(* merged file and a goroutine, the path cache that lets an upload skip    *)
(* the copy, and the keys that downloads look under.                       *)
(*                                                                         *)
(* A request is one goroutine; each access to a local file, Redis, cloud   *)
(* storage or the database is a step.  Quotas and folders are the Storage  *)
(* module's, the chunks and their sessions the ChunkUpload module's: here  *)
(* a session may be completed at any time, and again.                      *)
(***************************************************************************)
EXTENDS Naturals, FiniteSets

CONSTANTS Users,
          Names,       \* the names of files, with their extensions
          UploadIds,   \* the chunk sessions a user opens for a name
          Contents,    \* what a client sends
          Exts,        \* file name extensions
          ExtOf,       \* the extension of every name
          Png,         \* the extension .png
          NoExt,       \* of a name without a dot
          Torn,        \* the bytes of a file that was not written in full
          Reqs,        \* request slots: how many requests are in flight
          MaxRequests, \* bound: uploads, completions and deletions in a behaviour
          Failures,    \* whether steps fail and the process dies
          Misread,     \* local files whose reading for the md5 may fail unnoticed
          None

ASSUME CloudAssumption ==
  /\ ExtOf \in [Names -> Exts]
  /\ {Png, NoExt} \subseteq Exts /\ Png # NoExt
  /\ Torn \notin Contents /\ None \notin Contents \cup {Torn}
  /\ None \notin Users /\ None \notin UploadIds
  /\ None \notin [user : Users, name : Names, id : UploadIds \cup {None}]
  /\ None \notin [data : Contents \cup {Torn}, ext : Exts]
  /\ MaxRequests \in Nat
  /\ Failures \in BOOLEAN

VARIABLES local,    \* temporary and merged files on the server's disk
          objects,  \* cloud storage
          files,    \* table files: the place of every row, which is the md5 it is unique by
          paths,    \* md5s cached in Redis, with the path of their object
          jobs,     \* the goroutines that copy merged files to cloud storage
          req,      \* the requests in flight
          adrift,   \* history: paths a chunk upload recorded and nothing is at
          doubtful, \* history: places put from a local file that was crossed
          served    \* how many requests were accepted

history == <<adrift, doubtful, served>>
vars    == <<local, objects, files, paths, jobs, req, adrift, doubtful, served>>

Bytes == Contents \cup {Torn}

\* The md5 of a file is taken over its extension and its bytes.
Digest == [data : Bytes, ext : Exts]

\* user/<path>/<md5><suffix>; the suffix None is a dot and nothing else.
Place  == [path : Users, md5 : Digest]
Key    == [at : Place, suffix : Exts \cup {None}]
Object == [key : Key, data : Bytes]

\* ./user/<day>/<user>/<name>, or ./tmp_merge/merged_<id>_<name> of a session.
LocalFile  == [user : Users, name : Names, id : UploadIds \cup {None}]
MergedFile == [user : Users, name : Names, id : UploadIds]

Pcs == {"idle", "save", "merge", "hash", "lookup", "exists", "put", "tx", "cache"}

\* crossed: the local file, while it was needed, was in use by another upload
\* or completion as well, or reading it for the md5 went wrong.
Request ==
  [pc : Pcs, file : LocalFile \cup {None}, md5 : Digest \cup {None},
   path : Users \cup {None}, copy : BOOLEAN, crossed : BOOLEAN]

Idle == [pc |-> "idle", file |-> None, md5 |-> None,
         path |-> None, copy |-> FALSE, crossed |-> FALSE]

\* data is what the goroutine copied, nothing in full at first.  Two goroutines that are at the same
\* point with the same data count as one.
Job == [at : Place, from : MergedFile, pc : {"copy", "exists", "put"},
        data : Bytes, crossed : BOOLEAN]

Init ==
  /\ local = [f \in LocalFile |-> None]
  /\ objects = {} /\ files = {} /\ paths = {} /\ jobs = {}
  /\ req = [r \in Reqs |-> Idle]
  /\ adrift = {} /\ doubtful = {} /\ served = 0

TypeOK ==
  /\ local \in [LocalFile -> Bytes \cup {None}]
  /\ objects \subseteq Object
  /\ files \subseteq Place /\ paths \subseteq Place
  /\ jobs \subseteq Job
  /\ req \in [Reqs -> Request]
  /\ adrift \subseteq Place /\ doubtful \subseteq Place
  /\ served \in Nat

-----------------------------------------------------------------------------
(* Names *)

PlaceOf(u, d) == [path |-> u, md5 |-> d]

TempOf(u, n) == [user |-> u, name |-> n, id |-> None]

MergedOf(u, n, i) == [user |-> u, name |-> n, id |-> i]

Chunked(q) == q.file.id # None

\* A simple upload names the object by md5 and extension.
UploadKey(p) == [at |-> p, suffix |-> p.md5.ext]

\* The goroutine uploads a copy named <merged file>.png.
ChunkKey(p) == [at |-> p, suffix |-> Png]

\* A download puts a dot between the md5 and the stored postfix.
DownloadKey(p) ==
  [at |-> p, suffix |-> IF p.md5.ext = NoExt THEN None ELSE p.md5.ext]

Exists(k) == \E o \in objects : o.key = k

Stored(k, data) == {o \in objects : o.key # k} \cup {[key |-> k, data |-> data]}

Taken(d) == \E f \in files : f.md5 = d

-----------------------------------------------------------------------------
(* Requests *)

Writes(q) == q.pc \in {"save", "merge"}

\* A client asks for something.
Ask == served < MaxRequests /\ served' = served + 1

\* A request starts to write the local file f: whoever uses f is crossed, and
\* so is r itself when another is still writing f.
Accept(r, f, pc) ==
  /\ req[r].pc = "idle"
  /\ Ask
  /\ req' = [x \in Reqs |->
       IF x = r
       THEN [Idle EXCEPT !.pc = pc, !.file = f,
               !.crossed = \E y \in Reqs : req[y].file = f /\ Writes(req[y])]
       ELSE [req[x] EXCEPT !.crossed = @ \/ req[x].file = f]]

Goto(r, pc) == req' = [req EXCEPT ![r].pc = pc]

Done(r) == req' = [req EXCEPT ![r] = Idle]

\* What the md5 of bytes is taken of: an error of reading them is dropped.
Hashed(f, bytes) == {bytes} \cup (IF f \in Misread THEN {Torn} ELSE {})

TakeMD5(r, bytes) ==
  \E d \in Hashed(req[r].file, bytes) :
     req' = [req EXCEPT ![r].md5 = [data |-> d, ext |-> ExtOf[req[r].file.name]],
                        ![r].crossed = @ \/ d # bytes,
                        ![r].pc = "lookup"]

\* The merged file goes when the request that merged it ends.
Removed(q) == IF Chunked(q) THEN [local EXCEPT ![q.file] = None] ELSE local

\* The temporary file is created, or truncated when the name was used before.
\* The error of saving it is dropped: when that fails, the upload goes on with
\* whatever lies there.
UploadFile(r, u, n) ==
  LET f == TempOf(u, n)
  IN  /\ \/ /\ Accept(r, f, "save")
            /\ local' = [local EXCEPT ![f] = Torn]
         \/ /\ Failures
            /\ Accept(r, f, "hash")
            /\ UNCHANGED local
      /\ UNCHANGED <<objects, files, paths, jobs, adrift, doubtful>>

SaveUploadedFile(r) ==
  /\ req[r].pc = "save"
  /\ Goto(r, "hash")
  /\ \/ \E c \in Contents : local' = [local EXCEPT ![req[r].file] = c]
     \/ Failures /\ UNCHANGED local
  /\ UNCHANGED <<objects, files, paths, jobs, history>>

\* Without a temporary file the upload is refused.
GetFileMD5(r) ==
  LET bytes == local[req[r].file]
  IN  /\ req[r].pc = "hash"
      /\ IF bytes = None THEN Done(r) ELSE TakeMD5(r, bytes)
      /\ UNCHANGED <<local, objects, files, paths, jobs, history>>

\* A completion truncates the merged file that an earlier one of the session
\* left or still has in use.
CompleteChunkUpload(r, u, n, i) ==
  LET f == MergedOf(u, n, i)
  IN  /\ Accept(r, f, "merge")
      /\ local' = [local EXCEPT ![f] = Torn]
      /\ jobs' = {[j EXCEPT !.crossed = @ \/ j.from = f] : j \in jobs}
      /\ UNCHANGED <<objects, files, paths, adrift, doubtful>>

\* Deviation: the md5 is taken before the last chunk is written.
HashTooEarly(r) ==
  LET q == req[r]
  IN  /\ q.pc = "merge"
      /\ IF local[q.file] = None THEN Done(r) /\ UNCHANGED local
         ELSE \E d \in Bytes : /\ local' = [local EXCEPT ![q.file] = d]
                               /\ TakeMD5(r, local[q.file])
      /\ UNCHANGED <<objects, files, paths, jobs, history>>

\* What the chunks on disk merge to is ChunkUpload's: here it is any bytes.
\* The md5 is refused when another completion has removed the merged file.
MergeChunks(r) ==
  LET q == req[r]
  IN  /\ q.pc = "merge"
      /\ IF local[q.file] = None THEN Done(r) /\ UNCHANGED local
         ELSE \E d \in Bytes : /\ local' = [local EXCEPT ![q.file] = d]
                               /\ TakeMD5(r, d)
      /\ UNCHANGED <<objects, files, paths, jobs, history>>

\* Deviation: a chunk upload leaves the path empty.
LookupKeepsPath(r) ==
  LET q == req[r]
      known == {p \in paths : p.md5 = q.md5}
  IN  /\ q.pc = "lookup" /\ Chunked(q)
      /\ \/ \E p \in known : req' = [req EXCEPT ![r].path = p.path, ![r].pc = "tx"]
         \/ known = {} /\ req' = [req EXCEPT ![r].copy = TRUE, ![r].pc = "tx"]
      /\ UNCHANGED <<local, objects, files, paths, jobs, history>>

\* A cached path saves the copy.  An error of Redis is an empty answer.
GetFileInfoFromRedis(r) ==
  LET q == req[r]
      known == {p \in paths : p.md5 = q.md5}
      miss == IF Chunked(q)
              THEN req' = [req EXCEPT ![r].path = q.file.user, ![r].copy = TRUE, ![r].pc = "tx"]
              ELSE Goto(r, "exists")
  IN  /\ q.pc = "lookup"
      /\ \/ \E p \in known : req' = [req EXCEPT ![r].path = p.path, ![r].pc = "tx"]
         \/ (known = {} \/ Failures) /\ miss
      /\ UNCHANGED <<local, objects, files, paths, jobs, history>>

\* UploadSimpleFile asks for the object before it sends the file.
IsObjectExist(r) ==
  LET q == req[r]
      p == PlaceOf(q.file.user, q.md5)
  IN  /\ q.pc = "exists"
      /\ req' = [req EXCEPT ![r].path = q.file.user,
                            ![r].pc = IF Exists(UploadKey(p)) THEN "tx" ELSE "put"]
      /\ UNCHANGED <<local, objects, files, paths, jobs, history>>

\* PutFromFile reads the temporary file a second time.
PutFromFile(r) ==
  LET q == req[r]
      p == PlaceOf(q.file.user, q.md5)
  IN  /\ q.pc = "put"
      /\ objects' = Stored(UploadKey(p), local[q.file])
      /\ doubtful' = doubtful \cup (IF q.crossed THEN {p} ELSE {})
      /\ Goto(r, "tx")
      /\ UNCHANGED <<local, files, paths, jobs, adrift, served>>

\* Deviation: a file is recorded under its owner's path.
RecordOwnPath(r) ==
  LET q == req[r]
  IN  /\ q.pc = "tx" /\ ~Taken(q.md5) /\ ~q.copy
      /\ files' = files \cup {PlaceOf(q.file.user, q.md5)}
      /\ Goto(r, "cache")
      /\ UNCHANGED <<local, objects, paths, jobs, history>>

\* The transaction inserts the row unless its md5 is taken.  A chunk upload
\* then starts the goroutine that copies the merged file.
Record(r) ==
  LET q == req[r]
      p == PlaceOf(q.file.user, q.md5)
      job == [at |-> p, from |-> q.file, pc |-> "copy", data |-> Torn, crossed |-> q.crossed]
  IN  /\ q.pc = "tx"
      /\ IF Taken(q.md5)
         THEN Done(r) /\ local' = Removed(q) /\ UNCHANGED <<files, jobs, adrift>>
         ELSE /\ files' = files \cup {PlaceOf(q.path, q.md5)}
              /\ jobs' = jobs \cup (IF q.copy THEN {job} ELSE {})
              /\ adrift' = adrift \cup (IF q.copy THEN {p} ELSE {})
              /\ Goto(r, "cache")
              /\ UNCHANGED local
      /\ UNCHANGED <<objects, paths, doubtful, served>>

SaveFileUploadInfoToRedis(r) ==
  LET q == req[r]
  IN  /\ q.pc = "cache"
      /\ paths' = {p \in paths : p.md5 # q.md5} \cup {PlaceOf(q.path, q.md5)}
      /\ Done(r)
      /\ local' = Removed(q)
      /\ UNCHANGED <<objects, files, jobs, history>>

\* A call fails, a check refuses the upload, or the process dies and leaves its
\* files.  A merge that fails leaves the merged file as well.
Fail(r) ==
  /\ Failures
  /\ req[r].pc # "idle"
  /\ Done(r)
  /\ \/ UNCHANGED local
     \/ req[r].pc # "merge" /\ local' = Removed(req[r])
  /\ UNCHANGED <<objects, files, paths, jobs, history>>

-----------------------------------------------------------------------------
(* The goroutine of a chunk upload, deletions and time *)

\* It copies the merged file as it is by now, truncated or replaced by another
\* completion perhaps, to a name ending in .png, which decides the key.  The
\* goroutines of one session share that copy.  Without a merged file it ends.
CopyMerged(j) ==
  LET others == {[i EXCEPT !.crossed = @ \/ i.from = j.from] : i \in jobs \ {j}}
      bytes == local[j.from]
  IN  /\ j \in jobs /\ j.pc = "copy"
      /\ jobs' = IF bytes = None THEN jobs \ {j}
                 ELSE others \cup {[j EXCEPT !.data = bytes, !.pc = "exists"]}
      /\ UNCHANGED <<local, objects, files, paths, req, history>>

\* The path is found by downloads when its object is there under .png, if that
\* is its extension.
Arrives(p) == adrift' = IF p.md5.ext = Png THEN adrift \ {p} ELSE adrift

IsCopyExist(j) ==
  /\ j \in jobs /\ j.pc = "exists"
  /\ IF Exists(ChunkKey(j.at))
     THEN jobs' = jobs \ {j} /\ Arrives(j.at)
     ELSE jobs' = (jobs \ {j}) \cup {[j EXCEPT !.pc = "put"]} /\ UNCHANGED adrift
  /\ UNCHANGED <<local, objects, files, paths, req, doubtful, served>>

\* A copy that goroutines share holds what their writes happen to leave.
CopyToCloud(j) ==
  /\ j \in jobs /\ j.pc = "put"
  /\ \E data \in IF j.crossed THEN Bytes ELSE {j.data} :
        objects' = Stored(ChunkKey(j.at), data)
  /\ jobs' = jobs \ {j}
  /\ Arrives(j.at)
  /\ doubtful' = doubtful \cup (IF j.crossed THEN {j.at} ELSE {})
  /\ UNCHANGED <<local, files, paths, req, served>>

\* It finds the copy removed by another, a call fails, or the process dies.
LoseCopy(j) ==
  /\ j \in jobs
  /\ j.crossed \/ Failures
  /\ jobs' = jobs \ {j}
  /\ UNCHANGED <<local, objects, files, paths, req, history>>

\* Deviation: deleting a file deletes its object.
DeleteObject(f) ==
  /\ f \in files
  /\ Ask
  /\ files' = files \ {f}
  /\ objects' = {o \in objects : o.key.at # f}
  /\ UNCHANGED <<local, paths, jobs, req, adrift, doubtful>>

\* Neither the object nor the cached path is deleted with the file.
DeleteFile(f) ==
  /\ f \in files
  /\ Ask
  /\ files' = files \ {f}
  /\ UNCHANGED <<local, objects, paths, jobs, req, adrift, doubtful>>

ExpirePath(p) ==
  /\ p \in paths
  /\ paths' = paths \ {p}
  /\ UNCHANGED <<local, objects, files, jobs, req, history>>

-----------------------------------------------------------------------------

Next ==
  \/ \E r \in Reqs :
       \/ \E u \in Users, n \in Names :
            UploadFile(r, u, n) \/ \E i \in UploadIds : CompleteChunkUpload(r, u, n, i)
       \/ SaveUploadedFile(r) \/ MergeChunks(r) \/ GetFileMD5(r) \/ GetFileInfoFromRedis(r)
       \/ IsObjectExist(r) \/ PutFromFile(r) \/ Record(r)
       \/ SaveFileUploadInfoToRedis(r) \/ Fail(r)
  \/ \E j \in jobs : CopyMerged(j) \/ IsCopyExist(j) \/ CopyToCloud(j) \/ LoseCopy(j)
  \/ \E f \in files : DeleteFile(f)
  \/ \E p \in paths : ExpirePath(p)

Spec == Init /\ [][Next]_vars
=============================================================================
