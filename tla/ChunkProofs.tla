----------------------------- MODULE ChunkProofs -----------------------------
(***************************************************************************)
(* What holds of chunk uploads for every number of sessions, users and     *)
(* concurrent requests, every chunk size, and with requests failing and    *)
(* the process dying anywhere: the state stays well typed, no chunk is     *)
(* listed and no file recorded whose chunks were not received in full, and *)
(* a user is charged with a new file only.  With one request at a time on  *)
(* a session, listed chunks are whole on the disk and so are the files     *)
(* merged from them.                                                       *)
(***************************************************************************)
EXTENDS ChunkProps, FiniteSetTheorems, TLAPS

\* What the local variables of a request hold at every step of its handler.
ReqOK(q) ==
  /\ q.pc # "idle" => q.s \in Sessions
  /\ q.pc \in Uploading \cup {"merge"} => q.i \in Numbers
  /\ q.pc \in {"check", "tx", "del", "clean", "info"} => q.md5 \in Digest
  /\ q.pc \in {"del", "clean", "info"} => q.path \in Users

\* Whatever refers to a session refers to one that was opened.
Opened ==
  /\ \A s \in Sessions : list[s] # None => upload[s] # None
  /\ \A r \in Reqs : req[r].pc # "idle" => upload[req[r].s] # None
  /\ \A j \in jobs : upload[j.s] # None

TypeInv == TypeOK /\ Opened /\ \A r \in Reqs : ReqOK(req[r])

\* What a request knows of the chunks received: an upload, of the list it read
\* and, once written, its own; a completion, that all were.
ReqReceived(q) ==
  /\ q.pc \in Uploading => q.i \in Pieces(q.s) /\ q.list \subseteq received[q.s]
  /\ q.pc = "save" => q.i \in received[q.s]
  /\ q.pc \in Completing => received[q.s] = Pieces(q.s)

ReceivedInv ==
  /\ ListedReceived
  /\ \A s \in Sessions : IF upload[s] = None THEN received[s] = {}
                                             ELSE received[s] \subseteq Pieces(s)
  /\ \A f \in files : upload[f.s] # None
  /\ \A r \in Reqs : ReqReceived(req[r])

-----------------------------------------------------------------------------
(* Lemmas *)

\* The number of chunks of a content is a natural number within the bound.
LEMMA ChunksBounded == \A c \in Contents : TotalChunks(c) \in 0..MaxChunks
BY ChunkAssumption

\* None is none of the values it stands in for.
LEMMA NoneApart == None \notin UploadInfo /\ None \notin Digest /\ None \notin SUBSET Numbers
BY ChunkAssumption DEF UploadInfo, Digest

\* A free slot's local variables are typed.
LEMMA IdleType == Idle \in Request /\ ReqOK(Idle) /\ Idle.pc = "idle"
BY DEF Idle, Request, ReqOK, Uploading, Pcs

\* The session of a request in flight is open.
LEMMA SessionOf ==
  ASSUME TypeInv, NEW r \in Reqs, req[r].pc # "idle"
  PROVE  req[r].s \in Sessions /\ upload[req[r].s] \in UploadInfo
BY DEF TypeInv, TypeOK, Opened, ReqOK

\* Giving slot r new typed local variables, of an opened session.
LEMMA StepType ==
  ASSUME TypeInv, NEW r \in Reqs, NEW q \in Request, ReqOK(q),
         q.pc # "idle" => upload[q.s] # None,
         req' = [req EXCEPT ![r] = q], UNCHANGED upload
  PROVE  /\ req' \in [Reqs -> Request]
         /\ \A x \in Reqs : ReqOK(req'[x])
         /\ \A x \in Reqs : req'[x].pc # "idle" => upload'[req'[x].s] # None
BY DEF TypeInv, TypeOK, Opened

\* Ending a request.
LEMMA DoneType ==
  ASSUME TypeInv, NEW r \in Reqs, Done(r), UNCHANGED upload
  PROVE  /\ req' \in [Reqs -> Request]
         /\ \A x \in Reqs : ReqOK(req'[x])
         /\ \A x \in Reqs : req'[x].pc # "idle" => upload'[req'[x].s] # None
BY IdleType, StepType DEF Done

\* Ending a request that has merged a file.
LEMMA EndType ==
  ASSUME TypeInv, NEW r \in Reqs, req[r].pc # "idle", EndMerged(r), UNCHANGED upload
  PROVE  /\ req' \in [Reqs -> Request]
         /\ \A x \in Reqs : ReqOK(req'[x])
         /\ \A x \in Reqs : req'[x].pc # "idle" => upload'[req'[x].s] # None
         /\ merged' \in [Sessions -> {None} \cup SUBSET Numbers]
<1>1. ASSUME NEW x \in Reqs
      PROVE  LET q == [req[x] EXCEPT !.linked = FALSE]
             IN  q \in Request /\ ReqOK(q) /\ q.pc = req[x].pc /\ q.s = req[x].s
  <2>1. req[x] \in Request /\ ReqOK(req[x])
    BY DEF TypeInv, TypeOK
  <2> QED BY <2>1 DEF Request, ReqOK
<1>2. ASSUME NEW x \in Reqs
      PROVE  /\ req'[x] \in Request /\ ReqOK(req'[x])
             /\ req'[x].pc # "idle" => upload'[req'[x].s] # None
  BY <1>1, IdleType DEF EndMerged, TypeInv, TypeOK, Opened
<1>3. req' \in [Reqs -> Request]
  <2>1. req' = [x \in Reqs |-> req'[x]]
    BY DEF EndMerged
  <2> QED BY <1>2, <2>1
<1>4. merged' \in [Sessions -> {None} \cup SUBSET Numbers]
  BY DEF EndMerged, TypeInv, TypeOK
<1> QED BY <1>2, <1>3, <1>4

\* Moving a request on to a step that needs no more than it has.
LEMMA MoveType ==
  ASSUME TypeInv, NEW r \in Reqs, NEW pc \in Pcs, Step(r, pc), UNCHANGED upload,
         ReqOK([req[r] EXCEPT !.pc = pc]), req[r].pc # "idle"
  PROVE  /\ req' \in [Reqs -> Request]
         /\ \A x \in Reqs : ReqOK(req'[x])
         /\ \A x \in Reqs : req'[x].pc # "idle" => upload'[req'[x].s] # None
<1> DEFINE q == [req[r] EXCEPT !.pc = pc]
<1>1. req[r] \in Request /\ upload[req[r].s] # None
  BY DEF TypeInv, TypeOK, Opened
<1>2. q \in Request /\ q.s = req[r].s
  BY <1>1 DEF Request
<1>3. req' = [req EXCEPT ![r] = q]
  BY DEF Step, TypeInv, TypeOK
<1> QED BY <1>1, <1>2, <1>3, StepType

\* Chunk files stay typed when one changes.
LEMMA ChunkType ==
  ASSUME TypeInv, NEW s \in Sessions, NEW i \in Numbers, NEW w \in ChunkFile,
         chunks' = [chunks EXCEPT ![s][i] = w]
  PROVE  chunks' \in [Sessions -> [Numbers -> ChunkFile]]
BY DEF TypeInv, TypeOK

\* A writer that stops leaves typed chunk files.
LEMMA StoppedType ==
  ASSUME TypeInv, NEW S, Stopped(S)
  PROVE  chunks' \in [Sessions -> [Numbers -> ChunkFile]]
BY DEF TypeInv, TypeOK, Stopped, ChunkFile

-----------------------------------------------------------------------------
(* Every step keeps the types *)

LEMMA InitType == Init => TypeInv
<1> SUFFICES ASSUME Init PROVE TypeInv
  OBVIOUS
<1>1. TypeOK
  BY IdleType DEF Init, TypeOK, ChunkFile
<1>2. Opened /\ \A r \in Reqs : ReqOK(req[r])
  BY IdleType DEF Init, Opened
<1> QED BY <1>1, <1>2 DEF TypeInv

\* Opening a session.
LEMMA OpenType ==
  ASSUME TypeInv, NEW s \in Sessions, NEW u \in Users, NEW c \in Contents,
         InitChunkUpload(s, u, c)
  PROVE  TypeInv'
<1>1. upload' \in [Sessions -> UploadInfo \cup {None}] /\ upload'[s] # None
  BY NoneApart DEF InitChunkUpload, TypeInv, TypeOK, UploadInfo
<1>2. list' \in [Sessions -> {None} \cup SUBSET Numbers]
  BY DEF InitChunkUpload, TypeInv, TypeOK
<1>3. TypeOK'
  BY <1>1, <1>2 DEF InitChunkUpload, TypeInv, TypeOK, disk, tables, cloud
<1>4. \A x \in Sessions : upload[x] # None => upload'[x] # None
  BY <1>1 DEF InitChunkUpload, TypeInv, TypeOK
<1>5. Opened'
  <2>1. \A x \in Sessions : list'[x] # None => upload'[x] # None
    BY <1>1, <1>4 DEF InitChunkUpload, TypeInv, TypeOK, Opened
  <2>2. \A r \in Reqs : req'[r].pc # "idle" => upload'[req'[r].s] # None
    BY <1>4, SessionOf DEF InitChunkUpload, TypeInv, TypeOK, Opened
  <2>3. \A j \in jobs' : upload'[j.s] # None
    BY <1>4 DEF InitChunkUpload, TypeInv, TypeOK, Opened, cloud, Job
  <2> QED BY <2>1, <2>2, <2>3 DEF Opened
<1> QED BY <1>3, <1>5 DEF TypeInv, InitChunkUpload, ReqOK

\* Accepting an upload or a completion, and a chunk's steps.
LEMMA UploadType ==
  ASSUME TypeInv, NEW r \in Reqs
  PROVE  /\ \A s \in Sessions, i \in Numbers : UploadChunk(r, s, i) => TypeInv'
         /\ CreateChunk(r) \/ SaveChunk(r) \/ SaveList(r) => TypeInv'
<1> DEFINE q == req[r]
<1> USE DEF TypeInv
<1>0. q \in Request /\ ReqOK(q)
  BY DEF TypeOK
<1>1. ASSUME NEW s \in Sessions, NEW i \in Numbers, UploadChunk(r, s, i) PROVE TypeInv'
  <2> DEFINE n == [Idle EXCEPT !.pc = "create", !.s = s, !.i = i, !.list = list[s]]
  <2>0. list[s] \in SUBSET Numbers /\ upload[s] # None
    BY <1>1 DEF UploadChunk, Accept, TypeOK, Opened
  <2>1. n \in Request /\ ReqOK(n) /\ upload[n.s] # None
    <3>1. i \in Nat
      BY DEF Numbers
    <3>2. n \in Request /\ n.pc = "create" /\ n.s = s /\ n.i = i
      BY <2>0, <3>1, IdleType DEF Request, Pcs
    <3> HIDE DEF n
    <3> QED BY <2>0, <3>2 DEF ReqOK
  <2>2. req' = [req EXCEPT ![r] = n] /\ UNCHANGED upload
    BY <1>1 DEF UploadChunk, history
  <2> HIDE DEF n
  <2> QED BY <1>1, <2>1, <2>2, StepType
           DEF UploadChunk, redis, disk, tables, cloud, history, TypeOK, Opened
<1>2. CASE CreateChunk(r)
  <2>1. q.s \in Sessions /\ q.i \in Numbers /\ q.pc = "create"
    BY <1>0, <1>2 DEF CreateChunk, At, ReqOK, Uploading
  <2>2. chunks' \in [Sessions -> [Numbers -> ChunkFile]]
    BY <1>2, <2>1, ChunkType DEF CreateChunk, ChunkFile
  <2>3. ReqOK([q EXCEPT !.pc = "copy"])
    BY <1>0, <2>1 DEF ReqOK, Request, Uploading
  <2> QED BY <1>2, <2>1, <2>2, <2>3, MoveType
           DEF CreateChunk, Pcs, redis, tables, cloud, history, TypeOK, Opened
<1>3. CASE SaveChunk(r)
  <2>1. q.s \in Sessions /\ q.i \in Numbers /\ q.pc = "copy"
    BY <1>0, <1>3 DEF SaveChunk, At, ReqOK, Uploading
  <2>2. CASE chunks[q.s][q.i] = "none"
    BY <1>3, <2>1, <2>2, DoneType
       DEF SaveChunk, redis, tables, cloud, TypeOK, Opened
  <2>3. CASE chunks[q.s][q.i] # "none"
    <3>1. PICK w \in Written(r, chunks[q.s][q.i]) : chunks' = [chunks EXCEPT ![q.s][q.i] = w]
      BY <1>3, <2>3 DEF SaveChunk
    <3>2. w \in ChunkFile
      BY <2>1 DEF Written, ChunkFile, TypeOK
    <3>3. chunks' \in [Sessions -> [Numbers -> ChunkFile]]
      BY <2>1, <3>1, <3>2, ChunkType
    <3>4. received' \in [Sessions -> SUBSET Numbers]
      BY <1>3, <2>1, <2>3 DEF SaveChunk, TypeOK
    <3>5. ReqOK([q EXCEPT !.pc = "save"])
      BY <1>0, <2>1 DEF ReqOK, Request, Uploading
    <3>6. Step(r, "save") /\ UNCHANGED upload
      BY <1>3, <2>3 DEF SaveChunk
    <3> QED BY <1>3, <2>1, <3>3, <3>4, <3>5, <3>6, MoveType
             DEF SaveChunk, Pcs, redis, tables, cloud, TypeOK, Opened
  <2> QED BY <2>2, <2>3
<1>4. CASE SaveList(r)
  <2>1. q.s \in Sessions /\ q.i \in Numbers /\ upload[q.s] # None
    BY <1>0, <1>4 DEF SaveList, At, ReqOK, Uploading, Opened
  <2>2. list' \in [Sessions -> {None} \cup SUBSET Numbers]
    BY <1>0, <1>4, <2>1 DEF SaveList, TypeOK, Request
  <2>3. \A s \in Sessions : list'[s] # None => upload'[s] # None
    BY <1>4, <2>1 DEF SaveList, TypeOK, Opened, history
  <2> QED BY <1>4, <2>2, <2>3, DoneType
           DEF SaveList, disk, tables, cloud, history, TypeOK, Opened
<1> QED BY <1>1, <1>2, <1>3, <1>4

\* Starting a completion, and its steps until the md5 is known.
LEMMA MergeType ==
  ASSUME TypeInv, NEW r \in Reqs
  PROVE  /\ \A s \in Sessions : CompleteChunkUpload(r, s) => TypeInv'
         /\ OpenMerged(r) \/ MergeChunk(r) \/ HashMerged(r) => TypeInv'
<1> DEFINE q == req[r]
<1> USE DEF TypeInv
<1>0. q \in Request /\ ReqOK(q)
  BY DEF TypeOK
<1>1. ASSUME NEW s \in Sessions, CompleteChunkUpload(r, s) PROVE TypeInv'
  <2> DEFINE n == [Idle EXCEPT !.pc = "open", !.s = s, !.list = list[s]]
  <2>1. list[s] \in SUBSET Numbers /\ upload[s] # None
    BY <1>1 DEF CompleteChunkUpload, Accept, TypeOK, Opened
  <2>2. n \in Request /\ ReqOK(n) /\ upload[n.s] # None
    <3>1. n \in Request /\ n.pc = "open" /\ n.s = s
      BY <2>1, IdleType DEF Request, Pcs
    <3> HIDE DEF n
    <3> QED BY <2>1, <3>1 DEF ReqOK, Uploading
  <2>3. req' = [req EXCEPT ![r] = n] /\ UNCHANGED upload
    BY <1>1 DEF CompleteChunkUpload, history
  <2> HIDE DEF n
  <2> QED BY <1>1, <2>2, <2>3, StepType
           DEF CompleteChunkUpload, redis, disk, tables, cloud, history, TypeOK, Opened
<1>2. ASSUME NEW i \in Nat, q.s \in Sessions, upload[q.s] \in UploadInfo
      PROVE  /\ MergePc(q.s, i) \in {"merge", "hash"}
             /\ MergePc(q.s, i) = "merge" => i + 1 \in Numbers
  <2>1. TotalChunks(upload[q.s].c) \in 0..MaxChunks
    BY <1>2, ChunksBounded DEF UploadInfo
  <2> QED BY <2>1, ChunkAssumption DEF MergePc, Numbers
<1>3. CASE OpenMerged(r)
  <2> DEFINE n == [q EXCEPT !.linked = TRUE, !.i = 1, !.pc = MergePc(q.s, 0)]
  <2>1. q.pc = "open" /\ q.s \in Sessions /\ upload[q.s] \in UploadInfo
    BY <1>3, SessionOf DEF OpenMerged, At
  <2>2. n \in Request /\ ReqOK(n) /\ n.s = q.s
    <3>1. MergePc(q.s, 0) \in {"merge", "hash"} /\ (MergePc(q.s, 0) = "merge" => 1 \in Numbers)
      BY <1>2, <2>1
    <3> QED BY <1>0, <2>1, <3>1 DEF Request, ReqOK, Pcs, Uploading
  <2>3. req' = [req EXCEPT ![r] = n] /\ UNCHANGED upload
    BY <1>3 DEF OpenMerged, history, TypeOK
  <2>4. merged' \in [Sessions -> {None} \cup SUBSET Numbers]
    BY <1>3, <2>1 DEF OpenMerged, TypeOK
  <2> HIDE DEF n
  <2> QED BY <1>3, <2>1, <2>2, <2>3, <2>4, StepType, NoneApart
           DEF OpenMerged, redis, tables, cloud, history, TypeOK, Opened
<1>4. CASE MergeChunk(r)
  <2> DEFINE even == q.even /\ chunks[q.s][q.i] = "whole"
             n == [q EXCEPT !.i = @ + 1, !.even = even, !.pc = MergePc(q.s, q.i)]
  <2>1. q.pc = "merge" /\ q.s \in Sessions /\ upload[q.s] \in UploadInfo /\ q.i \in Numbers
    BY <1>0, <1>4, SessionOf DEF MergeChunk, At, ReqOK
  <2>2. CASE chunks[q.s][q.i] = "none"
    BY <1>4, <2>2, DoneType
       DEF MergeChunk, redis, tables, cloud, history, TypeOK, Opened
  <2>3. CASE chunks[q.s][q.i] # "none"
    <3>1. n \in Request /\ ReqOK(n) /\ n.s = q.s
      <4>1. q.i \in Nat
        BY <2>1 DEF Numbers
      <4>2. MergePc(q.s, q.i) \in {"merge", "hash"}
            /\ (MergePc(q.s, q.i) = "merge" => q.i + 1 \in Numbers)
        BY <1>2, <2>1, <4>1
      <4>3. even \in BOOLEAN /\ q.i + 1 \in Nat
        BY <1>0, <4>1 DEF Request
      <4> HIDE DEF even
      <4> QED BY <1>0, <2>1, <4>1, <4>2, <4>3 DEF Request, ReqOK, Pcs, Uploading
    <3>2. req' = [req EXCEPT ![r] = n] /\ UNCHANGED upload
      BY <1>4, <2>3 DEF MergeChunk, history, TypeOK
    <3>3. merged' \in [Sessions -> {None} \cup SUBSET Numbers]
      <4>1. CASE merged' = merged
        BY <4>1 DEF TypeOK
      <4>2. CASE merged' # merged
        <5>1. merged[q.s] \in SUBSET Numbers
          BY <1>4, <2>1, <2>3, <4>2 DEF MergeChunk, TypeOK
        <5>2. \E S \in SUBSET Numbers : merged' = [merged EXCEPT ![q.s] = S]
          <6>1. merged[q.s] \cup {q.i} \in SUBSET Numbers /\ merged[q.s] \ {q.i} \in SUBSET Numbers
            BY <2>1, <5>1
          <6> QED BY <1>4, <2>1, <2>3, <4>2, <6>1 DEF MergeChunk
        <5> QED BY <2>1, <5>2 DEF TypeOK
      <4> QED BY <4>1, <4>2
    <3> HIDE DEF n
    <3> QED BY <1>4, <2>1, <3>1, <3>2, <3>3, StepType, NoneApart
             DEF MergeChunk, redis, tables, cloud, history, TypeOK, Opened
  <2> QED BY <2>2, <2>3
<1>5. CASE HashMerged(r)
  <2> DEFINE d == [c |-> upload[q.s].c, right |-> merged[q.s]]
             n == [q EXCEPT !.pc = "check", !.md5 = d]
  <2>1. q.pc = "hash" /\ q.s \in Sessions /\ upload[q.s] \in UploadInfo
    BY <1>5, SessionOf DEF HashMerged, At
  <2>2. CASE merged[q.s] = None
    BY <1>5, <2>2, DoneType
       DEF HashMerged, redis, disk, tables, cloud, history, TypeOK, Opened
  <2>3. CASE merged[q.s] # None
    <3>1. d \in Digest
      BY <2>1, <2>3 DEF Digest, UploadInfo, TypeOK
    <3> HIDE DEF d
    <3>2. n \in Request /\ ReqOK(n) /\ n.s = q.s
      BY <1>0, <2>1, <3>1 DEF Request, ReqOK, Pcs, Uploading
    <3>3. req' = [req EXCEPT ![r] = n] /\ UNCHANGED upload
      BY <1>5, <2>3 DEF HashMerged, history, TypeOK, d
    <3> HIDE DEF n
    <3> QED BY <1>5, <2>1, <3>2, <3>3, StepType, NoneApart
             DEF HashMerged, redis, disk, tables, cloud, history, TypeOK, Opened
  <2> QED BY <2>2, <2>3
<1> QED BY <1>1, <1>3, <1>4, <1>5

\* The steps of a completion that knows the md5.
LEMMA RecordType ==
  ASSUME TypeInv, NEW r \in Reqs
  PROVE  /\ CheckQuota(r) \/ CreateFileRecord(r) => TypeInv'
         /\ CleanupChunkInfo(r) \/ CleanupLocalChunkFiles(r) => TypeInv'
         /\ SaveFileInfo(r) \/ RemoveMerged(r) => TypeInv'
<1> DEFINE q == req[r]
<1> USE DEF TypeInv
<1>0. q \in Request /\ ReqOK(q)
  BY DEF TypeOK
<1>1. CASE CheckQuota(r)
  <2> DEFINE known == {p \in paths : p.md5 = q.md5}
             path == IF known = {} THEN None ELSE (CHOOSE p \in known : TRUE).user
             size == stores[upload[q.s].user]
             n == [q EXCEPT !.pc = "tx", !.size = size, !.path = path]
  <2>1. q.pc = "check" /\ q.s \in Sessions /\ upload[q.s] \in UploadInfo /\ q.md5 \in Digest
    BY <1>0, <1>1, SessionOf DEF CheckQuota, At, ReqOK
  <2>2. CASE Fits(size, upload[q.s].c)
    <3>1. path \in Users \cup {None}
      <4>1. known # {} => (CHOOSE p \in known : TRUE) \in known
        OBVIOUS
      <4>2. known \subseteq Path
        BY DEF TypeOK
      <4> QED BY <4>1, <4>2 DEF Path
    <3>2. size \in Nat
      BY <2>1 DEF TypeOK, UploadInfo
    <3>3. req' = [req EXCEPT ![r] = n] /\ UNCHANGED <<merged, upload>>
      BY <1>1, <2>2 DEF CheckQuota, history, TypeOK
    <3> HIDE DEF path, size
    <3>4. n \in Request /\ ReqOK(n) /\ n.s = q.s
      BY <1>0, <2>1, <3>1, <3>2 DEF Request, ReqOK, Pcs, Uploading
    <3> HIDE DEF n
    <3> QED BY <1>1, <2>1, <3>3, <3>4, StepType, NoneApart
             DEF CheckQuota, redis, tables, cloud, history, TypeOK, Opened
  <2>3. CASE ~Fits(size, upload[q.s].c)
    BY <1>1, <2>1, <2>3, EndType
       DEF CheckQuota, redis, tables, cloud, history, TypeOK, Opened
  <2> QED BY <2>2, <2>3
<1>2. CASE CreateFileRecord(r)
  <2> DEFINE info == upload[q.s]
             path == [md5 |-> q.md5, user |-> info.user]
             job == [s |-> q.s, path |-> path, data |-> None]
             row == [s |-> q.s, user |-> info.user, md5 |-> q.md5]
             to == IF q.path = None THEN info.user ELSE q.path
             n == [q EXCEPT !.pc = "del", !.path = to]
  <2>1. q.pc = "tx" /\ q.s \in Sessions /\ info \in UploadInfo /\ q.md5 \in Digest
    BY <1>0, <1>2, SessionOf DEF CreateFileRecord, At, ReqOK
  <2>2. CASE Taken(q.md5)
    BY <1>2, <2>1, <2>2, EndType
       DEF CreateFileRecord, redis, tables, cloud, history, TypeOK, Opened
  <2>3. CASE ~Taken(q.md5)
    <3>0. Record(r) /\ UNCHANGED <<chunks, redis, objects, upload, received>>
      BY <1>2, <2>3 DEF CreateFileRecord
    <3>1. row \in FileRow /\ job \in Job
      BY <2>1 DEF FileRow, Job, Path, UploadInfo
    <3>2. files' \subseteq FileRow /\ jobs' \subseteq Job
          /\ \A j \in jobs' : j \in jobs \/ j = job
      BY <3>0, <3>1 DEF Record, TypeOK
    <3>3. q.size + SizeOf[info.c] \in Nat
      BY <1>0, <2>1, ChunkAssumption DEF Request, UploadInfo
    <3>4. stores' \in [Users -> Nat]
      BY <2>1, <3>0, <3>3 DEF Record, TypeOK, UploadInfo
    <3>5. to \in Users
      BY <1>0, <2>1 DEF Request, UploadInfo
    <3>6. req' = [req EXCEPT ![r] = n]
      BY <3>0 DEF Record, TypeOK
    <3>7. job.s = q.s
      OBVIOUS
    <3> HIDE DEF to, job
    <3>8. n \in Request /\ ReqOK(n) /\ n.s = q.s
      BY <1>0, <2>1, <3>5 DEF Request, ReqOK, Pcs, Uploading
    <3> HIDE DEF n
    <3>9. \A j \in jobs' : upload'[j.s] # None
      BY <2>1, <3>0, <3>2, <3>7, NoneApart DEF Opened
    <3>10. recorded' \subseteq Sessions
      BY <2>1, <3>0 DEF Record, TypeOK
    <3> QED BY <2>1, <3>0, <3>2, <3>4, <3>6, <3>8, <3>9, <3>10, StepType, NoneApart
             DEF Record, redis, TypeOK, Opened
  <2> QED BY <2>2, <2>3
<1>3. CASE CleanupChunkInfo(r)
  <2>1. q.pc = "del" /\ q.s \in Sessions
    BY <1>3, SessionOf DEF CleanupChunkInfo, At
  <2>2. ReqOK([q EXCEPT !.pc = "clean"])
    BY <1>0, <2>1 DEF ReqOK, Request, Uploading
  <2>3. list' \in [Sessions -> {None} \cup SUBSET Numbers]
        /\ \A s \in Sessions : list'[s] # None => list[s] # None
    BY <1>3, <2>1 DEF CleanupChunkInfo, TypeOK
  <2> QED BY <1>3, <2>1, <2>2, <2>3, MoveType
           DEF CleanupChunkInfo, Pcs, disk, tables, cloud, history, TypeOK, Opened
<1>4. CASE CleanupLocalChunkFiles(r)
  <2>1. q.pc = "clean" /\ q.s \in Sessions
    BY <1>4, SessionOf DEF CleanupLocalChunkFiles, At
  <2>2. ReqOK([q EXCEPT !.pc = "info"])
    BY <1>0, <2>1 DEF ReqOK, Request, Uploading
  <2>3. chunks' \in [Sessions -> [Numbers -> ChunkFile]]
    BY <1>4, <2>1 DEF CleanupLocalChunkFiles, TypeOK, ChunkFile
  <2> QED BY <1>4, <2>1, <2>2, <2>3, MoveType
           DEF CleanupLocalChunkFiles, Pcs, redis, tables, cloud, history, TypeOK, Opened
<1>5. CASE SaveFileInfo(r)
  <2>1. q.pc = "info" /\ q.s \in Sessions /\ q.md5 \in Digest /\ q.path \in Users
    BY <1>0, <1>5, SessionOf DEF SaveFileInfo, At, ReqOK
  <2>2. ReqOK([q EXCEPT !.pc = "remove"])
    BY <1>0, <2>1 DEF ReqOK, Request, Uploading
  <2>3. paths' \subseteq Path
    BY <1>5, <2>1 DEF SaveFileInfo, TypeOK, Path
  <2> QED BY <1>5, <2>1, <2>2, <2>3, MoveType
           DEF SaveFileInfo, Pcs, disk, tables, cloud, history, TypeOK, Opened
<1>6. CASE RemoveMerged(r)
  <2>1. q.pc # "idle"
    BY <1>6 DEF RemoveMerged, At
  <2> QED BY <1>6, <2>1, EndType
           DEF RemoveMerged, redis, tables, cloud, history, TypeOK, Opened
<1> QED BY <1>1, <1>2, <1>3, <1>4, <1>5, <1>6

\* Failures of a request.
LEMMA FailType ==
  ASSUME TypeInv, NEW r \in Reqs, Fail(r) \/ Skip(r)
  PROVE  TypeInv'
<1> DEFINE q == req[r]
<1> USE DEF TypeInv
<1>0. q \in Request /\ ReqOK(q)
  BY DEF TypeOK
<1>1. CASE Fail(r) /\ q.pc \in Uploading \cup {"open", "merge", "hash"}
           /\ Stopped({r}) /\ Done(r) /\ UNCHANGED merged
  BY <1>1, DoneType, StoppedType
     DEF Fail, redis, tables, cloud, history, TypeOK, Opened
<1>2. CASE Fail(r) /\ q.pc \in {"check", "tx"} /\ EndMerged(r) /\ UNCHANGED chunks
  BY <1>2, EndType DEF Fail, redis, tables, cloud, history, TypeOK, Opened
<1>3. ASSUME NEW pc \in {"clean", "info", "remove"}, Skip(r), Step(r, pc),
             q.pc \in {"del", "clean", "info"}
      PROVE  TypeInv'
  <2>1. ReqOK([q EXCEPT !.pc = pc])
    BY <1>0, <1>3 DEF ReqOK, Request, Uploading
  <2> QED BY <1>3, <2>1, MoveType
           DEF Skip, Pcs, redis, disk, tables, cloud, history, TypeOK, Opened
<1> QED BY <1>1, <1>2, <1>3 DEF Fail, Skip, At

\* The goroutines, the users and the clocks.
LEMMA OtherType ==
  ASSUME TypeInv
  PROVE  /\ \A j \in jobs : Store(j) \/ FailJob(j) => TypeInv'
         /\ \A s \in Sessions : Expire(s) => TypeInv'
         /\ \A f \in files : DeleteFile(f) => TypeInv'
         /\ \A p \in paths : ExpirePath(p) => TypeInv'
         /\ Crash => TypeInv'
<1> USE DEF TypeInv
<1>1. ASSUME NEW j \in jobs, CopyMerged(j) PROVE TypeInv'
  <2> DEFINE d == [c |-> upload[j.s].c, right |-> merged[j.s]]
             k == [j EXCEPT !.data = d]
  <2>1. j \in Job /\ j.s \in Sessions /\ upload[j.s] # None
    BY DEF TypeOK, Opened, Job
  <2>2. merged[j.s] # None => d \in Digest
    BY <2>1 DEF Digest, UploadInfo, TypeOK
  <2> HIDE DEF d
  <2>3. merged[j.s] # None => k \in Job /\ k.s = j.s
    BY <2>1, <2>2 DEF Job
  <2> HIDE DEF k
  <2>4. \A x \in jobs' : x \in jobs \/ (x = k /\ merged[j.s] # None)
    BY <1>1 DEF CopyMerged, k, d
  <2>5. jobs' \subseteq Job /\ \A x \in jobs' : upload[x.s] # None
    BY <2>1, <2>3, <2>4 DEF TypeOK, Opened
  <2> QED BY <1>1, <2>5
           DEF CopyMerged, redis, disk, tables, history, TypeOK, Opened
<1>2. ASSUME NEW j \in jobs, UploadSimpleFile(j) PROVE TypeInv'
  <2>1. [path |-> j.path, data |-> j.data] \in Object
    BY <1>2 DEF UploadSimpleFile, TypeOK, Job, Object
  <2>2. objects' \subseteq Object
    BY <1>2, <2>1 DEF UploadSimpleFile, TypeOK
  <2> QED BY <1>2, <2>2
           DEF UploadSimpleFile, redis, disk, tables, history, TypeOK, Opened
<1>3. ASSUME NEW j \in jobs, FailJob(j) PROVE TypeInv'
  BY <1>3 DEF FailJob, redis, disk, tables, history, TypeOK, Opened
<1>4. ASSUME NEW s \in Sessions, Expire(s) PROVE TypeInv'
  BY <1>4 DEF Expire, disk, tables, cloud, history, TypeOK, Opened
<1>5. ASSUME NEW f \in files, DeleteFile(f) PROVE TypeInv'
  <2>1. f.user \in Users /\ SizeOf[f.md5.c] \in Nat
    BY ChunkAssumption DEF TypeOK, FileRow, Digest
  <2>2. stores' \in [Users -> Nat]
    BY <1>5, <2>1 DEF DeleteFile, TypeOK
  <2> QED BY <1>5, <2>2
           DEF DeleteFile, redis, disk, cloud, history, TypeOK, Opened
<1>6. ASSUME NEW p \in paths, ExpirePath(p) PROVE TypeInv'
  BY <1>6 DEF ExpirePath, disk, tables, cloud, history, TypeOK, Opened
<1>7. ASSUME Crash PROVE TypeInv'
  BY <1>7, IdleType, StoppedType
     DEF Crash, redis, tables, history, TypeOK, Opened
<1> QED BY <1>1, <1>2, <1>3, <1>4, <1>5, <1>6, <1>7 DEF Store

LEMMA NextType ==
  ASSUME TypeInv, [Next]_vars
  PROVE  TypeInv'
<1>1. ASSUME NEW r \in Reqs, Proceed(r) PROVE TypeInv'
  BY <1>1, UploadType, MergeType, RecordType DEF Proceed
<1>2. CASE UNCHANGED vars
  BY <1>2 DEF vars, TypeInv, TypeOK, Opened
<1> QED BY <1>1, <1>2, OpenType, UploadType, MergeType, FailType, OtherType DEF Next

\* The state stays well typed: chunk numbers within bounds, sizes natural
\* numbers, and every request, file and goroutine about an opened session.
THEOREM TypeCorrect == Spec => []TypeOK
<1>1. TypeInv /\ [Next]_vars => TypeInv'
  BY NextType
<1>2. TypeInv => TypeOK
  BY DEF TypeInv
<1> QED BY InitType, <1>1, <1>2, PTL DEF Spec

-----------------------------------------------------------------------------
(* Nothing is listed or recorded before it was received *)

\* What ReceivedInv says of the tables and the lists.
TablesReceived ==
  /\ ListedReceived
  /\ \A s \in Sessions : IF upload[s] = None THEN received[s] = {}
                                             ELSE received[s] \subseteq Pieces(s)
  /\ \A f \in files : upload[f.s] # None

LEMMA ReceivedParts ==
  ReceivedInv <=> TablesReceived /\ \A r \in Reqs : ReqReceived(req[r])
BY DEF ReceivedInv, TablesReceived

\* With lists, files and chunks received the same, so is what is said of them.
LEMMA TablesSame ==
  ASSUME TablesReceived, UNCHANGED <<upload, received>>,
         \A s \in Sessions : list'[s] \in {list[s], None},
         files' \subseteq files
  PROVE  TablesReceived'
BY DEF TablesReceived, ListedReceived, Pieces

\* Slot r takes a step that receives nothing.
LEMMA StepReceived ==
  ASSUME TypeInv, ReceivedInv, NEW r \in Reqs, NEW q, ReqReceived(q),
         req' = [req EXCEPT ![r] = q], UNCHANGED <<upload, received>>
  PROVE  \A x \in Reqs : ReqReceived(req[x])'
BY DEF TypeInv, TypeOK, ReceivedInv, ReqReceived, Pieces

LEMMA IdleReceived == ReqReceived(Idle)
BY IdleType DEF ReqReceived, Uploading, Completing

LEMMA DoneReceived ==
  ASSUME TypeInv, ReceivedInv, NEW r \in Reqs, Done(r), UNCHANGED <<upload, received>>
  PROVE  \A x \in Reqs : ReqReceived(req[x])'
BY IdleReceived, StepReceived DEF Done

LEMMA EndReceived ==
  ASSUME TypeInv, ReceivedInv, NEW r \in Reqs, EndMerged(r), UNCHANGED <<upload, received>>
  PROVE  \A x \in Reqs : ReqReceived(req[x])'
<1>1. ASSUME NEW x \in Reqs
      PROVE  ReqReceived([req[x] EXCEPT !.linked = FALSE])
  <2>1. req[x] \in Request /\ ReqReceived(req[x])
    BY DEF TypeInv, TypeOK, ReceivedInv
  <2> QED BY <2>1 DEF Request, ReqReceived
<1>2. ASSUME NEW x \in Reqs PROVE ReqReceived(req'[x])
  BY <1>1, IdleReceived DEF EndMerged, ReceivedInv
<1> QED BY <1>2 DEF ReqReceived, Pieces

\* A request that goes on from one step of a completion to another.
LEMMA CompletionReceived ==
  ASSUME TypeInv, ReceivedInv, NEW r \in Reqs, NEW q \in Request,
         req[r].pc \in Completing, q.pc \in Completing, q.s = req[r].s,
         req' = [req EXCEPT ![r] = q], UNCHANGED <<upload, received>>
  PROVE  \A x \in Reqs : ReqReceived(req[x])'
<1>1. ReqReceived(q)
  BY DEF ReceivedInv, ReqReceived, Completing, Uploading
<1> QED BY <1>1, StepReceived

LEMMA OpenReceived ==
  ASSUME TypeInv, ReceivedInv, NEW s \in Sessions, NEW u \in Users, NEW c \in Contents,
         InitChunkUpload(s, u, c)
  PROVE  ReceivedInv'
<1>1. upload[s] = None /\ received[s] = {}
  BY DEF InitChunkUpload, ReceivedInv
<1>2. \A x \in Sessions : x # s => upload'[x] = upload[x] /\ list'[x] = list[x]
                                   /\ Pieces(x)' = Pieces(x)
  BY DEF InitChunkUpload, TypeInv, TypeOK, Pieces
<1>3. list'[s] = {} /\ UNCHANGED <<files, req, received>>
  BY DEF InitChunkUpload, TypeInv, TypeOK, tables
<1>4. \A f \in files : f.s \in Sessions /\ f.s # s
  BY <1>1 DEF ReceivedInv, TypeInv, TypeOK, FileRow
<1>5. \A r \in Reqs : req[r].pc # "idle" => req[r].s \in Sessions /\ req[r].s # s
  BY <1>1, SessionOf, NoneApart
<1>6. ListedReceived'
  BY <1>2, <1>3, <1>4 DEF ListedReceived, ReceivedInv
<1>7. \A x \in Sessions : IF upload'[x] = None THEN received'[x] = {}
                                               ELSE received'[x] \subseteq Pieces(x)'
  BY <1>1, <1>2, <1>3 DEF ReceivedInv
<1>8. \A f \in files' : upload'[f.s] # None
  BY <1>2, <1>3, <1>4 DEF ReceivedInv
<1>9. ASSUME NEW r \in Reqs PROVE ReqReceived(req[r])'
  <2>1. CASE req[r].pc = "idle"
    BY <1>3, <2>1 DEF ReqReceived, Uploading, Completing
  <2>2. CASE req[r].pc # "idle"
    BY <1>2, <1>3, <1>5, <2>2 DEF ReceivedInv, ReqReceived
  <2> QED BY <2>1, <2>2
<1> QED BY <1>6, <1>7, <1>8, <1>9 DEF ReceivedInv

LEMMA UploadReceived ==
  ASSUME TypeInv, ReceivedInv, NEW r \in Reqs
  PROVE  /\ \A s \in Sessions, i \in Numbers : UploadChunk(r, s, i) => ReceivedInv'
         /\ CreateChunk(r) \/ SaveChunk(r) \/ SaveList(r) => ReceivedInv'
<1> DEFINE q == req[r]
<1> USE ReceivedParts
<1>0. q \in Request /\ ReqReceived(q) /\ TablesReceived
  BY DEF TypeInv, TypeOK
<1>1. ASSUME NEW s \in Sessions, NEW i \in Numbers, UploadChunk(r, s, i) PROVE ReceivedInv'
  <2> DEFINE n == [Idle EXCEPT !.pc = "create", !.s = s, !.i = i, !.list = list[s]]
  <2>1. list[s] \subseteq received[s] /\ i \in Pieces(s)
    BY <1>0, <1>1 DEF UploadChunk, Accept, TablesReceived, ListedReceived
  <2>2. n.pc = "create" /\ n.s = s /\ n.i = i /\ n.list = list[s]
    BY IdleType DEF Request
  <2>3. req' = [req EXCEPT ![r] = n] /\ UNCHANGED <<upload, received, list, files>>
    BY <1>1 DEF UploadChunk, history, redis, tables
  <2> HIDE DEF n
  <2>4. ReqReceived(n)
    BY <2>1, <2>2 DEF ReqReceived, Uploading, Completing
  <2>5. TablesReceived'
    BY <1>0, <2>3, TablesSame
  <2> QED BY <2>3, <2>4, <2>5, StepReceived DEF ReceivedInv, TablesReceived
<1>2. CASE CreateChunk(r)
  <2> DEFINE n == [q EXCEPT !.pc = "copy"]
  <2>1. ReqReceived(n)
    BY <1>0, <1>2 DEF CreateChunk, At, ReqReceived, Request, Uploading, Completing
  <2>2. req' = [req EXCEPT ![r] = n] /\ UNCHANGED <<upload, received, list, files>>
    BY <1>2 DEF CreateChunk, Step, history, redis, tables, TypeInv, TypeOK
  <2>3. TablesReceived'
    BY <1>0, <2>2, TablesSame
  <2> QED BY <2>1, <2>2, <2>3, StepReceived DEF ReceivedInv, TablesReceived
<1>3. CASE SaveChunk(r)
  <2> DEFINE n == [q EXCEPT !.pc = "save"]
  <2>1. q.s \in Sessions /\ upload[q.s] # None /\ q.pc = "copy"
    BY <1>3, SessionOf, NoneApart DEF SaveChunk, At
  <2>2. CASE chunks[q.s][q.i] = "none"
    <3>1. Done(r) /\ UNCHANGED <<upload, received, list, files>>
      BY <1>3, <2>2 DEF SaveChunk, redis, tables
    <3>2. TablesReceived'
      BY <1>0, <3>1, TablesSame
    <3> QED BY <3>1, <3>2, DoneReceived DEF ReceivedInv, TablesReceived
  <2>3. CASE chunks[q.s][q.i] # "none"
    <3>1. received' = [received EXCEPT ![q.s] = @ \cup {q.i}]
          /\ UNCHANGED <<upload, list, files>>
      BY <1>3, <2>3 DEF SaveChunk, redis, tables
    <3>2. req' = [req EXCEPT ![r] = n]
      BY <1>3, <2>3 DEF SaveChunk, Step, TypeInv, TypeOK
    <3>3. q.i \in Pieces(q.s) /\ \A s : Pieces(s)' = Pieces(s)
      BY <1>0, <2>1, <3>1 DEF ReqReceived, Uploading, Pieces
    <3>4. \A s \in Sessions : /\ received[s] \subseteq received'[s]
                              /\ upload[s] # None => received'[s] \subseteq Pieces(s)
                              /\ upload[s] = None => received'[s] = {}
      BY <1>0, <2>1, <3>1, <3>3 DEF TypeInv, TypeOK, TablesReceived
    <3>5. \A s \in Sessions : upload[s] # None /\ received[s] = Pieces(s)
                              => received'[s] = Pieces(s)
      BY <3>4
    <3>6. \A f \in files : f.s \in Sessions
      BY DEF TypeInv, TypeOK, FileRow
    <3>7. TablesReceived'
      BY <1>0, <3>1, <3>3, <3>4, <3>5, <3>6 DEF TablesReceived, ListedReceived
    <3>8. q.i \in received'[q.s]
      BY <2>1, <3>1 DEF TypeInv, TypeOK
    <3>9. n.pc = "save" /\ n.s = q.s /\ n.i = q.i /\ n.list = q.list
      BY <1>0 DEF Request
    <3>10. ASSUME NEW x \in Reqs PROVE ReqReceived(req[x])'
      <4>1. CASE x = r
        <5>1. req'[x] = n
          BY <3>2, <4>1 DEF TypeInv, TypeOK
        <5> HIDE DEF n
        <5>2. q.list \subseteq received'[q.s]
          BY <1>0, <2>1, <3>4 DEF ReqReceived, Uploading
        <5> QED BY <3>3, <3>8, <3>9, <5>1, <5>2 DEF ReqReceived, Uploading, Completing
      <4>2. CASE x # r /\ req[x].pc # "idle"
        <5>1. req'[x] = req[x] /\ req[x].s \in Sessions /\ upload[req[x].s] # None
          BY <3>2, <4>2, SessionOf, NoneApart DEF TypeInv, TypeOK
        <5>2. ReqReceived(req[x])
          BY DEF ReceivedInv
        <5> QED BY <3>3, <3>4, <3>5, <5>1, <5>2 DEF ReqReceived
      <4>3. CASE x # r /\ req[x].pc = "idle"
        <5>1. req'[x] = req[x]
          BY <3>2, <4>3 DEF TypeInv, TypeOK
        <5> QED BY <4>3, <5>1 DEF ReqReceived, Uploading, Completing
      <4> QED BY <4>1, <4>2, <4>3
    <3> QED BY <3>7, <3>10 DEF ReceivedInv, TablesReceived
  <2> QED BY <2>2, <2>3
<1>4. CASE SaveList(r)
  <2>1. q.s \in Sessions /\ q.list \cup {q.i} \subseteq received[q.s]
    BY <1>0, <1>4, SessionOf DEF SaveList, At, ReqReceived, Uploading
  <2>2. UNCHANGED <<upload, received, files>> /\ Done(r)
    BY <1>4 DEF SaveList, history, tables
  <2>3. TablesReceived'
    BY <1>0, <1>4, <2>1, <2>2 DEF SaveList, TablesReceived, ListedReceived, Pieces, TypeInv, TypeOK
  <2> QED BY <2>2, <2>3, DoneReceived DEF ReceivedInv, TablesReceived
<1> QED BY <1>1, <1>2, <1>3, <1>4

\* The steps of a completion receive nothing and change no list but their own.
LEMMA CompleteReceived ==
  ASSUME TypeInv, ReceivedInv, NEW r \in Reqs
  PROVE  /\ \A s \in Sessions : CompleteChunkUpload(r, s) => ReceivedInv'
         /\ OpenMerged(r) \/ MergeChunk(r) \/ HashMerged(r) \/ CheckQuota(r) => ReceivedInv'
         /\ CreateFileRecord(r) \/ CleanupChunkInfo(r) => ReceivedInv'
         /\ CleanupLocalChunkFiles(r) \/ SaveFileInfo(r) \/ RemoveMerged(r) => ReceivedInv'
<1> DEFINE q == req[r]
<1>0. /\ q \in Request /\ ReqReceived(q) /\ TablesReceived
      /\ req \in [Reqs -> Request]
  BY ReceivedParts DEF TypeInv, TypeOK
<1>1. ASSUME NEW s \in Sessions, CompleteChunkUpload(r, s) PROVE ReceivedInv'
  <2> DEFINE n == [Idle EXCEPT !.pc = "open", !.s = s, !.list = list[s]]
  <2>1. received[s] = Pieces(s)
    BY <1>0, <1>1 DEF CompleteChunkUpload, Accept, TablesReceived, ListedReceived, TypeInv, Opened
  <2>2. n.pc = "open" /\ n.s = s
    BY IdleType DEF Request
  <2>3. req' = [req EXCEPT ![r] = n] /\ UNCHANGED <<upload, received, list, files>>
    BY <1>1 DEF CompleteChunkUpload, history, redis, tables
  <2> HIDE DEF n
  <2>4. ReqReceived(n)
    BY <2>1, <2>2 DEF ReqReceived, Uploading
  <2>5. TablesReceived'
    BY <1>0, <2>3, TablesSame
  <2> QED BY <2>3, <2>4, <2>5, StepReceived DEF ReceivedInv, TablesReceived
\* A step within a completion, given its new local variables.
<1>2. ASSUME NEW n \in Request, q.pc \in Completing, n.pc \in Completing, n.s = q.s,
             req' = [req EXCEPT ![r] = n], UNCHANGED <<upload, received, files>>,
             \A s \in Sessions : list'[s] \in {list[s], None}
      PROVE  ReceivedInv'
  BY <1>0, <1>2, TablesSame, CompletionReceived DEF ReceivedInv, TablesReceived
\* A completion that ends.
<1>3. ASSUME Done(r) \/ EndMerged(r), UNCHANGED <<upload, received, list, files>>
      PROVE  ReceivedInv'
  BY <1>0, <1>3, TablesSame, DoneReceived, EndReceived DEF ReceivedInv, TablesReceived
<1>4. CASE OpenMerged(r)
  <2> DEFINE n == [q EXCEPT !.linked = TRUE, !.i = 1, !.pc = MergePc(q.s, 0)]
  <2>1. n \in Request /\ n.pc \in Completing /\ n.s = q.s /\ q.pc \in Completing
    BY <1>0, <1>4 DEF OpenMerged, At, MergePc, Request, Pcs, Completing, Uploading
  <2>2. req' = [req EXCEPT ![r] = n] /\ UNCHANGED <<upload, received, list, files>>
    BY <1>0, <1>4 DEF OpenMerged, history, redis, tables
  <2> QED BY <1>2, <2>1, <2>2
<1>5. CASE MergeChunk(r)
  <2> DEFINE even == q.even /\ chunks[q.s][q.i] = "whole"
             n == [q EXCEPT !.i = @ + 1, !.even = even, !.pc = MergePc(q.s, q.i)]
  <2>1. UNCHANGED <<upload, received, list, files>> /\ q.pc \in Completing
    BY <1>5 DEF MergeChunk, At, history, redis, tables, Completing, Pcs, Uploading
  <2>2. CASE chunks[q.s][q.i] = "none"
    BY <1>3, <1>5, <2>1, <2>2 DEF MergeChunk
  <2>3. CASE chunks[q.s][q.i] # "none"
    <3>1. even \in BOOLEAN
      BY <1>0 DEF Request
    <3>2. req' = [req EXCEPT ![r] = n]
      BY <1>0, <1>5, <2>3 DEF MergeChunk
    <3>0. MergePc(q.s, q.i) \in {"merge", "hash"} /\ q.i + 1 \in Nat
      BY <1>0 DEF MergePc, Request
    <3> HIDE DEF even
    <3>3. n \in Request /\ n.pc \in Completing /\ n.s = q.s
      BY <1>0, <3>1, <3>0 DEF Request, Pcs, Completing, Uploading
    <3> QED BY <1>2, <2>1, <3>2, <3>3
  <2> QED BY <2>2, <2>3
<1>6. CASE HashMerged(r)
  <2> DEFINE d == [c |-> upload[q.s].c, right |-> merged[q.s]]
             n == [q EXCEPT !.pc = "check", !.md5 = d]
  <2>1. UNCHANGED <<upload, received, list, files>> /\ q.pc \in Completing
    BY <1>6 DEF HashMerged, At, history, redis, tables, Completing, Pcs, Uploading
  <2>2. CASE merged[q.s] = None
    BY <1>3, <1>6, <2>1, <2>2 DEF HashMerged
  <2>3. CASE merged[q.s] # None
    <3>1. q.s \in Sessions /\ upload[q.s] \in UploadInfo
      BY <1>6, SessionOf DEF HashMerged, At
    <3>2. d \in Digest
      BY <2>3, <3>1 DEF Digest, UploadInfo, TypeInv, TypeOK
    <3>3. req' = [req EXCEPT ![r] = n]
      BY <1>0, <1>6, <2>3 DEF HashMerged
    <3> HIDE DEF d
    <3>4. n \in Request /\ n.pc \in Completing /\ n.s = q.s
      BY <1>0, <3>2 DEF Request, Pcs, Completing, Uploading
    <3> QED BY <1>2, <2>1, <3>3, <3>4
  <2> QED BY <2>2, <2>3
<1>7. CASE CheckQuota(r)
  <2>1. UNCHANGED <<upload, received, list, files>> /\ q.pc = "check" /\ q.pc \in Completing
    BY <1>7 DEF CheckQuota, At, history, redis, tables, Completing, Pcs, Uploading
  <2>2. CASE EndMerged(r)
    BY <1>3, <2>1, <2>2
  <2>3. CASE ~EndMerged(r)
    <3>1. req' \in [Reqs -> Request]
      BY <1>7, RecordType DEF TypeInv, TypeOK
    <3>2. req' = [req EXCEPT ![r] = req'[r]] /\ req'[r].pc = "tx" /\ req'[r].s = q.s
      BY <1>0, <1>7, <2>3 DEF CheckQuota, Request
    <3> QED BY <1>2, <2>1, <3>1, <3>2 DEF Completing, Pcs, Uploading
  <2> QED BY <2>2, <2>3
<1>8. CASE CreateFileRecord(r)
  <2>1. UNCHANGED <<upload, received, list>> /\ q.pc = "tx" /\ q.pc \in Completing
    BY <1>8 DEF CreateFileRecord, At, redis, Completing, Pcs, Uploading
  <2>2. CASE Taken(q.md5)
    BY <1>3, <1>8, <2>1, <2>2 DEF CreateFileRecord, tables
  <2>3. CASE ~Taken(q.md5)
    <3>1. Record(r) /\ q.s \in Sessions /\ upload[q.s] # None /\ received[q.s] = Pieces(q.s)
      BY <1>0, <1>8, <2>1, <2>3, SessionOf, NoneApart DEF CreateFileRecord, ReqReceived
    <3>2. \A f \in files' : f \in files \/ f.s = q.s
      BY <3>1 DEF Record
    <3>3. TablesReceived'
      BY <1>0, <2>1, <3>1, <3>2 DEF TablesReceived, ListedReceived, Pieces
    <3>4. req' \in [Reqs -> Request]
      BY <1>8, RecordType DEF TypeInv, TypeOK
    <3>5. req' = [req EXCEPT ![r] = req'[r]] /\ req'[r].pc = "del" /\ req'[r].s = q.s
      BY <1>0, <3>1 DEF Record, Request
    <3>6. \A x \in Reqs : ReqReceived(req[x])'
      BY <2>1, <3>4, <3>5, CompletionReceived DEF Completing, Pcs, Uploading
    <3> QED BY <3>3, <3>6 DEF ReceivedInv, TablesReceived
  <2> QED BY <2>2, <2>3
<1>9. ASSUME NEW pc \in {"clean", "info", "remove"}, Step(r, pc), q.pc \in Completing,
             UNCHANGED <<upload, received, files>>,
             \A s \in Sessions : list'[s] \in {list[s], None}
      PROVE  ReceivedInv'
  <2> DEFINE n == [q EXCEPT !.pc = pc]
  <2>1. n \in Request /\ n.pc \in Completing /\ n.s = q.s
    BY <1>0 DEF Request, Pcs, Completing, Uploading
  <2>2. req' = [req EXCEPT ![r] = n]
    BY <1>0, <1>9 DEF Step
  <2> QED BY <1>2, <1>9, <2>1, <2>2
<1>10. CASE CleanupChunkInfo(r)
  <2>1. q.pc \in Completing /\ Step(r, "clean") /\ UNCHANGED <<upload, received, files>>
    BY <1>10 DEF CleanupChunkInfo, At, history, tables, Completing, Pcs, Uploading
  <2>2. \A s \in Sessions : list'[s] \in {list[s], None}
    BY <1>10 DEF CleanupChunkInfo, TypeInv, TypeOK
  <2> QED BY <1>9, <2>1, <2>2
<1>11. CASE CleanupLocalChunkFiles(r)
  <2>1. q.pc \in Completing /\ Step(r, "info") /\ UNCHANGED <<upload, received, list, files>>
    BY <1>11 DEF CleanupLocalChunkFiles, At, history, redis, tables, Completing, Pcs, Uploading
  <2> QED BY <1>9, <2>1
<1>12. CASE SaveFileInfo(r)
  <2>1. q.pc \in Completing /\ Step(r, "remove") /\ UNCHANGED <<upload, received, list, files>>
    BY <1>12 DEF SaveFileInfo, At, history, tables, Completing, Pcs, Uploading
  <2> QED BY <1>9, <2>1
<1>13. CASE RemoveMerged(r)
  BY <1>3, <1>13 DEF RemoveMerged, history, redis, tables
<1> QED BY <1>1, <1>4, <1>5, <1>6, <1>7, <1>8, <1>10, <1>11, <1>12, <1>13

\* Nor do failures, expiries, deletes and the goroutines.
LEMMA OtherReceived ==
  ASSUME TypeInv, ReceivedInv
  PROVE  /\ \A r \in Reqs : Fail(r) \/ Skip(r) => ReceivedInv'
         /\ \A j \in jobs : Store(j) \/ FailJob(j) => ReceivedInv'
         /\ \A s \in Sessions : Expire(s) => ReceivedInv'
         /\ \A f \in files : DeleteFile(f) => ReceivedInv'
         /\ \A p \in paths : ExpirePath(p) => ReceivedInv'
         /\ Crash => ReceivedInv'
<1>0. TablesReceived /\ \A r \in Reqs : ReqReceived(req[r])
  BY ReceivedParts
<1>1. ASSUME UNCHANGED <<req, upload, received>>, files' \subseteq files,
             \A s \in Sessions : list'[s] \in {list[s], None}
      PROVE  ReceivedInv'
  BY <1>0, <1>1, TablesSame DEF ReceivedInv, TablesReceived, ReqReceived, Pieces
<1>2. ASSUME NEW r \in Reqs, Fail(r) \/ Skip(r) PROVE ReceivedInv'
  <2>1. UNCHANGED <<upload, received, list, files>>
    BY <1>2 DEF Fail, Skip, history, redis, tables
  <2>2. TablesReceived'
    BY <1>0, <2>1, TablesSame
  <2>3. CASE Done(r) \/ EndMerged(r)
    BY <2>1, <2>2, <2>3, DoneReceived, EndReceived DEF ReceivedInv, TablesReceived
  <2>4. ASSUME NEW pc \in {"clean", "info", "remove"}, Step(r, pc),
               req[r].pc \in {"del", "clean", "info"}
        PROVE  ReceivedInv'
    <3> DEFINE n == [req[r] EXCEPT !.pc = pc]
    <3>1. n \in Request /\ n.pc \in Completing /\ n.s = req[r].s /\ req[r].pc \in Completing
      BY <2>4 DEF TypeInv, TypeOK, Request, Pcs, Completing, Uploading
    <3>2. req' = [req EXCEPT ![r] = n]
      BY <2>4 DEF Step, TypeInv, TypeOK
    <3> QED BY <2>1, <2>2, <3>1, <3>2, CompletionReceived DEF ReceivedInv, TablesReceived
  <2> QED BY <1>2, <2>3, <2>4 DEF Fail, Skip, At
<1>3. ASSUME NEW j \in jobs, Store(j) \/ FailJob(j) PROVE ReceivedInv'
  BY <1>1, <1>3
     DEF Store, FailJob, CopyMerged, UploadSimpleFile, history, redis, tables
<1>4. ASSUME NEW s \in Sessions, Expire(s) PROVE ReceivedInv'
  BY <1>1, <1>4 DEF Expire, history, tables, TypeInv, TypeOK
<1>5. ASSUME NEW f \in files, DeleteFile(f) PROVE ReceivedInv'
  BY <1>1, <1>5 DEF DeleteFile, history, redis
<1>6. ASSUME NEW p \in paths, ExpirePath(p) PROVE ReceivedInv'
  BY <1>1, <1>6 DEF ExpirePath, history, tables
<1>7. ASSUME Crash PROVE ReceivedInv'
  <2>1. UNCHANGED <<upload, received, list, files>> /\ \A r \in Reqs : req'[r] = Idle
    BY <1>7 DEF Crash, history, redis, tables
  <2>2. \A r \in Reqs : ReqReceived(req[r])'
    BY <2>1, IdleType DEF ReqReceived, Uploading, Completing
  <2> QED BY <1>0, <2>1, <2>2, TablesSame DEF ReceivedInv, TablesReceived
<1> QED BY <1>2, <1>3, <1>4, <1>5, <1>6, <1>7

LEMMA NextReceived ==
  ASSUME TypeInv, ReceivedInv, [Next]_vars
  PROVE  ReceivedInv'
<1>1. ASSUME NEW r \in Reqs, Proceed(r) PROVE ReceivedInv'
  BY <1>1, UploadReceived, CompleteReceived DEF Proceed
<1>2. CASE UNCHANGED vars
  <2>1. TablesReceived'
    BY <1>2, TablesSame, ReceivedParts DEF vars
  <2> QED BY <1>2, <2>1 DEF vars, ReceivedInv, TablesReceived, ReqReceived, Pieces
<1> QED BY <1>1, <1>2, OpenReceived, UploadReceived, CompleteReceived, OtherReceived DEF Next

LEMMA InitReceived == Init => ReceivedInv
BY IdleReceived DEF Init, ReceivedInv, ListedReceived

\* Whatever runs concurrently and fails where: a chunk is listed only once it
\* was received in full, and a file is recorded only when all its chunks were.
THEOREM ReceivedFirst == Spec => []ListedReceived
<1>1. TypeInv /\ ReceivedInv /\ [Next]_vars => TypeInv' /\ ReceivedInv'
  BY NextType, NextReceived
<1>2. ReceivedInv => ListedReceived
  BY DEF ReceivedInv
<1> QED BY InitType, InitReceived, <1>1, <1>2, PTL DEF Spec

-----------------------------------------------------------------------------
(* A user is charged with a file *)

\* What the transaction adds is a file that was not there.
LEMMA RecordCharges ==
  ASSUME TypeInv, NEW r \in Reqs, CreateFileRecord(r), NEW u \in Users,
         stores'[u] > stores[u]
  PROVE  \E f \in files' \ files : f.user = u
<1> DEFINE q == req[r]
           row == [s |-> q.s, user |-> upload[q.s].user, md5 |-> q.md5]
<1>1. stores \in [Users -> Nat]
  BY DEF TypeInv, TypeOK
<1>2. ~Taken(q.md5)
  BY <1>1 DEF CreateFileRecord, tables
<1>3. Record(r)
  BY <1>2 DEF CreateFileRecord
<1>4. row \in files' /\ row \notin files
  BY <1>2, <1>3 DEF Record, Taken
<1>5. upload[q.s].user = u
  BY <1>1, <1>3 DEF Record
<1> QED BY <1>4, <1>5

\* A charge grows only with a new file of its user, wherever requests fail or
\* the process dies, and however often a session is completed.
THEOREM ChargedWithFile == Spec => ChargedOnce
<1> DEFINE A == \A u \in Users : stores'[u] > stores[u] =>
                  \E f \in files' \ files : f.user = u
<1>1. TypeInv /\ [Next]_vars => [A]_vars
  <2> SUFFICES ASSUME TypeInv, Next, NEW u \in Users, stores'[u] > stores[u]
               PROVE  \E f \in files' \ files : f.user = u
    OBVIOUS
  <2>1. stores \in [Users -> Nat]
    BY DEF TypeInv, TypeOK
  <2>2. stores' # stores
    BY <2>1
  <2>3. ASSUME NEW f \in files, DeleteFile(f) PROVE FALSE
    <3>1. SizeOf[f.md5.c] \in Nat /\ stores[u] \in Nat
      BY <2>1, ChunkAssumption DEF TypeInv, TypeOK, FileRow, Digest
    <3>2. stores'[u] \in {stores[u], stores[u] - SizeOf[f.md5.c], 0}
      BY <2>1, <2>3 DEF DeleteFile
    <3> QED BY <3>1, <3>2
  <2>4. PICK r \in Reqs : CreateFileRecord(r)
    BY <2>2, <2>3
       DEF Next, InitChunkUpload, UploadChunk, CompleteChunkUpload, Proceed, CreateChunk,
           SaveChunk, SaveList, OpenMerged, MergeChunk, HashMerged, CheckQuota,
           CleanupChunkInfo, CleanupLocalChunkFiles, SaveFileInfo, RemoveMerged, Store,
           CopyMerged, UploadSimpleFile, Expire, ExpirePath, Fail, Skip, FailJob, Crash,
           tables
  <2> QED BY <2>4, RecordCharges
<1> QED BY <1>1, InitType, NextType, PTL DEF Spec, ChargedOnce

-----------------------------------------------------------------------------
(* One request at a time on a session *)

\* Clients that send nothing twice and wait for an answer.
Serial == PerSession = 1 /\ ~Duplicates /\ IsFiniteSet(Reqs)

Alone ==
  \A x, y \in Reqs : req[x].pc # "idle" /\ req[y].pc # "idle" /\ req[x].s = req[y].s => x = y

\* A listed chunk is whole, or went with its directory once its file was recorded.
Listed(s) ==
  list[s] # None => \A i \in list[s] : \/ chunks[s][i] = "whole"
                                       \/ s \in recorded /\ chunks[s][i] = "none"

\* What request r, alone on its session, knows of it: an upload, the list and
\* its chunk's file; a completion, how far it has merged.
Knows(r, q) ==
  /\ q.pc \in Uploading => q.list = list[q.s]
  /\ q.pc \in {"create", "copy"} => q.i \notin q.list
  /\ q.pc = "copy" => chunks[q.s][q.i] = r
  /\ q.pc = "save" => chunks[q.s][q.i] = "whole"
  /\ q.pc \in {"open", "merge"} => list[q.s] = Pieces(q.s) /\ q.even
  /\ q.pc = "merge" => q.linked /\ q.i \in Pieces(q.s) /\ merged[q.s] = 1..(q.i - 1)
  /\ q.pc = "hash" => merged[q.s] = Pieces(q.s)
  /\ q.pc \in {"check", "tx"} => q.md5.right = Pieces(q.s)
  /\ q.pc \in {"del", "clean"} => q.s \in recorded

DiskInv ==
  /\ Alone
  /\ \A s \in Sessions : Listed(s)
  /\ \A r \in Reqs : Knows(r, req[r])
  /\ WholeRecords

SerialInv == TypeInv /\ ReceivedInv /\ DiskInv

LEMMA IdleKnows == \A r : Knows(r, Idle)
BY IdleType DEF Knows, Uploading

\* The pieces of an open session.
LEMMA PiecesType ==
  ASSUME NEW s \in Sessions, upload[s] \in UploadInfo
  PROVE  /\ TotalChunks(upload[s].c) \in Nat
         /\ Pieces(s) \in SUBSET Numbers /\ Pieces(s) # None
<1>1. TotalChunks(upload[s].c) \in 0..MaxChunks
  BY ChunksBounded DEF UploadInfo
<1>2. Pieces(s) \in SUBSET Numbers
  BY <1>1, ChunkAssumption DEF Pieces, Numbers
<1> QED BY <1>1, <1>2, NoneApart, ChunkAssumption

\* A session that accepts a request has none.
LEMMA AcceptsAlone ==
  ASSUME Serial, NEW r, NEW s, Accept(r, s)
  PROVE  \A x \in Reqs : req[x].s # s
<1>1. IsFiniteSet(On(s))
  BY FS_Subset DEF Serial, On
<1>2. Cardinality(On(s)) = 0
  BY <1>1, FS_CardinalityType DEF Serial, Accept
<1> QED BY <1>1, <1>2, FS_EmptySet DEF On

\* A step of r changes nothing of other requests and sessions than t, but chunk
\* files that r itself was writing.
Confined(r, t) ==
  /\ \A x \in Reqs : x # r =>
       req'[x] = req[x] \/ (req[x].pc = "idle" /\ req'[x].pc = "idle")
  /\ req'[r].pc # "idle" => req'[r].s = t
  /\ \A s \in Sessions : s # t =>
       /\ list'[s] = list[s] /\ merged'[s] = merged[s]
       /\ \A i \in Numbers : chunks'[s][i] = chunks[s][i] \/ chunks[s][i] = r
  /\ UNCHANGED upload /\ recorded \subseteq recorded'

\* Such a step leaves the others what they know.
LEMMA OthersKnow ==
  ASSUME SerialInv, NEW r \in Reqs, NEW t \in Sessions,
         \A x \in Reqs : x # r /\ req[x].pc # "idle" => req[x].s # t,
         Confined(r, t)
  PROVE  /\ Alone'
         /\ \A s \in Sessions : s # t => Listed(s)'
         /\ \A x \in Reqs : x # r => Knows(x, req[x])'
<1> USE DEF SerialInv, DiskInv, Confined
<1>1. Alone'
  BY DEF Alone
<1>2. ASSUME NEW s \in Sessions, s # t PROVE Listed(s)'
  <2>1. list[s] # None => list[s] \subseteq Numbers
    BY DEF TypeInv, TypeOK
  <2>2. r # "whole" /\ r # "none"
    BY ChunkAssumption
  <2> QED BY <1>2, <2>1, <2>2 DEF Listed
<1>3. ASSUME NEW x \in Reqs, x # r PROVE Knows(x, req[x])'
  <2>1. CASE req[x].pc = "idle"
    <3>1. req'[x].pc = "idle"
      BY <1>3, <2>1
    <3> QED BY <3>1 DEF Knows, Uploading
  <2>2. CASE req[x].pc # "idle"
    <3>1. req'[x] = req[x] /\ req[x].s \in Sessions /\ req[x].s # t
      BY <1>3, <2>2, SessionOf
    <3>2. r # "whole" /\ r # x /\ Knows(x, req[x])
      BY <1>3, ChunkAssumption
    <3>3. req[x].pc \in {"copy", "save"} => req[x].i \in Numbers
      BY DEF TypeInv, ReqOK, Uploading
    <3>4. Pieces(req[x].s)' = Pieces(req[x].s)
      BY <3>1 DEF Pieces
    <3>5. req[x].pc = "copy" => chunks'[req[x].s][req[x].i] = x
      BY <3>1, <3>2, <3>3 DEF Knows
    <3>6. req[x].pc = "save" => chunks'[req[x].s][req[x].i] = "whole"
      BY <3>1, <3>2, <3>3 DEF Knows
    <3> QED BY <3>1, <3>2, <3>4, <3>5, <3>6 DEF Knows
  <2> QED BY <2>1, <2>2
<1> QED BY <1>1, <1>2, <1>3

\* What is left to show of a step of a request that works on session t.
LEMMA WorkKnows ==
  ASSUME SerialInv, NEW r \in Reqs, req[r].pc # "idle", NEW t \in Sessions, t = req[r].s,
         Confined(r, t), Listed(t)', Knows(r, req[r])',
         \A f \in files' : f \in files \/ Whole(f)'
  PROVE  DiskInv'
<1>1. \A x \in Reqs : x # r /\ req[x].pc # "idle" => req[x].s # t
  BY DEF SerialInv, DiskInv, Alone
<1>2. Alone' /\ (\A s \in Sessions : Listed(s)') /\ \A x \in Reqs : Knows(x, req[x])'
  <2>1. /\ Alone'
        /\ \A s \in Sessions : s # t => Listed(s)'
        /\ \A x \in Reqs : x # r => Knows(x, req[x])'
    BY <1>1, OthersKnow
  <2> QED BY <2>1
<1>3. WholeRecords'
  BY DEF SerialInv, DiskInv, WholeRecords, Whole, Confined, Pieces
<1> QED BY <1>2, <1>3 DEF DiskInv

\* Ending a request, with or without its merged file.
LEMMA EndKnows ==
  ASSUME SerialInv, NEW r \in Reqs, req[r].pc # "idle",
         (Done(r) /\ UNCHANGED merged) \/ EndMerged(r),
         chunks' = chunks \/ Stopped({r}),
         UNCHANGED <<upload, list, files, recorded>>
  PROVE  DiskInv'
<1> USE DEF SerialInv
<1> PICK t \in Sessions : t = req[r].s
  BY SessionOf
<1>0. /\ req \in [Reqs -> Request] /\ chunks \in [Sessions -> [Numbers -> ChunkFile]]
      /\ merged \in [Sessions -> {None} \cup SUBSET Numbers]
  BY DEF TypeInv, TypeOK
<1>1. req'[r] = Idle
  BY <1>0 DEF Done, EndMerged
<1>2. \A x \in Reqs : x # r => req'[x] = req[x] \/ (req[x].pc = "idle" /\ req'[x].pc = "idle")
  <2>1. ASSUME NEW x \in Reqs, x # r, req[x].s = t PROVE req[x].pc = "idle"
    BY <2>1 DEF DiskInv, Alone
  <2>2. \A x \in Reqs : [req[x] EXCEPT !.linked = FALSE].pc = req[x].pc
    BY <1>0 DEF Request
  <2> QED BY <1>0, <2>1, <2>2 DEF Done, EndMerged
<1>3. \A s \in Sessions : s # t => merged'[s] = merged[s]
  BY <1>0 DEF EndMerged
<1>4. \A s \in Sessions, i \in Numbers : chunks'[s][i] = chunks[s][i] \/ chunks[s][i] = r
  BY DEF Stopped
<1>5. Confined(r, t)
  BY <1>1, <1>2, <1>3, <1>4, IdleType DEF Confined
<1>6. Listed(t)'
  <2>1. list[t] # None => list[t] \subseteq Numbers
    BY <1>0 DEF TypeInv, TypeOK
  <2>2. r # "whole" /\ r # "none"
    BY ChunkAssumption
  <2> QED BY <1>0, <1>4, <2>1, <2>2 DEF DiskInv, Listed
<1>7. Knows(r, req[r])'
  BY <1>1, IdleType DEF Knows, Uploading
<1> QED BY <1>5, <1>6, <1>7, WorkKnows

\* Starting an upload or a completion.
LEMMA AcceptKnows ==
  ASSUME Serial, SerialInv, NEW r \in Reqs, NEW s \in Sessions, NEW i,
         UploadChunk(r, s, i) \/ CompleteChunkUpload(r, s)
  PROVE  DiskInv'
<1> USE DEF SerialInv
<1>1. Accept(r, s) /\ list[s] # None
  BY DEF UploadChunk, CompleteChunkUpload, Accept
<1>2. \A x \in Reqs : req[x].s # s
  BY <1>1, AcceptsAlone
<1>3. /\ UNCHANGED <<upload, list, chunks, merged, files, recorded>>
      /\ req \in [Reqs -> Request]
  BY DEF UploadChunk, CompleteChunkUpload, redis, disk, tables, history, TypeInv, TypeOK
<1>4. /\ req' = [req EXCEPT ![r] = req'[r]]
      /\ req'[r].s = s /\ req'[r].list = list[s] /\ req'[r].even = TRUE
      /\ \/ req'[r].pc = "create" /\ req'[r].i = i /\ i \notin list[s]
         \/ req'[r].pc = "open" /\ list[s] = Pieces(s)
  <2>1. CASE UploadChunk(r, s, i)
    BY <1>3, <2>1 DEF Serial, UploadChunk, Wanted, Idle
  <2>2. CASE CompleteChunkUpload(r, s)
    BY <1>3, <2>2 DEF CompleteChunkUpload, Idle
  <2> QED BY <2>1, <2>2
<1>5. Confined(r, s)
  BY <1>3, <1>4 DEF Confined
<1>6. Alone' /\ \A x \in Reqs : x # r => Knows(x, req[x])'
  BY <1>2, <1>5, OthersKnow
<1>7. \A x \in Sessions : Listed(x)'
  BY <1>3 DEF DiskInv, Listed
<1>8. Knows(r, req[r])'
  BY <1>3, <1>4 DEF Knows, Uploading, Pieces
<1>9. WholeRecords'
  BY <1>3 DEF DiskInv, WholeRecords, Whole, Pieces
<1> QED BY <1>6, <1>7, <1>8, <1>9 DEF DiskInv

\* The request that takes a step, what it knows, and the types of what it uses.
LEMMA WorkerKnows ==
  ASSUME SerialInv, NEW r \in Reqs, req[r].pc # "idle"
  PROVE  /\ req[r].s \in Sessions /\ upload[req[r].s] \in UploadInfo
         /\ req[r] \in Request /\ ReqOK(req[r]) /\ Knows(r, req[r]) /\ Listed(req[r].s)
         /\ req \in [Reqs -> Request] /\ list \in [Sessions -> {None} \cup SUBSET Numbers]
         /\ chunks \in [Sessions -> [Numbers -> ChunkFile]]
         /\ merged \in [Sessions -> {None} \cup SUBSET Numbers]
BY SessionOf DEF SerialInv, DiskInv, TypeInv, TypeOK

\* Creating, writing and listing a chunk.
LEMMA UploadKnows ==
  ASSUME SerialInv, NEW r \in Reqs, CreateChunk(r) \/ SaveChunk(r) \/ SaveList(r)
  PROVE  DiskInv'
<1> DEFINE q == req[r]
<1>0. q.pc \in Uploading /\ q.pc # "idle"
  BY DEF CreateChunk, SaveChunk, SaveList, At, Uploading
<1> PICK t \in Sessions : t = q.s
  BY <1>0, SessionOf DEF SerialInv
<1>1. /\ q \in Request /\ Knows(r, q) /\ Listed(t) /\ q.i \in Numbers /\ q.list = list[t]
      /\ req \in [Reqs -> Request] /\ list \in [Sessions -> {None} \cup SUBSET Numbers]
      /\ chunks \in [Sessions -> [Numbers -> ChunkFile]]
      /\ q.list \in SUBSET Numbers /\ r # "none"
  BY <1>0, WorkerKnows, ChunkAssumption DEF Knows, ReqOK, Request
<1>2. CASE CreateChunk(r)
  <2>1. /\ q.pc = "create" /\ UNCHANGED <<upload, list, merged, files, recorded>>
        /\ chunks' = [chunks EXCEPT ![t][q.i] = r]
        /\ req' = [req EXCEPT ![r] = [q EXCEPT !.pc = "copy"]]
    BY <1>1, <1>2 DEF CreateChunk, At, Step, redis, tables, history
  <2>2. /\ req'[r].pc = "copy" /\ req'[r].s = t /\ req'[r].i = q.i
        /\ req'[r].list = q.list
    BY <1>1, <2>1 DEF Request
  <2>3. Confined(r, t)
    BY <1>1, <2>1, <2>2 DEF Confined
  <2>4. q.i \notin list[t]
    BY <1>1, <2>1 DEF Knows
  <2>5. Listed(t)'
    BY <1>1, <2>1, <2>4 DEF Listed
  <2>6. Knows(r, req[r])'
    BY <1>1, <2>1, <2>2, <2>4 DEF Knows, Uploading
  <2> QED BY <1>0, <2>1, <2>3, <2>5, <2>6, WorkKnows
<1>3. CASE SaveChunk(r)
  <2>1. q.pc = "copy" /\ chunks[t][q.i] = r /\ q.i \notin list[t]
    BY <1>1, <1>3 DEF SaveChunk, At, Knows
  <2>2. Written(r, r) = {"whole"}
    BY DEF Written
  <2>3. /\ UNCHANGED <<upload, list, merged, files, recorded>>
        /\ chunks' = [chunks EXCEPT ![t][q.i] = "whole"]
        /\ req' = [req EXCEPT ![r] = [q EXCEPT !.pc = "save"]]
    BY <1>1, <1>3, <2>1, <2>2 DEF SaveChunk, Step, redis, tables
  <2>4. req'[r].pc = "save" /\ req'[r].s = t /\ req'[r].i = q.i /\ req'[r].list = q.list
    BY <1>1, <2>3 DEF Request
  <2>5. Confined(r, t)
    BY <1>1, <2>3, <2>4 DEF Confined
  <2>6. Listed(t)'
    BY <1>1, <2>1, <2>3 DEF Listed
  <2>7. Knows(r, req[r])'
    BY <1>1, <2>3, <2>4 DEF Knows, Uploading
  <2> QED BY <1>0, <2>3, <2>5, <2>6, <2>7, WorkKnows
<1>4. CASE SaveList(r)
  <2>1. q.pc = "save" /\ chunks[t][q.i] = "whole"
    BY <1>1, <1>4 DEF SaveList, At, Knows
  <2>2. /\ UNCHANGED <<upload, chunks, merged, files, recorded>>
        /\ list' = [list EXCEPT ![t] = q.list \cup {q.i}]
        /\ req' = [req EXCEPT ![r] = Idle]
    BY <1>1, <1>4 DEF SaveList, Done, disk, tables, history
  <2>3. req'[r].pc = "idle"
    BY <1>1, <2>2, IdleType
  <2>4. Confined(r, t)
    BY <1>1, <2>2, <2>3 DEF Confined
  <2>5. list[t] # None
    BY <1>1, NoneApart
  <2>6. Listed(t)'
    BY <1>1, <2>1, <2>2, <2>5 DEF Listed
  <2>7. Knows(r, req[r])'
    BY <2>3 DEF Knows, Uploading
  <2> QED BY <1>0, <2>2, <2>4, <2>6, <2>7, WorkKnows
<1> QED BY <1>2, <1>3, <1>4

\* Merging: the pieces before the next one are in their places.
LEMMA MergeKnows ==
  ASSUME SerialInv, NEW r \in Reqs,
         OpenMerged(r) \/ MergeChunk(r) \/ HashMerged(r) \/ CheckQuota(r)
  PROVE  DiskInv'
<1> DEFINE q == req[r]
<1>0. q.pc \in Completing /\ q.pc # "idle"
  BY DEF OpenMerged, MergeChunk, HashMerged, CheckQuota, At, Uploading, Completing, Pcs
<1> PICK t \in Sessions : t = q.s
  BY <1>0, SessionOf DEF SerialInv
<1>1. /\ q \in Request /\ Knows(r, q) /\ Listed(t)
      /\ req \in [Reqs -> Request] /\ merged \in [Sessions -> {None} \cup SUBSET Numbers]
      /\ upload[t] \in UploadInfo
  BY <1>0, WorkerKnows
<1>2. UNCHANGED <<upload, list, chunks, files, recorded>>
  BY DEF OpenMerged, MergeChunk, HashMerged, CheckQuota, redis, disk, tables, history
<1>3. TotalChunks(upload[t].c) \in Nat /\ Pieces(t) \in SUBSET Numbers /\ Pieces(t) # None
  BY <1>1, PiecesType
<1>4. Listed(t)' /\ Pieces(t)' = Pieces(t)
  BY <1>1, <1>2 DEF Listed, Pieces
\* A step that goes on, given its new local variables.
<1>5. ASSUME NEW n \in Request, n.s = t, req' = [req EXCEPT ![r] = n], n.pc \in Completing,
             \A s \in Sessions : s # t => merged'[s] = merged[s],
             Knows(r, n)'
      PROVE  DiskInv'
  <2>1. req'[r] = n
    BY <1>1, <1>5
  <2>2. Confined(r, t)
    BY <1>1, <1>2, <1>5, <2>1 DEF Confined
  <2>3. Knows(r, req[r])'
    BY <1>5, <2>1 DEF Knows, Pieces
  <2> QED BY <1>0, <1>2, <1>4, <2>2, <2>3, WorkKnows
\* What a step that has merged the pieces before i must know.
<1>6. ASSUME NEW n \in Request, NEW i \in Nat, n.s = t, n.i = i + 1, n.pc = MergePc(t, i),
             n.even, n.linked, merged'[t] = 1..i, list[t] = Pieces(t),
             i <= TotalChunks(upload[t].c)
      PROVE  Knows(r, n)' /\ n.pc \in Completing
  <2>1. CASE i < TotalChunks(upload[t].c)
    <3>1. n.pc = "merge" /\ n.i \in Pieces(t) /\ 1..i = 1..(n.i - 1)
      BY <1>3, <1>6, <2>1 DEF MergePc, Pieces
    <3> QED BY <1>2, <1>4, <1>6, <3>1 DEF Knows, Uploading, Completing, Pcs
  <2>2. CASE ~(i < TotalChunks(upload[t].c))
    <3>1. n.pc = "hash" /\ 1..i = Pieces(t)
      BY <1>3, <1>6, <2>2 DEF MergePc, Pieces
    <3> QED BY <1>2, <1>4, <1>6, <3>1 DEF Knows, Uploading, Completing, Pcs
  <2> QED BY <2>1, <2>2
<1>7. CASE OpenMerged(r)
  <2>1. q.pc = "open" /\ q.even = TRUE /\ list[t] = Pieces(t)
    BY <1>1, <1>7 DEF OpenMerged, At, Knows, Request
  <2>2. MergePc(t, 0) \in Pcs
    BY DEF MergePc, Pcs
  <2>3. [q EXCEPT !.linked = TRUE, !.i = 1, !.pc = MergePc(t, 0)] \in Request
    BY <1>1, <2>2 DEF Request
  <2> PICK n \in Request : n = [q EXCEPT !.linked = TRUE, !.i = 1, !.pc = MergePc(t, 0)]
    BY <2>3
  <2>4. n.s = t /\ n.i = 0 + 1 /\ n.pc = MergePc(t, 0) /\ n.even = TRUE /\ n.linked = TRUE
    BY <1>1, <2>1 DEF Request
  <2>5. req' = [req EXCEPT ![r] = n] /\ merged' = [merged EXCEPT ![t] = {}]
    BY <1>1, <1>7 DEF OpenMerged
  <2>6. merged'[t] = 1..0
    BY <1>1, <2>5
  <2>7. Knows(r, n)' /\ n.pc \in Completing
    <3>1. 0 \in Nat /\ 0 <= TotalChunks(upload[t].c)
      BY <1>3
    <3> PICK i \in Nat : i = 0
      OBVIOUS
    <3> QED BY <1>6, <2>1, <2>4, <2>6, <3>1
  <2> QED BY <1>1, <1>5, <2>4, <2>5, <2>7
<1>8. CASE MergeChunk(r)
  <2>1. /\ q.pc = "merge" /\ q.linked /\ q.even /\ q.i \in Pieces(t) /\ list[t] = Pieces(t)
        /\ merged[t] = 1..(q.i - 1)
    BY <1>1, <1>8 DEF MergeChunk, At, Knows
  <2>2. CASE chunks[t][q.i] = "none"
    <3>1. Done(r) /\ UNCHANGED merged
      BY <1>8, <2>2 DEF MergeChunk
    <3> QED BY <1>0, <1>2, <3>1, EndKnows
  <2>3. CASE chunks[t][q.i] # "none"
    <3>1. chunks[t][q.i] = "whole"
      BY <1>1, <1>3, <2>1, <2>3 DEF Listed
    <3>2. merged[t] # None /\ q.i \in Nat /\ q.i <= TotalChunks(upload[t].c)
          /\ (1..(q.i - 1)) \cup {q.i} = 1..q.i
      <4>1. q.i \in 1..TotalChunks(upload[t].c)
        BY <2>1 DEF Pieces
      <4>2. q.i \in Nat /\ q.i <= TotalChunks(upload[t].c) /\ q.i >= 1
        BY <1>3, <4>1
      <4>3. 1..(q.i - 1) \in SUBSET Numbers
        BY <1>3, <4>2 DEF Pieces
      <4> QED BY <2>1, <4>2, <4>3, NoneApart
    <3>3. (q.even /\ chunks[t][q.i] = "whole") = TRUE
      BY <2>1, <3>1
    <3>4. [q EXCEPT !.i = @ + 1, !.even = TRUE, !.pc = MergePc(t, q.i)] \in Request
      <4>1. MergePc(t, q.i) \in Pcs /\ q.i + 1 \in Nat
        BY <3>2 DEF MergePc, Pcs
      <4> QED BY <1>1, <4>1 DEF Request
    <3> PICK n \in Request :
               n = [q EXCEPT !.i = @ + 1, !.even = TRUE, !.pc = MergePc(t, q.i)]
      BY <3>4
    <3>5. req' = [req EXCEPT ![r] = n]
      BY <1>1, <1>8, <2>3, <3>3 DEF MergeChunk
    <3>6. merged' = [merged EXCEPT ![t] = 1..q.i]
      BY <1>1, <1>8, <2>1, <2>3, <3>2, <3>3 DEF MergeChunk
    <3>7. n.s = t /\ n.i = q.i + 1 /\ n.pc = MergePc(t, q.i) /\ n.even = TRUE
          /\ n.linked = TRUE
      BY <1>1, <2>1 DEF Request
    <3>8. merged'[t] = 1..q.i
      BY <1>1, <3>6
    <3>9. Knows(r, n)' /\ n.pc \in Completing
      BY <1>6, <2>1, <3>2, <3>7, <3>8
    <3> QED BY <1>1, <1>5, <3>5, <3>6, <3>7, <3>9
  <2> QED BY <2>2, <2>3
<1>9. CASE HashMerged(r)
  <2> DEFINE d == [c |-> upload[t].c, right |-> merged[t]]
  <2>1. q.pc = "hash" /\ merged[t] = Pieces(t) /\ UNCHANGED merged
    BY <1>1, <1>9 DEF HashMerged, At, Knows, disk
  <2>2. d \in Digest /\ d.right = Pieces(t)
    BY <1>1, <1>3, <2>1 DEF Digest, UploadInfo
  <2>3. req' = [req EXCEPT ![r] = [q EXCEPT !.pc = "check", !.md5 = d]]
    BY <1>1, <1>3, <1>9, <2>1 DEF HashMerged
  <2> HIDE DEF d
  <2>4. [q EXCEPT !.pc = "check", !.md5 = d] \in Request
    BY <1>1, <2>2 DEF Request, Pcs
  <2> PICK n \in Request : n = [q EXCEPT !.pc = "check", !.md5 = d]
    BY <2>4
  <2>5. n.s = t /\ n.pc = "check" /\ n.md5 = d
    BY <1>1 DEF Request
  <2>6. Knows(r, n)' /\ n.pc \in Completing
    BY <1>4, <2>2, <2>5 DEF Knows, Uploading, Completing, Pcs
  <2> QED BY <1>5, <2>1, <2>3, <2>5, <2>6
<1>10. CASE CheckQuota(r)
  <2>1. q.pc = "check" /\ q.md5.right = Pieces(t)
    BY <1>1, <1>10 DEF CheckQuota, At, Knows
  <2>2. CASE EndMerged(r)
    BY <1>0, <1>2, <2>2, EndKnows
  <2>3. CASE ~EndMerged(r)
    <3>1. req' \in [Reqs -> Request] /\ UNCHANGED merged
      BY <1>10, <2>3, RecordType DEF CheckQuota, SerialInv, TypeInv, TypeOK
    <3>2. /\ req' = [req EXCEPT ![r] = req'[r]] /\ req'[r].pc = "tx"
          /\ req'[r].s = t /\ req'[r].md5 = q.md5
      BY <1>1, <1>10, <2>3 DEF CheckQuota, Request
    <3> PICK n \in Request : n = req'[r]
      BY <3>1
    <3>3. Knows(r, n)' /\ n.pc \in Completing
      BY <1>4, <2>1, <3>2 DEF Knows, Uploading, Completing, Pcs
    <3> QED BY <1>5, <3>1, <3>2, <3>3
  <2> QED BY <2>2, <2>3
<1> QED BY <1>7, <1>8, <1>9, <1>10

\* Recording, and tidying up after it.
LEMMA RecordKnows ==
  ASSUME SerialInv, NEW r \in Reqs,
         \/ CreateFileRecord(r) \/ CleanupChunkInfo(r) \/ CleanupLocalChunkFiles(r)
         \/ SaveFileInfo(r) \/ RemoveMerged(r) \/ Skip(r)
  PROVE  DiskInv'
<1> DEFINE q == req[r]
<1>0. q.pc \in {"tx", "del", "clean", "info", "remove"} /\ q.pc # "idle"
  BY DEF CreateFileRecord, CleanupChunkInfo, CleanupLocalChunkFiles, SaveFileInfo,
         RemoveMerged, Skip, At
<1> PICK t \in Sessions : t = q.s
  BY <1>0, SessionOf DEF SerialInv
<1>1. /\ q \in Request /\ Knows(r, q) /\ Listed(t)
      /\ req \in [Reqs -> Request] /\ list \in [Sessions -> {None} \cup SUBSET Numbers]
      /\ chunks \in [Sessions -> [Numbers -> ChunkFile]]
  BY <1>0, WorkerKnows
\* A step that goes on to pc.
<1>2. ASSUME NEW pc \in {"clean", "info", "remove"}, Step(r, pc), pc = "clean" => t \in recorded,
             UNCHANGED <<upload, merged, files, recorded>>,
             \A s \in Sessions : s # t => list'[s] = list[s] /\ chunks'[s] = chunks[s],
             Listed(t)'
      PROVE  DiskInv'
  <2>1. /\ req' = [req EXCEPT ![r] = [q EXCEPT !.pc = pc]]
        /\ req'[r].pc = pc /\ req'[r].s = t
    BY <1>1, <1>2 DEF Step, Request
  <2>2. Confined(r, t)
    BY <1>2, <2>1 DEF Confined
  <2>3. Knows(r, req[r])'
    BY <1>2, <2>1 DEF Knows, Uploading
  <2> QED BY <1>0, <1>2, <2>2, <2>3, WorkKnows
<1>3. CASE CreateFileRecord(r)
  <2>1. /\ q.pc = "tx" /\ q.md5.right = Pieces(t)
        /\ UNCHANGED <<upload, list, chunks>>
    BY <1>1, <1>3 DEF CreateFileRecord, At, Knows, redis
  <2>2. CASE Taken(q.md5)
    <3>1. EndMerged(r) /\ UNCHANGED <<files, recorded>>
      BY <1>3, <2>2 DEF CreateFileRecord, tables
    <3> QED BY <1>0, <2>1, <3>1, EndKnows
  <2>3. CASE ~Taken(q.md5)
    <3>1. Record(r)
      BY <1>3, <2>3 DEF CreateFileRecord
    <3>2. /\ req'[r].pc = "del" /\ req'[r].s = t /\ recorded' = recorded \cup {t}
          /\ \A x \in Reqs : x # r => req'[x] = req[x]
          /\ UNCHANGED merged
      BY <1>1, <3>1 DEF Record, Request
    <3>3. Confined(r, t)
      BY <2>1, <3>2 DEF Confined
    <3>4. Listed(t)'
      BY <1>1, <2>1, <3>2 DEF Listed
    <3>5. Knows(r, req[r])'
      BY <3>2 DEF Knows, Uploading
    <3>6. ASSUME NEW f \in files', f \notin files PROVE Whole(f)'
      <4>1. f.s = t /\ f.md5 = q.md5
        BY <3>1, <3>6 DEF Record
      <4> QED BY <2>1, <4>1 DEF Whole, Pieces
    <3> QED BY <1>0, <3>3, <3>4, <3>5, <3>6, WorkKnows
  <2> QED BY <2>2, <2>3
<1>4. CASE CleanupChunkInfo(r)
  <2>1. /\ q.pc = "del" /\ Step(r, "clean") /\ list' = [list EXCEPT ![t] = None]
        /\ UNCHANGED <<upload, chunks, merged, files, recorded>>
    BY <1>4 DEF CleanupChunkInfo, At, disk, tables, history
  <2>2. t \in recorded
    BY <1>1, <2>1 DEF Knows
  <2>3. Listed(t)'
    BY <1>1, <2>1 DEF Listed
  <2> QED BY <1>1, <1>2, <2>1, <2>2, <2>3
<1>5. CASE CleanupLocalChunkFiles(r)
  <2>1. /\ q.pc = "clean" /\ Step(r, "info")
        /\ chunks' = [chunks EXCEPT ![t] = [i \in Numbers |-> "none"]]
        /\ UNCHANGED <<upload, list, merged, files, recorded>>
    BY <1>5 DEF CleanupLocalChunkFiles, At, redis, tables, history
  <2>2. t \in recorded
    BY <1>1, <2>1 DEF Knows
  <2>3. Listed(t)'
    BY <1>1, <2>1, <2>2 DEF Listed
  <2> QED BY <1>1, <1>2, <2>1, <2>3
<1>6. ASSUME UNCHANGED <<upload, list, chunks, merged, files, recorded>>,
             NEW pc \in {"clean", "info", "remove"}, Step(r, pc),
             pc = "clean" => q.pc = "del"
      PROVE  DiskInv'
  <2>1. Listed(t)'
    BY <1>1, <1>6 DEF Listed
  <2>2. pc = "clean" => t \in recorded
    BY <1>1, <1>6 DEF Knows
  <2> QED BY <1>2, <1>6, <2>1, <2>2
<1>7. CASE SaveFileInfo(r)
  BY <1>6, <1>7 DEF SaveFileInfo, disk, tables, history
<1>8. CASE Skip(r)
  <2>1. UNCHANGED <<upload, list, chunks, merged, files, recorded>>
    BY <1>8 DEF Skip, redis, disk, tables, history
  <2> QED BY <1>6, <1>8, <2>1 DEF Skip, At
<1>9. CASE RemoveMerged(r)
  <2>1. EndMerged(r) /\ UNCHANGED <<upload, list, chunks, files, recorded>>
    BY <1>9 DEF RemoveMerged, redis, tables, history
  <2> QED BY <1>0, <2>1, EndKnows
<1> QED BY <1>3, <1>4, <1>5, <1>7, <1>8, <1>9

\* Opening a session changes nothing of those that are open.
LEMMA OpenKnows ==
  ASSUME SerialInv, NEW s \in Sessions, NEW u \in Users, NEW c \in Contents,
         InitChunkUpload(s, u, c)
  PROVE  DiskInv'
<1> USE DEF SerialInv
<1>1. /\ upload[s] = None /\ UNCHANGED <<chunks, merged, files, req, recorded>>
      /\ list'[s] = {}
      /\ \A x \in Sessions : x # s => upload'[x] = upload[x] /\ list'[x] = list[x]
  BY DEF InitChunkUpload, disk, tables, TypeInv, TypeOK
<1>2. Alone'
  BY <1>1 DEF DiskInv, Alone
<1>3. \A x \in Sessions : Listed(x)'
  BY <1>1 DEF DiskInv, Listed
<1>4. ASSUME NEW r \in Reqs PROVE Knows(r, req[r])'
  <2>1. CASE req[r].pc = "idle"
    BY <1>1, <2>1 DEF Knows, Uploading
  <2>2. CASE req[r].pc # "idle"
    <3>1. req[r].s \in Sessions /\ req[r].s # s
      BY <1>1, <2>2, SessionOf, NoneApart
    <3>2. Pieces(req[r].s)' = Pieces(req[r].s)
      BY <1>1, <3>1 DEF Pieces
    <3>3. Knows(r, req[r])
      BY DEF DiskInv
    <3> QED BY <1>1, <3>1, <3>2, <3>3 DEF Knows
  <2> QED BY <2>1, <2>2
<1>5. WholeRecords'
  <2>1. \A f \in files : f.s \in Sessions /\ f.s # s
    BY <1>1 DEF ReceivedInv, TypeInv, TypeOK, FileRow
  <2> QED BY <1>1, <2>1 DEF DiskInv, WholeRecords, Whole, Pieces
<1> QED BY <1>2, <1>3, <1>4, <1>5 DEF DiskInv

\* Failures, expiries, deletes and the goroutines.
LEMMA OtherKnows ==
  ASSUME SerialInv
  PROVE  /\ \A r \in Reqs : Fail(r) => DiskInv'
         /\ \A j \in jobs : Store(j) \/ FailJob(j) => DiskInv'
         /\ \A s \in Sessions : Expire(s) => DiskInv'
         /\ \A f \in files : DeleteFile(f) => DiskInv'
         /\ \A p \in paths : ExpirePath(p) => DiskInv'
         /\ Crash => DiskInv'
         /\ UNCHANGED vars => DiskInv'
<1> USE DEF SerialInv
<1>1. ASSUME UNCHANGED <<upload, list, chunks, merged, req, recorded>>, files' \subseteq files
      PROVE  DiskInv'
  BY <1>1 DEF DiskInv, Alone, Listed, Knows, WholeRecords, Whole, Pieces
<1>2. ASSUME NEW r \in Reqs, Fail(r) PROVE DiskInv'
  <2>1. req[r].pc # "idle"
    BY <1>2 DEF Fail, Uploading
  <2> QED BY <1>2, <2>1, EndKnows DEF Fail, redis, tables, history
<1>3. ASSUME NEW j \in jobs, Store(j) \/ FailJob(j) PROVE DiskInv'
  BY <1>1, <1>3
     DEF Store, FailJob, CopyMerged, UploadSimpleFile, history, redis, disk, tables
<1>4. ASSUME NEW s \in Sessions, Expire(s) PROVE DiskInv'
  <2>1. /\ UNCHANGED <<upload, chunks, merged, req, recorded, files>>
        /\ list' = [list EXCEPT ![s] = None] /\ list \in [Sessions -> {None} \cup SUBSET Numbers]
        /\ \A r \in Reqs : req[r].s # s
    BY <1>4 DEF Expire, disk, tables, history, TypeInv, TypeOK, On
  <2>2. \A x \in Sessions : Listed(x)'
    BY <2>1 DEF DiskInv, Listed
  <2>3. ASSUME NEW r \in Reqs PROVE Knows(r, req[r])'
    <3>1. CASE req[r].pc = "idle"
      BY <2>1, <3>1 DEF Knows, Uploading
    <3>2. CASE req[r].pc # "idle"
      <4>1. req[r].s \in Sessions /\ list'[req[r].s] = list[req[r].s]
        BY <2>1, <3>2, SessionOf
      <4>2. Knows(r, req[r])
        BY DEF DiskInv
      <4> QED BY <2>1, <4>1, <4>2 DEF Knows, Pieces
    <3> QED BY <3>1, <3>2
  <2>4. Alone' /\ WholeRecords'
    BY <2>1 DEF DiskInv, Alone, WholeRecords, Whole, Pieces
  <2> QED BY <2>2, <2>3, <2>4 DEF DiskInv
<1>5. ASSUME NEW f \in files, DeleteFile(f) PROVE DiskInv'
  BY <1>1, <1>5 DEF DeleteFile, history, redis, disk
<1>6. ASSUME NEW p \in paths, ExpirePath(p) PROVE DiskInv'
  BY <1>1, <1>6 DEF ExpirePath, history, disk, tables
<1>7. ASSUME Crash PROVE DiskInv'
  <2>1. UNCHANGED <<upload, list, files, recorded>> /\ \A r \in Reqs : req'[r] = Idle
    BY <1>7 DEF Crash, history, redis, tables
  <2>2. \A s \in Sessions, i \in Numbers :
          chunks[s][i] \in {"whole", "none"} => chunks'[s][i] = chunks[s][i]
    BY <1>7, ChunkAssumption DEF Crash, Stopped
  <2>3. ASSUME NEW s \in Sessions PROVE Listed(s)'
    <3>1. list[s] # None => list[s] \subseteq Numbers
      BY DEF TypeInv, TypeOK
    <3> QED BY <2>1, <2>2, <3>1 DEF DiskInv, Listed
  <2>4. \A r \in Reqs : req'[r].pc = "idle"
    BY <2>1, IdleType
  <2>5. Alone' /\ (\A r \in Reqs : Knows(r, req[r])') /\ WholeRecords'
    BY <2>1, <2>4 DEF DiskInv, Alone, Knows, Uploading, WholeRecords, Whole, Pieces
  <2> QED BY <2>3, <2>5 DEF DiskInv
<1>8. ASSUME UNCHANGED vars PROVE DiskInv'
  BY <1>1, <1>8 DEF vars
<1> QED BY <1>2, <1>3, <1>4, <1>5, <1>6, <1>7, <1>8

LEMMA SerialNext ==
  ASSUME Serial, SerialInv, [Next]_vars
  PROVE  SerialInv'
<1>1. TypeInv' /\ ReceivedInv'
  BY NextType, NextReceived DEF SerialInv
<1>2. ASSUME NEW r \in Reqs, Proceed(r) PROVE DiskInv'
  BY <1>2, UploadKnows, MergeKnows, RecordKnows DEF Proceed
<1>3. DiskInv'
  BY <1>2, OpenKnows, AcceptKnows, RecordKnows, OtherKnows DEF Next
<1> QED BY <1>1, <1>3 DEF SerialInv

LEMMA SerialInit == Init => SerialInv
<1> SUFFICES ASSUME Init PROVE DiskInv
  BY InitType, InitReceived DEF SerialInv
<1> QED BY IdleType, IdleKnows DEF Init, DiskInv, Alone, Listed, WholeRecords

\* With one request at a time on a session, what a session lists lies whole on
\* the disk until its file is recorded, wherever requests fail or the process
\* dies.
THEOREM ListedKept == ASSUME Serial PROVE Spec => []ListedOnDisk
<1>1. SerialInv => ListedOnDisk
  BY DEF SerialInv, DiskInv, Listed, ListedOnDisk
<1>2. SerialInv /\ [Next]_vars => SerialInv'
  BY SerialNext
<1> QED BY <1>1, <1>2, SerialInit, PTL DEF Spec

\* And a file is recorded under the md5 of what was sent.
THEOREM WholeAlways == ASSUME Serial PROVE Spec => []WholeRecords
<1>1. SerialInv => WholeRecords
  BY DEF SerialInv, DiskInv
<1>2. SerialInv /\ [Next]_vars => SerialInv'
  BY SerialNext
<1> QED BY <1>1, <1>2, SerialInit, PTL DEF Spec
=============================================================================
