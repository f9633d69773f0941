------------------------------ MODULE ChunkProps ------------------------------
(***************************************************************************)
(* What uploading in chunks promises, and one promise it does not keep.     *)
(***************************************************************************)
EXTENDS ChunkUpload

Whole(f) == f.md5.right = Pieces(f.s)

\* Whatever requests and failures come between: a chunk is listed only once it
\* was received in full, and a file is recorded only when every chunk was.
ListedReceived ==
  /\ \A s \in Sessions : list[s] # None => list[s] \subseteq received[s]
  /\ \A f \in files : received[f.s] = Pieces(f.s)

\* With one request at a time on a session, and clients that send no listed
\* chunk again: between requests every listed chunk lies whole on the disk,
\* also after failures and restarts, until the session's file is recorded.
ListedOnDisk ==
  \A s \in Sessions :
    list[s] # None /\ On(s) = {} /\ s \notin recorded
      => \A i \in list[s] : chunks[s][i] = "whole"

\* A recorded file's md5 is that of the bytes the client sent, in their order.
WholeRecords == \A f \in files : Whole(f)

\* A user is charged only together with a new file, also when a session is
\* completed again after a crash or an error left it in Redis.
ChargedOnce ==
  [][\A u \in Users : stores'[u] > stores[u] =>
       \E f \in files' \ files : f.user = u]_vars

\* A client that sends again what is not listed gets its file recorded,
\* although parallel uploads overwrite each other's lists.
UploadsFinish ==
  \A s \in Sessions : list[s] # None ~> s \in recorded \/ list[s] = None

-----------------------------------------------------------------------------
(* A claim the repository makes that the code does not keep. *)

\* "Check that the chunks are complete" (complete_service.go:45): what is
\* merged after that check is the file the client sent.
MergedIsComplete == WholeRecords
=============================================================================
