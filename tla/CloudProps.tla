------------------------------ MODULE CloudProps ------------------------------
(***************************************************************************)
(* What can be relied on of the objects behind files and cached paths.      *)
(***************************************************************************)
EXTENDS CloudFiles

\* Where a file or a cached path says its object is.
Referenced == paths \cup files

\* An object holds the bytes its md5 was taken of, although the local file is
\* read once for the md5 and later, by a goroutine of a chunk upload, or after
\* a look-up in Redis and cloud storage, once more for the copy.  Excepted are
\* places put by an upload whose local file another upload or completion used
\* as well, or whose md5 was taken of half the file.
NamedByContent == \A o \in objects : o.data = o.key.at.md5.data \/ o.key.at \in doubtful

\* Whatever is skipped because a path was cached, and whoever's path it is: a
\* download of a file finds its object, and so will that of a file recorded
\* from a cached path.  Excepted are names without an extension, and places that
\* a chunk upload was the first to record, and has not copied, or copied under
\* .png, which is not their extension: a simple upload that hits such a cached
\* path skips its copy and is not found either.
DownloadsFound ==
  \A p \in Referenced : \/ Exists(DownloadKey(p))
                         \/ p.md5.ext = NoExt
                         \/ p \in adrift

\* An object is never deleted, and never replaced by other bytes although look-up
\* and put are two calls: other files and caches may name it.  The bytes at a
\* doubtful place may change with every put.
ObjectsStay == [][\A o \in objects \ objects' : o.key.at \in doubtful']_vars
=============================================================================
