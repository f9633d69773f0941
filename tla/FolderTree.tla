------------------------------ MODULE FolderTree ------------------------------
(***************************************************************************)
(* The folder hierarchy of a user (table file_folders) and the two walks   *)
(* the services make on it: up the chain of parents, to add a size to or   *)
(* subtract it from every folder on the way (model/file_folder.go), and    *)
(* down level by level, to delete a folder with everything below it.       *)
(*                                                                         *)
(* A view v maps every folder id to its row, or to None when there is no   *)
(* row.  Writes is a view too: None there means "not written".             *)
(***************************************************************************)
EXTENDS Integers, FiniteSets

CONSTANTS Folders,  \* the ids a folder row can have
          Users,    \* the owners
          Top,      \* the ParentFolderID "root" of a user's base folder
          None      \* no row, no id

ASSUME FoldersAssumption ==
  /\ IsFiniteSet(Folders)
  /\ Top \notin Folders
  /\ None \notin Folders
  /\ None \notin [parent : Folders \cup {Top}, owner : Users, size : Nat]

FolderRow == [parent : Folders \cup {Top}, owner : Users, size : Nat]

View == [Folders -> FolderRow \cup {None}]

\* No hierarchy is deeper than the number of folders.
Depth == Cardinality(Folders)

NoWrites == [g \in Folders |-> None]

\* What a transaction that wrote w reads when its snapshot is v.
Overlay(v, w) == [g \in Folders |-> IF w[g] = None THEN v[g] ELSE w[g]]

-----------------------------------------------------------------------------
(* Up: the folder a walk is at after n reads, Top once it has left the tree. *)

Climb(v, f) ==
  LET at[n \in 0..Depth] ==
        IF n = 0 THEN f
        ELSE LET g == at[n - 1]
             IN  IF g \in Folders /\ v[g] # None THEN v[g].parent ELSE Top
  IN  at

\* The folders the first k statements of a walk from f save.
Chain(v, f, k) ==
  LET at == Climb(v, f)
  IN  {g \in Folders : v[g] # None /\ \E n \in 0..(k - 1) : at[n] = g}

\* Depth + 1 folders in a row: one occurs twice and the loop never ends.
Spins(v, f) ==
  LET last == Climb(v, f)[Depth]
  IN  last \in Folders /\ v[last] # None

SubSize(row, s) ==
  [row EXCEPT !.size = IF row.size >= s THEN row.size - s ELSE 0]

\* Deviation: only the folder itself grows.
AddOwnSizeOnly(v, f, row, s, k) ==
  IF row = None THEN NoWrites
  ELSE [NoWrites EXCEPT ![f] = [row EXCEPT !.size = @ + s]]

\* The walks save the caller's copy of folder f first, whatever the table
\* holds by now, and then every folder above it as the transaction sees it.
\* A folder the caller did not find is a zero struct: saving it inserts a row
\* that belongs to nobody and that no request ever names.
AddFileFolderSize(v, f, row, s, k) ==
  IF row = None THEN NoWrites
  ELSE LET seen == [v EXCEPT ![f] = row]
       IN  [g \in Folders |-> IF g \in Chain(seen, f, k)
                              THEN [seen[g] EXCEPT !.size = @ + s]
                              ELSE None]

SubFileFolderSize(v, f, row, s, k) ==
  IF row = None THEN NoWrites
  ELSE LET seen == [v EXCEPT ![f] = row]
       IN  [g \in Folders |-> IF g \in Chain(seen, f, k)
                              THEN SubSize(seen[g], s)
                              ELSE None]

\* Deviation: a walk that comes round again stops.
WalkStops(v, f, row, k) == FALSE

\* A walk that comes round again, unless a failing statement cuts it short.
WalkSpins(v, f, row, k) == k = Depth /\ row # None /\ Spins([v EXCEPT ![f] = row], f)

\* Deviation: the target's chain first, then the copy of the old parent.
TransferAddFirst(v, from, src, to, dst, s, k) ==
  LET add == AddFileFolderSize(v, to, dst, s, Depth)
  IN  Overlay(add, SubFileFolderSize(Overlay(v, add), from, src, s, k))

\* Moving size s: subtract it along the old parent's chain, then add it to the
\* copy of the target that was read before, and along the target's chain.
Transfer(v, from, src, to, dst, s, k) ==
  LET sub == SubFileFolderSize(v, from, src, s, Depth)
  IN  Overlay(sub, AddFileFolderSize(Overlay(v, sub), to, dst, s, k))

TransferSpins(v, from, src, to, dst, s, k) ==
  \/ WalkSpins(v, from, src, Depth)
  \/ WalkSpins(Overlay(v, SubFileFolderSize(v, from, src, s, Depth)), to, dst, k)

-----------------------------------------------------------------------------
(* Down: the folders the first n rounds of DeleteFileFolder delete.          *)

\* Deviation: what lies in subfolders stays.
DoomedFolderOnly(v, f, n) == IF n = 0 THEN {} ELSE {f}

Doomed(v, f, n) ==
  LET gone[i \in 0..n] ==
        IF i = 0 THEN {}
        ELSE IF i = 1 THEN {f}
        ELSE gone[i - 1] \cup
             {g \in Folders : v[g] # None /\ v[g].parent \in gone[i - 1]}
  IN  {g \in Folders : g \in gone[n]}

-----------------------------------------------------------------------------
(* Reference notions, for the properties.                                    *)

Inside(v, x, g) == g \in Chain(v, x, Depth)

Acyclic(v) == \A g \in Folders : v[g] # None => ~Spins(v, g)
=============================================================================
