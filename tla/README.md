# go-cloud-disk: specification and verification

TLA+ models of the cloud disk server in `src/` (Go, gin, gorm on MySQL, Redis,
RabbitMQ, Tencent COS), TLC configurations that check them on small instances,
and proofs checked by TLAPS. Paths such as `service/file/...` are below `src/`;
`PROJECT.json` gives the source lines of every definition, the hazards with the
properties that cover them, and for every property a mutation of the code's
model that breaks it.

## The system and its parts

A server process answers HTTP requests, each in a goroutine of its own. There is
no lock in the program: whatever requests share they share through MySQL,
Redis, RabbitMQ and the server's disk, one call at a time.

| Part | State it keeps | Operations | Hard because |
|---|---|---|---|
| Storage accounting (`service/file`, `service/filefolder`, parts of `service/share`, `service/admin`) | tables files, file_folders, file_stores | upload, delete and move a file; create, move and delete a folder; save a shared file; set a volume; administrator's delete | whole rows are read, changed and saved; some writes bypass the transaction; sizes are kept redundantly on every folder of a chain and on the store |
| Chunk upload (`service/file/chunk`) | session hash in Redis, chunk and merged files on disk, tables files and file_stores, cached paths, cloud objects | start, send a chunk, ask, complete; the goroutine that copies to the cloud | chunks are sent in parallel and the list of chunks is read before and saved after; crashes leave any part behind |
| Share cache and ranking (`model/share.go`, `service/share`, `task/rank.go`) | table shares; in Redis the hash of a share, the set of shares that are gone, view counters, the board of the day | create, view, delete (owner, administrator), nightly reset | cache filled by readers while deletes run; pipelines are not transactions; no key but the board is ever dropped |
| Automatic tags (`service/tag`, `rabbitMQ`) | auto-tag-queue, tables tags and file_tags | request; consume one message: find, download, recognise, save, acknowledge | redelivery, requeueing at the head, transactions that wait for each other's unique names |
| Accounts and authorization (`service/user`, `service/admin`, `auth`, `middleware`) | codes and marks in Redis, send-email-queue, tables users, file_stores and file_folders, tokens | mail a code, register, log in, change the nickname, change a status; casbin's policies | checks before inserts with no key behind them; tokens carry an old status; whole rows saved |
| Files in cloud storage (`api/file.go`, `service/file/file_upload_service.go`, `disk/tencent.go`, `model/file.go`) | temporary files, objects, cached paths, table files | upload through a temporary file; copy of a merged file; look up, record, cache; the key of a download | a file is read twice; cached paths outlive their files; three places build an object's key |
| Pool of database connections (`model/init.go`) | connections in use | take, give back | some transactions take a second connection in the middle; waiting has no timeout |
| Recycle bin, file clean queue, direct upload | tables recycle_bins, files | move to and from the bin; clean; record | not reachable in this state of the code, see *Not modelled* |
| Listings, HTTP layer, start-up | none of their own | read, sign, bind, dispatch | - |

How they interact: uploads and chunk uploads write the same tables, the same path
cache and the same cloud storage; every request of storage accounting draws on the
pool of connections; shares point at files and are looked at through the cache; a
file's deletion reaches shares and tags only when they look for the row; a
registration makes the store and the folder that storage accounting works on; the
status in a token decides which of these requests is let through.

What makes each part correct:

* storage: the store's charge and each folder's size are those of the files that
  are there; charges stay within the volume; accounts touch each other no further
  than through folders they were let put something into; deleted rows stay
  deleted; requests end;
* chunks: what is recorded is what was sent, once, and is charged once; a client
  that keeps sending gets its file;
* shares: only lost shares are marked as lost, deleted shares leave the cache,
  counters agree;
* cloud: an object holds what its name says, stays, and a download finds it;
* pool: only nested statements can drain it;
* tags: all labels of a file or none, none twice, every request served;
* accounts: users are complete, addresses unique, administrators appointed.

Where the code does not reach that, the property below states what it does
reach, and *What the models show about the code* says what is missing.

## The models

| Module | Contents |
|---|---|
| `FolderTree` | folder rows and the walks over parents: sizes added and subtracted along a chain, subtree of a delete, cycles |
| `Storage` | every storage request as a sequence of statements, row locks, snapshots, failures; extends `FolderTree` |
| `Ledger` | abstract specification: a user holds contents, is charged for them, within a limit |
| `StorageProps`, `StorageProofs`, `AccountingProofs`, `MCStorage` | properties with the refinement of `Ledger`; proofs about any number of requests per account and the pool; proofs about one request at a time on an account; instances |
| `ChunkUpload`, `ChunkProps`, `ChunkProofs`, `MCChunk` | chunk upload |
| `CloudFiles`, `CloudProps`, `CloudProofs`, `MCCloud` | temporary and merged files, goroutines that copy, objects, path cache, keys, for simple and chunk uploads |
| `ConnPool`, `PoolProofs` | abstract specification: clients of a pool of connections, and what can drain it |
| `StoragePool`, `MCStoragePool` | `Storage` composed with a pool; refines both (proved in `StorageProofs`) |
| `ShareCache`, `ShareProps`, `ShareProofs`, `MCShare` | shares and the board |
| `Tagging`, `TaggingProps`, `TaggingProofs`, `MCTagging` | automatic tags |
| `Accounts`, `AccountProps`, `AccountProofs`, `MCAccounts` | accounts, mail consumer, tokens and policies |

In all of them a request is a slot (`req[r]`, or `con[c]` for a consumer) with a
program counter and the handler's local variables. A step is what runs between
two calls that others can come between; a handler's early returns are the
branches of its steps. Definitions marked *Deviation* are mutations kept beside
the definition they mutate and used by no specification.

**Storage.** Autocommit reads and writes are a step each. A transaction is the
step that takes the snapshot and the first row locks (`...Tx`, `LockChain`), and
`Commit`. What a transaction will write is known once its snapshot is taken
(REPEATABLE READ, its own writes overlaid), so `Prepare` computes the outcome
and `Commit` applies it; a request whose rows are locked waits, and its wait may
time out (`LockTimeout`). `FileDelete` writes the file row and the store outside
its transaction (`DeleteRow`, `DeleteRefund`), as `file_delete_service.go:24-27`
does through `model.DB`. `Save` is INSERT ... ON DUPLICATE KEY UPDATE
(`SaveTarget`), with the unique md5. `Fail` cuts a request at any statement with
the code's roll-back, or, where the error is shadowed
(`filefolder_delete_service.go:67-88`), its commit of half the work: a walk cut
after k folders (`Cuts`). A walk along a cycle never ends (`WalkSpins`); one that
is cut does, and commits. Names,
postfixes and cached paths are left out (they are `CloudFiles`'); a content
stands for its md5 and size. An upload finds its folder by uuid alone
(`file_upload_service.go:101`) and a folder move saves any id as the new parent
(`filefolder_update_service.go:28,46`), so with `Foreign` a client names any folder
that is or was there, whoever's it is (`Named`); without it, one of its own. The
history `linked` says which accounts such requests have joined, themselves or
through others. `Ledger` is what a user is promised: contents held,
a charge, a limit; with `Lossy` a refund may be forfeited (`Forfeit`).

**Connections.** `StoragePool` runs each statement of `Storage` only when its
request holds the connections it needs (`Demand`): one for a statement or a
transaction, two for a statement through `model.DB` inside a transaction, which
file deletes and saves of shared files make. `Connect` takes a free one,
`Settle` gives back what a step no longer needs, when a transaction ends
included. Deaths of the process, which empty the pool, are left to `Storage`.

**Files in cloud storage.** A request creates the temporary file of its user and
name (truncating an older one, `Torn` until it is written), takes its md5, looks
the path up in Redis, asks for the object, sends the temporary file, inserts the
row and caches the path, a step each. A completion truncates the merged file of
its session and name, fills it with any bytes (what the chunks on disk merge to is
`ChunkUpload`'s), and goes on likewise; its goroutine (`jobs`) then copies the
merged file, asks for the object and puts the copy, a step each, while the handler
removes the merged file. Nothing keeps two uploads of one name, or two completions
of one session, apart: whoever has a local file in use when another request starts
to write it is `crossed`, and a place put by a crossed request or goroutine is
`doubtful`. Reading a file for the md5 may fail unnoticed (`utils/file.go:43`
drops the error) for the files in `Misread`, which crosses the request too. An md5
is of extension and bytes, as the code computes it. Keys are built by the three
operators the code has: `UploadKey`, `ChunkKey` (always `.png`) and `DownloadKey`.
`adrift` are the places a chunk upload was the first to record and nothing is at
yet. `NoExt` is the extension of a name without a dot; no name of the instance has
it, the proofs cover it.

**Chunk upload.** Redis, file and database accesses are steps; opening, writing
and closing a file are too, so a file can be truncated, half written, or unlinked
while another request has it open. A chunk file is whole or not and a merged
file is the set of positions that hold the right bytes, which is all that md5
and size comparisons tell apart. Sessions expire, the process may die (`Crash`
ends all requests and jobs and keeps Redis, disk and tables). The client sends
chunks cut as `test/chunk.go` cuts them and, unless `Duplicates`, none that the
server lists. Objects, cached paths and the goroutine's copy are carried along as
what the completion does to them; what they promise is stated in `CloudFiles`,
where completions also overlap.

**Share cache.** Every Redis command, look-up and statement is a step, and so is
every command of the pipeline that saves a share; a dying process or a
failed `Exec` may leave a pipeline that is already sent (`pipe`). Thresholds 10 and 20 are the constants
`EmptyAfter` and `SaveAfter`. Of the cached fields the three the code decides on
are kept. With `Errors`, every call may fail: look-ups in the database and the request
for a link, which the code takes for a lost share, deletions from Redis, the
counter of views (`missed`; the view goes on the board all the same), and the
pipeline, whose `Exec` returns with commands still on their way or lost half way
(`LosePipeline`, `broken`).

**Tagging.** A consumer takes the head of the queue (prefetch 1), and a refused
message returns to the head. The transaction reads a snapshot, waits for names
that an open transaction has inserted, and one of a cycle of waiting
transactions is chosen as victim. A dying process, a failed call or a channel
that closes is a `Fault`. When a channel closes the broker takes the message back
while the consumer goes on with it; the consumer is then `deaf` until its process
restarts, since its loop has ended and nothing opens another channel.

**Accounts.** Checks and inserts of a registration, the mail's code, mark and
message, the two statements of each status or nickname change are steps. Tokens
carry the status of the login. `Enforce` applies the policies of `auth/policy.go`
with casbin's role inheritance; of the routes, those that change a user are
requests of the model. A check whose error the code drops goes on as if it had
found nothing (`CheckFails`); any other failing call ends the request (`Fail`).

## What the runs check

| Run | Question | Bounds |
|---|---|---|
| `storage_serial` | each step a ledger step, charged too much at worst, with one request per account at a time, two accounts interleaved that also upload into each other's folders, and failures anywhere | 2 users, 4 folders, 3 files of 2 contents (sizes 1 and 2), 5 requests |
| `storage_moves` | sizes exact, no cycle, rows stay deleted, under file and folder moves and deletes within an account, nothing failing | 1 user, 3 folders, 2 files, 7 requests in a row |
| `storage_concurrent` | type invariant, limit on every store, accounts reach each other only through folders of others they named | 2 users, 3 folders, 2 files, all 9 operations, 2 at a time on any folders, 3 in all, failures |
| `storage_pool` | requests end, the pool is used as specified and drained only by nesting | 2 connections, 2 requests at a time, 3 in all, everything but folder moves, failures |
| `storage_x_quota` | counterexample: two uploads exceed the volume | 2 uploads |
| `chunk_serial` | listed chunks on disk, records whole, charged once | files of 0, 2 and 3 chunks, one request at a time, failures and restarts |
| `chunk_parallel` | nothing listed before received; uploads finish | 2 requests at a time on a session of no or 3 chunks |
| `chunk_x_torn` | counterexample: a cut off chunk is merged | as above |
| `cloud_uploads` | objects hold what they are named by and stay; files are found | 2 users, 2 names (png and another), a session each, 1 content and `Torn`, 2 at a time, 3 uploads, completions and deletions in all, failures, misread temporary files |
| `share_views` | marks, counters, cache after deletes, settled entries whole | 1 share, thresholds 0 and 1, 3 requests at a time, 6 in all, errors |
| `tagging` | all or none, duplicates bounded, requests served | 2 images and another file, 2 consumers, 3 messages, 1 deletion, 1 fault |
| `accounts` | users complete, names bounded, administrators granted | 1 address, 2 nicknames, 1 code, 3 ids, 2 at a time, 4 in all, 1 failed check |

Why the bounds are enough for the questions: every race in the code is between two
requests (a third matters only to the share cache, where a reset or delete comes
between two views, hence 3); three folders are the least with a grandparent, the
shape on which chains of sizes go wrong; two sizes 1 and 2 with limits 1 to 3 meet
the limit from both sides; three chunks have a first, a middle and a last one and an
odd size makes the last short; thresholds 0 and 1 keep the two boundaries apart as
10 and 20 do; two labels inserted in opposite orders are the least deadlock; one
poison message with two consumers is the boundary of `RequestsTagged`; two
connections are the least pool that one nesting request does not drain and two do;
three requests on cloud storage are one that leaves an object and a path and two
that meet over them, two contents there are one whole and `Torn`; three requests on
the storage tables are one that links two accounts and two that meet on the chain
they share. `MaxRequests`, `MaxMessages`, `MaxDeletes` and `MaxFaults` bound
behaviours, which is why deadlock is not checked: a behaviour that has used them up
stops. Symmetry is used over request slots, nicknames and the users of
`cloud_uploads` only, and never with liveness.

Properties that need their premise said:

* `StoreExact`, `FolderExact`, `HierarchyAcyclic`, `NoResurrection` are about one
  request at a time per account (`PerUser = 1`) and clients that name their own
  folders only (`Foreign = FALSE`); two requests on one account break each, and so
  do two accounts on one chain, since nothing in the code keeps a client out of
  others' folders. `Quiet(u)` restricts the first two to moments at which no
  request of u runs. `tainted` excludes an account once something was moved to a
  folder above its source, where the code counts sizes twice. Sizes are exact only
  if nothing fails and no share is saved: a failure between two statements of a
  file delete leaves a charge, a saved share is charged although its row's md5 is
  taken. The forest takes that no folder move fails half way: the handler drops
  the error of its last walk and commits the cycle that walk would have run into.
  `NoResurrection` takes failures, but not share saves together with
  administrators' deletes: these find their row by its md5, and after a save that
  may be a row of another account, whose own request is about to write it back.
* `AccountsIsolated` is what is left of isolation with `Foreign`: no store of
  another account ever changes, and folders only once `linked` joins the accounts.
  File rows are left out: a save may take over a row with the same md5, and a
  folder delete takes the files others put there.
* `OverchargeOnly` and `ImplementsLedger` hold with failures and, on stores, with
  `Foreign`; of folders the first speaks where no request linked the owner to
  another account (`Unshared`). The first is about uploads, file deletes, file
  moves, folder creations and volumes: a folder delete that is cut half way leaves
  files that a later delete refunds again, a folder move that is cut leaves a target
  without the size that was moved below it. The second takes folder moves too.
* `DrainedByNesting` says what alone can block the pool, not that it does not:
  as many file deletes and saves of shared files at a time as there are
  connections (20) block it until the server is restarted. `RequestsEnd`
  excepts that.
* `NamedByContent` and `ObjectsStay` except `doubtful` places, and nothing else: two
  uploads of one name by one user write one temporary file, two completions of a
  session one merged file, and a misread file has the md5 of half of it; in each
  case the bytes of one end up under the md5 of the other, the last put wins, and
  that is what the code does. What is claimed is that such a place takes a request
  of that kind: no failed save, retry, restart, cached path or race between a
  look-up and a put makes one.
* `DownloadsFound` excepts names without a dot (uploaded as the bare md5,
  downloaded as the md5 and a dot), and places a chunk upload was the first to
  record (`adrift`), until the object is put there with the extension a download
  asks for, which for an extension other than `.png` no copy does. A simple
  upload that meets such a place in the path cache skips its copy and is not found
  either; the exception covers it. What is claimed is that no other place, path or
  file is lost: an upload that skips its copy over any other cached path, whoever's
  it is and whatever was deleted since, is found.
* `WholeRecords` says that a recorded file was merged whole, with one completion at
  a time; `CloudFiles` claims nothing of the kind, and its merges give any bytes.
* `QuotaRow` is about the store row, which every save checked; what is stored may
  be more, as `storage_x_quota` shows. It holds with everything concurrent and
  failing.
* `ListedOnDisk`, `WholeRecords` hold with one request at a time on a session;
  `ListedReceived` always.
* `DeletedNotCached` excepts shares whose row a view still held when the delete
  ended (`overtaken`): what that view saves stays, since the hash never expires;
  and those whose deletion from Redis failed, an error the code drops (`unswept`).
* `EmptyIsGone` and `SettledIsWhole` except shares whose link could not be asked
  for when they were much viewed (`unlinked`): the code takes that for a lost
  share, marks it for good and caches an apology.
* `SettledIsWhole` speaks of moments at which no pipeline on the share is open, and
  of shares none of whose pipelines was cut (`broken`). While one is open a view may
  be answered with a title and no link, and a cut one leaves such a hash for good;
  what is claimed is that pipelines and deletes that run into each other, all of
  them carried out in the end, never leave it.
* `RankBehindViews` allows for the counts that failed (`missed`).
* `RequestsTagged` holds as long as fewer messages can never succeed than
  consumers listen (`Stuck`), and for files that are still there and whose
  download was not refused with an answer the code takes for success (`lost`).
* `NamesBounded` is not uniqueness: the name is no key and a code serves more
  than once, so an address has up to as many accounts as registrations run at a
  time and checks fail.
* `AdminsGranted` is about who became an administrator; that a stale save can
  undo a suspension or a demotion is what the code does.

### Fairness

`FairPoolSpec` of `StoragePool` assumes weak fairness of every request's next
statement, of the time-out of a lock wait, and of handing a connection that stays
free to a request that waits: goroutines are scheduled, MySQL answers,
`innodb_lock_wait_timeout` is always set, and `database/sql` serves its waiters.
Without the time-out `RequestsEnd` fails: MySQL does not see a wait across the
two connections of a file delete. Nothing is assumed about new requests.
`ChunkUpload` adds that clients go on: strong fairness of sending each chunk and
of completing, since other requests take turns in the slots. `Tagging` assumes
that consumers work, that the broker delivers the head of the queue, and strong
fairness of the insert that waits for a name (MySQL grants a lock to a waiter in
turn) and of each image's turn at the head; none of channels that close or
processes that restart. `ShareCache`, `Accounts` and `CloudFiles` state only
safety and assume no fairness.

## What is proved

For every number of users, folders, files, sessions, shares, consumers, requests
and connections and every size, with failures and concurrency anywhere. Every
component has `TypeCorrect`, `Spec => []TypeOK`. `TypeOK` is nowhere inductive: a
step uses local variables that an earlier step read. The strengthening says for
every program counter which locals hold what (`ReqOK` in `StorageProofs`,
`Opened` in `ChunkProofs`, `Local` elsewhere). On top of it:

* `StorageProofs!QuotaKept`: `Spec => []QuotaRow`. The charge in a store row is
  bounded because every save writes a row that was within the user's largest
  grant when it was read, charged with a check or refunded towards zero;
  `QuotaInv` therefore bounds the rows in flight (`Fits`) as well as those in
  the table. Grants only grow, so a stale row stays within. The lemmas on folder
  tables (`AddType`, `SubType`, `TransferType`, `OverlayType`) show that the walks
  return tables again.
* `StorageProofs!Isolated`: `Spec => AccountsIsolated`, whatever folders clients
  name. The code checks the owner of most rows it reads, not of an upload's folder
  or a folder move's target, and never of the chains and subtrees it writes.
  `KinInv` says that linked accounts form classes, that a folder row's owner is
  whose request first inserted its id, that the folder above is of the same class,
  and of every request in flight that all it has read, may read next and will commit
  belongs to its user's class (`Kin`), or is a move's target not yet linked
  (`Astray`). That a walk stays within a class (`ChainKin`, `DoomedKin`) is by
  induction over its steps (`ClimbWithin`, `DoomedWithin`), which rests on
  `Induction`, derived from the library's well-foundedness of `<` for sets instead
  of predicates. `IdInv` counts ids, so that an insert finds one that is nobody's.
* `StorageProofs`, on the pool: `PoolOnlyDelays` (`PoolSpec => Spec`, so all that is
  proved of `Storage` holds with a pool), `ImplementsPool` (each step of a request
  is a turn, a connect or a stutter of `ConnPool`), and from it with `PoolProofs`
  `OnlyDeletesAndSavesDrain`.
* `PoolProofs` about any pool: `NeverOverdrawn`; `OnlyNestingDrains`, since a
  client that holds a connection and waits holds exactly one and wants two, so
  that a full pool without a client that moves has as many of those as
  connections; `SomebodyMoves`.
* `ChunkProofs!ReceivedFirst`: `Spec => []ListedReceived`. `ReceivedInv` carries
  the list a request has read (a subset of what was received, plus its own chunk
  once written) and what a completion has checked (all were received).
  `ChargedWithFile`: `Spec => ChargedOnce`. `ListedKept` and `WholeAlways`, under
  `Serial` (one request at a time on a session, nothing sent twice, finitely many
  slots): `SerialInv` adds that a request is alone on its session (`Alone`), so that
  the chunk it writes and the pieces it has merged, in their order, are as it left
  them (`Knows`).
* `CloudProofs!FoundAgain`: `Spec => []DownloadsFound`. `FoundInv` extends it to
  uploads that hold a path and have not recorded it (`Sought`); `FoundStays` shows
  that what is found stays found. `NamedAlways` and `ObjectsKept` have no premise:
  uploads of one name and completions of one session overlap at will. `BytesInv`
  says that while a request writes a local file all others that use it are crossed
  (`Crossed`), goroutines too (`JobsCrossed`), and that what is not crossed still
  finds the bytes its md5 was taken of, in the file (`Hashes`) or in its copy
  (`Carries`); so a put that is not crossed replaces an object by itself, however
  long ago it looked.
* `ShareProofs`: `MarkedIsGone`, `BoardBehind`, `SettledWhole`,
  `DeletedLeavesCache`, the four properties of the cache. What they need beside
  themselves is what a view knows of its share between its calls, and what the
  rest of its pipeline will write (`Linked`: a title without a link, or an owner
  without the rest, is there only with a pipeline that still has the command to
  come).
* `TaggingProofs!NeverHalfTagged`: `Spec => []AllOrNone`. A transaction's snapshot
  has all links of its file or none, so what it inserts is nothing or all of
  them (`Local`). `DuplicatesFew`: `DuplicatesBounded` for finitely many consumers.
  Links and the transactions that do not see any (`Blind`) together never exceed
  the consumers: once there is a link nobody joins the blind, and a commit that
  adds one leaves them.
* `AccountProofs`: `CompleteAlways`, from ids that are drawn once and belong to
  one registration (`Own`); `GrantedAlways`, from what a stale row in flight may
  say of an administrator (`Held`); `NamesFew`, `NamesBounded` for finitely many
  request slots, from a bound on accounts and registrations past their check
  together (`FewNames`), for which names must be known never to change.

`AccountingProofs` is about `PerUser = 1`, any number of accounts with a request
each, interleaved in every way, and clients that name folders of their own only. The
last premise, `~Foreign`, is written out in each theorem: the code does not enforce
it, and with it dropped requests of two accounts on one chain break the sizes, the
forest and the deletes as two requests on one account do. Its theorems rest on one
inductive invariant after the other:

* `SoloInv`: what a request read it knows until it commits. `DirFresh` says, per
  operation and program counter, that the folder rows it holds are those of the
  table and that what it will commit is the walk over the table of now, although
  the table changes under it: the others write only their own users' folders, and
  a walk sees no others (`ChainAgree`, `DoomedAgree` with `KinInv`). `Knows` says
  the same of file rows and stores. `DeletedStaysDeleted` (`NoResurrection`) follows:
  every row a commit writes is live when it does (`WritesLive`). It takes `Tame`,
  that shares are saved or administrators delete, not both; failures are allowed.
* Sums. `Used`, `Below` and `Refund` are sums over sets of files; `SumFunctionOnSet` is
  a recursive function over subsets, so that `SumRemove`, `SumAdd`, `SumSame` and
  `SumUnion` are proved by induction on cardinality (`SetInduction`).
* `LedgerImplemented`: `Spec => ImplementsLedger` for `Ops` within `Booking`, failures
  anywhere (no share saves and administrators' deletes, which charge without a row
  and drop a row without a refund; no folder deletes, which refund the size of
  the folder, and not what they discard, when they are cut half way or a move has
  made that size count something twice).
  `LedgerInv`: a store covers its files and what is still to be refunded, and what
  a delete gave up is not there again.
* `LedgerWithFolders`: `Spec => ImplementsLedger` with folder deletes, for `Ops` within
  `Still` (nothing is moved) and `~Failures`. No user is ever tainted then, so that
  a store holds exactly what its files take up before and after the commit
  (`CountInv`); what lies between is one `Discard` of the contents of all files in
  the folder (`UsedIsTotal` with `SumImage` turns a sum over files into one over
  contents).
* `FoldersStayAForest`: `Spec => []HierarchyAcyclic`, if nothing fails or folders are
  not moved. `Grounded` (every folder has a height above its parent's) is the
  inductive form of `Acyclic`; a move below itself closes a cycle only in the table
  its own walk reads, where it never ends (`MoveForest`).
* `StoresAreExact`, `FoldersAreExact` (nothing fails) and `NoneIsUndercharged`
  (failures anywhere, neither folder moves nor folder deletes), for `Ops` within
  `Paying`. `CountInv` states, for every user, store and folder, a `Claim` about the
  number in the row and the sum it stands for: equal under the first premise,
  not less under the second. For a user with a request in flight the sum counts
  what a file delete still has to take off (`Owes` from the store, `Late` from the
  folders). The walks are characterised by what lies inside what (`AddEffect`,
  `SubEffect`, `TransferEffect`; `MovedInside`, `GrownInside`, `LeftInside` for how
  moves, creations and deletes change it), which holds in forests only: the size
  invariant needs the forest invariant.

`FoldersAreExact` thus covers every mix of moves and deletes that the run
`storage_moves` enumerates for seven requests on three folders.

Assumptions are the named ASSUMEs of the modules, which TLC evaluates in every
run: finitely many folder and file ids, no id both, finitely many request slots,
distinct base folders, positive sizes, that a pool has finitely many clients, and
that the sentinels are none of the values they stand in for; beside them `Serial`,
`PerUser = 1`, `~Foreign`, `~Failures`, restrictions of `Ops`, `IsFiniteSet(Consumers)`
and `IsFiniteSet(Threads)` in the theorems that name them. Leaves are SMT and Zenon,
temporal steps PTL.

Only model-checked: liveness (`RequestsEnd`, `UploadsFinish`, `RequestsTagged`),
which the prover does not reach. Every invariant and every action property of the
passing runs is stated by a theorem, those of the accounting under the premises
above, and so are both refinements.

## What the models show about the code

Kept as runs with a counterexample:

* `storage_x_quota`: two uploads read the store, both pass, both save a whole
  row; one charge is lost and the files exceed the volume
  (`file_upload_service.go:37`).
* `chunk_x_torn`: a slow upload saves again a number that a faster one dropped
  and the client is sending anew; completion merges the truncated chunk and
  records it under the full size (`complete_service.go:52`).

Met on the way, part of the models' behaviour, without a run of their own:

* an upload's folder is looked up by uuid alone (`file_upload_service.go:101`) and a
  folder move takes any id as the new parent (`filefolder_update_service.go:28,46`):
  one account's files then lie in another's folders, whose sizes are charged, whose
  owner deletes them with the folder, and whose own requests race the uploads: sizes
  get lost, a deleted folder is written back, and two moves close a cycle;
* a folder moved to its grandparent counts twice there, the target being saved
  from a copy read before the walk changed it (`filefolder_update_service.go:71`);
* a folder moved into itself, or concurrent moves that close a cycle, make the
  walk over parents endless (`filefolder_update_service.go:58`, `file_folder.go:58`);
* two deletes of one folder refund it twice (`filefolder_delete_service.go:86`);
* a failure after `file_delete_service.go:24` leaves the row deleted and the
  charge standing;
* saving a shared file inserts a second row with a unique md5, fails, and charges
  all the same (`share_save_file_service.go:73`); a second user's upload of a
  stored content fails for the same reason, against `readme.md:56`;
* the goroutine that copies a merged file may find it removed
  (`complete_service.go:94`): the row then names an object that never comes; when
  the copy succeeds it is under `md5.png`, whatever extension a download asks for.
  A later simple upload of that content finds the path cached, skips its copy and is
  not found either, until the path expires. A view of a share of such a file is
  answered without a link and not counted, so it is marked as lost for good only
  if it had more than ten views of the day from before;
* a second completion of a session truncates the merged file while the goroutine of
  the first may be copying it (`complete_service.go:94,136`), so that `md5.png` may
  hold other bytes; `utils/file.go:43` drops the error of reading a file for its
  md5, which is then that of half the file;
* a pipeline that fails half way leaves a share's hash with an owner, which is what
  keeps it from being cached again, and without title or link
  (`model/share.go:106`), against the comment at `model/share.go:95-96`; while one
  is under way a view may find the title and no link;
* a view whose counter could not be raised is put on the board of the day all the
  same (`model/share.go:82-84`);
* two uploads of one name by one user on one day share a temporary file
  (`api/file.go:56-82`): with bad timing one's bytes are stored under the other's
  md5, and every later upload of that content skips its copy; the error of saving
  the temporary file is dropped (`api/file.go:82`), so that what lies there from
  earlier is recorded under the size of the new file;
* twenty file deletes or saves of shared files at one time, each waiting for a
  second connection, leave the server without database until it is restarted
  (`file_delete_service.go:24`, `model/init.go:47`);
* `task/clear.go` removes directories that are not empty with a call that removes
  only empty ones: temporary files stay;
* `share_delete_service.go:21` announces a delayed second deletion of the cache;
  there is no delay, and a view that overlaps puts the share back for good;
* a message that can never succeed goes back to the head of its queue for ever
  (`task_sync.go:93`), and no policy but the super administrator's lets
  `POST tag/auto` through;
* a consumer whose channel closes never consumes again, while the service goes on
  (`task_sync.go:101`), and the message it held is worked on twice;
* a mail whose sending fails is acknowledged (`task_sync.go:57-62`), and
  `SendConfirmMessage` never returns the error its comment promises;
* a common administrator that read a user's row before the user was promoted
  demotes an administrator; a user's own nickname update undoes a suspension; a
  suspended user's token works until it expires (`middleware/auth.go:66`).

## Not modelled

* Recycle bin: moving a file to the bin and restoring it read `userId` where the
  middleware sets `UserId`, and panic before they change anything, so
  `recycle_bins` has no rows. Listing, emptying and the nightly cleaning
  (`AutoCleanExpiredFiles`, `AutoCleanByCapacity`) run on an empty table. What can
  change is the configuration row of a user, which nothing that acts reads.
* File clean queue: nothing sends to it. Direct upload: recording a file looks its
  folder up by the file's uuid and is refused.
* Listings, searches, serializers, signed URLs: no state change.
* SMTP, HTTP binding, signing of requests to Tencent, start-up, logging: outside
  the program's logic; where they matter they are calls that may fail.
* Of failing calls: a process that dies while requests wait for connections is in
  `Storage` without a pool.
* The check request of a chunk upload, which reports missing chunks as 0 to
  total-1 where they are numbered from 1, and chunk directories that stay when a
  session expires: no decision of the server depends on them.
* `GetOrCreateTag`, `AddTagToFile` and the queries of `model/tag.go`: no caller.

## Plan

Written in this order, the most important behaviour first: `FolderTree` and
`Storage` with `Ledger`, their proofs, `ChunkUpload` and its proofs, `ShareCache`,
`Tagging`, `Accounts`; then `ConnPool` and `StoragePool`, `CloudFiles`, and the
proofs of these and of shares, tags and accounts. `Storage` is composed with the
pool; with `ChunkUpload` and `CloudFiles` it shares tables only in so far as each
has the other's effect on its rows (chunk upload charges a store, a file delete
removes a row that a cached path outlives).

Next:

1. Proofs: `OverchargeOnly` with saved shares, whose charge comes before their row
   and may outlive its failure.
2. Abstract specifications: a set of shares with views and deletes for
   `ShareCache`, an at-least-once work queue for `Tagging`.
3. Model: the recycle bin as it would be once its handlers and columns agree with
   the rest.
