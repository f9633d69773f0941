------------------------------ MODULE ShareCache ------------------------------
(***************************************************************************)
(* Shared files: the rows of table shares, the copies of much viewed ones  *)
(* in Redis, the set of shares known to be gone, the view counters and the *)
(* board of the day.                                                       *)
(*                                                                         *)
(* A request is one goroutine.  Each call to Redis, to the database and to *)
(* cloud storage is a step; the commands of a pipeline are steps as well,  *)
(* since Redis runs other clients' commands between them.  Of the cached   *)
(* fields only those the code decides on are kept: the owner, the title    *)
(* and the link.                                                           *)
(***************************************************************************)
EXTENDS Naturals

CONSTANTS Shares,      \* ids of shares
          EmptyAfter,  \* views of the day above which a lost share is marked (10)
          SaveAfter,   \* views of the day above which a share is cached (20)
          Threads,     \* request slots: how many requests are in flight
          MaxRequests, \* bound on the requests of a behaviour
          Errors,      \* whether link look-ups and calls to Redis fail
          None

ASSUME ShareAssumption ==
  /\ EmptyAfter \in Nat /\ SaveAfter \in Nat /\ EmptyAfter <= SaveAfter
  /\ MaxRequests \in Nat
  /\ Errors \in BOOLEAN
  /\ None \notin Shares

VARIABLES shares,    \* table shares
          stored,    \* the shares whose file still has a row in table files
          empty,     \* set share:empty in Redis
          info,      \* hash info:share:<id> in Redis: the fields that are set
          views,     \* counter share:<id> in Redis
          daily,     \* sorted set rank:daily in Redis: the score of a share
          req,       \* the requests in flight
          pipe,      \* the pipelines sent to Redis and not yet carried out
          requests,  \* number of requests so far (bounds the behaviours)
          made,      \* history: the ids given to shares so far
          deleted,   \* history: shares whose delete was answered with success
          overtaken, \* history: shares whose row a view held when such a
                     \* delete ended
          unlinked,  \* history: shares whose link could not be asked for
          unswept,   \* history: shares whose delete could not clear Redis
          broken,    \* history: shares a pipeline of which was cut short
          missed     \* history: how often a share's counter could not be raised

tables  == <<shares, stored>>
redis   == <<empty, info, views, daily>>
errors  == <<unlinked, unswept, broken, missed>>
history == <<made, deleted, overtaken, errors>>
vars    == <<shares, stored, empty, info, views, daily, req, pipe, requests,
             made, deleted, overtaken, unlinked, unswept, broken, missed>>

\* Deviation: the owner is set when all is there.
FieldsOwnerLast == <<"Title", "downloadUrl", "Owner">>

\* The fields of a cached share, in the order the pipeline sets them.
Fields == <<"Owner", "Title", "downloadUrl">>

Field == {"Owner", "Title", "downloadUrl"}

Views   == {"known", "marked", "fetch", "row", "url", "score", "zrem",
            "sadd", "rank", "owner", "save", "incr", "zincr"}
Deletes == {"find", "zrem1", "del1", "delete", "zrem2", "del2"}

\* A handler's local variables: the share, whether its row was found, and
\* whether it holds a link.
Request ==
  [pc : {"idle"} \cup Views \cup Deletes, s : Shares \cup {None},
   found : BOOLEAN, url : BOOLEAN]

Idle == [pc |-> "idle", s |-> None, found |-> FALSE, url |-> FALSE]

\* A pipeline: the share, whether with a link, and the next command.
Pipeline == [s : Shares, url : BOOLEAN, next : 1..3]

ASSUME NoneIsNoPipeline == None \notin Pipeline

TypeOK ==
  /\ shares \subseteq Shares /\ stored \subseteq Shares /\ empty \subseteq Shares
  /\ info \in [Shares -> SUBSET Field]
  /\ views \in [Shares -> Nat] /\ daily \in [Shares -> Nat]
  /\ req \in [Threads -> Request] /\ pipe \in [Threads -> Pipeline \cup {None}]
  /\ requests \in Nat
  /\ made \subseteq Shares /\ deleted \subseteq Shares /\ overtaken \subseteq Shares
  /\ unlinked \subseteq Shares /\ unswept \subseteq Shares /\ broken \subseteq Shares
  /\ missed \in [Shares -> Nat]

Init ==
  /\ shares = {} /\ stored = {} /\ empty = {}
  /\ info = [s \in Shares |-> {}]
  /\ views = [s \in Shares |-> 0]
  /\ daily = [s \in Shares |-> 0]
  /\ req = [t \in Threads |-> Idle] /\ pipe = [t \in Threads |-> None]
  /\ requests = 0
  /\ made = {} /\ deleted = {} /\ overtaken = {}
  /\ unlinked = {} /\ unswept = {} /\ broken = {}
  /\ missed = [s \in Shares |-> 0]

\* A pipeline on a share is under way.
Sent(t, s) == pipe[t] # None /\ pipe[t].s = s

\* The views that have read a share's row, and what they sent.
Informed(s) ==
  {t \in Threads : (req[t].s = s /\ req[t].found) \/ (Sent(t, s) /\ pipe[t].url)}

At(t, pc) == req[t].pc = pc

Goto(t, pc) == req' = [req EXCEPT ![t].pc = pc]

Return(t) == req' = [req EXCEPT ![t] = Idle]

Start(t, pc, s) ==
  /\ At(t, "idle")
  /\ requests < MaxRequests
  /\ requests' = requests + 1
  /\ req' = [req EXCEPT ![t] = [Idle EXCEPT !.pc = pc, !.s = s]]

-----------------------------------------------------------------------------
(* CreateShare: one insert.  The file is looked for with Find, which finds  *)
(* no fault with a missing row: a share of no file is made as well.         *)

CreateShare(s, hasFile) ==
  /\ s \notin made
  /\ requests < MaxRequests
  /\ requests' = requests + 1
  /\ shares' = shares \cup {s}
  /\ stored' = IF hasFile THEN stored \cup {s} ELSE stored
  /\ made' = made \cup {s}
  /\ UNCHANGED <<redis, req, pipe, deleted, overtaken, errors>>

\* The owner deletes the file: its row goes, its shares stay.
DeleteFile(s) ==
  /\ stored' = stored \ {s}
  /\ s \in stored
  /\ UNCHANGED <<shares, redis, req, pipe, requests, history>>

-----------------------------------------------------------------------------
(* GetShareInfo. *)

\* A view: the cached title decides whether the share is in Redis.  Errors of
\* Redis are dropped, here and below: what could not be read counts as absent,
\* and the request goes on.
GetShareInfo(t, s) ==
  /\ s \in made
  /\ \/ "Title" \in info[s] /\ Start(t, "marked", s)
     \/ ("Title" \notin info[s] \/ Errors) /\ Start(t, "known", s)
  /\ UNCHANGED <<tables, redis, pipe, history>>

\* Or that it is known to be gone.
CheckRedisExistsShare(t) ==
  /\ At(t, "known")
  /\ \/ req[t].s \in empty /\ Goto(t, "marked")
     \/ (req[t].s \notin empty \/ Errors) /\ Goto(t, "row")
  /\ UNCHANGED <<tables, redis, pipe, requests, history>>

\* A hit answers without a link when the share is marked ...
AnswerEmpty(t) ==
  /\ At(t, "marked")
  /\ \/ req[t].s \in empty /\ Return(t)
     \/ (req[t].s \notin empty \/ Errors) /\ Goto(t, "fetch")
  /\ UNCHANGED <<tables, redis, pipe, requests, history>>

\* ... and else with what the hash holds by now; only a link is a view.
GetShareInfoFromRedis(t) ==
  /\ At(t, "fetch")
  /\ \/ "downloadUrl" \in info[req[t].s] /\ Goto(t, "incr")
     \/ ("downloadUrl" \notin info[req[t].s] \/ Errors) /\ Return(t)
  /\ UNCHANGED <<tables, redis, pipe, requests, history>>

\* A miss reads the row.  Find leaves the share blank when there is none.
FindShare(t) ==
  /\ At(t, "row")
  /\ \/ req' = [req EXCEPT ![t].pc = "url", ![t].found = req[t].s \in shares]
     \/ Return(t)                                  \* the query failed
  /\ UNCHANGED <<tables, redis, pipe, requests, history>>

\* Deviation: a link found does not keep the share from being marked.
DownloadURLIgnored(t) ==
  /\ At(t, "url")
  /\ req' = [req EXCEPT ![t].pc = "score", ![t].url = req[t].found /\ req[t].s \in stored]
  /\ UNCHANGED <<tables, redis, pipe, requests, history>>

\* The link needs the share's row, the file's row and its object; without it
\* the share counts as gone.  So it does when the database or cloud storage
\* does not answer.
DownloadURL(t) ==
  /\ At(t, "url")
  /\ \/ /\ IF req[t].found /\ req[t].s \in stored
            THEN req' = [req EXCEPT ![t].pc = "rank", ![t].url = TRUE]
            ELSE Goto(t, "score")
        /\ UNCHANGED unlinked
     \/ Errors /\ Goto(t, "score") /\ unlinked' = unlinked \cup {req[t].s}
  /\ UNCHANGED <<tables, redis, pipe, requests, made, deleted, overtaken,
                 unswept, broken, missed>>

\* SetEmptyShare: a share on the board is taken off it and marked.
DailyViewCount(t) ==
  /\ At(t, "score")
  /\ \/ daily[req[t].s] > EmptyAfter /\ Goto(t, "zrem")
     \/ (daily[req[t].s] <= EmptyAfter \/ Errors) /\ Goto(t, "rank")
  /\ UNCHANGED <<tables, redis, pipe, requests, history>>

LeaveRank(t) ==
  /\ At(t, "zrem")
  /\ daily' = [daily EXCEPT ![req[t].s] = 0] \/ (Errors /\ UNCHANGED daily)
  /\ Goto(t, "sadd")
  /\ UNCHANGED <<tables, empty, info, views, pipe, requests, history>>

SetEmptyShare(t) ==
  /\ At(t, "sadd")
  /\ empty' = empty \cup {req[t].s} \/ (Errors /\ UNCHANGED empty)
  /\ Goto(t, "rank")
  /\ UNCHANGED <<tables, info, views, daily, pipe, requests, history>>

\* A view with a link is counted.
CountOrReturn(t) == IF req[t].url THEN Goto(t, "incr") ELSE Return(t)

\* A much viewed share is cached unless another request has begun to.
IsPopular(t) ==
  /\ At(t, "rank")
  /\ \/ daily[req[t].s] > SaveAfter /\ Goto(t, "owner")
     \/ (daily[req[t].s] <= SaveAfter \/ Errors) /\ CountOrReturn(t)
  /\ UNCHANGED <<tables, redis, pipe, requests, history>>

\* The pipeline is sent.  A slot's next one waits for the last: this bounds the
\* pipelines.
IsSaved(t) ==
  LET s == req[t].s
  IN /\ At(t, "owner")
     /\ \/ "Owner" \in info[s] /\ CountOrReturn(t) /\ UNCHANGED pipe
        \/ /\ "Owner" \notin info[s] \/ Errors
           /\ pipe[t] = None
           /\ pipe' = [pipe EXCEPT ![t] = [s |-> s, url |-> req[t].url, next |-> 1]]
           /\ Goto(t, "save")
     /\ UNCHANGED <<tables, redis, requests, history>>

\* What a command leaves in the hash: a blank share has neither owner nor link,
\* its title is the one that says that it is gone.
Set(h, p, f) == IF f = "Title" \/ p.url THEN h \cup {f} ELSE h \ {f}

\* Deviation: the pipeline has one command too many.
SaveOneMore(t) ==
  LET p == pipe[t]
  IN /\ p # None
     /\ info' = [info EXCEPT ![p.s] = Set(@, p, Fields[p.next])]
     /\ pipe' = [pipe EXCEPT ![t] = IF p.next > 3 THEN None ELSE [p EXCEPT !.next = @ + 1]]
     /\ UNCHANGED <<tables, empty, views, daily, req, requests, history>>

\* One command of the pipeline.
SaveShareInfoToRedis(t) ==
  LET p == pipe[t]
  IN /\ p # None
     /\ info' = [info EXCEPT ![p.s] = Set(@, p, Fields[p.next])]
     /\ pipe' = [pipe EXCEPT ![t] = IF p.next = 3 THEN None ELSE [p EXCEPT !.next = @ + 1]]
     /\ UNCHANGED <<tables, empty, views, daily, req, requests, history>>

\* The connection breaks: the commands that have not arrived are lost.
LosePipeline(t) ==
  /\ Errors /\ pipe[t] # None
  /\ pipe' = [pipe EXCEPT ![t] = None]
  /\ broken' = broken \cup {pipe[t].s}
  /\ UNCHANGED <<tables, redis, req, requests, made, deleted, overtaken,
                 unlinked, unswept, missed>>

\* The view goes on when all commands are answered, or when Exec fails, with
\* commands that may still be on their way.
EndSave(t) ==
  /\ At(t, "save") /\ (pipe[t] = None \/ Errors)
  /\ CountOrReturn(t)
  /\ UNCHANGED <<tables, redis, pipe, requests, history>>

\* Deviation: only the board counts the view.
AddViewUncounted(t) ==
  /\ At(t, "incr")
  /\ Goto(t, "zincr")
  /\ UNCHANGED <<tables, redis, pipe, requests, history>>

\* A view is counted for ever ...
AddViewCount(t) ==
  /\ At(t, "incr")
  /\ \/ views' = [views EXCEPT ![req[t].s] = @ + 1] /\ UNCHANGED missed
     \/ Errors /\ missed' = [missed EXCEPT ![req[t].s] = @ + 1] /\ UNCHANGED views
  /\ Goto(t, "zincr")
  /\ UNCHANGED <<tables, empty, info, daily, pipe, requests, made, deleted, overtaken,
                 unlinked, unswept, broken>>

\* ... and for the day, also when the first has failed.
AddDailyView(t) ==
  /\ At(t, "zincr")
  /\ daily' = [daily EXCEPT ![req[t].s] = @ + 1] \/ (Errors /\ UNCHANGED daily)
  /\ Return(t)
  /\ UNCHANGED <<tables, empty, info, views, pipe, requests, history>>

-----------------------------------------------------------------------------
(* DeleteShare by the owner takes the share out of Redis before and after   *)
(* the row is deleted, ShareDelete by an administrator only after.          *)

DeleteShare(t, s) ==
  /\ s \in made
  /\ Start(t, "find", s)
  /\ UNCHANGED <<tables, redis, pipe, history>>

\* First finds no row of a share that is gone: the request is refused.
FindOwned(t) ==
  /\ At(t, "find")
  /\ \/ req[t].s \in shares /\ Goto(t, "zrem1")
     \/ Return(t)
  /\ UNCHANGED <<tables, redis, pipe, requests, history>>

ShareDelete(t, s) ==
  /\ s \in made
  /\ Start(t, "delete", s)
  /\ UNCHANGED <<tables, redis, pipe, history>>

LeaveRankFor(t) ==
  /\ req[t].pc \in {"zrem1", "zrem2"}
  /\ daily' = [daily EXCEPT ![req[t].s] = 0] \/ (Errors /\ UNCHANGED daily)
  /\ Goto(t, IF At(t, "zrem1") THEN "del1" ELSE "del2")
  /\ UNCHANGED <<tables, empty, info, views, pipe, requests, history>>

\* The first deletion from Redis is done; the row comes next.
DeleteInfo(t) ==
  /\ At(t, "del1")
  /\ info' = [info EXCEPT ![req[t].s] = {}] \/ (Errors /\ UNCHANGED info)
  /\ Goto(t, "delete")
  /\ UNCHANGED <<tables, empty, views, daily, pipe, requests, history>>

\* Deviation: Redis is not cleared after the row.
DeleteRowLast(t) ==
  /\ At(t, "delete")
  /\ shares' = shares \ {req[t].s} /\ Return(t)
  /\ deleted' = deleted \cup {req[t].s}
  /\ overtaken' = IF Informed(req[t].s) # {} THEN overtaken \cup {req[t].s}
                  ELSE overtaken
  /\ UNCHANGED <<stored, redis, pipe, requests, made, errors>>

DeleteRow(t) ==
  /\ At(t, "delete")
  /\ \/ shares' = shares \ {req[t].s} /\ Goto(t, "zrem2")
     \/ UNCHANGED shares /\ Return(t)              \* the statement failed
  /\ UNCHANGED <<stored, redis, pipe, requests, history>>

\* The last deletion from Redis ends the request.
EndDelete(t) ==
  LET s == req[t].s
  IN /\ At(t, "del2")
     /\ \/ info' = [info EXCEPT ![s] = {}] /\ UNCHANGED unswept
        \/ Errors /\ unswept' = unswept \cup {s} /\ UNCHANGED info
     /\ deleted' = deleted \cup {s}
     /\ overtaken' = IF Informed(s) # {} THEN overtaken \cup {s} ELSE overtaken
     /\ Return(t)
     /\ UNCHANGED <<tables, empty, views, daily, pipe, requests, made,
                    unlinked, broken, missed>>

-----------------------------------------------------------------------------
\* Every night the board is unlinked.
RestartDailyRank ==
  /\ daily' = [s \in Shares |-> 0]
  /\ UNCHANGED <<tables, empty, info, views, req, pipe, requests, history>>

\* The process dies; a pipeline that was sent is still carried out.
Crash ==
  /\ req' = [t \in Threads |-> Idle]
  /\ UNCHANGED <<tables, redis, pipe, requests, history>>

ViewStep(t) ==
  \/ CheckRedisExistsShare(t) \/ AnswerEmpty(t) \/ GetShareInfoFromRedis(t)
  \/ FindShare(t) \/ DownloadURL(t)
  \/ DailyViewCount(t) \/ LeaveRank(t) \/ SetEmptyShare(t)
  \/ IsPopular(t) \/ IsSaved(t) \/ EndSave(t)
  \/ AddViewCount(t) \/ AddDailyView(t)

PipeStep(t) == SaveShareInfoToRedis(t) \/ LosePipeline(t)

DeleteStep(t) ==
  \/ FindOwned(t) \/ LeaveRankFor(t) \/ DeleteInfo(t) \/ DeleteRow(t) \/ EndDelete(t)

Next ==
  \/ \E s \in Shares, hasFile \in BOOLEAN : CreateShare(s, hasFile)
  \/ \E s \in Shares : DeleteFile(s)
  \/ \E t \in Threads, s \in Shares :
       GetShareInfo(t, s) \/ DeleteShare(t, s) \/ ShareDelete(t, s)
  \/ \E t \in Threads : ViewStep(t) \/ PipeStep(t) \/ DeleteStep(t)
  \/ RestartDailyRank
  \/ Crash

Spec == Init /\ [][Next]_vars
=============================================================================
