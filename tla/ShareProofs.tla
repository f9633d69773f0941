------------------------------ MODULE ShareProofs ------------------------------
(***************************************************************************)
(* What holds of the cache of shares for any number of shares and requests, *)
(* any thresholds, and with calls failing or not.                           *)
(***************************************************************************)
EXTENDS ShareProps, FiniteSetTheorems, TLAPS

-----------------------------------------------------------------------------
(* Types *)

LEMMA InitType == Init => TypeOK
BY DEF Init, TypeOK, Idle, Request, Views, Deletes

\* Moving a request on or ending it leaves requests.
LEMMA GotoType ==
  ASSUME TypeOK, NEW t \in Threads, NEW pc \in {"idle"} \cup Views \cup Deletes, Goto(t, pc)
  PROVE  req' \in [Threads -> Request]
BY DEF TypeOK, Goto, Request

LEMMA ReturnType ==
  ASSUME TypeOK, NEW t \in Threads, Return(t)
  PROVE  req' \in [Threads -> Request]
BY DEF TypeOK, Return, Idle, Request

LEMMA StartType ==
  ASSUME TypeOK, NEW t \in Threads, NEW pc \in Views \cup Deletes, NEW s \in Shares,
         Start(t, pc, s)
  PROVE  req' \in [Threads -> Request] /\ requests' \in Nat
<1>1. Idle \in Request
  BY DEF Idle, Request
<1>2. [Idle EXCEPT !.pc = pc, !.s = s] \in Request
  BY <1>1 DEF Request
<1> QED BY <1>2 DEF TypeOK, Start

LEMMA CountOrReturnType ==
  ASSUME TypeOK, NEW t \in Threads, CountOrReturn(t)
  PROVE  req' \in [Threads -> Request]
BY GotoType, ReturnType DEF CountOrReturn, Views

\* Whoever is in the middle of a request has a share, one that was made.
Busy == \A t \in Threads : ~At(t, "idle") => req[t].s \in made

\* And so has every pipeline.
Sends == \A t \in Threads : pipe[t] # None => pipe[t].s \in made

TypeInv == TypeOK /\ Busy /\ Sends

LEMMA StartBusy ==
  ASSUME TypeInv, NEW t \in Threads, NEW pc, NEW s \in made, Start(t, pc, s), made' = made
  PROVE  Busy'
BY DEF TypeInv, TypeOK, Busy, At, Start, Idle

LEMMA ReturnBusy ==
  ASSUME TypeInv, NEW t \in Threads, Return(t), made' = made
  PROVE  Busy'
BY DEF TypeInv, TypeOK, Busy, At, Return, Idle

LEMMA GotoBusy ==
  ASSUME TypeInv, NEW t \in Threads, ~At(t, "idle"), NEW pc, Goto(t, pc), made' = made
  PROVE  Busy'
BY DEF TypeInv, TypeOK, Busy, At, Goto

\* A request whose locals are replaced.
LEMMA PutType ==
  ASSUME TypeInv, NEW t \in Threads, NEW q \in Request, q.pc # "idle" => q.s \in made,
         req' = [req EXCEPT ![t] = q], made' = made
  PROVE  req' \in [Threads -> Request] /\ Busy'
BY DEF TypeInv, TypeOK, Busy, At

LEMMA CountOrReturnBusy ==
  ASSUME TypeInv, NEW t \in Threads, ~At(t, "idle"), CountOrReturn(t), made' = made
  PROVE  Busy'
BY GotoBusy, ReturnBusy DEF CountOrReturn

LEMMA FieldsAre == \A n \in 1..3 : Fields[n] \in Field
<1>1. Fields[1] \in Field /\ Fields[2] \in Field /\ Fields[3] \in Field
  BY DEF Fields, Field
<1> QED BY <1>1

\* One command of the pipeline sets or clears a field of one share.
LEMMA InfoType ==
  ASSUME TypeOK, NEW s, NEW f \in Field, NEW b \in BOOLEAN,
         info' = [info EXCEPT ![s] = IF b THEN @ \cup {f} ELSE @ \ {f}]
  PROVE  info' \in [Shares -> SUBSET Field]
BY DEF TypeOK

\* A pipeline that is under way is one.
LEMMA PipelineType == ASSUME TypeOK, NEW t \in Threads, pipe[t] # None PROVE pipe[t] \in Pipeline
BY DEF TypeOK

LEMMA RequestsType ==
  ASSUME TypeInv, NEW t \in Threads, NEW s \in Shares,
         GetShareInfo(t, s) \/ DeleteShare(t, s) \/ ShareDelete(t, s)
  PROVE  TypeOK' /\ Busy'
<1>1. s \in made /\ made' = made /\ TypeOK
  BY DEF TypeInv, GetShareInfo, DeleteShare, ShareDelete, history
<1>2. PICK pc \in Views \cup Deletes : Start(t, pc, s)
  BY DEF GetShareInfo, DeleteShare, ShareDelete, Views, Deletes
<1>3. Busy'
  BY <1>1, <1>2, StartBusy
<1>4. req' \in [Threads -> Request] /\ requests' \in Nat
  BY <1>1, <1>2, StartType
<1>5. TypeOK'
  BY <1>1, <1>4 DEF TypeOK, GetShareInfo, DeleteShare, ShareDelete, tables, redis, history, errors
<1> QED BY <1>3, <1>5

LEMMA ViewType ==
  ASSUME TypeInv, NEW t \in Threads, ViewStep(t)
  PROVE  TypeOK' /\ Busy'
<1> USE DEF TypeInv, tables, redis, history, errors
<1>1. CASE CheckRedisExistsShare(t)
  <2>1. req' \in [Threads -> Request]
    BY <1>1, GotoType DEF CheckRedisExistsShare, Views
  <2>2. Busy'
    BY <1>1, GotoBusy DEF CheckRedisExistsShare, At
  <2> QED BY <1>1, <2>1, <2>2 DEF CheckRedisExistsShare, TypeOK
<1>2. CASE AnswerEmpty(t)
  <2>1. req' \in [Threads -> Request]
    BY <1>2, GotoType, ReturnType DEF AnswerEmpty, Views
  <2>2. Busy'
    BY <1>2, GotoBusy, ReturnBusy DEF AnswerEmpty, At
  <2> QED BY <1>2, <2>1, <2>2 DEF AnswerEmpty, TypeOK
<1>3. CASE GetShareInfoFromRedis(t)
  <2>1. req' \in [Threads -> Request]
    BY <1>3, GotoType, ReturnType DEF GetShareInfoFromRedis, Views
  <2>2. Busy'
    BY <1>3, GotoBusy, ReturnBusy DEF GetShareInfoFromRedis, At
  <2> QED BY <1>3, <2>1, <2>2 DEF GetShareInfoFromRedis, TypeOK
<1>4. CASE FindShare(t)
  <2>1. req[t] \in Request /\ req[t].s \in made /\ made' = made
    BY <1>4 DEF FindShare, At, Busy, TypeOK
  <2>2. req' \in [Threads -> Request] /\ Busy'
    <3>1. CASE Return(t)
      BY <2>1, <3>1, ReturnType, ReturnBusy
    <3>2. CASE req' = [req EXCEPT ![t].pc = "url", ![t].found = req[t].s \in shares]
      <4> DEFINE b == req[t].s \in shares
                 q == [req[t] EXCEPT !.pc = "url", !.found = b]
      <4>1. req' = [req EXCEPT ![t] = q]
        BY <3>2
      <4>2. b \in BOOLEAN
        OBVIOUS
      <4> HIDE DEF b
      <4>3. q \in Request /\ q.s = req[t].s
        BY <2>1, <4>2 DEF Request, Views
      <4> HIDE DEF q
      <4> QED BY <2>1, <4>1, <4>3, PutType
    <3> QED BY <1>4, <3>1, <3>2 DEF FindShare
  <2> QED BY <1>4, <2>2 DEF FindShare, TypeOK
<1>5. CASE DownloadURL(t)
  <2>1. req[t] \in Request /\ req[t].s \in made /\ made' = made /\ ~At(t, "idle")
    BY <1>5 DEF DownloadURL, At, Busy, TypeOK
  <2>2. req' \in [Threads -> Request] /\ Busy'
    <3>1. CASE Goto(t, "score")
      BY <2>1, <3>1, GotoType, GotoBusy DEF Views
    <3>2. CASE req' = [req EXCEPT ![t].pc = "rank", ![t].url = TRUE]
      <4> DEFINE q == [req[t] EXCEPT !.pc = "rank", !.url = TRUE]
      <4>1. q \in Request /\ q.s = req[t].s
        BY <2>1 DEF Request, Views
      <4>2. req' = [req EXCEPT ![t] = q]
        BY <3>2
      <4> HIDE DEF q
      <4> QED BY <2>1, <4>1, <4>2, PutType
    <3> QED BY <1>5, <3>1, <3>2 DEF DownloadURL
  <2> QED BY <1>5, <2>1, <2>2 DEF DownloadURL, TypeOK
<1>6. CASE DailyViewCount(t)
  <2>1. req' \in [Threads -> Request]
    BY <1>6, GotoType DEF DailyViewCount, Views
  <2>2. Busy'
    BY <1>6, GotoBusy DEF DailyViewCount, At
  <2> QED BY <1>6, <2>1, <2>2 DEF DailyViewCount, TypeOK
<1>7. CASE LeaveRank(t)
  <2>1. req' \in [Threads -> Request]
    BY <1>7, GotoType DEF LeaveRank, Views
  <2>2. Busy'
    BY <1>7, GotoBusy DEF LeaveRank, At
  <2> QED BY <1>7, <2>1, <2>2 DEF LeaveRank, TypeOK
<1>8. CASE SetEmptyShare(t)
  <2>1. req' \in [Threads -> Request]
    BY <1>8, GotoType DEF SetEmptyShare, Views
  <2>2. Busy'
    BY <1>8, GotoBusy DEF SetEmptyShare, At
  <2>3. req[t].s \in made
    BY <1>8 DEF SetEmptyShare, At, Busy
  <2> QED BY <1>8, <2>1, <2>2, <2>3 DEF SetEmptyShare, TypeOK
<1>9. CASE IsPopular(t)
  <2>1. req' \in [Threads -> Request]
    BY <1>9, GotoType, CountOrReturnType DEF IsPopular, Views
  <2>2. Busy'
    BY <1>9, GotoBusy, CountOrReturnBusy DEF IsPopular, At
  <2> QED BY <1>9, <2>1, <2>2 DEF IsPopular, TypeOK
<1>10. CASE IsSaved(t)
  <2>1. CASE CountOrReturn(t) /\ UNCHANGED pipe
    <3>1. req' \in [Threads -> Request] /\ Busy'
      BY <1>10, <2>1, CountOrReturnType, CountOrReturnBusy DEF IsSaved, At
    <3> QED BY <1>10, <2>1, <3>1 DEF IsSaved, TypeOK
  <2>2. CASE /\ Goto(t, "save")
             /\ pipe' = [pipe EXCEPT ![t] = [s |-> req[t].s, url |-> req[t].url, next |-> 1]]
    <3>1. req' \in [Threads -> Request] /\ Busy'
      BY <1>10, <2>2, GotoType, GotoBusy DEF IsSaved, At, Views
    <3>2. [s |-> req[t].s, url |-> req[t].url, next |-> 1] \in Pipeline
      <4>1. req[t].s \in Shares /\ req[t].url \in BOOLEAN
        BY <1>10 DEF IsSaved, At, Busy, TypeOK, Request
      <4> QED BY <4>1 DEF Pipeline
    <3>3. pipe' \in [Threads -> Pipeline \cup {None}]
      BY <2>2, <3>2 DEF TypeOK
    <3> QED BY <1>10, <3>1, <3>3 DEF IsSaved, TypeOK
  <2> QED BY <1>10, <2>1, <2>2 DEF IsSaved
<1>11. CASE EndSave(t)
  <2>1. req' \in [Threads -> Request]
    BY <1>11, CountOrReturnType DEF EndSave
  <2>2. Busy'
    BY <1>11, CountOrReturnBusy DEF EndSave, At
  <2> QED BY <1>11, <2>1, <2>2 DEF EndSave, TypeOK
<1>12. CASE AddViewCount(t)
  <2>1. req' \in [Threads -> Request]
    BY <1>12, GotoType DEF AddViewCount, Views
  <2>2. Busy'
    BY <1>12, GotoBusy DEF AddViewCount, At
  <2>3. req[t].s \in Shares
    BY <1>12 DEF AddViewCount, At, Busy, TypeOK
  <2> QED BY <1>12, <2>1, <2>2, <2>3 DEF AddViewCount, TypeOK
<1>13. CASE AddDailyView(t)
  <2>1. req' \in [Threads -> Request]
    BY <1>13, ReturnType DEF AddDailyView
  <2>2. Busy'
    BY <1>13, ReturnBusy DEF AddDailyView
  <2>3. req[t].s \in Shares
    BY <1>13 DEF AddDailyView, At, Busy, TypeOK
  <2> QED BY <1>13, <2>1, <2>2, <2>3 DEF AddDailyView, TypeOK
<1> QED BY <1>1, <1>2, <1>3, <1>4, <1>5, <1>6, <1>7, <1>8, <1>9, <1>10, <1>11, <1>12, <1>13
        DEF ViewStep

LEMMA DeleteType ==
  ASSUME TypeInv, NEW t \in Threads, DeleteStep(t)
  PROVE  TypeOK' /\ Busy'
<1> USE DEF TypeInv, tables, redis, history, errors
<1>1. CASE FindOwned(t)
  <2>1. req' \in [Threads -> Request]
    BY <1>1, GotoType, ReturnType DEF FindOwned, Deletes
  <2>2. Busy'
    BY <1>1, GotoBusy, ReturnBusy DEF FindOwned, At
  <2> QED BY <1>1, <2>1, <2>2 DEF FindOwned, TypeOK
<1>2. CASE LeaveRankFor(t)
  <2>1. req' \in [Threads -> Request]
    BY <1>2, GotoType DEF LeaveRankFor, Deletes
  <2>2. Busy'
    BY <1>2, GotoBusy DEF LeaveRankFor, At
  <2> QED BY <1>2, <2>1, <2>2 DEF LeaveRankFor, TypeOK
<1>3. CASE DeleteInfo(t)
  <2>1. req' \in [Threads -> Request]
    BY <1>3, GotoType DEF DeleteInfo, Deletes
  <2>2. Busy'
    BY <1>3, GotoBusy DEF DeleteInfo, At
  <2> QED BY <1>3, <2>1, <2>2 DEF DeleteInfo, TypeOK
<1>4. CASE DeleteRow(t)
  <2>1. req' \in [Threads -> Request]
    BY <1>4, GotoType, ReturnType DEF DeleteRow, Deletes
  <2>2. Busy'
    BY <1>4, GotoBusy, ReturnBusy DEF DeleteRow, At
  <2> QED BY <1>4, <2>1, <2>2 DEF DeleteRow, TypeOK
<1>5. CASE EndDelete(t)
  <2>1. req' \in [Threads -> Request]
    BY <1>5, ReturnType DEF EndDelete
  <2>2. Busy'
    BY <1>5, ReturnBusy DEF EndDelete
  <2>3. req[t].s \in made
    BY <1>5 DEF EndDelete, At, Busy
  <2> QED BY <1>5, <2>1, <2>2, <2>3 DEF EndDelete, TypeOK
<1> QED BY <1>1, <1>2, <1>3, <1>4, <1>5 DEF DeleteStep

\* A command, or the loss of those that are left, moves one pipeline on.
LEMMA PipeType ==
  ASSUME TypeInv, NEW t \in Threads, PipeStep(t)
  PROVE  TypeOK' /\ Busy'
<1> USE DEF TypeInv, tables, redis, history, errors
<1>1. pipe[t] \in Pipeline /\ pipe[t].s \in Shares /\ pipe[t].next \in 1..3
  BY PipelineType DEF PipeStep, SaveShareInfoToRedis, LosePipeline, Pipeline
<1>2. Busy'
  BY DEF PipeStep, SaveShareInfoToRedis, LosePipeline, Busy, At
<1>3. CASE SaveShareInfoToRedis(t)
  <2> DEFINE p == pipe[t]
             f == Fields[p.next]
             b == f = "Title" \/ p.url
  <2>1. info' \in [Shares -> SUBSET Field]
    <3>1. f \in Field /\ b \in BOOLEAN
      BY <1>1, FieldsAre DEF Pipeline
    <3>2. info' = [info EXCEPT ![p.s] = IF b THEN @ \cup {f} ELSE @ \ {f}]
      BY <1>3 DEF SaveShareInfoToRedis, Set
    <3> HIDE DEF b, f, p
    <3> QED BY <3>1, <3>2, InfoType
  <2>2. pipe' \in [Threads -> Pipeline \cup {None}]
    <3>1. p.next # 3 => [p EXCEPT !.next = @ + 1] \in Pipeline
      BY <1>1 DEF Pipeline
    <3> QED BY <1>3, <3>1 DEF SaveShareInfoToRedis, TypeOK
  <2> QED BY <1>2, <1>3, <2>1, <2>2 DEF SaveShareInfoToRedis, TypeOK
<1>4. CASE LosePipeline(t)
  BY <1>1, <1>2, <1>4 DEF LosePipeline, TypeOK
<1> QED BY <1>3, <1>4 DEF PipeStep

LEMMA CrashType == TypeInv /\ Crash => TypeOK' /\ Busy'
<1> SUFFICES ASSUME TypeInv, Crash PROVE TypeOK' /\ Busy'
  OBVIOUS
<1>1. Idle \in Request
  BY DEF Idle, Request
<1> QED BY <1>1 DEF TypeInv, TypeOK, Crash, Busy, At, Idle, tables, redis, history, errors

\* Only a view sends a pipeline, and only the pipeline itself moves on.
LEMMA PipesStep ==
  ASSUME [Next]_vars
  PROVE  pipe' = pipe \/ \E t \in Threads : IsSaved(t) \/ PipeStep(t)
BY DEF Next, vars, CreateShare, DeleteFile, GetShareInfo, DeleteShare, ShareDelete, ViewStep,
   CheckRedisExistsShare, AnswerEmpty, GetShareInfoFromRedis, FindShare, DownloadURL,
   DailyViewCount, LeaveRank, SetEmptyShare, IsPopular, EndSave, AddViewCount, AddDailyView,
   DeleteStep, FindOwned, LeaveRankFor, DeleteInfo, DeleteRow, EndDelete, RestartDailyRank, Crash

\* A pipeline is new, or was there with the same share and link.
LEMMA PipeStays ==
  ASSUME TypeInv, [Next]_vars, NEW x \in Threads, pipe'[x] # None
  PROVE  \/ /\ pipe[x] # None
            /\ pipe'[x].s = pipe[x].s /\ pipe'[x].url = pipe[x].url
         \/ /\ IsSaved(x) /\ pipe[x] = None
            /\ pipe'[x] = [s |-> req[x].s, url |-> req[x].url, next |-> 1]
<1> DEFINE Stays == pipe[x] # None /\ pipe'[x].s = pipe[x].s /\ pipe'[x].url = pipe[x].url
<1>1. CASE pipe'[x] = pipe[x]
  BY <1>1
<1>2. CASE IsSaved(x) /\ pipe'[x] # pipe[x]
  BY <1>2 DEF IsSaved, TypeInv, TypeOK
<1>3. CASE PipeStep(x)
  <2>1. SaveShareInfoToRedis(x)
    BY <1>3 DEF PipeStep, LosePipeline, TypeInv, TypeOK
  <2>2. pipe'[x] = [pipe[x] EXCEPT !.next = pipe[x].next + 1] /\ pipe[x] \in Pipeline
    BY <2>1, PipelineType DEF SaveShareInfoToRedis, TypeInv, TypeOK
  <2> QED BY <2>1, <2>2 DEF Pipeline, SaveShareInfoToRedis
<1>4. ASSUME NEW t \in Threads, t # x, IsSaved(t) \/ PipeStep(t) PROVE pipe'[x] = pipe[x]
  BY <1>4 DEF IsSaved, PipeStep, SaveShareInfoToRedis, LosePipeline, TypeInv, TypeOK
<1> QED BY <1>1, <1>2, <1>3, <1>4, PipesStep

\* What one pipeline does leaves the others alone.
LEMMA PipeAlone ==
  ASSUME TypeInv, NEW t \in Threads, PipeStep(t)
  PROVE  \A x \in Threads \ {t} : pipe'[x] = pipe[x]
BY DEF PipeStep, SaveShareInfoToRedis, LosePipeline, TypeInv, TypeOK

LEMMA TypeNext == TypeInv /\ [Next]_vars => TypeInv'
<1> SUFFICES ASSUME TypeInv, [Next]_vars PROVE TypeInv'
  OBVIOUS
<1> USE DEF tables, redis, history, errors
<1> DEFINE Typed == TypeOK' /\ Busy'
<1>1. ASSUME UNCHANGED vars PROVE Typed
  BY <1>1 DEF TypeInv, vars, TypeOK, Busy, At
<1>2. ASSUME NEW s \in Shares, NEW hasFile \in BOOLEAN, CreateShare(s, hasFile)
      PROVE  Typed
  BY <1>2 DEF TypeInv, CreateShare, TypeOK, Busy, At
<1>3. ASSUME NEW s \in Shares, DeleteFile(s) PROVE Typed
  BY <1>3 DEF TypeInv, DeleteFile, TypeOK, Busy, At
<1>4. ASSUME RestartDailyRank PROVE Typed
  BY <1>4 DEF TypeInv, RestartDailyRank, TypeOK, Busy, At
<1>5. Typed
  <2> HIDE DEF Typed
  <2> QED BY <1>1, <1>2, <1>3, <1>4, CrashType, RequestsType, ViewType, PipeType, DeleteType
          DEF Next, Typed
<1>6. made \subseteq made'
  BY DEF Next, vars, CreateShare, DeleteFile, GetShareInfo, DeleteShare, ShareDelete, ViewStep,
     CheckRedisExistsShare, AnswerEmpty, GetShareInfoFromRedis, FindShare, DownloadURL,
     DailyViewCount, LeaveRank, SetEmptyShare, IsPopular, IsSaved, EndSave, AddViewCount,
     AddDailyView, PipeStep, SaveShareInfoToRedis, LosePipeline, DeleteStep, FindOwned,
     LeaveRankFor, DeleteInfo, DeleteRow, EndDelete, RestartDailyRank, Crash
<1>7. Sends'
  <2> SUFFICES ASSUME NEW x \in Threads, pipe'[x] # None PROVE pipe'[x].s \in made
    BY <1>6 DEF Sends
  <2>1. CASE pipe[x] # None /\ pipe'[x].s = pipe[x].s
    BY <2>1 DEF TypeInv, Sends
  <2>2. CASE IsSaved(x) /\ pipe'[x] = [s |-> req[x].s, url |-> req[x].url, next |-> 1]
    BY <2>2 DEF IsSaved, At, TypeInv, Busy
  <2> QED BY <2>1, <2>2, PipeStays
<1> QED BY <1>5, <1>7 DEF TypeInv, Typed

\* The tables, Redis and the requests' local variables stay well typed.
THEOREM TypeCorrect == Spec => []TypeOK
<1>1. Init => TypeInv
  BY InitType DEF Init, TypeInv, Busy, Sends, At, Idle
<1>2. TypeInv => TypeOK
  BY DEF TypeInv
<1> QED BY <1>1, <1>2, TypeNext, PTL DEF Spec

-----------------------------------------------------------------------------
(* What a view knows of its share *)

Gone(s) == s \in made /\ (s \notin shares \cap stored \/ s \in unlinked)

\* A view that found no row, no file or no link is right for ever after; so is a
\* delete that has deleted the row.
Known(q) ==
  /\ q.url => q.found
  /\ q.pc \in {"known", "row"} => ~q.url
  /\ q.pc = "url" /\ ~q.found => Gone(q.s)
  /\ q.pc \in {"score", "zrem", "sadd"} => Gone(q.s)
  /\ q.pc \in {"rank", "owner"} /\ ~q.url => Gone(q.s)
  /\ q.pc \in {"zrem2", "del2"} => q.s \notin shares

AllKnown == \A t \in Threads : Known(req[t])

\* A pipeline without a link is that of a lost share.
Right == \A t \in Threads : pipe[t] # None => pipe[t].url \/ Gone(pipe[t].s)

\* Shares are made once: what is gone does not come back.
Forward ==
  /\ made \subseteq made' /\ unlinked \subseteq unlinked' /\ broken \subseteq broken'
  /\ shares' \cap made \subseteq shares /\ stored' \cap made \subseteq stored

LEMMA Onward == TypeInv /\ [Next]_vars => Forward
<1> SUFFICES ASSUME TypeInv, [Next]_vars PROVE Forward
  OBVIOUS
<1> USE DEF Forward, tables, redis, history, errors
<1>1. CASE UNCHANGED vars
  BY <1>1 DEF vars
<1>2. ASSUME NEW s \in Shares, NEW hasFile \in BOOLEAN, CreateShare(s, hasFile) PROVE Forward
  BY <1>2 DEF CreateShare
<1>3. ASSUME NEW s \in Shares, DeleteFile(s) PROVE Forward
  BY <1>3 DEF DeleteFile
<1>4. ASSUME NEW t \in Threads, NEW s \in Shares,
             GetShareInfo(t, s) \/ DeleteShare(t, s) \/ ShareDelete(t, s)
      PROVE  Forward
  BY <1>4 DEF GetShareInfo, DeleteShare, ShareDelete
<1>5. ASSUME NEW t \in Threads, ViewStep(t) PROVE Forward
  BY <1>5 DEF ViewStep, CheckRedisExistsShare, AnswerEmpty, GetShareInfoFromRedis, FindShare,
       DownloadURL, DailyViewCount, LeaveRank, SetEmptyShare, IsPopular, IsSaved,
       EndSave, AddViewCount, AddDailyView
<1>9. ASSUME NEW t \in Threads, PipeStep(t) PROVE Forward
  BY <1>9 DEF PipeStep, SaveShareInfoToRedis, LosePipeline
<1>6. ASSUME NEW t \in Threads, DeleteStep(t) PROVE Forward
  BY <1>6 DEF DeleteStep, FindOwned, LeaveRankFor, DeleteInfo, DeleteRow, EndDelete
<1>7. CASE RestartDailyRank
  BY <1>7 DEF RestartDailyRank
<1>8. CASE Crash
  BY <1>8 DEF Crash
<1> QED BY <1>1, <1>2, <1>3, <1>4, <1>5, <1>6, <1>7, <1>8, <1>9 DEF Next

LEMMA GoneStays == ASSUME Forward, NEW s, Gone(s) PROVE Gone(s)'
BY DEF Forward, Gone

LEMMA KnownStays ==
  ASSUME Forward, NEW q, q.pc = "idle" \/ q.s \in made, Known(q)
  PROVE  Known(q)'
BY GoneStays DEF Known, Forward

LEMMA OthersKnown ==
  ASSUME TypeInv, AllKnown, Forward, NEW t \in Threads,
         \A x \in Threads \ {t} : req'[x] = req[x], Known(req[t])'
  PROVE  AllKnown'
<1> SUFFICES ASSUME NEW x \in Threads, x # t PROVE Known(req[x])'
  BY DEF AllKnown
<1>1. req[x].pc = "idle" \/ req[x].s \in made
  BY DEF TypeInv, Busy, At
<1>2. Known(req[x]) /\ req'[x] = req[x]
  BY DEF AllKnown
<1> QED BY <1>1, <1>2, KnownStays

\* Steps of a request change its own locals, to a record given by the step.
LEMMA ReturnKnown ==
  ASSUME TypeInv, AllKnown, Forward, NEW t \in Threads, Return(t)
  PROVE  AllKnown'
<1>1. req'[t] = Idle /\ \A x \in Threads \ {t} : req'[x] = req[x]
  BY DEF TypeInv, TypeOK, Return
<1>2. Known(req[t])'
  BY <1>1 DEF Known, Idle
<1> QED BY <1>1, <1>2, OthersKnown

LEMMA StartKnown ==
  ASSUME TypeInv, AllKnown, Forward, NEW t \in Threads,
         NEW pc \in {"known", "marked", "find", "delete"}, NEW s, Start(t, pc, s)
  PROVE  AllKnown'
<1>1. req'[t] = [Idle EXCEPT !.pc = pc, !.s = s] /\ \A x \in Threads \ {t} : req'[x] = req[x]
  BY DEF TypeInv, TypeOK, Start
<1>2. Known(req[t])'
  BY <1>1 DEF Known, Idle
<1> QED BY <1>1, <1>2, OthersKnown

LEMMA GotoKnown ==
  ASSUME TypeInv, AllKnown, Forward, NEW t \in Threads, NEW pc, Goto(t, pc),
         NEW q, q = req[t],
         pc # "url", pc # "known", pc = "row" => ~q.url,
         pc \in {"score", "zrem", "sadd"} => Gone(q.s)',
         pc \in {"rank", "owner"} => q.url \/ Gone(q.s)',
         pc \in {"zrem2", "del2"} => q.s \notin shares'
  PROVE  AllKnown'
<1>1. req'[t] = [q EXCEPT !.pc = pc] /\ \A x \in Threads \ {t} : req'[x] = req[x]
  BY DEF TypeInv, TypeOK, Goto
<1>2. q \in Request /\ Known(q)
  BY DEF TypeInv, TypeOK, AllKnown
<1> DEFINE p == [q EXCEPT !.pc = pc]
<1>3. p.pc = pc /\ p.s = q.s /\ p.url = q.url /\ p.found = q.found
  BY <1>2 DEF Request
<1>4. Known(p)'
  <2> HIDE DEF p
  <2> QED BY <1>2, <1>3 DEF Known
<1>5. Known(req[t])'
  BY <1>1, <1>4 DEF p
<1> QED BY <1>1, <1>5, OthersKnown

LEMMA CountOrReturnKnown ==
  ASSUME TypeInv, AllKnown, Forward, NEW t \in Threads, CountOrReturn(t)
  PROVE  AllKnown'
BY GotoKnown, ReturnKnown DEF CountOrReturn

LEMMA ViewKnown ==
  ASSUME TypeInv, AllKnown, Forward, NEW t \in Threads, ViewStep(t), NEW q, q = req[t]
  PROVE  AllKnown'
<1>1. q \in Request /\ Known(q) /\ (q.pc = "idle" \/ q.s \in made)
  BY DEF TypeInv, TypeOK, AllKnown, Busy, At
<1>2. CASE CheckRedisExistsShare(t)
  BY <1>1, <1>2, GotoKnown DEF CheckRedisExistsShare, Known, At
<1>3. CASE AnswerEmpty(t)
  BY <1>3, GotoKnown, ReturnKnown DEF AnswerEmpty
<1>4. CASE GetShareInfoFromRedis(t)
  BY <1>4, GotoKnown, ReturnKnown DEF GetShareInfoFromRedis
<1>5. CASE FindShare(t)
  <2>1. CASE Return(t)
    BY <2>1, ReturnKnown
  <2>2. CASE req' = [req EXCEPT ![t].pc = "url", ![t].found = req[t].s \in shares]
    <3>1. req'[t] = [q EXCEPT !.pc = "url", !.found = (q.s \in shares)]
          /\ \A x \in Threads \ {t} : req'[x] = req[x]
      BY <2>2 DEF TypeInv, TypeOK
    <3>2. req'[t].s = q.s /\ req'[t].pc = "url" /\ req'[t].url = q.url
          /\ (req'[t].found <=> q.s \in shares)
      BY <1>1, <3>1 DEF Request
    <3>3. ~q.url
      BY <1>1, <1>5 DEF FindShare, At, Known
    <3>4. Known(req[t])'
      BY <1>1, <1>5, <3>2 DEF Known, Gone, FindShare, At, tables, history
    <3> QED BY <3>1, <3>4, OthersKnown
  <2> QED BY <1>5, <2>1, <2>2 DEF FindShare
<1>6. CASE DownloadURL(t)
  <2>1. ~At(t, "idle") /\ q.s \in made
    BY <1>1, <1>6 DEF DownloadURL, At
  <2>2. CASE Goto(t, "score") /\ (q.s \in unlinked' \/ ~(q.found /\ q.s \in stored))
    <3>1. made' = made /\ stored' = stored /\ shares' = shares
      BY <1>6 DEF DownloadURL, tables
    <3>2. Gone(q.s)'
      <4>1. CASE q.s \in unlinked'
        BY <2>1, <3>1, <4>1 DEF Gone
      <4>2. CASE ~q.found
        <5>1. Gone(q.s)
          BY <1>1, <1>6, <4>2 DEF Known, DownloadURL, At
        <5> QED BY <5>1, GoneStays
      <4>3. CASE q.s \notin stored
        BY <2>1, <3>1, <4>3 DEF Gone
      <4> QED BY <2>2, <4>1, <4>2, <4>3
    <3> QED BY <2>2, <3>2, GotoKnown
  <2>3. CASE /\ q.found /\ q.s \in stored
             /\ req' = [req EXCEPT ![t].pc = "rank", ![t].url = TRUE]
    <3>1. req'[t] = [q EXCEPT !.pc = "rank", !.url = TRUE]
          /\ \A x \in Threads \ {t} : req'[x] = req[x]
      BY <2>3 DEF TypeInv, TypeOK
    <3>2. req'[t].pc = "rank" /\ req'[t].url = TRUE /\ req'[t].found = q.found
      BY <1>1, <3>1 DEF Request
    <3>3. Known(req[t])'
      BY <2>3, <3>2 DEF Known
    <3> QED BY <3>1, <3>3, OthersKnown
  <2> QED BY <1>6, <2>2, <2>3 DEF DownloadURL
<1>7. CASE DailyViewCount(t)
  <2>1. Gone(q.s)'
    BY <1>1, <1>7, GoneStays DEF DailyViewCount, At, Known
  <2> QED BY <1>7, <2>1, GotoKnown DEF DailyViewCount
<1>8. CASE LeaveRank(t)
  <2>1. Gone(q.s)'
    BY <1>1, <1>8, GoneStays DEF LeaveRank, At, Known
  <2> QED BY <1>8, <2>1, GotoKnown DEF LeaveRank
<1>9. CASE SetEmptyShare(t)
  <2>1. Gone(q.s)'
    BY <1>1, <1>9, GoneStays DEF SetEmptyShare, At, Known
  <2> QED BY <1>9, <2>1, GotoKnown DEF SetEmptyShare
<1>10. CASE IsPopular(t)
  <2>1. q.url \/ Gone(q.s)'
    BY <1>1, <1>10, GoneStays DEF IsPopular, At, Known
  <2> QED BY <1>10, <2>1, GotoKnown, CountOrReturnKnown DEF IsPopular
<1>11. CASE IsSaved(t)
  BY <1>11, GotoKnown, CountOrReturnKnown DEF IsSaved
<1>12. CASE EndSave(t)
  BY <1>12, CountOrReturnKnown DEF EndSave
<1>13. CASE AddViewCount(t)
  BY <1>13, GotoKnown DEF AddViewCount
<1>14. CASE AddDailyView(t)
  BY <1>14, ReturnKnown DEF AddDailyView
<1> QED BY <1>2, <1>3, <1>4, <1>5, <1>6, <1>7, <1>8, <1>9, <1>10, <1>11, <1>12, <1>13, <1>14
        DEF ViewStep

LEMMA DeleteKnown ==
  ASSUME TypeInv, AllKnown, Forward, NEW t \in Threads, DeleteStep(t), NEW q, q = req[t]
  PROVE  AllKnown'
<1>1. Known(q) /\ (q.pc = "idle" \/ q.s \in made)
  BY DEF TypeInv, TypeOK, AllKnown, Busy, At
<1>2. CASE FindOwned(t)
  BY <1>2, GotoKnown, ReturnKnown DEF FindOwned
<1>3. CASE LeaveRankFor(t)
  <2>1. CASE At(t, "zrem1")
    BY <1>3, <2>1, GotoKnown DEF LeaveRankFor
  <2>2. CASE At(t, "zrem2")
    <3>1. q.s \notin shares'
      BY <1>1, <1>3, <2>2 DEF LeaveRankFor, At, Known, tables
    <3> QED BY <1>3, <2>2, <3>1, GotoKnown DEF LeaveRankFor, At
  <2> QED BY <1>3, <2>1, <2>2 DEF LeaveRankFor, At
<1>4. CASE DeleteInfo(t)
  BY <1>4, GotoKnown DEF DeleteInfo
<1>5. CASE DeleteRow(t)
  <2>1. CASE Return(t)
    BY <2>1, ReturnKnown
  <2>2. CASE shares' = shares \ {q.s} /\ Goto(t, "zrem2")
    BY <2>2, GotoKnown
  <2> QED BY <1>5, <2>1, <2>2 DEF DeleteRow
<1>6. CASE EndDelete(t)
  BY <1>6, ReturnKnown DEF EndDelete
<1> QED BY <1>2, <1>3, <1>4, <1>5, <1>6 DEF DeleteStep

LEMMA KnownNext == TypeInv /\ AllKnown /\ [Next]_vars => AllKnown'
<1> SUFFICES ASSUME TypeInv, AllKnown, [Next]_vars PROVE AllKnown'
  OBVIOUS
<1>1. Forward
  BY Onward
<1>2. CASE UNCHANGED req
  <2> SUFFICES ASSUME NEW t \in Threads PROVE Known(req[t])'
    BY DEF AllKnown
  <2>1. Known(req[t]) /\ (req[t].pc = "idle" \/ req[t].s \in made) /\ req'[t] = req[t]
    BY <1>2 DEF AllKnown, TypeInv, Busy, At
  <2> QED BY <1>1, <2>1, KnownStays
<1>3. ASSUME NEW t \in Threads, NEW s \in Shares,
             GetShareInfo(t, s) \/ DeleteShare(t, s) \/ ShareDelete(t, s)
      PROVE  AllKnown'
  BY <1>1, <1>3, StartKnown DEF GetShareInfo, DeleteShare, ShareDelete
<1>4. CASE Crash
  <2> SUFFICES ASSUME NEW t \in Threads PROVE Known(req[t])'
    BY DEF AllKnown
  <2> QED BY <1>4 DEF Crash, Known, Idle
<1> QED BY <1>1, <1>2, <1>3, <1>4, ViewKnown, DeleteKnown
        DEF Next, vars, CreateShare, DeleteFile, PipeStep, SaveShareInfoToRedis, LosePipeline,
        RestartDailyRank

\* A view sends what it knows, and what is sent stays right.
LEMMA RightNext == TypeInv /\ AllKnown /\ Right /\ [Next]_vars => Right'
<1> SUFFICES ASSUME TypeInv, AllKnown, Right, [Next]_vars, NEW x \in Threads, NEW p,
                    p = pipe'[x], p # None
             PROVE  p.url \/ Gone(p.s)'
  BY DEF Right
<1>1. Forward
  BY Onward
<1>2. CASE pipe[x] # None /\ p.s = pipe[x].s /\ p.url = pipe[x].url
  <2>1. p.url \/ Gone(p.s)
    BY <1>2 DEF Right
  <2> QED BY <1>1, <2>1, GoneStays
<1>3. CASE IsSaved(x) /\ p = [s |-> req[x].s, url |-> req[x].url, next |-> 1]
  <2>1. req[x].url \/ Gone(req[x].s)
    BY <1>3 DEF IsSaved, At, AllKnown, Known
  <2>2. p.url \/ Gone(p.s)
    BY <1>3, <2>1
  <2> QED BY <1>1, <2>2, GoneStays
<1> QED BY <1>2, <1>3, PipeStays

-----------------------------------------------------------------------------
(* Marks *)

Marked == \A s \in empty : Gone(s)

LEMMA MarkedNext == TypeInv /\ AllKnown /\ Marked /\ [Next]_vars => Marked'
<1> SUFFICES ASSUME TypeInv, AllKnown, Marked, [Next]_vars PROVE Marked'
  OBVIOUS
<1>1. Forward
  BY Onward
<1>2. CASE empty' = empty
  BY <1>1, <1>2, GoneStays DEF Marked
<1>3. ASSUME NEW t \in Threads, SetEmptyShare(t) PROVE Marked'
  <2>1. Gone(req[t].s)
    BY <1>3 DEF AllKnown, Known, SetEmptyShare, At
  <2>2. \A s \in empty' : Gone(s)
    BY <1>3, <2>1 DEF SetEmptyShare, Marked
  <2> QED BY <1>1, <2>2, GoneStays DEF Marked
<1> QED
  BY <1>2, <1>3 DEF Next, vars, tables, redis, history, CreateShare, DeleteFile, GetShareInfo,
     DeleteShare, ShareDelete, ViewStep, CheckRedisExistsShare, AnswerEmpty,
     GetShareInfoFromRedis, FindShare, DownloadURL, DailyViewCount, LeaveRank, IsPopular,
     IsSaved, EndSave, AddViewCount, AddDailyView, PipeStep, SaveShareInfoToRedis, LosePipeline,
     DeleteStep, FindOwned, LeaveRankFor, DeleteInfo, DeleteRow, EndDelete, RestartDailyRank, Crash

LEMMA KnownInit == Init => TypeInv /\ AllKnown /\ Right /\ Marked
<1> SUFFICES ASSUME Init PROVE TypeInv /\ AllKnown /\ Right /\ Marked
  OBVIOUS
<1>1. TypeInv
  BY InitType DEF Init, TypeInv, Busy, Sends, At, Idle
<1>2. AllKnown
  BY DEF Init, AllKnown, Known, Idle
<1> QED BY <1>1, <1>2 DEF Init, Right, Marked

\* Whatever views, deletes, resets and crashes come in between: a share that is
\* marked as gone has lost its row or its file, or its link could not be asked for
\* (SetEmptyShare, which nothing takes back).
THEOREM MarkedIsGone == Spec => []EmptyIsGone
<1>1. Marked => EmptyIsGone
  BY DEF Marked, Gone, EmptyIsGone
<1> QED BY KnownInit, TypeNext, KnownNext, MarkedNext, <1>1, PTL DEF Spec

-----------------------------------------------------------------------------
(* Counters *)

\* The views that have been counted for ever and not yet for the day.
Pending(s) == {t \in Threads : At(t, "zincr") /\ req[t].s = s}

Counted == \A s \in Shares :
  /\ IsFiniteSet(Pending(s))
  /\ daily[s] + Cardinality(Pending(s)) <= views[s] + missed[s]

\* A step of a request that neither begins nor ends counting.
LEMMA OwnStep ==
  ASSUME TypeInv, NEW t \in Threads, ViewStep(t) \/ DeleteStep(t)
  PROVE  \A x \in Threads \ {t} : req'[x] = req[x]
BY DEF TypeInv, TypeOK, ViewStep, CheckRedisExistsShare, AnswerEmpty,
   GetShareInfoFromRedis, FindShare, DownloadURL, DailyViewCount, LeaveRank, SetEmptyShare,
   IsPopular, IsSaved, EndSave, AddViewCount, AddDailyView, DeleteStep, FindOwned,
   LeaveRankFor, DeleteInfo, DeleteRow, EndDelete, Goto, Return, CountOrReturn

LEMMA NotCounting ==
  ASSUME TypeInv, NEW t \in Threads, ViewStep(t) \/ DeleteStep(t),
         ~AddViewCount(t), ~AddDailyView(t)
  PROVE  ~At(t, "zincr") /\ ~At(t, "zincr")'
<1> DEFINE Ends == Return(t) \/ CountOrReturn(t)
<1>1. ASSUME NEW pc, pc # "zincr", Goto(t, pc) PROVE ~At(t, "zincr")'
  BY <1>1 DEF TypeInv, TypeOK, Goto, At
<1>2. Ends => ~At(t, "zincr")'
  <2>1. Return(t) => ~At(t, "zincr")'
    BY DEF TypeInv, TypeOK, Return, At, Idle
  <2> QED BY <1>1, <2>1 DEF CountOrReturn
<1>4. ASSUME FindShare(t) \/ DownloadURL(t) PROVE ~At(t, "zincr") /\ ~At(t, "zincr")'
  <2>1. ~At(t, "zincr") /\ req[t] \in Request
    BY <1>4 DEF FindShare, DownloadURL, TypeInv, TypeOK, At
  <2>2. CASE req' = [req EXCEPT ![t].pc = "url", ![t].found = req[t].s \in shares]
    <3>1. req'[t].pc = "url"
      BY <2>1, <2>2 DEF TypeInv, TypeOK, Request
    <3> QED BY <2>1, <3>1 DEF At
  <2>3. CASE req' = [req EXCEPT ![t].pc = "rank", ![t].url = TRUE]
    <3>1. req'[t].pc = "rank"
      BY <2>1, <2>3 DEF TypeInv, TypeOK, Request
    <3> QED BY <2>1, <3>1 DEF At
  <2> QED BY <1>1, <1>2, <1>4, <2>1, <2>2, <2>3 DEF FindShare, DownloadURL
<1>5. ASSUME ViewStep(t), ~FindShare(t), ~DownloadURL(t)
      PROVE  ~At(t, "zincr") /\ ~At(t, "zincr")'
  <2> HIDE DEF Ends
  <2>1. \/ Ends
        \/ \E pc \in {"marked", "row", "fetch", "incr", "score", "zrem", "rank", "sadd", "owner",
                     "save"} : Goto(t, pc)
    BY <1>5 DEF Ends, ViewStep, CheckRedisExistsShare, AnswerEmpty, GetShareInfoFromRedis,
       DailyViewCount, LeaveRank, SetEmptyShare, IsPopular, IsSaved, EndSave
  <2>2. ~At(t, "zincr")
    BY <1>5 DEF ViewStep, CheckRedisExistsShare, AnswerEmpty, GetShareInfoFromRedis,
       DailyViewCount, LeaveRank, SetEmptyShare, IsPopular, IsSaved, EndSave, At
  <2> QED BY <1>1, <1>2, <2>1, <2>2
<1>6. ASSUME DeleteStep(t) PROVE ~At(t, "zincr") /\ ~At(t, "zincr")'
  <2> HIDE DEF Ends
  <2>1. Ends \/ \E pc \in {"zrem1", "del1", "delete", "zrem2", "del2"} : Goto(t, pc)
    BY <1>6 DEF Ends, DeleteStep, FindOwned, LeaveRankFor, DeleteInfo, DeleteRow, EndDelete
  <2>2. ~At(t, "zincr")
    BY <1>6 DEF DeleteStep, FindOwned, LeaveRankFor, DeleteInfo, DeleteRow, EndDelete, At
  <2> QED BY <1>1, <1>2, <2>1, <2>2
<1> QED BY <1>4, <1>5, <1>6

\* The counters only move where they are meant to.
LEMMA Scores ==
  ASSUME TypeInv, NEW t \in Threads, ViewStep(t) \/ DeleteStep(t),
         ~AddViewCount(t), ~AddDailyView(t), NEW s \in Shares
  PROVE  views'[s] = views[s] /\ missed'[s] = missed[s] /\ daily'[s] <= daily[s]
<1>1. views' = views /\ missed' = missed
  BY DEF ViewStep, CheckRedisExistsShare, AnswerEmpty, GetShareInfoFromRedis, FindShare,
     DownloadURL, DailyViewCount, LeaveRank, SetEmptyShare, IsPopular, IsSaved, EndSave,
     DeleteStep, FindOwned, LeaveRankFor, DeleteInfo, DeleteRow, EndDelete, redis, history, errors
<1>2. daily' = daily \/ daily' = [daily EXCEPT ![req[t].s] = 0]
  BY DEF ViewStep, CheckRedisExistsShare, AnswerEmpty, GetShareInfoFromRedis, FindShare,
     DownloadURL, DailyViewCount, LeaveRank, SetEmptyShare, IsPopular, IsSaved, EndSave,
     DeleteStep, FindOwned, LeaveRankFor, DeleteInfo, DeleteRow, EndDelete, redis, history, errors
<1> QED BY <1>1, <1>2 DEF TypeInv, TypeOK

LEMMA SamePending ==
  ASSUME NEW t \in Threads, ~At(t, "zincr"), ~At(t, "zincr")', NEW s,
         \A x \in Threads \ {t} : req'[x] = req[x]
  PROVE  Pending(s)' = Pending(s)
BY DEF Pending, At

LEMMA CountedNext == TypeInv /\ Counted /\ [Next]_vars => Counted'
<1> SUFFICES ASSUME TypeInv, Counted, [Next]_vars, NEW s \in Shares
             PROVE  IsFiniteSet(Pending(s))' /\ (daily[s] + Cardinality(Pending(s)) <= views[s] + missed[s])'
  BY DEF Counted
<1> DEFINE n == Cardinality(Pending(s))
<1>1. /\ IsFiniteSet(Pending(s)) /\ n \in Nat /\ daily[s] + n <= views[s] + missed[s]
      /\ daily[s] \in Nat /\ views[s] \in Nat /\ missed[s] \in Nat
  BY FS_CardinalityType DEF Counted, TypeInv, TypeOK
<1>2. ASSUME Pending(s)' = Pending(s), views'[s] = views[s], missed'[s] = missed[s],
             daily'[s] <= daily[s], daily'[s] \in Nat
      PROVE  IsFiniteSet(Pending(s))' /\ (daily[s] + Cardinality(Pending(s)) <= views[s] + missed[s])'
  BY <1>1, <1>2
<1>3. daily'[s] \in Nat
  BY TypeNext DEF TypeInv, TypeOK
<1>4. CASE UNCHANGED <<views, missed, daily, req>>
  BY <1>1, <1>2, <1>4 DEF Pending, At
<1>5. CASE RestartDailyRank
  BY <1>1, <1>2, <1>5 DEF RestartDailyRank, Pending, At, history, errors
<1>6. CASE Crash
  <2>1. Pending(s)' = {}
    <3> SUFFICES ASSUME NEW t \in Threads PROVE ~At(t, "zincr")'
      BY DEF Pending
    <3> QED BY <1>6 DEF Crash, At, Idle
  <2>2. views' = views /\ missed' = missed /\ daily' = daily
    BY <1>6 DEF Crash, redis, history, errors
  <2>3. 0 + daily[s] <= views[s] + missed[s]
    BY <1>1
  <2> QED BY <1>1, <2>1, <2>2, <2>3, FS_EmptySet
<1>7. ASSUME NEW t \in Threads, NEW x \in Shares,
             GetShareInfo(t, x) \/ DeleteShare(t, x) \/ ShareDelete(t, x)
      PROVE  Pending(s)' = Pending(s) /\ views' = views /\ missed' = missed /\ daily' = daily
  <2>1. views' = views /\ missed' = missed /\ daily' = daily
    BY <1>7 DEF GetShareInfo, DeleteShare, ShareDelete, redis, history, errors
  <2>2. PICK pc \in {"known", "marked", "find", "delete"} : Start(t, pc, x)
    BY <1>7 DEF GetShareInfo, DeleteShare, ShareDelete
  <2>3. ~At(t, "zincr") /\ ~At(t, "zincr")' /\ \A y \in Threads \ {t} : req'[y] = req[y]
    BY <2>2 DEF Start, At, Idle, TypeInv, TypeOK
  <2> QED BY <2>1, <2>3, SamePending
<1>8. ASSUME NEW t \in Threads, ViewStep(t) \/ DeleteStep(t),
             ~AddViewCount(t), ~AddDailyView(t)
      PROVE  /\ Pending(s)' = Pending(s) /\ views'[s] = views[s] /\ missed'[s] = missed[s]
             /\ daily'[s] <= daily[s]
  BY <1>8, OwnStep, NotCounting, SamePending, Scores
<1>9. ASSUME NEW t \in Threads, AddViewCount(t)
      PROVE  IsFiniteSet(Pending(s))' /\ (daily[s] + Cardinality(Pending(s)) <= views[s] + missed[s])'
  <2>1. /\ req'[t] = [req[t] EXCEPT !.pc = "zincr"] /\ ~At(t, "zincr") /\ daily' = daily
        /\ \A x \in Threads \ {t} : req'[x] = req[x]
    BY <1>9 DEF AddViewCount, Goto, At, TypeInv, TypeOK
  <2>2. req[t] \in Request
    BY DEF TypeInv, TypeOK
  <2>3. req'[t].s = req[t].s /\ At(t, "zincr")'
    BY <2>1, <2>2 DEF Request, At
  <2>4. CASE req[t].s = s
    <3>1. Pending(s)' = Pending(s) \cup {t} /\ t \notin Pending(s)
      <4>1. t \in Pending(s)' /\ t \notin Pending(s)
        BY <2>1, <2>3, <2>4 DEF Pending
      <4>2. \A x \in Threads \ {t} : x \in Pending(s)' <=> x \in Pending(s)
        BY <2>1 DEF Pending, At
      <4> QED BY <4>1, <4>2 DEF Pending
    <3>2. views'[s] + missed'[s] = views[s] + missed[s] + 1
      BY <1>1, <1>9, <2>4 DEF AddViewCount, TypeInv, TypeOK
    <3>3. IsFiniteSet(Pending(s)') /\ Cardinality(Pending(s)') = n + 1
      BY <1>1, <3>1, FS_AddElement
    <3> QED BY <1>1, <2>1, <3>2, <3>3
  <2>5. CASE req[t].s # s
    <3>1. Pending(s)' = Pending(s)
      BY <2>1, <2>3, <2>5 DEF Pending, At
    <3>2. views'[s] = views[s] /\ missed'[s] = missed[s]
      BY <1>9, <2>5 DEF AddViewCount, TypeInv, TypeOK
    <3> QED BY <1>1, <1>2, <2>1, <3>1, <3>2
  <2> QED BY <2>4, <2>5
<1>10. ASSUME NEW t \in Threads, AddDailyView(t)
       PROVE  IsFiniteSet(Pending(s))' /\ (daily[s] + Cardinality(Pending(s)) <= views[s] + missed[s])'
  <2>1. /\ req'[t] = Idle /\ At(t, "zincr") /\ views' = views /\ missed' = missed
        /\ \A x \in Threads \ {t} : req'[x] = req[x]
    BY <1>10 DEF AddDailyView, Return, At, TypeInv, TypeOK, history, errors
  <2>2. ~At(t, "zincr")'
    BY <2>1 DEF At, Idle
  <2>3. CASE req[t].s = s
    <3>1. Pending(s)' = Pending(s) \ {t} /\ t \in Pending(s)
      BY <2>1, <2>2, <2>3 DEF Pending, At
    <3>2. daily'[s] = daily[s] + 1 \/ daily'[s] = daily[s]
      BY <1>10, <2>3 DEF AddDailyView, TypeInv, TypeOK
    <3>3. IsFiniteSet(Pending(s)') /\ Cardinality(Pending(s)') = n - 1
      BY <1>1, <3>1, FS_RemoveElement
    <3> QED BY <1>1, <2>1, <3>2, <3>3
  <2>4. CASE req[t].s # s
    <3>1. Pending(s)' = Pending(s)
      BY <2>1, <2>2, <2>4 DEF Pending, At
    <3>2. daily'[s] = daily[s]
      BY <1>10, <2>4 DEF AddDailyView, TypeInv, TypeOK
    <3> QED BY <1>1, <1>2, <2>1, <3>1, <3>2
  <2> QED BY <2>3, <2>4
<1> QED
  <2>1. CASE \E t \in Threads : ViewStep(t) \/ DeleteStep(t)
    BY <1>2, <1>3, <1>8, <1>9, <1>10, <2>1
  <2>2. CASE \E t \in Threads, x \in Shares :
               GetShareInfo(t, x) \/ DeleteShare(t, x) \/ ShareDelete(t, x)
    BY <1>1, <1>2, <1>7, <2>2
  <2>3. CASE \E x \in Shares : DeleteFile(x) \/ \E hasFile \in BOOLEAN : CreateShare(x, hasFile)
    BY <1>4, <2>3 DEF DeleteFile, CreateShare, redis, history, errors
  <2>4. CASE UNCHANGED vars
    BY <1>4, <2>4 DEF vars
  <2>5. ASSUME NEW t \in Threads, PipeStep(t) PROVE UNCHANGED <<views, missed, daily, req>>
    BY <2>5 DEF PipeStep, SaveShareInfoToRedis, LosePipeline, redis, history, errors
  <2> QED BY <1>4, <1>5, <1>6, <2>1, <2>2, <2>3, <2>4, <2>5 DEF Next

\* However views stop half way, calls fail and the board is begun anew: it never
\* shows more views than were counted or failed to be, since AddViewCount counts
\* for ever first and puts the view on the board whether or not that worked.
THEOREM BoardBehind == Spec => []RankBehindViews
<1>1. Init => Counted
  <2> SUFFICES ASSUME Init, NEW s \in Shares
               PROVE  IsFiniteSet(Pending(s)) /\ daily[s] + Cardinality(Pending(s)) <= views[s] + missed[s]
    BY DEF Counted
  <2>1. Pending(s) = {}
    BY DEF Init, Pending, At, Idle
  <2> QED BY <2>1, FS_EmptySet DEF Init
<1>2. TypeInv /\ Counted => RankBehindViews
  <2> SUFFICES ASSUME TypeInv, Counted, NEW s \in Shares
               PROVE  daily[s] <= views[s] + missed[s]
    BY DEF RankBehindViews
  <2>1. Cardinality(Pending(s)) \in Nat /\ daily[s] + Cardinality(Pending(s)) <= views[s] + missed[s]
    BY FS_CardinalityType DEF Counted
  <2> QED BY <2>1 DEF TypeInv, TypeOK
<1> QED BY KnownInit, TypeNext, CountedNext, <1>1, <1>2, PTL DEF Spec

-----------------------------------------------------------------------------
(* What is cached *)

\* Requests that begin are idle and change their own locals only.
LEMMA StartStep ==
  ASSUME TypeInv, NEW t \in Threads, NEW s,
         GetShareInfo(t, s) \/ DeleteShare(t, s) \/ ShareDelete(t, s)
  PROVE  /\ At(t, "idle") /\ \A x \in Threads \ {t} : req'[x] = req[x]
         /\ req'[t].found = FALSE
<1>1. PICK pc : Start(t, pc, s)
  BY DEF GetShareInfo, DeleteShare, ShareDelete
<1> QED BY <1>1 DEF Start, Idle, TypeInv, TypeOK

\* What Redis keeps of a share is set by pipelines and removed by deletes.
LEMMA InfoStep ==
  ASSUME TypeInv, [Next]_vars, NEW s \in Shares
  PROVE  \/ info'[s] = info[s] \/ info'[s] = {}
         \/ \E t \in Threads : SaveShareInfoToRedis(t) /\ Sent(t, s)
<1>1. CASE info' = info
  BY <1>1
<1>2. ASSUME NEW t \in Threads, DeleteInfo(t) \/ EndDelete(t)
      PROVE  info'[s] = info[s] \/ info'[s] = {}
  BY <1>2 DEF DeleteInfo, EndDelete, TypeInv, TypeOK
<1>3. ASSUME NEW t \in Threads, SaveShareInfoToRedis(t), ~Sent(t, s) PROVE info'[s] = info[s]
  BY <1>3 DEF SaveShareInfoToRedis, Sent, TypeInv, TypeOK
<1> QED
  BY <1>1, <1>2, <1>3 DEF Next, vars, tables, redis, history, ViewStep, CheckRedisExistsShare,
     AnswerEmpty, GetShareInfoFromRedis, FindShare, DownloadURL, DailyViewCount, LeaveRank,
     SetEmptyShare, IsPopular, IsSaved, EndSave, AddViewCount, AddDailyView, PipeStep,
     LosePipeline, DeleteStep, FindOwned, LeaveRankFor, DeleteRow, CreateShare, DeleteFile,
     GetShareInfo, DeleteShare, ShareDelete, RestartDailyRank, Crash

\* A pipeline on a share is about to send its n-th command.
Due(t, s, n) == Sent(t, s) /\ pipe[t].next = n

\* An owner without a title, or a title without a link, is that of a share that is
\* lost or had a pipeline cut short, or what it lacks is on its way.
Linked ==
  /\ \A s \in Shares \ made : info[s] = {}
  /\ \A s \in made :
       ~Gone(s) /\ s \notin broken
         => /\ "Owner" \in info[s] /\ "Title" \notin info[s] => \E t \in Threads : Due(t, s, 2)
            /\ "Title" \in info[s] /\ "downloadUrl" \notin info[s]
                 => \E t \in Threads : Due(t, s, 3)

\* What is due stays so until it is sent or lost.
LEMMA DueStays ==
  ASSUME TypeInv, [Next]_vars, NEW x \in Threads, NEW s, NEW n, Due(x, s, n),
         ~SaveShareInfoToRedis(x), s \notin broken'
  PROVE  Due(x, s, n)'
<1>1. (~LosePipeline(x) /\ ~IsSaved(x)) \/ pipe'[x] = pipe[x]
  BY DEF LosePipeline, IsSaved, Due, Sent
<1>2. ASSUME NEW t \in Threads, t # x, IsSaved(t) PROVE pipe'[x] = pipe[x]
  BY <1>2 DEF IsSaved, TypeInv, TypeOK
<1>3. pipe'[x] = pipe[x]
  BY <1>1, <1>2, PipesStep, PipeAlone DEF PipeStep
<1> QED BY <1>3 DEF Due, Sent

\* What a command sent with a link leaves, and the command after it.
LEMMA CommandStep ==
  ASSUME TypeInv, NEW t \in Threads, NEW s \in Shares, SaveShareInfoToRedis(t), Sent(t, s),
         NEW p, p = pipe[t], p.url
  PROVE  \/ Due(t, s, 1) /\ info'[s] = info[s] \cup {"Owner"} /\ Due(t, s, 2)'
         \/ Due(t, s, 2) /\ info'[s] = info[s] \cup {"Title"} /\ Due(t, s, 3)'
         \/ Due(t, s, 3) /\ info'[s] = info[s] \cup {"downloadUrl"}
<1>1. p \in Pipeline /\ p # None /\ p.s = s /\ p.url /\ p.next \in {1, 2, 3}
  BY PipelineType DEF TypeInv, Sent, Pipeline
<1>2. info'[s] = info[s] \cup {Fields[p.next]}
  BY <1>1 DEF SaveShareInfoToRedis, Set, TypeInv, TypeOK
<1>3. /\ p.next = 1 => Fields[p.next] = "Owner"
      /\ p.next = 2 => Fields[p.next] = "Title"
      /\ p.next = 3 => Fields[p.next] = "downloadUrl"
  BY DEF Fields
<1>4. p.next # 3 => Due(t, s, p.next + 1)'
  <2> DEFINE q == [p EXCEPT !.next = @ + 1]
  <2> SUFFICES ASSUME p.next # 3 PROVE Due(t, s, p.next + 1)'
    OBVIOUS
  <2>1. pipe'[t] = q
    BY DEF SaveShareInfoToRedis, TypeInv, TypeOK
  <2>2. q \in Pipeline /\ q.s = s /\ q.next = p.next + 1
    BY <1>1 DEF Pipeline
  <2> HIDE DEF q
  <2>3. pipe'[t] # None
    BY <2>1, <2>2, NoneIsNoPipeline
  <2> QED BY <2>1, <2>2, <2>3 DEF Due, Sent
<1>5. Due(t, s, p.next)
  BY DEF Due
<1> QED BY <1>1, <1>2, <1>3, <1>4, <1>5

LEMMA LinkedNext == TypeInv /\ Right /\ Linked /\ [Next]_vars => Linked'
<1> SUFFICES ASSUME TypeInv, Right, Linked, [Next]_vars PROVE Linked'
  OBVIOUS
<1>1. Forward /\ TypeInv'
  BY Onward, TypeNext
<1>2. ASSUME NEW s \in Shares, s \notin made PROVE info'[s] = {}
  <2>1. \A t \in Threads : ~Sent(t, s)
    BY <1>2 DEF TypeInv, Sends, Sent
  <2> QED BY <1>2, <2>1, InfoStep DEF Linked
<1>3. ASSUME NEW s \in made, ~Gone(s)', s \notin broken'
      PROVE  /\ "Owner" \in info'[s] /\ "Title" \notin info'[s] => \E t \in Threads : Due(t, s, 2)'
             /\ "Title" \in info'[s] /\ "downloadUrl" \notin info'[s]
                  => \E t \in Threads : Due(t, s, 3)'
  <2>1. ~Gone(s) /\ s \notin broken /\ s \in Shares
    BY <1>1, <1>3, GoneStays DEF TypeInv, TypeOK, Forward
  <2>2. /\ "Owner" \in info[s] /\ "Title" \notin info[s] => \E t \in Threads : Due(t, s, 2)
        /\ "Title" \in info[s] /\ "downloadUrl" \notin info[s] => \E t \in Threads : Due(t, s, 3)
    BY <2>1 DEF Linked
  <2>3. ASSUME NEW x \in Threads, NEW n, Due(x, s, n), ~SaveShareInfoToRedis(x) PROVE Due(x, s, n)'
    BY <1>3, <2>3, DueStays
  <2>4. CASE info'[s] = info[s] /\ \A t \in Threads : ~(SaveShareInfoToRedis(t) /\ Sent(t, s))
    <3>1. \A x \in Threads, n \in {2, 3} : Due(x, s, n) => Due(x, s, n)'
      BY <2>3, <2>4 DEF Due
    <3> QED BY <2>2, <2>4, <3>1
  <2>5. ASSUME NEW t \in Threads, SaveShareInfoToRedis(t), Sent(t, s)
        PROVE  /\ "Owner" \in info'[s] /\ "Title" \notin info'[s]
                    => \E x \in Threads : Due(x, s, 2)'
               /\ "Title" \in info'[s] /\ "downloadUrl" \notin info'[s]
                    => \E x \in Threads : Due(x, s, 3)'
    <3>1. pipe[t].url
      BY <2>1, <2>5 DEF Right, Sent
    <3>2. ASSUME NEW x \in Threads, NEW n, NEW k, Due(t, s, k), k # n, Due(x, s, n)
          PROVE  Due(x, s, n)'
      <4>1. x # t
        BY <3>2 DEF Due
      <4>2. pipe'[x] = pipe[x]
        BY <2>5, <4>1, PipeAlone DEF PipeStep
      <4> QED BY <3>2, <4>2 DEF Due, Sent
    <3>3. CASE Due(t, s, 1) /\ info'[s] = info[s] \cup {"Owner"} /\ Due(t, s, 2)'
      BY <2>2, <3>2, <3>3
    <3>4. CASE Due(t, s, 2) /\ info'[s] = info[s] \cup {"Title"} /\ Due(t, s, 3)'
      BY <3>4
    <3>5. CASE Due(t, s, 3) /\ info'[s] = info[s] \cup {"downloadUrl"}
      BY <2>2, <3>2, <3>5
    <3> QED BY <2>1, <2>5, <3>1, <3>3, <3>4, <3>5, CommandStep
  <2>6. CASE info'[s] = {}
    BY <2>6
  <2> QED BY <2>1, <2>4, <2>5, <2>6, InfoStep
<1>4. ASSUME NEW s \in made', s \notin made PROVE info'[s] = {}
  BY <1>1, <1>2, <1>4 DEF TypeInv, TypeOK
<1>5. made \subseteq made'
  BY <1>1 DEF Forward
<1>6. \A s \in Shares \ made' : info'[s] = {}
  BY <1>2, <1>5
<1>7. ASSUME NEW s \in made', ~Gone(s)', s \notin broken'
      PROVE  /\ "Owner" \in info'[s] /\ "Title" \notin info'[s] => \E t \in Threads : Due(t, s, 2)'
             /\ "Title" \in info'[s] /\ "downloadUrl" \notin info'[s]
                  => \E t \in Threads : Due(t, s, 3)'
  BY <1>3, <1>4, <1>7
<1> QED BY <1>6, <1>7 DEF Linked

\* A pipeline is no transaction: other views' pipelines and deletes come between
\* its commands, and deletes fail after they have emptied the hash.  When all have
\* been carried out what Redis says of a share that can be viewed is whole, or has
\* no owner and is cached again (SaveShareInfoToRedis, DeleteShareInfoInRedis).
THEOREM SettledWhole == Spec => []SettledIsWhole
<1>1. Init => Linked
  BY DEF Init, Linked
<1>2. TypeInv /\ Linked => SettledIsWhole
  <2> SUFFICES ASSUME TypeInv, Linked, NEW s \in (shares \cap stored) \ (unlinked \cup broken),
                      \A t \in Threads : ~Sent(t, s)
               PROVE  /\ "Owner" \in info[s] => info[s] = Field
                      /\ "Title" \in info[s] => "downloadUrl" \in info[s]
    BY DEF SettledIsWhole
  <2>1. s \in Shares /\ ~Gone(s) /\ info[s] \subseteq Field
    BY DEF TypeInv, TypeOK, Gone
  <2>2. s \notin made => info[s] = {}
    BY <2>1 DEF Linked
  <2>3. s \in made => /\ "Owner" \in info[s] => "Title" \in info[s]
                      /\ "Title" \in info[s] => "downloadUrl" \in info[s]
    BY <2>1 DEF Linked, Due
  <2> QED BY <2>1, <2>2, <2>3 DEF Field
<1> QED BY KnownInit, TypeNext, KnownNext, RightNext, LinkedNext, <1>1, <1>2, PTL DEF Spec

-----------------------------------------------------------------------------
(* What stays in Redis of a deleted share *)

Cleared ==
  /\ \A s \in deleted : s \in made /\ s \notin shares
  /\ \A s \in deleted \ overtaken : Informed(s) = {}
  /\ \A s \in deleted \ (overtaken \cup unswept) : info[s] \subseteq {"Title"}

\* Only a share whose row is there is read; nothing else informs a view.
LEMMA ReadStep ==
  ASSUME TypeInv, [Next]_vars, NEW s \in Shares, s \notin shares,
         NEW x \in Threads, req'[x].s = s, req'[x].found
  PROVE  req[x].s = s /\ req[x].found
<1> DEFINE Kept == req'[x].s = req[x].s /\ req'[x].found = req[x].found
<1>1. req[x] \in Request /\ req \in [Threads -> Request]
  BY DEF TypeInv, TypeOK
<1>2. CASE req'[x] = req[x]
  BY <1>2
<1>3. ~Crash
  BY DEF Crash, Idle
<1>4. ASSUME NEW t \in Threads, NEW y \in Shares,
             GetShareInfo(t, y) \/ DeleteShare(t, y) \/ ShareDelete(t, y)
      PROVE  req'[x] = req[x]
  BY <1>4, StartStep
<1>5. ASSUME NEW pc, Goto(x, pc) PROVE Kept
  BY <1>1, <1>5 DEF Goto, Request
<1>6. ~Return(x)
  BY <1>1 DEF Return, Idle
<1>7. ASSUME CountOrReturn(x) PROVE Kept
  BY <1>5, <1>6, <1>7 DEF CountOrReturn
<1>8. ~FindShare(x)
  <2> SUFFICES ASSUME FindShare(x) PROVE FALSE
    OBVIOUS
  <2>1. req' = [req EXCEPT ![x].pc = "url", ![x].found = req[x].s \in shares]
    BY <1>6 DEF FindShare
  <2>2. req'[x].s = req[x].s /\ (req'[x].found <=> req[x].s \in shares)
    BY <1>1, <2>1 DEF Request
  <2> QED BY <2>2
<1>9. DownloadURL(x) => Kept
  <2> SUFFICES ASSUME req' = [req EXCEPT ![x].pc = "rank", ![x].url = TRUE] PROVE Kept
    BY <1>5 DEF DownloadURL
  <2> QED BY <1>1 DEF Request
<1>11. ViewStep(x) => Kept
  <2> HIDE DEF Kept
  <2> QED
    BY <1>5, <1>6, <1>7, <1>8, <1>9 DEF ViewStep, CheckRedisExistsShare, AnswerEmpty,
       GetShareInfoFromRedis, DailyViewCount, LeaveRank, SetEmptyShare, IsPopular, IsSaved,
       EndSave, AddViewCount, AddDailyView
<1>12. DeleteStep(x) => Kept
  <2> HIDE DEF Kept
  <2> QED
    BY <1>5, <1>6 DEF DeleteStep, FindOwned, LeaveRankFor, DeleteInfo, DeleteRow, EndDelete
<1>13. CASE \E t \in Threads : ViewStep(t) \/ DeleteStep(t)
  BY <1>11, <1>12, <1>13, OwnStep
<1> QED
  BY <1>2, <1>3, <1>4, <1>13 DEF Next, vars, CreateShare, DeleteFile, RestartDailyRank, PipeStep,
     SaveShareInfoToRedis, LosePipeline

LEMMA InformedStep ==
  ASSUME TypeInv, AllKnown, [Next]_vars, NEW s \in Shares, s \notin shares
  PROVE  Informed(s)' \subseteq Informed(s)
<1>1. ASSUME NEW x \in Threads, req'[x].s = s, req'[x].found PROVE x \in Informed(s)
  BY <1>1, ReadStep DEF Informed
<1>2. ASSUME NEW x \in Threads, Sent(x, s)', pipe'[x].url PROVE x \in Informed(s)
  <2>1. CASE pipe[x] # None /\ pipe'[x].s = pipe[x].s /\ pipe'[x].url = pipe[x].url
    BY <1>2, <2>1 DEF Informed, Sent
  <2>2. CASE IsSaved(x) /\ pipe'[x] = [s |-> req[x].s, url |-> req[x].url, next |-> 1]
    <3>1. req[x].s = s /\ req[x].found
      BY <1>2, <2>2 DEF Sent, AllKnown, Known
    <3> QED BY <3>1 DEF Informed
  <2> QED BY <1>2, <2>1, <2>2, PipeStays DEF Sent
<1> QED BY <1>1, <1>2 DEF Informed

\* A delete ends with Redis cleared or its failure noted.
LEMMA DeletedStep ==
  ASSUME TypeInv, [Next]_vars
  PROVE  \/ UNCHANGED <<deleted, overtaken, unswept>>
         \/ \E t \in Threads : EndDelete(t)
BY DEF Next, vars, history, errors, CreateShare, DeleteFile, GetShareInfo, DeleteShare,
   ShareDelete, ViewStep, CheckRedisExistsShare, AnswerEmpty, GetShareInfoFromRedis, FindShare,
   DownloadURL, DailyViewCount, LeaveRank, SetEmptyShare, IsPopular, IsSaved, EndSave,
   AddViewCount, AddDailyView, PipeStep, SaveShareInfoToRedis, LosePipeline, DeleteStep,
   FindOwned, LeaveRankFor, DeleteInfo, DeleteRow, RestartDailyRank, Crash

LEMMA ClearedNext == TypeInv /\ AllKnown /\ Cleared /\ [Next]_vars => Cleared'
<1> SUFFICES ASSUME TypeInv, AllKnown, Cleared, [Next]_vars PROVE Cleared'
  OBVIOUS
<1>1. Forward
  BY Onward
<1>2. ASSUME NEW s \in deleted, s \notin overtaken PROVE Informed(s)' = {}
  BY <1>2, InformedStep DEF Cleared, TypeInv, TypeOK
<1>3. ASSUME NEW s \in deleted, s \notin overtaken, s \notin unswept
      PROVE  info'[s] \subseteq {"Title"}
  <2>1. s \in Shares /\ info[s] \subseteq {"Title"} /\ Informed(s) = {}
    BY <1>3 DEF Cleared, TypeInv, TypeOK
  <2>2. ASSUME NEW t \in Threads, SaveShareInfoToRedis(t), Sent(t, s)
        PROVE  info'[s] \subseteq {"Title"}
    <3> DEFINE f == Fields[pipe[t].next]
    <3>1. ~pipe[t].url /\ pipe[t].s = s
      BY <2>1, <2>2 DEF Informed, Sent
    <3>2. info'[s] = IF f = "Title" THEN info[s] \cup {f} ELSE info[s] \ {f}
      BY <2>1, <2>2, <3>1 DEF SaveShareInfoToRedis, Set, TypeInv, TypeOK
    <3> HIDE DEF f
    <3> QED BY <2>1, <3>2
  <2> QED BY <2>1, <2>2, InfoStep
<1>4. \A s \in deleted : s \in made' /\ s \notin shares'
  BY <1>1 DEF Cleared, Forward
<1>5. CASE UNCHANGED <<deleted, overtaken, unswept>>
  BY <1>2, <1>3, <1>4, <1>5 DEF Cleared
<1>6. ASSUME NEW t \in Threads, EndDelete(t) PROVE Cleared'
  <2>1. PICK s : s = req[t].s
    OBVIOUS
  <2>2. s \in made /\ s \notin shares /\ s \in Shares
    BY <1>6, <2>1 DEF EndDelete, At, AllKnown, Known, TypeInv, TypeOK, Busy
  <2>3. deleted' = deleted \cup {s} /\ overtaken \subseteq overtaken' /\ unswept \subseteq unswept'
    BY <1>6, <2>1 DEF EndDelete
  <2>4. s \in made' /\ s \notin shares'
    BY <1>1, <2>2 DEF Forward
  <2>5. ASSUME s \notin overtaken' PROVE Informed(s)' = {}
    BY <1>6, <2>1, <2>2, <2>5, InformedStep DEF EndDelete
  <2>6. ASSUME s \notin unswept' PROVE info'[s] = {}
    BY <1>6, <2>1, <2>2, <2>6 DEF EndDelete, TypeInv, TypeOK
  <2> QED BY <1>2, <1>3, <1>4, <2>3, <2>4, <2>5, <2>6 DEF Cleared
<1> QED BY <1>5, <1>6, DeletedStep

\* After a delete only a view that had read the row by then, or a deletion from
\* Redis that failed, leaves a link there (DeleteShare, DeleteShareInfoInRedis).
THEOREM DeletedLeavesCache == Spec => []DeletedNotCached
<1>1. Init => Cleared
  BY DEF Init, Cleared
<1>2. Cleared => DeletedNotCached
  BY DEF Cleared, DeletedNotCached
<1> QED BY KnownInit, TypeNext, KnownNext, ClearedNext, <1>1, <1>2, PTL DEF Spec
=============================================================================
