----------------------------- MODULE AccountProofs -----------------------------
(***************************************************************************)
(* What holds of accounts for any number of addresses, requests in flight,  *)
(* administrators and failing calls.                                        *)
(***************************************************************************)
EXTENDS AccountProps, FiniteSetTheorems, TLAPS

ByToken == {"find", "save", "admin", "target", "change"}

\* A registration that has drawn its id and has not made its user.
Making(q) == q.pc \in {"folder", "user"}

\* What the local variables of a request hold at every step.
Local(q) ==
  /\ q.pc \notin ByToken \cup {"idle"} => q.email \in Emails
  /\ q.pc = "publish" => q.code \in Codes
  /\ q.pc \in {"code", "nick", "free", "store", "folder", "user", "find", "save"} => q.nick \in Nicks
  /\ Making(q) => q.id \in Ids
  /\ q.pc \in ByToken => q.token \in Token
  /\ q.pc \in {"admin", "target", "change"} => q.id \in Ids /\ q.status \in Status
  /\ q.pc \in {"save", "change"} => q.row \in User
  /\ q.pc = "change" => MayChange(q.token.status, q.row.status, q.status)

GrantedTo(u, status) == status \in Admins => <<u, status>> \in granted

\* What they say of the tables: a row that was read may be stale, but not its
\* name, and what it says of an administrator was granted once.
Held(q) ==
  /\ Making(q) => q.id \in stores
  /\ q.pc = "user" => q.id \in folders
  /\ q.pc \in ByToken => users[q.token.user] # None
  /\ q.pc = "save" => /\ q.row.name = users[q.token.user].name
                      /\ GrantedTo(q.token.user, q.row.status)
  /\ q.pc = "change" => users[q.id] # None /\ q.row.name = users[q.id].name

\* An id is drawn by one registration and no user has it yet.
Own ==
  /\ \A t \in Threads : Making(req[t]) => users[req[t].id] = None
  /\ \A s, t \in Threads : s # t /\ Making(req[s]) /\ Making(req[t]) => req[s].id # req[t].id

IInv ==
  /\ TypeOK /\ UsersComplete /\ AdminsGranted /\ Own
  /\ \A k \in tokens : users[k.user] # None
  /\ \A t \in Threads : Local(req[t]) /\ Held(req[t])

\* What no step takes back.
Grown ==
  /\ stores \subseteq stores' /\ folders \subseteq folders' /\ granted \subseteq granted'
  /\ \A u \in Ids : users[u] # None => users'[u] # None /\ users'[u].name = users[u].name

LEMMA HeldStays ==
  ASSUME Grown, NEW q, Held(q), Local(q)
  PROVE  Held(q)'
BY DEF Grown, Held, Local, Token, GrantedTo, Making, ByToken

\* A step of one request.
LEMMA OneStep ==
  ASSUME IInv, Grown, NEW t \in Threads, NEW p \in Request, Local(p), Held(p)',
         req' = [req EXCEPT ![t] = p]
  PROVE  req' \in [Threads -> Request] /\ \A s \in Threads : Local(req'[s]) /\ Held(req[s])'
<1>1. /\ req' \in [Threads -> Request] /\ req'[t] = p
      /\ \A s \in Threads \ {t} : req'[s] = req[s]
  BY DEF IInv, TypeOK
<1>2. ASSUME NEW s \in Threads, s # t PROVE Local(req'[s]) /\ Held(req[s])'
  <2>1. PICK q : q = req[s]
    OBVIOUS
  <2>2. Local(q) /\ Held(q) /\ req'[s] = q
    BY <1>1, <1>2, <2>1 DEF IInv
  <2>3. Held(q)'
    BY <2>2, HeldStays
  <2> QED BY <2>2, <2>3
<1> QED BY <1>1, <1>2

\* A step that changes neither table nor token, of a request that draws no id.
LEMMA QuietStep ==
  ASSUME IInv, NEW t \in Threads, NEW p \in Request, Local(p), Held(p), ~Making(p),
         req' = [req EXCEPT ![t] = p], UNCHANGED <<Tables, tokens, granted>>,
         code' \in [Emails -> Codes \cup {None}], recent' \in [Emails -> BOOLEAN],
         queue' \subseteq Message, mails' \subseteq Message, requests' \in Nat, faults' \in Nat
  PROVE  IInv'
<1>1. /\ users' = users /\ stores' = stores /\ folders' = folders /\ tokens' = tokens
      /\ granted' = granted
  BY DEF Tables
<1>2. Grown /\ Held(p)'
  BY <1>1, HeldStays DEF Grown
<1>3. req' \in [Threads -> Request] /\ \A s \in Threads : Local(req'[s]) /\ Held(req[s])'
  BY <1>2, OneStep
<1>4. req'[t] = p /\ \A s \in Threads \ {t} : req'[s] = req[s]
  BY DEF IInv, TypeOK
<1>5. Own'
  BY <1>1, <1>4 DEF IInv, Own
<1>6. UsersComplete' /\ AdminsGranted'
  BY <1>1 DEF IInv, UsersComplete, AdminsGranted
<1> QED BY <1>1, <1>3, <1>5, <1>6 DEF IInv, TypeOK

LEMMA IdleFits == Idle \in Request /\ Local(Idle) /\ Held(Idle) /\ ~Making(Idle)
BY DEF Idle, Request, Local, Held, Making, ByToken

LEMMA ReturnStep ==
  ASSUME IInv, NEW t \in Threads, Return(t), UNCHANGED <<Tables, tokens, granted>>,
         code' \in [Emails -> Codes \cup {None}], recent' \in [Emails -> BOOLEAN],
         queue' \subseteq Message, mails' \subseteq Message, requests' \in Nat, faults' \in Nat
  PROVE  IInv'
BY IdleFits, QuietStep DEF Return

\* A request that starts.
LEMMA StartStep ==
  ASSUME IInv, NEW t \in Threads, 
         \/ \E e \in Emails : SendConfirmEmail(t, e)
         \/ \E m \in mails, e \in Emails, n \in Nicks : Register(t, m, e, n)
         \/ \E k \in tokens, n \in Nicks : UpdateUserInfo(t, k, n)
         \/ \E k \in tokens, u \in Ids, s \in NewStatuses : UpdateUserAuth(t, k, u, s)
  PROVE  IInv'
<1>1. ASSUME NEW p \in Request, Local(p), Held(p), ~Making(p), Start(t, p),
             UNCHANGED <<Redis, Mail, Tables, tokens, Book>>
      PROVE  IInv'
  <2>1. req' = [req EXCEPT ![t] = p] /\ requests' \in Nat
    BY <1>1 DEF Start, IInv, TypeOK
  <2> QED BY <1>1, <2>1, QuietStep DEF Redis, Mail, Book, IInv, TypeOK
<1>2. ASSUME NEW e \in Emails, SendConfirmEmail(t, e) PROVE IInv'
  <2> DEFINE p == [Idle EXCEPT !.pc = "recent", !.email = e]
  <2>1. p \in Request /\ Local(p) /\ Held(p) /\ ~Making(p)
    BY DEF Idle, Request, Local, Held, Making, ByToken
  <2>2. Start(t, p) /\ UNCHANGED <<Redis, Mail, Tables, tokens, Book>>
    BY <1>2 DEF SendConfirmEmail
  <2> HIDE DEF p
  <2> QED BY <1>1, <2>1, <2>2
<1>3. ASSUME NEW m \in mails, NEW e \in Emails, NEW n \in Nicks, Register(t, m, e, n) PROVE IInv'
  <2>1. PICK c \in Codes : c = m.code
    BY DEF IInv, TypeOK, Message
  <2> DEFINE p == [Idle EXCEPT !.pc = "code", !.email = e, !.nick = n, !.code = c]
  <2>2. p \in Request /\ Local(p) /\ Held(p) /\ ~Making(p)
    BY DEF Idle, Request, Local, Held, Making, ByToken
  <2>3. Start(t, p) /\ UNCHANGED <<Redis, Mail, Tables, tokens, Book>>
    BY <1>3, <2>1 DEF Register
  <2> HIDE DEF p
  <2> QED BY <1>1, <2>2, <2>3
<1>4. ASSUME NEW k \in tokens, NEW n \in Nicks, UpdateUserInfo(t, k, n) PROVE IInv'
  <2>1. k \in Token /\ users[k.user] # None
    BY DEF IInv, TypeOK
  <2> DEFINE p == [Idle EXCEPT !.pc = "find", !.token = k, !.nick = n]
  <2>2. p \in Request /\ Local(p) /\ Held(p) /\ ~Making(p)
    BY <2>1 DEF Idle, Request, Local, Held, Making, ByToken
  <2>3. Start(t, p) /\ UNCHANGED <<Redis, Mail, Tables, tokens, Book>>
    BY <1>4 DEF UpdateUserInfo
  <2> HIDE DEF p
  <2> QED BY <1>1, <2>2, <2>3
<1>5. ASSUME NEW k \in tokens, NEW u \in Ids, NEW s \in NewStatuses, UpdateUserAuth(t, k, u, s)
      PROVE  IInv'
  <2>1. k \in Token /\ users[k.user] # None /\ s \in Status
    BY AccountAssumption DEF IInv, TypeOK
  <2> DEFINE p == [Idle EXCEPT !.pc = "admin", !.token = k, !.id = u, !.status = s]
  <2>2. p \in Request /\ Local(p) /\ Held(p) /\ ~Making(p)
    BY <2>1 DEF Idle, Request, Local, Held, Making, ByToken
  <2>3. Start(t, p) /\ UNCHANGED <<Redis, Mail, Tables, tokens, Book>>
    BY <1>5 DEF UpdateUserAuth
  <2> HIDE DEF p
  <2> QED BY <1>1, <2>2, <2>3
<1> QED BY <1>2, <1>3, <1>4, <1>5
\* The steps of a request that change neither tables nor tokens.
LEMMA ReadStep ==
  ASSUME IInv, NEW t \in Threads, NEW q, q = req[t],
         \/ CheckRecent(t) \/ CheckUnregistered(t) \/ SetCode(t) \/ SendConfirmEmailToMQ(t)
         \/ SetRecent(t) \/ CheckCode(t) \/ CheckNick(t) \/ CheckName(t)
         \/ FindSelf(t) \/ AdminAuth(t) \/ UserChangeAuth(t) \/ CheckFails(t) \/ Fail(t)
  PROVE  IInv'
<1>1. q \in Request /\ Local(q) /\ Held(q)
  BY DEF IInv, TypeOK
<1>2. UNCHANGED <<Tables, tokens, granted>>
  BY DEF CheckRecent, CheckUnregistered, SetCode, SendConfirmEmailToMQ, SetRecent, CheckCode,
         CheckNick, CheckName, FindSelf, AdminAuth, UserChangeAuth, CheckFails, Fail, Book
<1> DEFINE Others == /\ code' \in [Emails -> Codes \cup {None}] /\ recent' \in [Emails -> BOOLEAN]
                     /\ queue' \subseteq Message /\ mails' \subseteq Message
                     /\ requests' \in Nat /\ faults' \in Nat
<1>3. UNCHANGED <<Redis, Mail, requests, Book>> => Others
  BY DEF Redis, Mail, Book, IInv, TypeOK
<1>4. ASSUME NEW pc \in {"name", "set", "nick", "free", "store", "mark", "target"}, Goto(t, pc),
             q.pc \in {"recent", "name", "code", "nick", "free", "publish", "admin"},
             pc \in {"nick", "free", "store"} => q.pc \in {"code", "nick", "free"},
             pc = "target" => q.pc = "admin", q.pc = "admin" => pc = "target", Others
      PROVE  IInv'
  <2> DEFINE p == [q EXCEPT !.pc = pc]
  <2>1. p \in Request /\ req' = [req EXCEPT ![t] = p]
    BY <1>1, <1>4 DEF Goto, Request
  <2>2. /\ p.pc = pc /\ p.email = q.email /\ p.nick = q.nick /\ p.code = q.code
        /\ p.token = q.token /\ p.id = q.id /\ p.status = q.status
    BY <1>1 DEF Request
  <2> HIDE DEF p
  <2>3. Local(p) /\ Held(p) /\ ~Making(p)
    BY <1>1, <1>4, <2>2 DEF Local, Held, Making, ByToken
  <2> QED BY <1>2, <1>4, <2>1, <2>3, QuietStep
<1>5. Return(t) /\ Others => IInv'
  BY <1>2, ReturnStep
<1>6. CASE CheckRecent(t) \/ CheckUnregistered(t) \/ CheckCode(t) \/ CheckNick(t) \/ CheckName(t)
           \/ AdminAuth(t) \/ Fail(t)
  BY <1>3, <1>4, <1>5, <1>6 DEF CheckRecent, CheckUnregistered, CheckCode, CheckNick, CheckName,
       AdminAuth, Fail, At
<1>7. CASE CheckFails(t)
  <2>1. Others
    BY <1>7 DEF CheckFails, Redis, Mail, IInv, TypeOK
  <2> QED BY <1>4, <1>7, <2>1 DEF CheckFails, At
<1>8. CASE SetCode(t)
  <2>1. PICK c \in Codes : /\ code' = [code EXCEPT ![q.email] = c]
                           /\ req' = [req EXCEPT ![t].pc = "publish", ![t].code = c]
    BY <1>8 DEF SetCode
  <2>2. q.pc = "set" /\ q.email \in Emails
    BY <1>1, <1>8 DEF SetCode, At, Local, ByToken
  <2>3. Others
    BY <1>8, <2>1, <2>2 DEF SetCode, Mail, Book, IInv, TypeOK
  <2> DEFINE p == [q EXCEPT !.pc = "publish", !.code = c]
  <2>4. p \in Request /\ req' = [req EXCEPT ![t] = p]
    BY <1>1, <2>1 DEF Request
  <2>5. p.pc = "publish" /\ p.email = q.email /\ p.code = c
    BY <1>1 DEF Request
  <2> HIDE DEF p
  <2>6. Local(p) /\ Held(p) /\ ~Making(p)
    BY <2>2, <2>5 DEF Local, Held, Making, ByToken
  <2> QED BY <1>2, <2>3, <2>4, <2>6, QuietStep
<1>9. CASE SendConfirmEmailToMQ(t)
  <2>1. q.pc = "publish" /\ q.email \in Emails /\ q.code \in Codes
    BY <1>1, <1>9 DEF SendConfirmEmailToMQ, At, Local, ByToken
  <2>2. [to |-> q.email, code |-> q.code] \in Message
    BY <2>1 DEF Message
  <2>3. Others
    BY <1>9, <2>2 DEF SendConfirmEmailToMQ, Redis, Book, IInv, TypeOK
  <2> QED BY <1>4, <1>9, <2>1, <2>3 DEF SendConfirmEmailToMQ
<1>10. CASE SetRecent(t)
  <2>1. Others
    BY <1>10 DEF SetRecent, Mail, Book, IInv, TypeOK
  <2> QED BY <1>5, <1>10, <2>1 DEF SetRecent
<1>11. CASE FindSelf(t)
  <2>1. q.pc = "find" /\ q.token \in Token /\ q.token.user \in Ids /\ users[q.token.user] # None
    BY <1>1, <1>11 DEF FindSelf, At, Local, Held, ByToken, Token
  <2>2. PICK row \in User : row = users[q.token.user]
    BY <2>1 DEF IInv, TypeOK
  <2> DEFINE p == [q EXCEPT !.pc = "save", !.row = row]
  <2>3. p \in Request /\ req' = [req EXCEPT ![t] = p]
    BY <1>1, <1>11, <2>2 DEF FindSelf, Request
  <2>4. p.pc = "save" /\ p.row = row /\ p.token = q.token /\ p.nick = q.nick
    BY <1>1 DEF Request
  <2> HIDE DEF p
  <2>5. GrantedTo(q.token.user, row.status)
    BY <2>1, <2>2 DEF IInv, AdminsGranted, GrantedTo
  <2>6. Local(p) /\ Held(p) /\ ~Making(p)
    BY <1>1, <2>1, <2>2, <2>4, <2>5 DEF Local, Held, Making, ByToken
  <2>7. Others
    BY <1>3, <1>11 DEF FindSelf
  <2> QED BY <1>2, <2>3, <2>6, <2>7, QuietStep
<1>12. CASE UserChangeAuth(t)
  <2>1. q.pc = "target" /\ q.id \in Ids /\ Others
    BY <1>1, <1>3, <1>12 DEF UserChangeAuth, At, Local
  <2>2. PICK row : row = users[q.id]
    OBVIOUS
  <2>3. ASSUME row # None, MayChange(q.token.status, row.status, q.status),
               req' = [req EXCEPT ![t].pc = "change", ![t].row = row]
        PROVE  IInv'
    <3>1. row \in User
      BY <2>1, <2>2, <2>3 DEF IInv, TypeOK
    <3> DEFINE p == [q EXCEPT !.pc = "change", !.row = row]
    <3>2. p \in Request /\ req' = [req EXCEPT ![t] = p]
      BY <1>1, <2>3, <3>1 DEF Request
    <3>3. /\ p.pc = "change" /\ p.row = row /\ p.token = q.token /\ p.id = q.id
          /\ p.status = q.status
      BY <1>1 DEF Request
    <3> HIDE DEF p
    <3>4. Local(p) /\ Held(p) /\ ~Making(p)
      BY <1>1, <2>1, <2>2, <2>3, <3>1, <3>3 DEF Local, Held, Making, ByToken
    <3> QED BY <1>2, <2>1, <3>2, <3>4, QuietStep
  <2> QED BY <1>5, <1>12, <2>1, <2>2, <2>3 DEF UserChangeAuth
<1> QED BY <1>6, <1>7, <1>8, <1>9, <1>10, <1>11, <1>12

\* The statements of a registration.
LEMMA StoreStep ==
  ASSUME IInv, NEW t \in Threads, NEW q, q = req[t], CreateFileStore(t)
  PROVE  IInv'
<1>1. q \in Request /\ Local(q) /\ q.pc = "store"
  BY DEF IInv, TypeOK, CreateFileStore, At
<1>2. PICK u \in UserIds \ stores : /\ stores' = stores \cup {u}
                                    /\ req' = [req EXCEPT ![t].pc = "folder", ![t].id = u]
  BY DEF CreateFileStore
<1>3. users' = users /\ folders' = folders /\ tokens' = tokens /\ granted' = granted
  BY DEF CreateFileStore, Book
<1> DEFINE p == [q EXCEPT !.pc = "folder", !.id = u]
<1>4. u \in Ids /\ p \in Request /\ req' = [req EXCEPT ![t] = p]
  BY <1>1, <1>2 DEF Request, Ids
<1>5. p.pc = "folder" /\ p.id = u /\ p.email = q.email /\ p.nick = q.nick
  BY <1>1 DEF Request
<1> HIDE DEF p
<1>6. Local(p) /\ Held(p)'
  BY <1>1, <1>2, <1>4, <1>5 DEF Local, Held, Making, ByToken
<1>7. Grown
  BY <1>2, <1>3 DEF Grown
<1>8. req' \in [Threads -> Request] /\ \A s \in Threads : Local(req'[s]) /\ Held(req[s])'
  BY <1>4, <1>6, <1>7, OneStep
<1>9. Own'
  <2>1. req'[t] = p /\ \A s \in Threads \ {t} : req'[s] = req[s]
    BY <1>4 DEF IInv, TypeOK
  <2>2. users[u] = None
    BY <1>2, <1>4 DEF IInv, UsersComplete
  <2>3. \A s \in Threads : Making(req[s]) => req[s].id # u
    BY <1>2 DEF IInv, Held
  <2> QED BY <1>3, <1>5, <2>1, <2>2, <2>3 DEF IInv, Own
<1>10. UsersComplete' /\ AdminsGranted'
  BY <1>2, <1>3 DEF IInv, UsersComplete, AdminsGranted
<1>11. stores' \subseteq Ids
  BY <1>2, <1>4 DEF IInv, TypeOK
<1> QED BY <1>3, <1>8, <1>9, <1>10, <1>11 DEF IInv, TypeOK, CreateFileStore, Redis, Mail, Book

LEMMA FolderStep ==
  ASSUME IInv, NEW t \in Threads, NEW q, q = req[t], CreateBaseFileFolder(t)
  PROVE  IInv'
<1>1. q \in Request /\ Local(q) /\ Held(q) /\ q.pc = "folder" /\ q.id \in Ids
  BY DEF IInv, TypeOK, CreateBaseFileFolder, At, Local, Making
<1>2. /\ users' = users /\ stores' = stores /\ tokens' = tokens /\ granted' = granted
      /\ folders' = folders \cup {q.id}
  BY DEF CreateBaseFileFolder, Book
<1> DEFINE p == [q EXCEPT !.pc = "user"]
<1>3. p \in Request /\ req' = [req EXCEPT ![t] = p]
  BY <1>1 DEF Request, CreateBaseFileFolder, Goto
<1>4. p.pc = "user" /\ p.id = q.id /\ p.email = q.email /\ p.nick = q.nick
  BY <1>1 DEF Request
<1> HIDE DEF p
<1>5. Local(p) /\ Held(p)'
  BY <1>1, <1>2, <1>4 DEF Local, Held, Making, ByToken
<1>6. Grown
  BY <1>2 DEF Grown
<1>7. req' \in [Threads -> Request] /\ \A s \in Threads : Local(req'[s]) /\ Held(req[s])'
  BY <1>3, <1>5, <1>6, OneStep
<1>8. Own'
  <2>1. req'[t] = p /\ \A s \in Threads \ {t} : req'[s] = req[s]
    BY <1>3 DEF IInv, TypeOK
  <2>2. Making(p) /\ Making(req[t])
    BY <1>1, <1>4 DEF Making
  <2> QED BY <1>2, <1>4, <2>1, <2>2 DEF IInv, Own
<1>9. UsersComplete' /\ AdminsGranted'
  BY <1>2 DEF IInv, UsersComplete, AdminsGranted
<1> QED BY <1>1, <1>2, <1>7, <1>8, <1>9 DEF IInv, TypeOK, CreateBaseFileFolder, Redis, Mail, Book

\* A row is written and its request is done.
LEMMA WriteStep ==
  ASSUME IInv, NEW t \in Threads, Return(t), NEW u \in Ids, NEW row \in User,
         users' = [users EXCEPT ![u] = row],
         users[u] # None => users[u].name = row.name,
         u \in stores /\ u \in folders,
         \A s \in Threads \ {t} : Making(req[s]) => req[s].id # u,
         GrantedTo(u, row.status)', granted \subseteq granted', granted' \subseteq Ids \X Admins,
         tokens' \subseteq tokens \cup {[user |-> u, status |-> "active"]},
         UNCHANGED <<Redis, Mail, stores, folders, requests, faults>>
  PROVE  IInv'
<1>1. row # None
  BY AccountAssumption DEF User
<1>2. users'[u] = row /\ \A v \in Ids \ {u} : users'[v] = users[v]
  BY DEF IInv, TypeOK
<1>3. Grown
  BY <1>1, <1>2 DEF Grown
<1>4. Held(Idle)'
  BY DEF Held, Idle, Making, ByToken
<1>5. req' \in [Threads -> Request] /\ \A s \in Threads : Local(req'[s]) /\ Held(req[s])'
  BY <1>3, <1>4, IdleFits, OneStep DEF Return
<1>6. Own'
  <2>1. req'[t] = Idle /\ \A s \in Threads \ {t} : req'[s] = req[s]
    BY DEF Return, IInv, TypeOK
  <2>2. \A s \in Threads : Making(req[s]) => req[s].id \in Ids
    BY DEF IInv, Local
  <2> QED BY <1>2, <2>1, <2>2, IdleFits DEF IInv, Own
<1>7. UsersComplete'
  BY <1>2 DEF IInv, UsersComplete
<1> DEFINE k == [user |-> u, status |-> "active"]
<1>8. k.user = u /\ k.status = "active" /\ k \in Token
  BY DEF Token, Status
<1>9. \A j \in tokens' : j \in tokens \/ j = k
  OBVIOUS
<1> HIDE DEF k
<1>10. tokens' \subseteq Token /\ \A j \in tokens' : users'[j.user] # None
  <2>1. \A j \in tokens : j \in Token /\ j.user \in Ids /\ users[j.user] # None
    BY DEF IInv, TypeOK, Token
  <2> QED BY <1>1, <1>2, <1>8, <1>9, <2>1
<1>11. AdminsGranted'
  <2>1. "active" \notin Admins
    BY DEF Admins
  <2>2. ASSUME NEW v \in Ids, users'[v] # None, users'[v].status \in Admins
        PROVE  <<v, users'[v].status>> \in granted'
    BY <1>2, <2>2 DEF IInv, AdminsGranted, GrantedTo
  <2>3. ASSUME NEW j \in tokens', j.status \in Admins
        PROVE  <<j.user, j.status>> \in granted'
    BY <1>8, <1>9, <2>1, <2>3 DEF IInv, AdminsGranted
  <2> QED BY <2>2, <2>3 DEF AdminsGranted
<1>12. users' \in [Ids -> User \cup {None}]
  BY DEF IInv, TypeOK
<1> QED BY <1>5, <1>6, <1>7, <1>10, <1>11, <1>12 DEF IInv, TypeOK, Redis, Mail

LEMMA SaveStep ==
  ASSUME IInv, NEW t \in Threads, NEW q, q = req[t],
         CreateUser(t) \/ SaveSelf(t) \/ SaveStatus(t)
  PROVE  IInv'
<1>1. q \in Request /\ Local(q) /\ Held(q)
  BY DEF IInv, TypeOK
<1>2. CASE CreateUser(t)
  <2>1. /\ q.pc = "user" /\ Making(q) /\ q.id \in Ids /\ q.email \in Emails /\ q.nick \in Nicks
        /\ q.id \in stores /\ q.id \in folders
    BY <1>1, <1>2 DEF CreateUser, At, Local, Held, Making, ByToken
  <2> DEFINE row == [name |-> q.email, nick |-> q.nick, status |-> "active"]
  <2>2. users' = [users EXCEPT ![q.id] = row] /\ row.status = "active"
    BY <1>2 DEF CreateUser
  <2>3. row \in User
    BY <2>1 DEF User, Status
  <2> HIDE DEF row
  <2>4. users[q.id] = None /\ \A s \in Threads \ {t} : Making(req[s]) => req[s].id # q.id
    BY <2>1 DEF IInv, Own
  <2>5. GrantedTo(q.id, row.status)' 
    BY <2>2 DEF GrantedTo, Admins
  <2>6. granted' = granted /\ faults' = faults /\ Return(t)
        /\ UNCHANGED <<Redis, Mail, stores, folders, requests, faults>>
        /\ tokens' = tokens \cup {[user |-> q.id, status |-> "active"]}
    BY <1>2 DEF CreateUser, Book
  <2>7. granted' \subseteq Ids \X Admins
    BY <2>6 DEF IInv, TypeOK
  <2> QED BY <2>1, <2>2, <2>3, <2>4, <2>5, <2>6, <2>7, WriteStep
<1>3. CASE SaveSelf(t)
  <2>1. PICK u : u = q.token.user
    OBVIOUS
  <2>2. /\ q.pc = "save" /\ u \in Ids /\ q.row \in User /\ q.nick \in Nicks
        /\ users[u] # None /\ q.row.name = users[u].name /\ GrantedTo(u, q.row.status)
    BY <1>1, <1>3, <2>1 DEF SaveSelf, At, Local, Held, ByToken, Token
  <2> DEFINE row == [q.row EXCEPT !.nick = q.nick]
  <2>3. users' = [users EXCEPT ![u] = row]
    BY <1>3, <2>1 DEF SaveSelf
  <2>4. row \in User /\ row.name = q.row.name /\ row.status = q.row.status
    BY <2>2 DEF User
  <2> HIDE DEF row
  <2>5. u \in stores /\ u \in folders
    BY <2>2 DEF IInv, UsersComplete
  <2>6. \A s \in Threads : Making(req[s]) => req[s].id # u
    BY <2>2 DEF IInv, Own
  <2>7. granted' = granted /\ Return(t) /\ tokens' = tokens
        /\ UNCHANGED <<Redis, Mail, stores, folders, requests, faults>>
    BY <1>3 DEF SaveSelf, Book
  <2>8. granted' \subseteq Ids \X Admins /\ GrantedTo(u, row.status)'
    BY <2>2, <2>4, <2>7 DEF IInv, TypeOK, GrantedTo
  <2> QED BY <2>2, <2>3, <2>4, <2>5, <2>6, <2>7, <2>8, WriteStep
<1>4. CASE SaveStatus(t)
  <2>1. PICK u : u = q.id
    OBVIOUS
  <2>2. /\ q.pc = "change" /\ u \in Ids /\ q.row \in User /\ q.status \in Status
        /\ users[u] # None /\ q.row.name = users[u].name
        /\ MayChange(q.token.status, q.row.status, q.status)
    BY <1>1, <1>4, <2>1 DEF SaveStatus, At, Local, Held
  <2> DEFINE row == [q.row EXCEPT !.status = q.status]
  <2>3. users' = [users EXCEPT ![u] = row]
    BY <1>4, <2>1 DEF SaveStatus
  <2>4. row \in User /\ row.name = q.row.name /\ row.status = q.status
    BY <2>2 DEF User
  <2> HIDE DEF row
  <2>5. u \in stores /\ u \in folders
    BY <2>2 DEF IInv, UsersComplete
  <2>6. \A s \in Threads : Making(req[s]) => req[s].id # u
    BY <2>2 DEF IInv, Own
  <2>7. Return(t) /\ tokens' = tokens
        /\ UNCHANGED <<Redis, Mail, stores, folders, requests, faults>>
        /\ granted' = IF q.token.status = "super_admin" /\ q.status \in Admins
                        THEN granted \cup {<<u, q.status>>} ELSE granted
    BY <1>4, <2>1 DEF SaveStatus
  <2>8. granted \subseteq granted' /\ granted' \subseteq Ids \X Admins
    BY <2>2, <2>7 DEF IInv, TypeOK
  <2>9. GrantedTo(u, row.status)'
    BY <2>2, <2>4, <2>7 DEF GrantedTo, MayChange, Admins
  <2> QED BY <2>2, <2>3, <2>4, <2>5, <2>6, <2>7, <2>8, <2>9, WriteStep
<1> QED BY <1>2, <1>3, <1>4

\* Mails, times, log-ins and the death of the process.
LEMMA OutsideStep ==
  ASSUME IInv, 
         \/ \E m \in queue : RunSendConfirmEmail(m)
         \/ \E e \in Emails : ExpireRecent(e) \/ ExpireCode(e)
         \/ \E u \in Ids : Login(u)
         \/ \E k \in tokens : ExpireToken(k)
         \/ Crash
  PROVE  IInv'
<1>1. /\ users' = users /\ stores' = stores /\ folders' = folders /\ granted' = granted
      /\ requests' = requests /\ faults' = faults
  BY DEF RunSendConfirmEmail, ExpireRecent, ExpireCode, Login, ExpireToken, Crash, Tables, Book
<1>2. /\ code' \in [Emails -> Codes \cup {None}] /\ recent' \in [Emails -> BOOLEAN]
      /\ queue' \subseteq Message /\ mails' \subseteq Message
  BY DEF RunSendConfirmEmail, ExpireRecent, ExpireCode, Login, ExpireToken, Crash, Redis, Mail,
         IInv, TypeOK
<1>3. /\ tokens' \subseteq Token
      /\ \A k \in tokens' : /\ users[k.user] # None
                            /\ k.status \in Admins => <<k.user, k.status>> \in granted
  <2>1. ASSUME NEW u \in Ids, Login(u)
        PROVE  \A k \in tokens' : /\ k \in Token /\ users[k.user] # None
                                  /\ k.status \in Admins => <<k.user, k.status>> \in granted
    <3> DEFINE k == [user |-> u, status |-> users[u].status]
    <3>1. k.user = u /\ k.status = users[u].status /\ tokens' = tokens \cup {k} /\ users[u] # None
      BY <2>1 DEF Login
    <3>2. k \in Token
      BY <3>1 DEF IInv, TypeOK, User, Token
    <3> HIDE DEF k
    <3> QED BY <3>1, <3>2 DEF IInv, TypeOK, AdminsGranted
  <2>2. CASE tokens' \subseteq tokens
    BY <2>2 DEF IInv, TypeOK, AdminsGranted
  <2> QED BY <2>1, <2>2 DEF RunSendConfirmEmail, ExpireRecent, ExpireCode, ExpireToken, Crash
<1>4. UsersComplete' /\ AdminsGranted'
  BY <1>1, <1>3 DEF IInv, UsersComplete, AdminsGranted
<1>5. req' = req \/ req' = [t \in Threads |-> Idle]
  BY DEF RunSendConfirmEmail, ExpireRecent, ExpireCode, Login, ExpireToken, Crash
<1>6. req' \in [Threads -> Request] /\ \A s \in Threads : Local(req'[s])
  BY <1>5, IdleFits DEF IInv, TypeOK
<1>7. \A s \in Threads : Held(req[s])'
  <2>1. Grown
    BY <1>1 DEF Grown
  <2> SUFFICES ASSUME NEW s \in Threads PROVE Held(req[s])'
    OBVIOUS
  <2>2. PICK q : q = req[s]
    OBVIOUS
  <2>3. Held(q)' /\ Held(Idle)'
    BY <2>1, <2>2, HeldStays, IdleFits DEF IInv
  <2> QED BY <1>5, <2>2, <2>3
<1>8. Own'
  BY <1>1, <1>5, IdleFits DEF IInv, Own
<1> QED BY <1>1, <1>2, <1>3, <1>4, <1>6, <1>7, <1>8 DEF IInv, TypeOK

LEMMA InvNext == IInv /\ [Next]_vars => IInv'
<1> SUFFICES ASSUME IInv, [Next]_vars PROVE IInv'
  OBVIOUS
<1>1. CASE UNCHANGED vars
  BY <1>1 DEF vars, IInv, TypeOK, UsersComplete, AdminsGranted, Own, Held, GrantedTo
<1> QED
  BY <1>1, StartStep, ReadStep, StoreStep, FolderStep, SaveStep, OutsideStep DEF Next, Step

LEMMA InitInv == Init => IInv
<1> SUFFICES ASSUME Init PROVE IInv
  OBVIOUS
<1> DEFINE row == [name |-> None, nick |-> None, status |-> "super_admin"]
<1>1. row \in User /\ row.status = "super_admin"
  BY DEF User, Status
<1>2. users = [u \in Ids |-> IF u = Root THEN row ELSE None]
  BY DEF Init
<1> HIDE DEF row
<1>3. Root \in Ids /\ \A u \in Ids : users[u] # None => u = Root /\ users[u] = row
  BY <1>2 DEF Ids
<1>4. UsersComplete /\ AdminsGranted
  BY <1>1, <1>3 DEF Init, UsersComplete, AdminsGranted
<1>5. TypeOK
  BY <1>1, <1>2, <1>3, IdleFits DEF Init, TypeOK, Admins
<1>6. Own /\ \A t \in Threads : Local(req[t]) /\ Held(req[t])
  BY IdleFits DEF Init, Own
<1> QED BY <1>4, <1>5, <1>6 DEF Init, IInv

\* Redis, tables, tokens and requests stay well typed.
THEOREM TypeCorrect == Spec => []TypeOK
<1>1. IInv => TypeOK
  BY DEF IInv
<1> QED BY <1>1, InitInv, InvNext, PTL DEF Spec

\* Nobody is a user without a store and a main folder, at whatever statement a
\* registration fails or the process dies.
THEOREM CompleteAlways == Spec => []UsersComplete
<1>1. IInv => UsersComplete
  BY DEF IInv
<1> QED BY <1>1, InitInv, InvNext, PTL DEF Spec

\* No interleaving of stale saves and old tokens makes an administrator whom no
\* super administrator made.
THEOREM GrantedAlways == Spec => []AdminsGranted
<1>1. IInv => AdminsGranted
  BY DEF IInv
<1> QED BY <1>1, InitInv, InvNext, PTL DEF Spec
-----------------------------------------------------------------------------
(* Accounts with one name *)

\* A registration that has passed its checks and will make a user.
Inserting(q) == q.pc \in {"store", "folder", "user"}

Pending(e) == {t \in Threads : Inserting(req[t]) /\ req[t].email = e}

\* A name gets another account only from a registration that is on its way when
\* the first is made, or whose check failed.
FewNames ==
  \A e \in Emails :
    /\ IsFiniteSet(Named(e))
    /\ Cardinality(Named(e)) + Cardinality(Pending(e)) <= Cardinality(Threads) + faults

LEMMA PendingSize ==
  ASSUME IsFiniteSet(Threads), NEW b \in SUBSET Threads
  PROVE  /\ IsFiniteSet(b) /\ Cardinality(b) \in Nat
         /\ Cardinality(Threads) \in Nat /\ Cardinality(b) <= Cardinality(Threads)
BY FS_Subset, FS_CardinalityType

\* A request that stays short of its insert, or goes on to it.
Keeps(q, p) == Inserting(p) => Inserting(q) /\ p.email = q.email

LEMMA FewStay ==
  ASSUME IsFiniteSet(Threads), IInv, IInv', FewNames,
         \A e \in Emails : Named(e)' = Named(e), faults <= faults',
         \A t \in Threads : Keeps(req[t], req'[t])
  PROVE  FewNames'
<1> SUFFICES ASSUME NEW e \in Emails
             PROVE  /\ IsFiniteSet(Named(e)')
                    /\ Cardinality(Named(e)') + Cardinality(Pending(e)')
                         <= Cardinality(Threads) + faults'
  BY DEF FewNames
<1>1. PICK b : b = Pending(e)'
  OBVIOUS
<1>2. b \subseteq Pending(e) /\ Pending(e) \in SUBSET Threads
  BY <1>1 DEF Pending, Keeps
<1>3. Cardinality(b) <= Cardinality(Pending(e)) /\ Cardinality(b) \in Nat
      /\ Cardinality(Pending(e)) \in Nat /\ Cardinality(Threads) \in Nat
  BY <1>2, PendingSize, FS_Subset
<1>4. IsFiniteSet(Named(e)) /\ Named(e)' = Named(e)
      /\ Cardinality(Named(e)) + Cardinality(Pending(e)) <= Cardinality(Threads) + faults
  BY DEF FewNames
<1>5. Cardinality(Named(e)) \in Nat /\ faults \in Nat /\ faults' \in Nat
  BY <1>4, FS_CardinalityType DEF IInv, TypeOK
<1> QED BY <1>1, <1>3, <1>4, <1>5

\* Rows are saved under the names they have.
LEMMA SameNames ==
  ASSUME IInv, NEW t \in Threads, NEW q, q = req[t],
         SaveSelf(t) \/ SaveStatus(t), NEW e \in Emails
  PROVE  Named(e)' = Named(e)
<1>1. q \in Request /\ Local(q) /\ Held(q)
  BY DEF IInv, TypeOK
<1>2. PICK u, row : /\ u \in Ids /\ users[u] # None /\ row \in User /\ row.name = users[u].name
                    /\ users' = [users EXCEPT ![u] = row]
  <2>1. CASE SaveSelf(t)
    <3>1. /\ q.pc = "save" /\ q.token.user \in Ids /\ q.row \in User /\ q.nick \in Nicks
          /\ users[q.token.user] # None /\ q.row.name = users[q.token.user].name
      BY <1>1, <2>1 DEF SaveSelf, At, Local, Held, ByToken, Token
    <3> DEFINE row == [q.row EXCEPT !.nick = q.nick]
    <3>2. row \in User /\ row.name = q.row.name /\ users' = [users EXCEPT ![q.token.user] = row]
      BY <2>1, <3>1 DEF SaveSelf, User
    <3> QED BY <3>1, <3>2
  <2>2. CASE SaveStatus(t)
    <3>1. /\ q.pc = "change" /\ q.id \in Ids /\ q.row \in User /\ q.status \in Status
          /\ users[q.id] # None /\ q.row.name = users[q.id].name
      BY <1>1, <2>2 DEF SaveStatus, At, Local, Held
    <3> DEFINE row == [q.row EXCEPT !.status = q.status]
    <3>2. row \in User /\ row.name = q.row.name /\ users' = [users EXCEPT ![q.id] = row]
      BY <2>2, <3>1 DEF SaveStatus, User
    <3> QED BY <3>1, <3>2
  <2> QED BY <2>1, <2>2
<1>3. row # None
  BY <1>2, AccountAssumption DEF User
<1>4. users'[u] = row /\ \A v \in Ids \ {u} : users'[v] = users[v]
  BY <1>2 DEF IInv, TypeOK
<1> QED BY <1>2, <1>3, <1>4 DEF Named

\* The steps of a request that neither pass the last check nor insert.
LEMMA OtherSteps ==
  ASSUME IInv, NEW t \in Threads,
         \/ CheckRecent(t) \/ CheckUnregistered(t) \/ SetCode(t) \/ SendConfirmEmailToMQ(t)
         \/ SetRecent(t) \/ CheckCode(t) \/ CheckNick(t) \/ CreateFileStore(t)
         \/ CreateBaseFileFolder(t) \/ FindSelf(t) \/ SaveSelf(t) \/ AdminAuth(t)
         \/ UserChangeAuth(t) \/ SaveStatus(t) \/ Fail(t)
  PROVE  /\ faults' = faults /\ \A e \in Emails : Named(e)' = Named(e)
         /\ \A s \in Threads : Keeps(req[s], req'[s])
<1>1. faults' = faults
  BY DEF CheckRecent, CheckUnregistered, SetCode, SendConfirmEmailToMQ, SetRecent, CheckCode,
         CheckNick, CreateFileStore, CreateBaseFileFolder, FindSelf, SaveSelf, AdminAuth,
         UserChangeAuth, SaveStatus, Fail, Book
<1>2. \A s \in Threads \ {t} : req'[s] = req[s]
  BY DEF CheckRecent, CheckUnregistered, SetCode, SendConfirmEmailToMQ, SetRecent, CheckCode,
         CheckNick, CreateFileStore, CreateBaseFileFolder, FindSelf, SaveSelf, AdminAuth,
         UserChangeAuth, SaveStatus, Fail, Goto, Return, IInv, TypeOK
<1>3. Return(t) => req'[t].pc = "idle"
  BY DEF Return, Idle, IInv, TypeOK
<1>4. Keeps(req[t], req'[t])
  <2>1. CASE CreateFileStore(t) \/ CreateBaseFileFolder(t)
    BY <2>1 DEF CreateFileStore, CreateBaseFileFolder, Goto, At, Keeps, Inserting, IInv, TypeOK, Request
  <2>2. ASSUME NEW pc \in {"name", "set", "nick", "free", "mark", "target"}, Goto(t, pc)
        PROVE  Keeps(req[t], req'[t])
    BY <2>2 DEF Goto, Keeps, Inserting, IInv, TypeOK, Request
  <2>3. CASE SetCode(t) \/ FindSelf(t) \/ UserChangeAuth(t)
    BY <1>3, <2>3 DEF SetCode, FindSelf, UserChangeAuth, Keeps, Inserting, IInv, TypeOK, Request
  <2>4. CASE CheckRecent(t) \/ CheckUnregistered(t) \/ CheckCode(t) \/ CheckNick(t) \/ AdminAuth(t)
             \/ SendConfirmEmailToMQ(t)
    BY <1>3, <2>2, <2>4 DEF CheckRecent, CheckUnregistered, CheckCode, CheckNick, AdminAuth,
         SendConfirmEmailToMQ, Keeps, Inserting
  <2>5. CASE SetRecent(t) \/ SaveSelf(t) \/ SaveStatus(t) \/ Fail(t)
    BY <1>3, <2>5 DEF SetRecent, SaveSelf, SaveStatus, Fail, Keeps, Inserting
  <2> QED BY <2>1, <2>3, <2>4, <2>5
<1>5. ASSUME NEW e \in Emails PROVE Named(e)' = Named(e)
  <2>1. CASE SaveSelf(t) \/ SaveStatus(t)
    BY <2>1, SameNames
  <2>2. CASE users' = users
    BY <2>2 DEF Named
  <2> QED
    BY <2>1, <2>2 DEF CheckRecent, CheckUnregistered, SetCode, SendConfirmEmailToMQ, SetRecent,
         CheckCode, CheckNick, CreateFileStore, CreateBaseFileFolder, FindSelf, AdminAuth,
         UserChangeAuth, Fail, Tables
<1> QED BY <1>1, <1>2, <1>4, <1>5 DEF Keeps

\* A registration passes the check of its name: there is no such user, or the
\* check has failed.
LEMMA FewPass ==
  ASSUME IsFiniteSet(Threads), IInv, IInv', FewNames, NEW t \in Threads, NEW q, q = req[t],
         q.pc = "free", req' = [req EXCEPT ![t].pc = "store"], users' = users,
         (faults' = faults /\ Named(q.email) = {}) \/ faults' = faults + 1
  PROVE  FewNames'
<1> SUFFICES ASSUME NEW e \in Emails
             PROVE  /\ IsFiniteSet(Named(e)')
                    /\ Cardinality(Named(e)') + Cardinality(Pending(e)')
                         <= Cardinality(Threads) + faults'
  BY DEF FewNames
<1>1. PICK b : b = Pending(e)'
  OBVIOUS
<1>2. req'[t].email = q.email /\ \A s \in Threads \ {t} : req'[s] = req[s]
  BY DEF IInv, TypeOK, Request
<1>3. b \in SUBSET Threads /\ Pending(e) \in SUBSET Threads
  BY <1>1 DEF Pending
<1>4. b \subseteq Pending(e) \cup {t} /\ (e # q.email => b \subseteq Pending(e))
  BY <1>1, <1>2 DEF Pending
<1>5. Named(e)' = Named(e)
  BY DEF Named
<1>6. IsFiniteSet(Named(e))
      /\ Cardinality(Named(e)) + Cardinality(Pending(e)) <= Cardinality(Threads) + faults
  BY DEF FewNames
<1>7. Cardinality(Named(e)) \in Nat /\ faults \in Nat /\ faults' \in Nat
  BY <1>6, FS_CardinalityType DEF IInv, TypeOK
<1>8. /\ Cardinality(b) \in Nat /\ Cardinality(Pending(e)) \in Nat
      /\ Cardinality(Threads) \in Nat /\ Cardinality(b) <= Cardinality(Threads)
      /\ IsFiniteSet(Pending(e))
  BY <1>3, PendingSize
<1>9. CASE faults' = faults /\ Named(q.email) = {}
  <2>1. CASE e = q.email
    <3>1. Cardinality(Named(e)) = 0
      BY <1>9, <2>1, FS_EmptySet
    <3> QED BY <1>1, <1>5, <1>6, <1>7, <1>8, <3>1
  <2>2. CASE e # q.email
    <3>1. Cardinality(b) <= Cardinality(Pending(e))
      BY <1>4, <1>8, <2>2, FS_Subset
    <3> QED BY <1>1, <1>5, <1>6, <1>7, <1>8, <1>9, <3>1
  <2> QED BY <2>1, <2>2
<1>10. CASE faults' = faults + 1
  <2>1. /\ IsFiniteSet(Pending(e) \cup {t})
        /\ Cardinality(Pending(e) \cup {t}) \in {Cardinality(Pending(e)), Cardinality(Pending(e)) + 1}
    BY <1>8, FS_AddElement
  <2>2. Cardinality(b) <= Cardinality(Pending(e) \cup {t})
    BY <1>4, <2>1, FS_Subset
  <2> QED BY <1>1, <1>5, <1>6, <1>7, <1>8, <1>10, <2>1, <2>2
<1> QED BY <1>9, <1>10

\* A registration that inserts its user is pending no more.
LEMMA FewInsert ==
  ASSUME IsFiniteSet(Threads), IInv, IInv', FewNames, NEW t \in Threads, CreateUser(t)
  PROVE  FewNames'
<1> SUFFICES ASSUME NEW e \in Emails
             PROVE  /\ IsFiniteSet(Named(e)')
                    /\ Cardinality(Named(e)') + Cardinality(Pending(e)')
                         <= Cardinality(Threads) + faults'
  BY DEF FewNames
<1>1. PICK q : q = req[t]
  OBVIOUS
<1>2. q.pc = "user" /\ q.id \in Ids /\ users[q.id] = None
  BY <1>1 DEF CreateUser, At, IInv, Local, Own, Making
<1> DEFINE row == [name |-> q.email, nick |-> q.nick, status |-> "active"]
<1>3. users' = [users EXCEPT ![q.id] = row] /\ row.name = q.email
  BY <1>1 DEF CreateUser
<1> HIDE DEF row
<1>4. users'[q.id] = row /\ \A v \in Ids \ {q.id} : users'[v] = users[v]
  BY <1>2, <1>3 DEF IInv, TypeOK
<1>5. req'[t] = Idle /\ \A s \in Threads \ {t} : req'[s] = req[s]
  BY DEF CreateUser, Return, IInv, TypeOK
<1>6. PICK b, n : b = Pending(e)' /\ n = Named(e)'
  OBVIOUS
<1>7. ~Inserting(Idle) /\ Inserting(q)
  BY <1>2 DEF Inserting, Idle
<1>8. b = Pending(e) \ {t} /\ Pending(e) \in SUBSET Threads
  BY <1>5, <1>6, <1>7 DEF Pending
<1>9. n \subseteq Named(e) \cup {q.id} /\ (e # q.email => n \subseteq Named(e))
  BY <1>3, <1>4, <1>6 DEF Named
<1>10. IsFiniteSet(Named(e)) /\ faults' = faults
       /\ Cardinality(Named(e)) + Cardinality(Pending(e)) <= Cardinality(Threads) + faults
  BY DEF FewNames, CreateUser, Book
<1>11. /\ Cardinality(Named(e)) \in Nat /\ faults \in Nat /\ Cardinality(Threads) \in Nat
       /\ IsFiniteSet(Pending(e)) /\ Cardinality(Pending(e)) \in Nat
  BY <1>8, <1>10, PendingSize, FS_CardinalityType DEF IInv, TypeOK
<1>12. CASE e = q.email
  <2>1. t \in Pending(e)
    BY <1>1, <1>7, <1>12 DEF Pending
  <2>2. Cardinality(b) = Cardinality(Pending(e)) - 1
    BY <1>8, <1>11, <2>1, FS_RemoveElement
  <2>3. /\ IsFiniteSet(Named(e) \cup {q.id})
        /\ Cardinality(Named(e) \cup {q.id}) \in {Cardinality(Named(e)), Cardinality(Named(e)) + 1}
    BY <1>10, FS_AddElement
  <2>4. IsFiniteSet(n) /\ Cardinality(n) <= Cardinality(Named(e) \cup {q.id}) /\ Cardinality(n) \in Nat
    BY <1>9, <2>3, FS_Subset, FS_CardinalityType
  <2> QED BY <1>6, <1>10, <1>11, <2>2, <2>3, <2>4
<1>13. CASE e # q.email
  <2>1. IsFiniteSet(n) /\ Cardinality(n) <= Cardinality(Named(e)) /\ Cardinality(n) \in Nat
    BY <1>9, <1>10, <1>13, FS_Subset, FS_CardinalityType
  <2>2. Cardinality(b) <= Cardinality(Pending(e)) /\ Cardinality(b) \in Nat
    BY <1>8, <1>11, PendingSize, FS_Subset
  <2> QED BY <1>6, <1>10, <1>11, <2>1, <2>2
<1> QED BY <1>12, <1>13

LEMMA FewNext ==
  ASSUME IsFiniteSet(Threads), IInv, FewNames, [Next]_vars
  PROVE  FewNames'
<1>1. IInv' /\ faults \in Nat
  BY InvNext DEF IInv, TypeOK
<1>2. ASSUME users' = users, faults' \in {faults, faults + 1},
             \A t \in Threads : Keeps(req[t], req'[t])
      PROVE  FewNames'
  <2>1. \A e \in Emails : Named(e)' = Named(e)
    BY <1>2 DEF Named
  <2>2. faults <= faults'
    BY <1>1, <1>2
  <2> QED BY <1>1, <1>2, <2>1, <2>2, FewStay
<1>3. ASSUME NEW t \in Threads, NEW p, ~Inserting(p), Start(t, p), faults' = faults, users' = users
      PROVE  FewNames'
  <2>1. \A s \in Threads : Keeps(req[s], req'[s])
    BY <1>3 DEF Start, Keeps, IInv, TypeOK
  <2> QED BY <1>2, <1>3, <2>1
<1>4. ASSUME NEW t \in Threads, 
         \/ \E e \in Emails : SendConfirmEmail(t, e)
         \/ \E m \in mails, e \in Emails, n \in Nicks : Register(t, m, e, n)
         \/ \E k \in tokens, n \in Nicks : UpdateUserInfo(t, k, n)
         \/ \E k \in tokens, u \in Ids, s \in NewStatuses : UpdateUserAuth(t, k, u, s)
      PROVE FewNames'
  <2>1. faults' = faults /\ users' = users
    BY <1>4 DEF SendConfirmEmail, Register, UpdateUserInfo, UpdateUserAuth, Book, Tables
  <2>2. \E p : ~Inserting(p) /\ Start(t, p)
    BY <1>4 DEF SendConfirmEmail, Register, UpdateUserInfo, UpdateUserAuth, Inserting, Idle
  <2> QED BY <1>3, <2>1, <2>2
<1>5. ASSUME NEW t \in Threads, CheckName(t) PROVE FewNames'
  <2>1. users' = users /\ faults' = faults
    BY <1>5 DEF CheckName, Tables, Book
  <2>2. CASE Return(t)
    <3>1. \A s \in Threads : Keeps(req[s], req'[s])
      BY <2>2 DEF Return, Idle, Keeps, Inserting, IInv, TypeOK
    <3> QED BY <1>2, <2>1, <3>1
  <2>3. CASE Named(req[t].email) = {} /\ Goto(t, "store")
    BY <1>1, <1>5, <2>1, <2>3, FewPass DEF CheckName, At, Goto
  <2> QED BY <1>5, <2>2, <2>3 DEF CheckName
<1>6. ASSUME NEW t \in Threads, CheckFails(t) PROVE FewNames'
  <2>1. users' = users /\ faults' = faults + 1
    BY <1>6 DEF CheckFails, Tables
  <2>2. CASE At(t, "free") /\ Goto(t, "store")
    BY <1>1, <2>1, <2>2, FewPass DEF At, Goto
  <2>3. ASSUME NEW pc \in {"name", "free"}, Goto(t, pc) PROVE FewNames'
    <3>1. \A s \in Threads : Keeps(req[s], req'[s])
      BY <2>3 DEF Goto, Keeps, Inserting, IInv, TypeOK, Request
    <3> QED BY <1>2, <2>1, <3>1
  <2> QED BY <1>6, <2>2, <2>3 DEF CheckFails
<1>7. ASSUME NEW t \in Threads,
         \/ CheckRecent(t) \/ CheckUnregistered(t) \/ SetCode(t) \/ SendConfirmEmailToMQ(t)
         \/ SetRecent(t) \/ CheckCode(t) \/ CheckNick(t) \/ CreateFileStore(t)
         \/ CreateBaseFileFolder(t) \/ FindSelf(t) \/ SaveSelf(t) \/ AdminAuth(t)
         \/ UserChangeAuth(t) \/ SaveStatus(t) \/ Fail(t)
      PROVE FewNames'
  <2>1. /\ faults' = faults /\ \A e \in Emails : Named(e)' = Named(e)
        /\ \A s \in Threads : Keeps(req[s], req'[s])
    BY <1>7, OtherSteps
  <2>2. faults <= faults'
    BY <1>1, <2>1
  <2> QED BY <1>1, <2>1, <2>2, FewStay
<1>8. CASE \/ \E m \in queue : RunSendConfirmEmail(m)
           \/ \E e \in Emails : ExpireRecent(e) \/ ExpireCode(e)
           \/ \E u \in Ids : Login(u)
           \/ \E k \in tokens : ExpireToken(k)
           \/ Crash
           \/ UNCHANGED vars
  <2>1. users' = users /\ faults' = faults
    BY <1>8 DEF RunSendConfirmEmail, ExpireRecent, ExpireCode, Login, ExpireToken, Crash, vars,
         Tables, Book
  <2>2. req' = req \/ req' = [t \in Threads |-> Idle]
    BY <1>8 DEF RunSendConfirmEmail, ExpireRecent, ExpireCode, Login, ExpireToken, Crash, vars
  <2>3. \A s \in Threads : Keeps(req[s], req'[s])
    BY <2>2 DEF Keeps, Inserting, Idle
  <2> QED BY <1>2, <2>1, <2>3
<1> QED BY <1>1, <1>4, <1>5, <1>6, <1>7, <1>8, FewInsert DEF Next, Step

\* However often a code is used, an address has no more accounts than
\* registrations run at a time and checks fail.
THEOREM NamesFew == ASSUME IsFiniteSet(Threads) PROVE Spec => []NamesBounded
<1>1. Init => FewNames
  <2> SUFFICES ASSUME Init, NEW e \in Emails
               PROVE  /\ IsFiniteSet(Named(e))
                      /\ Cardinality(Named(e)) + Cardinality(Pending(e))
                           <= Cardinality(Threads) + faults
    BY DEF FewNames
  <2>1. Named(e) = {}
    <3>1. ASSUME NEW u \in Ids, users[u] # None PROVE users[u].name = None
      BY <3>1 DEF Init
    <3> QED BY <3>1, AccountAssumption DEF Named
  <2>2. Pending(e) \in SUBSET Threads /\ faults = 0
    BY DEF Init, Pending
  <2> QED BY <2>1, <2>2, FS_EmptySet, PendingSize
<1>2. IInv /\ FewNames /\ [Next]_vars => FewNames'
  BY FewNext
<1>3. IInv /\ FewNames => NamesBounded
  <2> SUFFICES ASSUME IInv, FewNames, NEW e \in Emails
               PROVE  Cardinality(Named(e)) <= Cardinality(Threads) + faults
    BY DEF NamesBounded
  <2>1. Pending(e) \in SUBSET Threads /\ faults \in Nat
    BY DEF Pending, IInv, TypeOK
  <2>2. /\ IsFiniteSet(Named(e))
        /\ Cardinality(Named(e)) + Cardinality(Pending(e)) <= Cardinality(Threads) + faults
    BY DEF FewNames
  <2>3. Cardinality(Named(e)) \in Nat
    BY <2>2, FS_CardinalityType
  <2> QED BY <2>1, <2>2, <2>3, PendingSize
<1> QED BY <1>1, <1>2, <1>3, InitInv, InvNext, PTL DEF Spec
=============================================================================
