------------------------------- MODULE Accounts -------------------------------
(***************************************************************************)
(* Accounts: the code mailed to an address, registration with it, tokens,  *)
(* and the two requests that save a user's row, the user's own update and  *)
(* an administrator's change of a status.                                  *)
(*                                                                         *)
(* A request is one goroutine; each call to Redis, RabbitMQ or the         *)
(* database is a step.  Passwords are taken to be right, and of a row the  *)
(* name (the address), the nickname and the status are kept.               *)
(***************************************************************************)
EXTENDS Naturals

CONSTANTS Emails,       \* addresses, which are the user names
          Nicks,        \* nicknames
          Codes,        \* the codes that may be drawn
          UserIds,      \* uuids: numbers, as the database orders rows by them
          NewStatuses,  \* bound: the statuses administrators ask for
          Threads,      \* request slots: how many requests are in flight
          MaxRequests,  \* bound on the requests of a behaviour
          MaxFaults,    \* bound on the checks whose call fails
          None

Root == 0               \* the super administrator made by the migration

Status == {"super_admin", "common_admin", "active", "inactive", "suspend"}
Admins == {"super_admin", "common_admin"}

ASSUME AccountAssumption ==
  /\ UserIds \subseteq Nat \ {0}
  /\ NewStatuses \subseteq Status
  /\ MaxRequests \in Nat /\ MaxFaults \in Nat
  /\ None \notin Emails /\ None \notin Nicks /\ None \notin Codes
  /\ None \notin [name : Emails \cup {None}, nick : Nicks \cup {None}, status : Status]

VARIABLES code,      \* email:<address> in Redis
          recent,    \* user:confirm:<address> in Redis
          queue,     \* send-email-queue: [to, code]
          mails,     \* what was delivered: [to, code]
          users,     \* table users
          stores,    \* the users whose store exists
          folders,   \* the users whose main folder exists
          tokens,    \* the JWTs that have been issued and not expired
          req,       \* the requests in flight
          requests,  \* number of requests so far
          faults,    \* number of checks whose call failed so far
          granted    \* history: what administrators super administrators made

vars == <<code, recent, queue, mails, users, stores, folders, tokens, req, requests, faults,
          granted>>

Redis  == <<code, recent>>
Mail   == <<queue, mails>>
Tables == <<users, stores, folders>>
Book   == <<faults, granted>>

Ids == UserIds \cup {Root}

Message == [to : Emails, code : Codes]

User == [name : Emails \cup {None}, nick : Nicks \cup {None}, status : Status]

Token == [user : Ids, status : Status]

\* A handler's local variables: the address or nickname and the code given, the
\* id drawn, the token, and the row that was read.
Request ==
  [pc : {"idle", "recent", "name", "set", "publish", "mark",
         "code", "nick", "free", "store", "folder", "user",
         "find", "save", "admin", "target", "change"},
   email : Emails \cup {None}, nick : Nicks \cup {None}, code : Codes \cup {None},
   id : Ids \cup {None}, token : Token \cup {None}, status : Status \cup {None},
   row : User \cup {None}]

Idle == [pc |-> "idle", email |-> None, nick |-> None, code |-> None, id |-> None,
         token |-> None, status |-> None, row |-> None]

TypeOK ==
  /\ code \in [Emails -> Codes \cup {None}]
  /\ recent \in [Emails -> BOOLEAN]
  /\ queue \subseteq Message /\ mails \subseteq Message
  /\ users \in [Ids -> User \cup {None}]
  /\ stores \subseteq Ids /\ folders \subseteq Ids
  /\ tokens \subseteq Token
  /\ req \in [Threads -> Request]
  /\ requests \in Nat /\ faults \in Nat
  /\ granted \subseteq Ids \X Admins

\* The migration has made the super administrator.
Init ==
  /\ code = [e \in Emails |-> None]
  /\ recent = [e \in Emails |-> FALSE]
  /\ queue = {} /\ mails = {}
  /\ users = [u \in Ids |-> IF u = Root
                THEN [name |-> None, nick |-> None, status |-> "super_admin"]
                ELSE None]
  /\ stores = {Root} /\ folders = {Root}
  /\ tokens = {}
  /\ req = [t \in Threads |-> Idle]
  /\ requests = 0 /\ faults = 0
  /\ granted = {<<Root, "super_admin">>}

Named(e) == {u \in Ids : users[u] # None /\ users[u].name = e}

Called(n) == {u \in Ids : users[u] # None /\ users[u].nick = n}

At(t, pc) == req[t].pc = pc

Goto(t, pc) == req' = [req EXCEPT ![t].pc = pc]

Return(t) == req' = [req EXCEPT ![t] = Idle]

Start(t, r) ==
  /\ At(t, "idle")
  /\ requests < MaxRequests
  /\ requests' = requests + 1
  /\ req' = [req EXCEPT ![t] = r]

-----------------------------------------------------------------------------
(* What a status may do: casbin's policies with the roles inherited. *)

\* Routes, by the prefix their path begins with.
Beginning(prefix) ==
  CASE prefix = "file"       -> {"file", "filefolder", "filestore"}
    [] prefix = "admin/file" -> {"admin/file", "admin/filestore"}
    [] OTHER                 -> {prefix}

Every == {"GET", "POST", "PUT", "DELETE"}

\* [status, prefix, methods] of the policies that allow.
Policies ==
  {<<"inactive", "user", Every>>, <<"inactive", "file", {"GET", "DELETE"}>>,
   <<"inactive", "share", {"GET", "DELETE"}>>,
   <<"active", "share", Every>>, <<"active", "file", Every>>, <<"active", "rank", {"GET"}>>}
  \cup {<<"common_admin", p, Every>> :
          p \in {"admin/user", "admin/login", "admin/filestore", "admin/share", "admin/file"}}

\* The roles a status has.
Roles(status) ==
  CASE status = "common_admin" -> {"common_admin", "active", "inactive"}
    [] status = "active"       -> {"active", "inactive"}
    [] OTHER                   -> {status}

Enforce(status, object, method) ==
  \/ status = "super_admin"
  \/ \E p \in Policies :
       p[1] \in Roles(status) /\ object \in Beginning(p[2]) /\ method \in p[3]

-----------------------------------------------------------------------------
(* SendConfirmEmail *)

SendConfirmEmail(t, e) ==
  /\ Start(t, [Idle EXCEPT !.pc = "recent", !.email = e])
  /\ UNCHANGED <<Redis, Mail, Tables, tokens, Book>>

\* An address that was just served is refused.
CheckRecent(t) ==
  /\ At(t, "recent")
  /\ IF recent[req[t].email] THEN Return(t) ELSE Goto(t, "name")
  /\ UNCHANGED <<Redis, Mail, Tables, tokens, requests, Book>>

\* And so is a registered one.
CheckUnregistered(t) ==
  /\ At(t, "name")
  /\ IF Named(req[t].email) # {} THEN Return(t) ELSE Goto(t, "set")
  /\ UNCHANGED <<Redis, Mail, Tables, tokens, requests, Book>>

\* Deviation: the mail is written before a code is drawn.
SetCodeUnsent(t) ==
  /\ At(t, "set")
  /\ \E c \in Codes : code' = [code EXCEPT ![req[t].email] = c]
  /\ Goto(t, "publish")
  /\ UNCHANGED <<recent, Mail, Tables, tokens, requests, Book>>

SetCode(t) ==
  /\ At(t, "set")
  /\ \E c \in Codes :
       /\ code' = [code EXCEPT ![req[t].email] = c]
       /\ req' = [req EXCEPT ![t].pc = "publish", ![t].code = c]
  /\ UNCHANGED <<recent, Mail, Tables, tokens, requests, Book>>

SendConfirmEmailToMQ(t) ==
  /\ At(t, "publish")
  /\ queue' = queue \cup {[to |-> req[t].email, code |-> req[t].code]}
  /\ Goto(t, "mark")
  /\ UNCHANGED <<Redis, mails, Tables, tokens, requests, Book>>

SetRecent(t) ==
  /\ At(t, "mark")
  /\ recent' = [recent EXCEPT ![req[t].email] = TRUE]
  /\ Return(t)
  /\ UNCHANGED <<code, Mail, Tables, tokens, requests, Book>>

\* A message is acknowledged whether its mail goes out or not: nobody looks at
\* the error of sending it.
RunSendConfirmEmail(m) ==
  /\ m \in queue
  /\ queue' = queue \ {m}
  /\ mails' \in {mails, mails \cup {m}}
  /\ UNCHANGED <<Redis, Tables, tokens, req, requests, Book>>

ExpireRecent(e) ==
  /\ recent[e]
  /\ recent' = [recent EXCEPT ![e] = FALSE]
  /\ UNCHANGED <<code, Mail, Tables, tokens, req, requests, Book>>

ExpireCode(e) ==
  /\ code[e] # None
  /\ code' = [code EXCEPT ![e] = None]
  /\ UNCHANGED <<recent, Mail, Tables, tokens, req, requests, Book>>

-----------------------------------------------------------------------------
(* Register, with a code somebody got in a mail. *)

Register(t, m, e, n) ==
  /\ m \in mails
  /\ Start(t, [Idle EXCEPT !.pc = "code", !.email = e, !.nick = n, !.code = m.code])
  /\ UNCHANGED <<Redis, Mail, Tables, tokens, Book>>

\* The code stays in Redis when it has served.
CheckCode(t) ==
  /\ At(t, "code")
  /\ IF code[req[t].email] = req[t].code THEN Goto(t, "nick") ELSE Return(t)
  /\ UNCHANGED <<Redis, Mail, Tables, tokens, requests, Book>>

CheckNick(t) ==
  /\ At(t, "nick")
  /\ IF Called(req[t].nick) = {} THEN Goto(t, "free") ELSE Return(t)
  /\ UNCHANGED <<Redis, Mail, Tables, tokens, requests, Book>>

\* Deviation: the address is not looked for.
CheckNoName(t) ==
  /\ At(t, "free")
  /\ Goto(t, "store")
  /\ UNCHANGED <<Redis, Mail, Tables, tokens, requests, Book>>

CheckName(t) ==
  /\ At(t, "free")
  /\ IF Named(req[t].email) = {} THEN Goto(t, "store") ELSE Return(t)
  /\ UNCHANGED <<Redis, Mail, Tables, tokens, requests, Book>>

\* CreateUser draws an id and makes the store, the folder and the row, each in
\* a statement of its own; one that fails leaves the ones before it.
CreateFileStore(t) ==
  /\ At(t, "store")
  /\ \E u \in UserIds \ stores :
       /\ stores' = stores \cup {u}
       /\ req' = [req EXCEPT ![t].pc = "folder", ![t].id = u]
  /\ UNCHANGED <<Redis, Mail, users, folders, tokens, requests, Book>>

\* Deviation: a folder that cannot be made does not end the request.
CreateFolderOrNot(t) ==
  /\ At(t, "folder")
  /\ folders' \in {folders, folders \cup {req[t].id}}
  /\ Goto(t, "user")
  /\ UNCHANGED <<Redis, Mail, users, stores, tokens, requests, Book>>

CreateBaseFileFolder(t) ==
  /\ At(t, "folder")
  /\ folders' = folders \cup {req[t].id}
  /\ Goto(t, "user")
  /\ UNCHANGED <<Redis, Mail, users, stores, tokens, requests, Book>>

CreateUser(t) ==
  LET row == [name |-> req[t].email, nick |-> req[t].nick, status |-> "active"]
  IN /\ At(t, "user")
     /\ users' = [users EXCEPT ![req[t].id] = row]
     /\ tokens' = tokens \cup {[user |-> req[t].id, status |-> "active"]}
     /\ Return(t)
     /\ UNCHANGED <<Redis, Mail, stores, folders, requests, Book>>

-----------------------------------------------------------------------------
(* Tokens keep the status of the login; they expire. *)

\* First: of the rows with that name, the one with the least id.
Login(u) ==
  /\ users[u] # None
  /\ \A v \in Named(users[u].name) : u <= v
  /\ tokens' = tokens \cup {[user |-> u, status |-> users[u].status]}
  /\ UNCHANGED <<Redis, Mail, Tables, req, requests, Book>>

ExpireToken(k) ==
  /\ k \in tokens
  /\ tokens' = tokens \ {k}
  /\ UNCHANGED <<Redis, Mail, Tables, req, requests, Book>>

-----------------------------------------------------------------------------
(* UpdateUserInfo *)

UpdateUserInfo(t, k, n) ==
  /\ k \in tokens
  /\ Enforce(k.status, "user", "PUT")
  /\ Start(t, [Idle EXCEPT !.pc = "find", !.token = k, !.nick = n])
  /\ UNCHANGED <<Redis, Mail, Tables, tokens, Book>>

FindSelf(t) ==
  /\ At(t, "find")
  /\ req' = [req EXCEPT ![t].pc = "save", ![t].row = users[req[t].token.user]]
  /\ UNCHANGED <<Redis, Mail, Tables, tokens, requests, Book>>

\* Save writes every column as it was read, the status too.
SaveSelf(t) ==
  /\ At(t, "save")
  /\ users' = [users EXCEPT ![req[t].token.user] = [req[t].row EXCEPT !.nick = req[t].nick]]
  /\ Return(t)
  /\ UNCHANGED <<Redis, Mail, stores, folders, tokens, requests, Book>>

-----------------------------------------------------------------------------
(* UserChangeAuth, behind AdminAuth *)

UpdateUserAuth(t, k, u, s) ==
  /\ k \in tokens
  /\ Enforce(k.status, "admin/user", "PUT")
  /\ Start(t, [Idle EXCEPT !.pc = "admin", !.token = k, !.id = u, !.status = s])
  /\ UNCHANGED <<Redis, Mail, Tables, tokens, Book>>

\* The token must name the status the user has.
AdminAuth(t) ==
  LET k == req[t].token
  IN /\ At(t, "admin")
     /\ IF users[k.user].status = k.status THEN Goto(t, "target") ELSE Return(t)
     /\ UNCHANGED <<Redis, Mail, Tables, tokens, requests, Book>>

\* Deviation: the status asked for is not looked at.
MayChangeFrom(by, from, to) ==
  /\ by \in Admins
  /\ by = "common_admin" => from \notin Admins

\* What an administrator of a status may make of a user of another: a common
\* one neither changes administrators nor makes any.
MayChange(by, from, to) ==
  /\ by \in Admins
  /\ by = "common_admin" => from \notin Admins /\ to \notin Admins

UserChangeAuth(t) ==
  LET r == req[t]
      row == users[r.id]
  IN /\ At(t, "target")
     /\ IF row # None /\ MayChange(r.token.status, row.status, r.status)
          THEN req' = [req EXCEPT ![t].pc = "change", ![t].row = row]
          ELSE Return(t)
     /\ UNCHANGED <<Redis, Mail, Tables, tokens, requests, Book>>

SaveStatus(t) ==
  LET r == req[t]
  IN /\ At(t, "change")
     /\ users' = [users EXCEPT ![r.id] = [r.row EXCEPT !.status = r.status]]
     /\ granted' = IF r.token.status = "super_admin" /\ r.status \in Admins
                     THEN granted \cup {<<r.id, r.status>>} ELSE granted
     /\ Return(t)
     /\ UNCHANGED <<Redis, Mail, stores, folders, tokens, requests, faults>>

-----------------------------------------------------------------------------
(* Calls that fail. *)

\* The checks whose error nobody looks at go on as if nothing had been found.
CheckFails(t) ==
  /\ faults < MaxFaults
  /\ faults' = faults + 1
  /\ \/ At(t, "recent") /\ Goto(t, "name")
     \/ At(t, "nick") /\ Goto(t, "free")
     \/ At(t, "free") /\ Goto(t, "store")
  /\ UNCHANGED <<Redis, Mail, Tables, tokens, requests, granted>>

\* Any other call that fails ends the request.
Fail(t) ==
  /\ req[t].pc \in {"name", "publish", "code", "store", "folder", "user",
                   "find", "save", "admin", "target", "change"}
  /\ Return(t)
  /\ UNCHANGED <<Redis, Mail, Tables, tokens, requests, Book>>

\* The process dies.
Crash ==
  /\ req' = [t \in Threads |-> Idle]
  /\ UNCHANGED <<Redis, Mail, Tables, tokens, requests, Book>>

Step(t) ==
  \/ CheckRecent(t) \/ CheckUnregistered(t) \/ SetCode(t)
  \/ SendConfirmEmailToMQ(t) \/ SetRecent(t)
  \/ CheckCode(t) \/ CheckNick(t) \/ CheckName(t)
  \/ CreateFileStore(t) \/ CreateBaseFileFolder(t) \/ CreateUser(t)
  \/ FindSelf(t) \/ SaveSelf(t)
  \/ AdminAuth(t) \/ UserChangeAuth(t) \/ SaveStatus(t)
  \/ CheckFails(t) \/ Fail(t)

Next ==
  \/ \E t \in Threads, e \in Emails : SendConfirmEmail(t, e)
  \/ \E t \in Threads, m \in mails, e \in Emails, n \in Nicks : Register(t, m, e, n)
  \/ \E t \in Threads, k \in tokens, n \in Nicks : UpdateUserInfo(t, k, n)
  \/ \E t \in Threads, k \in tokens, u \in Ids, s \in NewStatuses : UpdateUserAuth(t, k, u, s)
  \/ \E t \in Threads : Step(t)
  \/ \E m \in queue : RunSendConfirmEmail(m)
  \/ \E e \in Emails : ExpireRecent(e) \/ ExpireCode(e)
  \/ \E u \in Ids : Login(u)
  \/ \E k \in tokens : ExpireToken(k)
  \/ Crash

Spec == Init /\ [][Next]_vars
=============================================================================
