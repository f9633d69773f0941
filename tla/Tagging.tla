------------------------------- MODULE Tagging --------------------------------
(***************************************************************************)
(* Automatic tags: a request puts a message on a queue of RabbitMQ; the    *)
(* consumer of every process takes one message at a time, downloads the    *)
(* file, has its labels recognised and saves them in one transaction.  A   *)
(* message that fails goes back to the queue, to the place it came from.   *)
(*                                                                         *)
(* The transaction reads a snapshot (InnoDB's repeatable read): a tag or a *)
(* link committed later is not seen, a tag whose name is in use cannot be  *)
(* inserted, and one that an open transaction has inserted is waited for.  *)
(***************************************************************************)
EXTENDS Naturals, Sequences, FiniteSets

CONSTANTS Files,        \* file_uuids
          Names,        \* tag names
          Labels,       \* the labels recognised in every file
          Images,       \* the files that can be decoded
          Consumers,    \* one in every process
          MaxMessages,  \* bound on the requests of a behaviour
          MaxDeletes,   \* bound on the files that are deleted
          MaxFaults,    \* bound on failing calls and dying processes
          None

ASSUME TaggingAssumption ==
  /\ Labels \in [Files -> Seq(Names)]
  /\ Images \subseteq Files
  /\ MaxMessages \in Nat /\ MaxDeletes \in Nat /\ MaxFaults \in Nat
  /\ None \notin Files

VARIABLES files,     \* table files
          tags,      \* table tags: a name is unique
          links,     \* table file_tags: how many rows join a file and a tag
          queue,     \* auto-tag-queue
          con,       \* the consumers
          deaf,      \* the consumers whose channel to the broker is closed
          messages,  \* number of requests so far
          faults,    \* number of faults so far
          lost       \* history: files whose message was acknowledged although
                     \* the download was refused

vars == <<files, tags, links, queue, con, deaf, messages, faults, lost>>

\* A consumer's message and transaction: the labels still to save, the tags and
\* links it saw at its first read, and those it has inserted.
Consumer ==
  [pc : {"idle", "find", "download", "detect", "begin", "tag", "link", "commit", "ack"},
   file : Files \cup {None}, todo : Seq(Names), seen : SUBSET Names,
   seenLinks : SUBSET Names, newTags : SUBSET Names, newLinks : SUBSET Names]

Idle == [pc |-> "idle", file |-> None, todo |-> <<>>, seen |-> {},
         seenLinks |-> {}, newTags |-> {}, newLinks |-> {}]

TypeOK ==
  /\ files \subseteq Files
  /\ tags \subseteq Names
  /\ links \in [Files -> [Names -> Nat]]
  /\ queue \in Seq(Files)
  /\ con \in [Consumers -> Consumer]
  /\ deaf \subseteq Consumers
  /\ messages \in Nat /\ faults \in Nat
  /\ lost \subseteq Files

Init ==
  /\ files = Files
  /\ tags = {}
  /\ links = [f \in Files |-> [n \in Names |-> 0]]
  /\ queue = <<>>
  /\ con = [c \in Consumers |-> Idle]
  /\ deaf = {}
  /\ messages = 0 /\ faults = 0
  /\ lost = {}

At(c, pc) == con[c].pc = pc

Goto(c, pc) == con' = [con EXCEPT ![c].pc = pc]

Tables == <<files, tags, links>>

\* Deviation: a message that fails is dropped.
NackDropped(c) ==
  /\ con' = [con EXCEPT ![c] = Idle]
  /\ UNCHANGED queue

\* The message goes back to the head of the queue; an open transaction is
\* rolled back.  Over a closed channel nothing is said: the broker has taken the
\* message back by itself.
Nack(c) ==
  /\ queue' = IF c \in deaf THEN queue ELSE <<con[c].file>> \o queue
  /\ con' = [con EXCEPT ![c] = Idle]

Ack(c) ==
  /\ con' = [con EXCEPT ![c] = Idle]
  /\ UNCHANGED queue

Fault == faults < MaxFaults /\ faults' = faults + 1

-----------------------------------------------------------------------------
\* Deviation: the message is built before the request's file id is bound.
GetTagsOfNone(f) ==
  /\ messages < MaxMessages
  /\ messages' = messages + 1
  /\ queue' = Append(queue, None)
  /\ UNCHANGED <<Tables, con, deaf, faults, lost>>

\* Whoever asks, and for whatever file: a message is published.
GetAutoTags(f) ==
  /\ messages < MaxMessages
  /\ messages' = messages + 1
  /\ queue' = Append(queue, f)
  /\ UNCHANGED <<Tables, con, deaf, faults, lost>>

\* A file is deleted with its links; a transaction that has linked it holds it.
DeleteFile(f) ==
  /\ f \in files
  /\ Cardinality(Files \ files) < MaxDeletes
  /\ \A c \in Consumers : con[c].file = f => con[c].newLinks = {}
  /\ files' = files \ {f}
  /\ links' = [links EXCEPT ![f] = [n \in Names |-> 0]]
  /\ UNCHANGED <<tags, queue, con, deaf, messages, faults, lost>>

-----------------------------------------------------------------------------
(* RunAutoTagService and processAutoTag. *)

\* The broker hands the message at the head to a consumer that has none.
Deliver(c) ==
  /\ At(c, "idle")
  /\ c \notin deaf
  /\ queue # <<>>
  /\ con' = [con EXCEPT ![c].pc = "find", ![c].file = Head(queue)]
  /\ queue' = Tail(queue)
  /\ UNCHANGED <<Tables, deaf, messages, faults, lost>>

FindFile(c) ==
  /\ At(c, "find")
  /\ IF con[c].file \in files THEN Goto(c, "download") /\ UNCHANGED queue
                              ELSE Nack(c)
  /\ UNCHANGED <<Tables, deaf, messages, faults, lost>>

Download(c) ==
  /\ At(c, "download")
  /\ Goto(c, "detect")
  /\ UNCHANGED <<Tables, queue, deaf, messages, faults, lost>>

\* An answer other than 200 comes with no error: the message is done with.
DownloadRefused(c) ==
  /\ At(c, "download")
  /\ Fault
  /\ Ack(c)
  /\ lost' = IF c \in deaf THEN lost ELSE lost \cup {con[c].file}
  /\ UNCHANGED <<Tables, deaf, messages>>

\* What is not an image fails to decode, now and ever.
DetectLabels(c) ==
  /\ At(c, "detect")
  /\ IF con[c].file \in Images
       THEN /\ con' = [con EXCEPT ![c].pc = "begin", ![c].todo = Labels[con[c].file]]
            /\ UNCHANGED queue
       ELSE Nack(c)
  /\ UNCHANGED <<Tables, deaf, messages, faults, lost>>

-----------------------------------------------------------------------------
(* saveTagsToDatabase: one transaction. *)

\* The label to be saved next, or the end of the loop.
Next1(todo) == IF todo = <<>> THEN "commit" ELSE "tag"

\* Deviation: links that exist are not looked for.
BeginUnseen(c) ==
  LET k == con[c]
  IN /\ At(c, "begin")
     /\ con' = [con EXCEPT ![c].pc = Next1(k.todo), ![c].seen = tags]
     /\ UNCHANGED <<Tables, queue, deaf, messages, faults, lost>>

\* The first read fixes what the transaction sees.
Begin(c) ==
  LET k == con[c]
  IN /\ At(c, "begin")
     /\ con' = [con EXCEPT ![c].pc = Next1(k.todo), ![c].seen = tags,
                  ![c].seenLinks = {n \in Names : links[k.file][n] > 0}]
     /\ UNCHANGED <<Tables, queue, deaf, messages, faults, lost>>

\* A consumer that is to create a tag which another's transaction has created.
WaitsFor(c, d) ==
  /\ At(c, "tag")
  /\ c # d
  /\ Head(con[c].todo) \in con[d].newTags \ (con[c].seen \cup con[c].newTags)

\* The tag is found, or created unless its name is taken by now.
SaveTag(c) ==
  LET k == con[c]
      n == Head(k.todo)
  IN /\ At(c, "tag")
     /\ \/ n \in k.seen \cup k.newTags /\ Goto(c, "link") /\ UNCHANGED queue
        \/ /\ n \notin k.seen \cup k.newTags \cup tags
           /\ \A d \in Consumers : ~WaitsFor(c, d)
           /\ con' = [con EXCEPT ![c].pc = "link", ![c].newTags = @ \cup {n}]
           /\ UNCHANGED queue
        \/ n \in tags \ k.seen /\ Nack(c)
     /\ UNCHANGED <<Tables, deaf, messages, faults, lost>>

\* Consumers that wait for each other's names are a deadlock, which the database
\* ends by refusing the insert of one of them.
Deadlock(c) ==
  /\ \E S \in SUBSET Consumers :
       /\ c \in S
       /\ \A d \in S : \E e \in S : WaitsFor(d, e)
       /\ \A e \in S : \E d \in S : WaitsFor(d, e)
  /\ Nack(c)
  /\ UNCHANGED <<Tables, deaf, messages, faults, lost>>

\* Deviation: links are inserted outside the transaction.
SaveLinkOutside(c) ==
  LET k == con[c]
      n == Head(k.todo)
  IN /\ At(c, "link")
     /\ con' = [con EXCEPT ![c].pc = Next1(Tail(k.todo)), ![c].todo = Tail(@)]
     /\ links' = IF n \in k.seenLinks \/ k.file \notin files THEN links
                 ELSE [links EXCEPT ![k.file][n] = @ + 1]
     /\ UNCHANGED <<files, tags, queue, deaf, messages, faults, lost>>

\* The link is there already, or is inserted while the file exists.
SaveLink(c) ==
  LET k == con[c]
      n == Head(k.todo)
  IN /\ At(c, "link")
     /\ IF n \notin k.seenLinks \cup k.newLinks /\ k.file \notin files
          THEN Nack(c)
          ELSE /\ con' = [con EXCEPT ![c].pc = Next1(Tail(k.todo)), ![c].todo = Tail(@),
                           ![c].newLinks = IF n \in k.seenLinks THEN @ ELSE @ \cup {n}]
               /\ UNCHANGED queue
     /\ UNCHANGED <<Tables, deaf, messages, faults, lost>>

Commit(c) ==
  LET k == con[c]
  IN /\ At(c, "commit")
     /\ tags' = tags \cup k.newTags
     /\ links' = [links EXCEPT ![k.file] =
          [n \in Names |-> IF n \in k.newLinks THEN @[n] + 1 ELSE @[n]]]
     /\ con' = [con EXCEPT ![c] = [Idle EXCEPT !.pc = "ack", !.file = k.file]]
     /\ UNCHANGED <<files, queue, deaf, messages, faults, lost>>

Acknowledge(c) ==
  /\ At(c, "ack")
  /\ Ack(c)
  /\ UNCHANGED <<Tables, deaf, messages, faults, lost>>

-----------------------------------------------------------------------------
\* A call fails or times out, or the process dies and the broker takes its message back,
\* which after the commit is the one that was just done.
Fail(c) ==
  /\ ~At(c, "idle")
  /\ Fault
  /\ Nack(c)
  /\ UNCHANGED <<Tables, deaf, messages, lost>>

\* The channel is closed and the broker takes its message back, which the
\* consumer goes on with; then its loop is over, while the service stays.
Disconnect(c) ==
  /\ c \notin deaf
  /\ Fault
  /\ deaf' = deaf \cup {c}
  /\ queue' = IF At(c, "idle") THEN queue ELSE <<con[c].file>> \o queue
  /\ UNCHANGED <<Tables, con, messages, lost>>

\* Only a restart of its process opens another.
Restart(c) ==
  /\ c \in deaf
  /\ deaf' = deaf \ {c}
  /\ con' = [con EXCEPT ![c] = Idle]
  /\ UNCHANGED <<Tables, queue, messages, faults, lost>>

Work(c) ==
  \/ FindFile(c) \/ Download(c) \/ DetectLabels(c) \/ Begin(c) \/ SaveTag(c)
  \/ Deadlock(c) \/ SaveLink(c) \/ Commit(c) \/ Acknowledge(c)

Next ==
  \/ \E f \in Files : GetAutoTags(f) \/ DeleteFile(f)
  \/ \E c \in Consumers : 
       \/ Deliver(c) \/ Work(c) \/ DownloadRefused(c)
       \/ Fail(c) \/ Disconnect(c) \/ Restart(c)

Spec == Init /\ [][Next]_vars

\* Consumers go on with their message; the database grants a waiting insert when
\* the lock is released; the broker hands on the message at the head when a
\* consumer is free.
FairSpec ==
  /\ Spec
  /\ \A c \in Consumers :
       /\ WF_vars(Work(c))
       /\ \A n \in Names :
            SF_vars(con[c].todo # <<>> /\ Head(con[c].todo) = n /\ SaveTag(c))
  /\ WF_vars(\E c \in Consumers : Deliver(c))
  /\ \A f \in Images :
       SF_vars(\E c \in Consumers : queue # <<>> /\ Head(queue) = f /\ Deliver(c))
=============================================================================
