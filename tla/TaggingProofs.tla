----------------------------- MODULE TaggingProofs -----------------------------
(***************************************************************************)
(* What holds of automatic tags for any number of files, labels, consumers, *)
(* messages and faults.                                                     *)
(***************************************************************************)
EXTENDS TaggingProps, FiniteSetTheorems, TLAPS

LabelsIn(s) == {s[i] : i \in DOMAIN s}

InTransaction(k) == k.pc \in {"tag", "link", "commit"}

\* A consumer's message, and what its transaction has seen, done and left.  It
\* saw all links of the file or none, so it inserts all or none.
Local(k) ==
  /\ k.pc # "idle" => k.file \in Files
  /\ k.pc \in {"tag", "link"} => k.todo # <<>>
  /\ k.pc = "commit" => k.todo = <<>>
  /\ k.pc = "begin" => k.todo = Labels[k.file]
  /\ ~InTransaction(k) => k.newLinks = {}
  /\ InTransaction(k) =>
       /\ k.seenLinks \in {{}, LabelSet(k.file)}
       /\ k.newLinks \subseteq LabelSet(k.file) \ k.seenLinks
       /\ LabelsIn(k.todo) \subseteq LabelSet(k.file)
       /\ LabelSet(k.file) \subseteq k.seenLinks \cup k.newLinks \cup LabelsIn(k.todo)

IInv == TypeOK /\ AllOrNone /\ \A c \in Consumers : Local(con[c])

LEMMA LabelTypes ==
  \A f \in Files : Labels[f] \in Seq(Names) /\ LabelSet(f) = LabelsIn(Labels[f])
BY TaggingAssumption DEF LabelSet, LabelsIn

LEMMA HeadTail ==
  ASSUME NEW S, NEW s \in Seq(S), s # <<>>
  PROVE  /\ Head(s) \in S /\ Tail(s) \in Seq(S)
         /\ LabelsIn(s) = {Head(s)} \cup LabelsIn(Tail(s))
<1>1. Head(s) = s[1] /\ Tail(s) \in Seq(S) /\ Len(s) \in Nat \ {0}
      /\ DOMAIN Tail(s) = 1..(Len(s) - 1) /\ DOMAIN s = 1..Len(s) /\ \A i \in 1..(Len(s) - 1) : Tail(s)[i] = s[i + 1]
  OBVIOUS
<1>2. ASSUME NEW i \in 1..Len(s), i # 1 PROVE s[i] \in LabelsIn(Tail(s))
  <2>1. i - 1 \in 1..(Len(s) - 1) /\ s[i] = Tail(s)[i - 1]
    BY <1>1, <1>2
  <2> QED BY <1>1, <2>1 DEF LabelsIn
<1>3. LabelsIn(s) \subseteq {Head(s)} \cup LabelsIn(Tail(s))
  BY <1>1, <1>2 DEF LabelsIn
<1>4. LabelsIn(Tail(s)) \subseteq LabelsIn(s)
  BY <1>1 DEF LabelsIn
<1>5. Head(s) \in LabelsIn(s) /\ Head(s) \in S
  BY <1>1 DEF LabelsIn
<1> QED BY <1>1, <1>3, <1>4, <1>5

LEMMA SameLinks == ASSUME AllOrNone, links' = links PROVE AllOrNone'
BY DEF AllOrNone, Linked, Tagged

\* A step of one consumer.
LEMMA OneStep ==
  ASSUME IInv, NEW c \in Consumers, NEW p \in Consumer, Local(p),
         con' = [con EXCEPT ![c] = p]
  PROVE  con' \in [Consumers -> Consumer] /\ \A x \in Consumers : Local(con'[x])
BY DEF IInv, TypeOK

LEMMA IdleLocal == Idle \in Consumer /\ Local(Idle)
<1>1. <<>> \in Seq(Names)
  OBVIOUS
<1> QED BY <1>1 DEF Idle, Consumer, Local, InTransaction

LEMMA NackStep ==
  ASSUME IInv, NEW c \in Consumers, con[c].pc # "idle", Nack(c)
  PROVE  /\ con' \in [Consumers -> Consumer] /\ \A x \in Consumers : Local(con'[x])
         /\ queue' \in Seq(Files)
<1>1. con[c].file \in Files
  BY DEF IInv, Local
<1>2. queue' \in Seq(Files)
  <2>1. <<con[c].file>> \in Seq(Files)
    BY <1>1
  <2> QED BY <2>1 DEF Nack, IInv, TypeOK
<1> QED BY <1>2, IdleLocal, OneStep DEF Nack

LEMMA AckStep ==
  ASSUME IInv, NEW c \in Consumers, Ack(c)
  PROVE  /\ con' \in [Consumers -> Consumer] /\ \A x \in Consumers : Local(con'[x])
         /\ queue' = queue
BY IdleLocal, OneStep DEF Ack

\* Requests and deletions.
LEMMA OutsideStep ==
  ASSUME IInv, NEW f \in Files, GetAutoTags(f) \/ DeleteFile(f)
  PROVE  IInv'
<1>1. con' = con
  BY DEF GetAutoTags, DeleteFile
<1>2. CASE GetAutoTags(f)
  <2>1. queue' \in Seq(Files) /\ messages' \in Nat
    BY <1>2 DEF GetAutoTags, IInv, TypeOK
  <2>2. links' = links
    BY <1>2 DEF GetAutoTags, Tables
  <2> QED BY <1>1, <1>2, <2>1, <2>2, SameLinks DEF GetAutoTags, Tables, IInv, TypeOK
<1>3. CASE DeleteFile(f)
  <2>1. PICK none : none = [n \in Names |-> 0]
    OBVIOUS
  <2>2. links' = [links EXCEPT ![f] = none] /\ none \in [Names -> Nat]
    BY <1>3, <2>1 DEF DeleteFile
  <2>3. links' \in [Files -> [Names -> Nat]]
    BY <2>2 DEF IInv, TypeOK
  <2>4. AllOrNone'
    <3>1. ASSUME NEW g \in Files PROVE Linked(g)' = {} \/ Tagged(g)'
      <4>1. CASE g = f
        BY <2>1, <2>2, <4>1 DEF IInv, TypeOK, Linked
      <4>2. CASE g # f
        <5>1. links'[g] = links[g]
          BY <2>2, <4>2 DEF IInv, TypeOK
        <5> QED BY <5>1 DEF IInv, AllOrNone, Linked, Tagged
      <4> QED BY <4>1, <4>2
    <3> QED BY <3>1 DEF AllOrNone
  <2> QED BY <1>1, <1>3, <2>3, <2>4 DEF DeleteFile, IInv, TypeOK
<1> QED BY <1>2, <1>3

\* The steps up to the transaction, and those that end with a message.
LEMMA MessageStep ==
  ASSUME IInv, NEW c \in Consumers, NEW k, k = con[c],
         \/ Deliver(c) \/ FindFile(c) \/ Download(c) \/ DownloadRefused(c) \/ DetectLabels(c)
         \/ Deadlock(c) \/ Acknowledge(c) \/ Fail(c)
  PROVE  IInv'
<1> DEFINE Cons == con' \in [Consumers -> Consumer] /\ \A x \in Consumers : Local(con'[x])
<1>1. k \in Consumer /\ Local(k) /\ links' = links /\ files' = files /\ tags' = tags
  BY DEF IInv, TypeOK, Deliver, FindFile, Download, DownloadRefused, DetectLabels, Deadlock,
         Acknowledge, Fail, Tables
<1>2. ASSUME Cons, queue' \in Seq(Files), messages' \in Nat, faults' \in Nat, lost' \subseteq Files,
             deaf' = deaf
      PROVE  IInv'
  BY <1>1, <1>2, SameLinks DEF IInv, TypeOK
<1>3. CASE Deliver(c)
  <2>1. Head(queue) \in Files /\ Tail(queue) \in Seq(Files)
    BY <1>3, HeadTail DEF Deliver, IInv, TypeOK
  <2>2. PICK f \in Files : f = Head(queue)
    BY <2>1
  <2> DEFINE p == [k EXCEPT !.pc = "find", !.file = f]
  <2>3. p \in Consumer /\ con' = [con EXCEPT ![c] = p]
    BY <1>1, <1>3, <2>2 DEF Deliver, Consumer
  <2>4. p.pc = "find" /\ p.file = f /\ p.newLinks = k.newLinks /\ k.pc = "idle"
    BY <1>1, <1>3 DEF Consumer, Deliver, At
  <2> HIDE DEF p
  <2>5. Local(p)
    BY <1>1, <2>4 DEF Local, InTransaction
  <2>6. Cons
    BY <2>3, <2>5, OneStep
  <2> QED BY <1>2, <1>3, <2>1, <2>6 DEF Deliver, IInv, TypeOK
<1>4. CASE FindFile(c)
  <2>1. ASSUME Goto(c, "download") PROVE Cons
    <3> DEFINE p == [k EXCEPT !.pc = "download"]
    <3>1. p \in Consumer /\ Local(p) /\ con' = [con EXCEPT ![c] = p]
      BY <1>1, <1>4, <2>1 DEF FindFile, At, Goto, Consumer, Local, InTransaction
    <3> HIDE DEF p
    <3> QED BY <3>1, OneStep
  <2>2. Cons /\ queue' \in Seq(Files)
    BY <1>4, <2>1, NackStep DEF FindFile, At, IInv, TypeOK
  <2> QED BY <1>2, <1>4, <2>2 DEF FindFile, IInv, TypeOK
<1>5. CASE Download(c)
  <2> DEFINE p == [k EXCEPT !.pc = "detect"]
  <2>1. p \in Consumer /\ Local(p) /\ con' = [con EXCEPT ![c] = p]
    BY <1>1, <1>5 DEF Download, At, Goto, Consumer, Local, InTransaction
  <2> HIDE DEF p
  <2>2. Cons
    BY <2>1, OneStep
  <2> QED BY <1>2, <1>5, <2>2 DEF Download, IInv, TypeOK
<1>6. CASE DownloadRefused(c)
  <2>1. k.file \in Files
    BY <1>1, <1>6 DEF DownloadRefused, At, Local
  <2> QED BY <1>2, <1>6, <2>1, AckStep DEF DownloadRefused, Fault, IInv, TypeOK
<1>7. CASE DetectLabels(c)
  <2>1. ASSUME con' = [con EXCEPT ![c].pc = "begin", ![c].todo = Labels[k.file]] PROVE Cons
    <3>1. k.file \in Files
      BY <1>1, <1>7 DEF DetectLabels, At, Local
    <3>2. PICK s \in Seq(Names) : s = Labels[k.file]
      BY <3>1, LabelTypes
    <3> DEFINE p == [k EXCEPT !.pc = "begin", !.todo = s]
    <3>3. p \in Consumer /\ con' = [con EXCEPT ![c] = p]
      BY <1>1, <2>1, <3>2 DEF Consumer
    <3>4. /\ p.pc = "begin" /\ p.file = k.file /\ p.todo = s /\ p.newLinks = k.newLinks
          /\ k.pc = "detect"
      BY <1>1, <1>7 DEF Consumer, DetectLabels, At
    <3> HIDE DEF p
    <3>5. Local(p)
      BY <1>1, <3>1, <3>2, <3>4 DEF Local, InTransaction
    <3> QED BY <3>3, <3>5, OneStep
  <2>2. Cons /\ queue' \in Seq(Files)
    BY <1>7, <2>1, NackStep DEF DetectLabels, At, IInv, TypeOK
  <2> QED BY <1>2, <1>7, <2>2 DEF DetectLabels, IInv, TypeOK
<1>8. CASE Deadlock(c)
  <2>1. At(c, "tag")
    BY <1>8 DEF Deadlock, WaitsFor
  <2>2. Cons /\ queue' \in Seq(Files)
    BY <1>8, <2>1, NackStep DEF Deadlock, At
  <2> QED BY <1>2, <1>8, <2>2 DEF Deadlock, IInv, TypeOK
<1>9. CASE Acknowledge(c)
  BY <1>2, <1>9, AckStep DEF Acknowledge, IInv, TypeOK
<1>10. CASE Fail(c)
  <2>1. Cons /\ queue' \in Seq(Files)
    BY <1>10, NackStep DEF Fail, At
  <2> QED BY <1>2, <1>10, <2>1 DEF Fail, Fault, IInv, TypeOK
<1> QED BY <1>3, <1>4, <1>5, <1>6, <1>7, <1>8, <1>9, <1>10

\* A channel that closes, and a process that starts again.
LEMMA ChannelStep ==
  ASSUME IInv, NEW c \in Consumers, Disconnect(c) \/ Restart(c)
  PROVE  IInv'
<1>1. links' = links /\ files' = files /\ tags' = tags /\ messages' = messages /\ lost' = lost
  BY DEF Disconnect, Restart, Tables
<1>2. CASE Disconnect(c)
  <2>1. con' = con /\ deaf' \subseteq Consumers /\ faults' \in Nat
    BY <1>2 DEF Disconnect, Fault, IInv, TypeOK
  <2>2. ASSUME ~At(c, "idle") PROVE <<con[c].file>> \o queue \in Seq(Files)
    <3>1. <<con[c].file>> \in Seq(Files)
      BY <2>2 DEF At, IInv, Local
    <3> QED BY <3>1 DEF IInv, TypeOK
  <2>3. queue' \in Seq(Files)
    BY <1>2, <2>2 DEF Disconnect, IInv, TypeOK
  <2> QED BY <1>1, <2>1, <2>3, SameLinks DEF IInv, TypeOK
<1>3. CASE Restart(c)
  BY <1>1, <1>3, IdleLocal, OneStep, SameLinks DEF Restart, IInv, TypeOK
<1> QED BY <1>2, <1>3

\* The transaction, up to its commit.
LEMMA TransactionStep ==
  ASSUME IInv, NEW c \in Consumers, NEW k, k = con[c], Begin(c) \/ SaveTag(c) \/ SaveLink(c)
  PROVE  IInv'
<1> DEFINE Cons == con' \in [Consumers -> Consumer] /\ \A x \in Consumers : Local(con'[x])
<1>1. k \in Consumer /\ Local(k) /\ links' = links /\ files' = files /\ tags' = tags
  BY DEF IInv, TypeOK, Begin, SaveTag, SaveLink, Tables
<1>2. ASSUME Cons, queue' \in Seq(Files)
      PROVE  IInv'
  BY <1>1, <1>2, SameLinks DEF IInv, TypeOK, Begin, SaveTag, SaveLink
<1>3. ASSUME NEW s \in Seq(Names)
      PROVE  /\ Next1(s) \in {"commit", "tag"}
             /\ Next1(s) = "commit" => s = <<>>
             /\ Next1(s) = "tag" => s # <<>>
  BY DEF Next1
<1>4. CASE Begin(c)
  <2>1. k.pc = "begin" /\ k.file \in Files /\ k.todo = Labels[k.file]
    BY <1>1, <1>4 DEF Begin, At, Local
  <2>2. PICK linked \in SUBSET Names : linked = {n \in Names : links[k.file][n] > 0}
    OBVIOUS
  <2>3. PICK pc : pc = Next1(k.todo)
    OBVIOUS
  <2>4. /\ pc \in {"commit", "tag"} /\ (pc = "commit" => k.todo = <<>>)
        /\ (pc = "tag" => k.todo # <<>>)
    BY <1>1, <1>3, <2>3 DEF Consumer
  <2>5. linked \in {{}, LabelSet(k.file)}
    BY <2>1, <2>2 DEF IInv, AllOrNone, Linked, Tagged
  <2>6. tags \subseteq Names /\ k.newLinks \subseteq Names
    BY <1>1 DEF IInv, TypeOK, Consumer
  <2>7. k.newLinks = {} /\ k.todo \in Seq(Names) /\ LabelsIn(k.todo) = LabelSet(k.file)
    BY <1>1, <2>1, LabelTypes DEF Local, InTransaction, Consumer
  <2> DEFINE p == [k EXCEPT !.pc = pc, !.seen = tags, !.seenLinks = linked]
  <2>8. con' = [con EXCEPT ![c] = p]
    BY <1>4, <2>2, <2>3 DEF Begin
  <2>9. p \in Consumer
    BY <1>1, <2>4, <2>6 DEF Consumer
  <2>10. /\ p.pc = pc /\ p.file = k.file /\ p.todo = k.todo /\ p.newLinks = k.newLinks
         /\ p.seenLinks = linked
    BY <1>1 DEF Consumer
  <2> HIDE DEF p
  <2>11. Local(p)
    BY <2>1, <2>4, <2>5, <2>7, <2>10 DEF Local, InTransaction
  <2>12. Cons
    BY <2>8, <2>9, <2>11, OneStep
  <2> QED BY <1>2, <1>4, <2>12 DEF Begin, IInv, TypeOK
<1>5. CASE SaveTag(c)
  <2>1. k.pc = "tag" /\ k.todo # <<>> /\ k.todo \in Seq(Names) /\ Head(k.todo) \in Names
    BY <1>1, <1>5, HeadTail DEF SaveTag, At, Local, Consumer
  <2>2. ASSUME NEW new \in SUBSET Names, con' = [con EXCEPT ![c].pc = "link", ![c].newTags = new]
        PROVE  Cons
    <3> DEFINE p == [k EXCEPT !.pc = "link", !.newTags = new]
    <3>1. p \in Consumer /\ con' = [con EXCEPT ![c] = p]
      BY <1>1, <2>2 DEF Consumer
    <3>2. /\ p.pc = "link" /\ p.file = k.file /\ p.todo = k.todo /\ p.newLinks = k.newLinks
          /\ p.seenLinks = k.seenLinks
      BY <1>1 DEF Consumer
    <3> HIDE DEF p
    <3>3. Local(p)
      BY <1>1, <2>1, <3>2 DEF Local, InTransaction
    <3> QED BY <3>1, <3>3, OneStep
  <2>3. k.newTags \in SUBSET Names /\ k.newTags \cup {Head(k.todo)} \in SUBSET Names
    BY <1>1, <2>1 DEF Consumer
  <2>4. ASSUME Goto(c, "link") PROVE Cons
    <3>1. con' = [con EXCEPT ![c].pc = "link", ![c].newTags = k.newTags]
      BY <1>1, <2>4 DEF Goto, IInv, TypeOK, Consumer
    <3> QED BY <2>2, <2>3, <3>1
  <2>5. ASSUME con' = [con EXCEPT ![c].pc = "link", ![c].newTags = @ \cup {Head(k.todo)}]
        PROVE  Cons
    <3>1. con' = [con EXCEPT ![c].pc = "link", ![c].newTags = k.newTags \cup {Head(k.todo)}]
      BY <1>1, <2>5 DEF IInv, TypeOK, Consumer
    <3> QED BY <2>2, <2>3, <3>1
  <2>6. CASE Nack(c)
    BY <1>2, <2>1, <2>6, NackStep
  <2>7. CASE queue' = queue /\ Cons
    BY <1>2, <2>7 DEF IInv, TypeOK
  <2> QED BY <1>5, <2>4, <2>5, <2>6, <2>7 DEF SaveTag
<1>6. CASE SaveLink(c)
  <2>1. /\ k.pc = "link" /\ k.file \in Files /\ k.todo # <<>> /\ k.todo \in Seq(Names)
    BY <1>1, <1>6 DEF SaveLink, At, Local, Consumer
  <2>2. PICK n, rest : n = Head(k.todo) /\ rest = Tail(k.todo)
    OBVIOUS
  <2>3. n \in Names /\ rest \in Seq(Names) /\ LabelsIn(k.todo) = {n} \cup LabelsIn(rest)
    BY <2>1, <2>2, HeadTail
  <2>4. PICK pc : pc = Next1(rest)
    OBVIOUS
  <2>5. /\ pc \in {"commit", "tag"} /\ (pc = "commit" => rest = <<>>)
        /\ (pc = "tag" => rest # <<>>)
    BY <1>3, <2>3, <2>4
  <2>6. PICK new : new = IF n \in k.seenLinks THEN k.newLinks ELSE k.newLinks \cup {n}
    OBVIOUS
  <2>7. new \in SUBSET Names
    BY <1>1, <2>3, <2>6 DEF Consumer
  <2> DEFINE p == [k EXCEPT !.pc = pc, !.todo = rest, !.newLinks = new]
  <2>8. p \in Consumer
    BY <1>1, <2>3, <2>5, <2>7 DEF Consumer
  <2>9. /\ p.pc = pc /\ p.file = k.file /\ p.todo = rest /\ p.newLinks = new
        /\ p.seenLinks = k.seenLinks
    BY <1>1 DEF Consumer
  <2>10. Nack(c) \/ (queue' = queue /\ con' = [con EXCEPT ![c] = p])
    BY <1>1, <1>6, <2>2, <2>4, <2>6 DEF SaveLink, IInv, TypeOK, Consumer
  <2> HIDE DEF p
  <2>11. Local(p)
    BY <1>1, <2>1, <2>3, <2>5, <2>6, <2>9 DEF Local, InTransaction
  <2>12. CASE Nack(c)
    BY <1>2, <2>1, <2>12, NackStep
  <2>13. CASE queue' = queue /\ con' = [con EXCEPT ![c] = p]
    BY <1>2, <2>8, <2>11, <2>13, OneStep DEF IInv, TypeOK
  <2> QED BY <2>10, <2>12, <2>13
<1> QED BY <1>4, <1>5, <1>6

\* What a commit does to the links of its file.
LEMMA CommitLinks ==
  ASSUME IInv, NEW c \in Consumers, NEW k, k = con[c], Commit(c)
  PROVE  /\ k.file \in Files /\ k.newLinks \subseteq LabelSet(k.file) \ k.seenLinks
         /\ LabelSet(k.file) = k.seenLinks \cup k.newLinks \/ k.newLinks = {}
         /\ links' \in [Files -> [Names -> Nat]]
         /\ \A f \in Files, n \in Names :
              links'[f][n] = IF f = k.file /\ n \in k.newLinks THEN links[f][n] + 1
                                                               ELSE links[f][n]
<1>1. k \in Consumer /\ Local(k) /\ k.pc = "commit"
  BY DEF IInv, TypeOK, Commit, At
<1>2. k.file \in Files /\ k.todo = <<>> /\ k.newLinks \subseteq LabelSet(k.file) \ k.seenLinks
  BY <1>1 DEF Local, InTransaction
<1>3. LabelSet(k.file) = k.seenLinks \cup k.newLinks \/ k.newLinks = {}
  <2>1. LabelsIn(k.todo) = {}
    BY <1>2 DEF LabelsIn
  <2> QED BY <1>1, <2>1 DEF Local, InTransaction
<1> DEFINE row == [n \in Names |-> IF n \in k.newLinks THEN links[k.file][n] + 1
                                                       ELSE links[k.file][n]]
<1>4. links' = [links EXCEPT ![k.file] = row]
  BY <1>2 DEF Commit, IInv, TypeOK
<1>5. row \in [Names -> Nat]
  BY <1>2 DEF IInv, TypeOK
<1>6. links' \in [Files -> [Names -> Nat]]
  BY <1>4, <1>5 DEF IInv, TypeOK
<1>7. links'[k.file] = row /\ \A f \in Files \ {k.file} : links'[f] = links[f]
  BY <1>2, <1>4 DEF IInv, TypeOK
<1> QED BY <1>2, <1>3, <1>6, <1>7

LEMMA CommitStep ==
  ASSUME IInv, NEW c \in Consumers, NEW k, k = con[c], Commit(c)
  PROVE  IInv'
<1>1. k \in Consumer /\ k.file \in Files /\ k.newTags \subseteq Names
  BY CommitLinks DEF IInv, TypeOK, Consumer
<1> DEFINE p == [Idle EXCEPT !.pc = "ack", !.file = k.file]
<1>2. con' = [con EXCEPT ![c] = p]
  BY DEF Commit
<1>3. p \in Consumer /\ Local(p)
  BY <1>1, IdleLocal DEF Idle, Consumer, Local, InTransaction
<1> HIDE DEF p
<1>4. con' \in [Consumers -> Consumer] /\ \A x \in Consumers : Local(con'[x])
  BY <1>2, <1>3, OneStep
<1>5. AllOrNone'
  <2> SUFFICES ASSUME NEW f \in Files PROVE Linked(f)' = {} \/ Tagged(f)'
    BY DEF AllOrNone
  <2>1. Linked(f)' = IF f = k.file THEN Linked(f) \cup (k.newLinks \cap Names) ELSE Linked(f)
    BY CommitLinks DEF Linked, IInv, TypeOK
  <2>2. Linked(f) \in {{}, LabelSet(f)}
    BY DEF IInv, AllOrNone, Tagged
  <2>3. k.newLinks \subseteq Names
    BY <1>1 DEF Consumer
  <2>4. k.newLinks \in {{}, LabelSet(k.file)}
    <3>1. k.seenLinks \in {{}, LabelSet(k.file)}
      BY DEF IInv, Local, InTransaction, Commit, At
    <3>2. k.newLinks \subseteq LabelSet(k.file) \ k.seenLinks
      BY CommitLinks
    <3>3. LabelSet(k.file) = k.seenLinks \cup k.newLinks \/ k.newLinks = {}
      BY CommitLinks
    <3> QED BY <3>1, <3>2, <3>3
  <2> QED BY <2>1, <2>2, <2>3, <2>4 DEF Tagged, LabelSet
<1> QED BY <1>1, <1>4, <1>5, CommitLinks DEF Commit, IInv, TypeOK

LEMMA InvNext == IInv /\ [Next]_vars => IInv'
<1> SUFFICES ASSUME IInv, [Next]_vars PROVE IInv'
  OBVIOUS
<1>1. CASE UNCHANGED vars
  BY <1>1 DEF vars, IInv, TypeOK, AllOrNone, Linked, Tagged
<1> QED
  BY <1>1, OutsideStep, MessageStep, ChannelStep, TransactionStep, CommitStep DEF Next, Work

LEMMA InitInv == Init => IInv
<1> SUFFICES ASSUME Init PROVE IInv
  OBVIOUS
<1>1. AllOrNone
  BY DEF Init, AllOrNone, Linked
<1>2. queue \in Seq(Files)
  BY DEF Init
<1> QED BY <1>1, <1>2, IdleLocal DEF Init, IInv, TypeOK

\* Tables, queue and consumers stay well typed, and no message without a file is
\* ever put back.
THEOREM TypeCorrect == Spec => []TypeOK
<1>1. IInv => TypeOK
  BY DEF IInv
<1> QED BY <1>1, InitInv, InvNext, PTL DEF Spec

\* However many consumers, deliveries and faults: a file has all its labels or
\* none of them.
THEOREM NeverHalfTagged == Spec => []AllOrNone
<1>1. IInv => AllOrNone
  BY DEF IInv
<1> QED BY <1>1, InitInv, InvNext, PTL DEF Spec
-----------------------------------------------------------------------------
(* Duplicates *)

\* The transactions that may still add a link of f and n, having seen none.
Blind(f, n) ==
  {c \in Consumers : InTransaction(con[c]) /\ con[c].file = f /\ n \notin con[c].seenLinks}

\* Once there is a link, nobody joins those who do not see it.
FewLinks ==
  \A f \in Files, n \in Names :
    links[f][n] + Cardinality(Blind(f, n)) <= Cardinality(Consumers)

LEMMA BlindSize ==
  ASSUME IsFiniteSet(Consumers), NEW b \in SUBSET Consumers
  PROVE  /\ IsFiniteSet(b) /\ Cardinality(b) \in Nat
         /\ Cardinality(Consumers) \in Nat /\ Cardinality(b) <= Cardinality(Consumers)
BY FS_Subset, FS_CardinalityType

\* A step after which no more transactions are blind and there are no more links.
LEMMA FewerBlind ==
  ASSUME IsFiniteSet(Consumers), IInv, IInv', FewLinks, NEW f \in Files, NEW n \in Names,
         links'[f][n] <= links[f][n], NEW b, b = Blind(f, n)', b \subseteq Blind(f, n)
  PROVE  links'[f][n] + Cardinality(b) <= Cardinality(Consumers)
<1>1. Blind(f, n) \in SUBSET Consumers
  BY DEF Blind
<1>2. Cardinality(b) \in Nat /\ Cardinality(b) <= Cardinality(Blind(f, n))
  BY <1>1, BlindSize, FS_Subset
<1>3. links[f][n] \in Nat /\ links'[f][n] \in Nat
  BY DEF IInv, TypeOK
<1>4. links[f][n] + Cardinality(Blind(f, n)) <= Cardinality(Consumers)
  BY DEF FewLinks
<1>5. Cardinality(Blind(f, n)) \in Nat /\ Cardinality(Consumers) \in Nat
  BY <1>1, BlindSize
<1> QED BY <1>2, <1>3, <1>4, <1>5

\* A consumer that stays out of the transaction, or in it as it was.
Keeps(k, p) ==
  InTransaction(p) => InTransaction(k) /\ p.file = k.file /\ p.seenLinks = k.seenLinks

LEMMA BlindShrinks ==
  ASSUME IInv, NEW f, NEW n, \A c \in Consumers : Keeps(con[c], con'[c])
  PROVE  Blind(f, n)' \subseteq Blind(f, n)
BY DEF Blind, InTransaction, Keeps

LEMMA OneKeeps ==
  ASSUME IInv, NEW c \in Consumers, NEW p, con' = [con EXCEPT ![c] = p], Keeps(con[c], p)
  PROVE  \A x \in Consumers : Keeps(con[x], con'[x])
<1>1. con'[c] = p /\ \A x \in Consumers \ {c} : con'[x] = con[x]
  BY DEF IInv, TypeOK
<1> QED BY <1>1 DEF Keeps

LEMMA NackKeeps ==
  ASSUME IInv, NEW c \in Consumers, Nack(c) \/ Ack(c) \/ Restart(c)
  PROVE  \A x \in Consumers : Keeps(con[x], con'[x])
<1>1. con' = [con EXCEPT ![c] = Idle] /\ Keeps(con[c], Idle)
  BY DEF Nack, Ack, Restart, Idle, Keeps, InTransaction
<1> QED BY <1>1, OneKeeps

\* What the steps other than a first read and a commit do.
LEMMA OtherSteps ==
  ASSUME IInv, NEW c \in Consumers, NEW k, k = con[c],
         \/ Deliver(c) \/ FindFile(c) \/ Download(c) \/ DownloadRefused(c) \/ DetectLabels(c)
         \/ SaveTag(c) \/ Deadlock(c) \/ SaveLink(c) \/ Acknowledge(c)
         \/ Fail(c) \/ Disconnect(c) \/ Restart(c)
  PROVE  links' = links /\ \A x \in Consumers : Keeps(con[x], con'[x])
<1>1. k \in Consumer
  BY DEF IInv, TypeOK
<1>2. links' = links
  BY DEF Deliver, FindFile, Download, DownloadRefused, DetectLabels, SaveTag, Deadlock, SaveLink,
         Acknowledge, Fail, Disconnect, Restart, Tables
<1>3. CASE Deliver(c) \/ Download(c)
  <2>1. PICK p : con' = [con EXCEPT ![c] = p] /\ p.pc \in {"find", "detect"}
    <3>1. CASE Deliver(c)
      <4> DEFINE p == [k EXCEPT !.pc = "find", !.file = Head(queue)]
      <4>1. con' = [con EXCEPT ![c] = p] /\ p.pc = "find"
        BY <1>1, <3>1 DEF Deliver, Consumer
      <4> QED BY <4>1
    <3>2. CASE Download(c)
      <4> DEFINE p == [k EXCEPT !.pc = "detect"]
      <4>1. con' = [con EXCEPT ![c] = p] /\ p.pc = "detect"
        BY <1>1, <3>2 DEF Download, Goto, Consumer
      <4> QED BY <4>1
    <3> QED BY <1>3, <3>1, <3>2
  <2> QED BY <1>2, <2>1, OneKeeps DEF Keeps, InTransaction
<1>4. CASE FindFile(c)
  <2>1. ASSUME Goto(c, "download") PROVE \A x \in Consumers : Keeps(con[x], con'[x])
    <3> DEFINE p == [k EXCEPT !.pc = "download"]
    <3>1. con' = [con EXCEPT ![c] = p] /\ p.pc = "download"
      BY <1>1, <2>1 DEF Goto, Consumer
    <3> HIDE DEF p
    <3> QED BY <3>1, OneKeeps DEF Keeps, InTransaction
  <2> QED BY <1>2, <1>4, <2>1, NackKeeps DEF FindFile
<1>5. CASE DetectLabels(c)
  <2>1. ASSUME con' = [con EXCEPT ![c].pc = "begin", ![c].todo = Labels[k.file]]
        PROVE  \A x \in Consumers : Keeps(con[x], con'[x])
    <3> DEFINE p == [k EXCEPT !.pc = "begin", !.todo = Labels[k.file]]
    <3>1. con' = [con EXCEPT ![c] = p] /\ p.pc = "begin"
      BY <1>1, <2>1 DEF Consumer
    <3> HIDE DEF p
    <3> QED BY <3>1, OneKeeps DEF Keeps, InTransaction
  <2> QED BY <1>2, <1>5, <2>1, NackKeeps DEF DetectLabels
<1>6. CASE SaveTag(c)
  <2>1. ASSUME NEW new, con' = [con EXCEPT ![c].pc = "link", ![c].newTags = new]
        PROVE  \A x \in Consumers : Keeps(con[x], con'[x])
    <3> DEFINE p == [k EXCEPT !.pc = "link", !.newTags = new]
    <3>1. con' = [con EXCEPT ![c] = p] /\ p.file = k.file /\ p.seenLinks = k.seenLinks
      BY <1>1, <2>1 DEF Consumer
    <3>2. k.pc = "tag"
      BY <1>6 DEF SaveTag, At
    <3> HIDE DEF p
    <3> QED BY <3>1, <3>2, OneKeeps DEF Keeps, InTransaction
  <2>2. \/ Nack(c)
        \/ con' = [con EXCEPT ![c].pc = "link", ![c].newTags = k.newTags]
        \/ con' = [con EXCEPT ![c].pc = "link", ![c].newTags = k.newTags \cup {Head(k.todo)}]
    BY <1>1, <1>6 DEF SaveTag, Goto, IInv, TypeOK, Consumer
  <2> QED BY <1>2, <2>1, <2>2, NackKeeps
<1>7. CASE SaveLink(c)
  <2>1. PICK pc, new, rest :
          Nack(c) \/ con' = [con EXCEPT ![c].pc = pc, ![c].todo = rest, ![c].newLinks = new]
    BY <1>7 DEF SaveLink
  <2> DEFINE p == [k EXCEPT !.pc = pc, !.todo = rest, !.newLinks = new]
  <2>2. Nack(c) \/ con' = [con EXCEPT ![c] = p]
    BY <2>1
  <2>3. p.file = k.file /\ p.seenLinks = k.seenLinks /\ k.pc = "link"
    BY <1>1, <1>7 DEF Consumer, SaveLink, At
  <2> HIDE DEF p
  <2> QED BY <1>2, <2>2, <2>3, OneKeeps, NackKeeps DEF Keeps, InTransaction
<1>8. CASE Disconnect(c)
  BY <1>2, <1>8 DEF Disconnect, Tables, Keeps
<1> QED
  BY <1>2, <1>3, <1>4, <1>5, <1>6, <1>7, <1>8, NackKeeps
     DEF DownloadRefused, Deadlock, Acknowledge, Fail

LEMMA FewStay ==
  ASSUME IsFiniteSet(Consumers), IInv, IInv', FewLinks,
         \A f \in Files, n \in Names : links'[f][n] = 0 \/ links'[f][n] = links[f][n],
         \A c \in Consumers : Keeps(con[c], con'[c])
  PROVE  FewLinks'
<1> SUFFICES ASSUME NEW f \in Files, NEW n \in Names
             PROVE  (links[f][n] + Cardinality(Blind(f, n)) <= Cardinality(Consumers))'
  BY DEF FewLinks
<1>0. links[f][n] \in Nat /\ links'[f][n] \in Nat
  BY DEF IInv, TypeOK
<1>1. links'[f][n] <= links[f][n]
  BY <1>0
<1>2. PICK b : b = Blind(f, n)'
  OBVIOUS
<1> QED BY <1>1, <1>2, BlindShrinks, FewerBlind

\* A first read that sees no link has none to count.
LEMMA FewBegin ==
  ASSUME IsFiniteSet(Consumers), IInv, IInv', FewLinks, NEW c \in Consumers, Begin(c)
  PROVE  FewLinks'
<1>1. PICK k \in Consumer : k = con[c]
  BY DEF IInv, TypeOK
<1>2. PICK linked : linked = {n \in Names : links[k.file][n] > 0}
  OBVIOUS
<1>3. PICK pc : pc = Next1(k.todo)
  OBVIOUS
<1> DEFINE p == [k EXCEPT !.pc = pc, !.seen = tags, !.seenLinks = linked]
<1>4. con' = [con EXCEPT ![c] = p] /\ links' = links
  BY <1>1, <1>2, <1>3 DEF Begin, Tables
<1>5. p.file = k.file /\ p.seenLinks = linked
  BY <1>1 DEF Consumer
<1> HIDE DEF p
<1>6. con'[c] = p /\ \A x \in Consumers \ {c} : con'[x] = con[x]
  BY <1>4 DEF IInv, TypeOK
<1> SUFFICES ASSUME NEW f \in Files, NEW n \in Names
             PROVE  (links[f][n] + Cardinality(Blind(f, n)) <= Cardinality(Consumers))'
  BY DEF FewLinks
<1>7. PICK b : b = Blind(f, n)'
  OBVIOUS
<1>8. b \in SUBSET Consumers
  BY <1>7 DEF Blind
<1>9. CASE links[f][n] = 0
  BY <1>4, <1>7, <1>8, <1>9, BlindSize
<1>10. CASE links[f][n] # 0
  <2>1. f = k.file => n \in linked
    BY <1>2, <1>10 DEF IInv, TypeOK
  <2>2. b \subseteq Blind(f, n)
    BY <1>5, <1>6, <1>7, <2>1 DEF Blind
  <2>3. links'[f][n] <= links[f][n]
    BY <1>4 DEF IInv, TypeOK
  <2> QED BY <1>7, <2>2, <2>3, FewerBlind
<1> QED BY <1>9, <1>10

\* A commit adds a link where its transaction was blind, and is not any more.
LEMMA FewCommit ==
  ASSUME IsFiniteSet(Consumers), IInv, IInv', FewLinks, NEW c \in Consumers, Commit(c)
  PROVE  FewLinks'
<1>1. PICK k : k = con[c]
  OBVIOUS
<1> DEFINE p == [Idle EXCEPT !.pc = "ack", !.file = k.file]
<1>2. con' = [con EXCEPT ![c] = p] /\ p.pc = "ack"
  BY <1>1 DEF Commit, Idle
<1> HIDE DEF p
<1>3. con'[c] = p /\ \A x \in Consumers \ {c} : con'[x] = con[x]
  BY <1>2 DEF IInv, TypeOK
<1> SUFFICES ASSUME NEW f \in Files, NEW n \in Names
             PROVE  (links[f][n] + Cardinality(Blind(f, n)) <= Cardinality(Consumers))'
  BY DEF FewLinks
<1>4. PICK b : b = Blind(f, n)'
  OBVIOUS
<1>5. b = Blind(f, n) \ {c}
  BY <1>2, <1>3, <1>4 DEF Blind, InTransaction
<1>6. Blind(f, n) \in SUBSET Consumers /\ b \in SUBSET Consumers
  BY <1>5 DEF Blind
<1>7. CASE f = k.file /\ n \in k.newLinks
  <2>1. links'[f][n] = links[f][n] + 1 /\ n \notin k.seenLinks
    BY <1>1, <1>7, CommitLinks
  <2>2. c \in Blind(f, n)
    BY <1>1, <1>7, <2>1 DEF Blind, InTransaction, Commit, At
  <2>3. Cardinality(b) = Cardinality(Blind(f, n)) - 1
    BY <1>5, <1>6, <2>2, BlindSize, FS_RemoveElement
  <2>4. links[f][n] + Cardinality(Blind(f, n)) <= Cardinality(Consumers)
    BY DEF FewLinks
  <2>5. links[f][n] \in Nat
    BY DEF IInv, TypeOK
  <2> QED BY <1>4, <1>6, <2>1, <2>3, <2>4, <2>5, BlindSize
<1>8. CASE ~(f = k.file /\ n \in k.newLinks)
  <2>1. links'[f][n] = links[f][n]
    BY <1>1, <1>8, CommitLinks
  <2>2. links'[f][n] <= links[f][n]
    BY <2>1 DEF IInv, TypeOK
  <2> QED BY <1>4, <1>5, <2>2, FewerBlind
<1> QED BY <1>7, <1>8

LEMMA FewNext ==
  ASSUME IsFiniteSet(Consumers), IInv, FewLinks, [Next]_vars
  PROVE  FewLinks'
<1>1. IInv'
  BY InvNext
<1>2. ASSUME con' = con, links' = links PROVE FewLinks'
  BY <1>1, <1>2, FewStay DEF Keeps
<1>3. ASSUME NEW f \in Files, DeleteFile(f) PROVE FewLinks'
  <2>1. con' = con
    BY <1>3 DEF DeleteFile
  <2>2. \A g \in Files, n \in Names : links'[g][n] = 0 \/ links'[g][n] = links[g][n]
    BY <1>3 DEF DeleteFile, IInv, TypeOK
  <2> QED BY <1>1, <2>1, <2>2, FewStay DEF Keeps
<1>4. ASSUME NEW c \in Consumers, 
             \/ Deliver(c) \/ FindFile(c) \/ Download(c) \/ DownloadRefused(c) \/ DetectLabels(c)
             \/ SaveTag(c) \/ Deadlock(c) \/ SaveLink(c) \/ Acknowledge(c)
             \/ Fail(c) \/ Disconnect(c) \/ Restart(c)
      PROVE  FewLinks'
  BY <1>1, <1>4, OtherSteps, FewStay
<1>5. ASSUME NEW f \in Files, GetAutoTags(f) PROVE FewLinks'
  BY <1>2, <1>5 DEF GetAutoTags, Tables
<1> QED BY <1>1, <1>2, <1>3, <1>4, <1>5, FewBegin, FewCommit DEF Next, Work, vars

\* However often a message is delivered, a label is never linked to a file more
\* often than there are consumers.
THEOREM DuplicatesFew == ASSUME IsFiniteSet(Consumers) PROVE Spec => []DuplicatesBounded
<1>1. Init => FewLinks
  <2> SUFFICES ASSUME Init, NEW f \in Files, NEW n \in Names
               PROVE  links[f][n] + Cardinality(Blind(f, n)) <= Cardinality(Consumers)
    BY DEF FewLinks
  <2>1. links[f][n] = 0 /\ Blind(f, n) \in SUBSET Consumers
    BY DEF Init, Blind
  <2> QED BY <2>1, BlindSize
<1>2. IInv /\ FewLinks /\ [Next]_vars => FewLinks'
  BY FewNext
<1>3. IInv /\ FewLinks => DuplicatesBounded
  <2> SUFFICES ASSUME IInv, FewLinks, NEW f \in Files, NEW n \in Names
               PROVE  links[f][n] <= Cardinality(Consumers)
    BY DEF DuplicatesBounded
  <2>1. Blind(f, n) \in SUBSET Consumers /\ links[f][n] \in Nat
    BY DEF Blind, IInv, TypeOK
  <2>2. links[f][n] + Cardinality(Blind(f, n)) <= Cardinality(Consumers)
    BY DEF FewLinks
  <2> QED BY <2>1, <2>2, BlindSize
<1> QED BY <1>1, <1>2, <1>3, InitInv, InvNext, PTL DEF Spec
=============================================================================
