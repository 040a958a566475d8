---------------------------- MODULE Core_proofs -----------------------------
(***************************************************************************)
(* Proofs about AppCore and MailCache, as MC_Mail composes them, for every *)
(* finite set of accounts and every bound: CoreIsCurrent and CacheAgrees.  *)
(*                                                                         *)
(* What is shown holds by two kinds of facts.  The view is kept by what    *)
(* each reply is compared with before it is taken (ViewInv).  A bulk       *)
(* action still has someone to answer for each of its messages             *)
(* (Outstanding): a command that waits in the queue of an account that is  *)
(* listed, or a reply on its way of an account that is listed.  Neither    *)
(* is lost unless noted (cut): a command taken from a queue is answered in *)
(* the same step, a queue is emptied only with its account, and a command  *)
(* is turned away only when its queue is full.                             *)
(*                                                                         *)
(* The cache agrees with the server because its tables and the commands on *)
(* their way do (CacheInv), and because each statement left of the command *)
(* being run restores what the ones before it broke (Doing).               *)
(***************************************************************************)
EXTENDS MC_Mail, Lists_proofs

(***************************************************************************)
(* Lists and queues                                                        *)
(***************************************************************************)

(* The elements of a finite set in a row: all of them are there. *)
LEMMA SetToSeqIs ==
  ASSUME NEW S, IsFiniteSet(S)
  PROVE  /\ SetToSeq(S) \in Seq(S) /\ Len(SetToSeq(S)) = Cardinality(S) /\ Cardinality(S) \in Nat
         /\ \A x \in S : \E i \in 1..Len(SetToSeq(S)) : SetToSeq(S)[i] = x
<1> DEFINE n == Cardinality(S)
           f == SetToSeq(S)
<1>1. n \in Nat /\ ExistsBijection(1..n, S)
  BY FS_CardinalityType
<1>2. \E g \in [1..n -> S] : IsInjective(g)
  BY <1>1 DEF ExistsBijection, Bijection, Injection
<1>3. f \in [1..n -> S] /\ IsInjective(f)
  BY <1>2 DEF SetToSeq
<1>4. f \in Injection(1..n, S)
  BY <1>3 DEF Injection
<1>5. IsFiniteSet(1..n) /\ Cardinality(1..n) = n
  BY <1>1, FS_Interval
<1>6. f \in Surjection(1..n, S)
  BY <1>4, <1>5, FS_Injection
<1>7. f \in Seq(S) /\ Len(f) = n
  BY <1>1, <1>3
<1> QED BY <1>1, <1>6, <1>7 DEF Surjection

(* x is an element of the list s. *)
In(x, s) == \E i \in 1..Len(s) : s[i] = x

(* Taking from the front and adding at the end. *)
LEMMA EndsOf ==
  ASSUME NEW E, NEW s \in Seq(E), NEW t \in Seq(E)
  PROVE  /\ \A x : In(x, s \o t) <=> In(x, s) \/ In(x, t)
         /\ s # <<>> => /\ Tail(s) \in Seq(E) /\ Head(s) \in E /\ Len(Tail(s)) = Len(s) - 1
                        /\ \A x : In(x, s) <=> x = Head(s) \/ In(x, Tail(s))
<1>1. ASSUME NEW x PROVE In(x, s \o t) <=> In(x, s) \/ In(x, t)
  <2>0. s \o t \in Seq(E) /\ Len(s \o t) = Len(s) + Len(t) /\ Len(s) \in Nat /\ Len(t) \in Nat
    OBVIOUS
  <2>1. ASSUME NEW i \in 1..Len(s), s[i] = x PROVE In(x, s \o t)
    <3>1. i \in 1..Len(s \o t) /\ (s \o t)[i] = s[i]
      BY <2>0, <2>1
    <3> QED BY <2>1, <3>1 DEF In
  <2>2. ASSUME NEW i \in 1..Len(t), t[i] = x PROVE In(x, s \o t)
    <3>1. Len(s) + i \in 1..Len(s \o t) /\ (s \o t)[Len(s) + i] = t[i]
      BY <2>0, <2>2
    <3> QED BY <2>2, <3>1 DEF In
  <2>3. ASSUME NEW i \in 1..Len(s \o t), (s \o t)[i] = x PROVE In(x, s) \/ In(x, t)
    <3>1. CASE i <= Len(s)
      <4>1. i \in 1..Len(s) /\ (s \o t)[i] = s[i]
        BY <2>0, <2>3, <3>1
      <4> QED BY <2>3, <4>1 DEF In
    <3>2. CASE ~(i <= Len(s))
      <4>1. i - Len(s) \in 1..Len(t) /\ (s \o t)[i] = t[i - Len(s)]
        BY <2>0, <2>3, <3>2
      <4> QED BY <2>3, <4>1 DEF In
    <3> QED BY <3>1, <3>2
  <2> QED BY <2>1, <2>2, <2>3 DEF In
<1>2. ASSUME s # <<>>
      PROVE  /\ Tail(s) \in Seq(E) /\ Head(s) \in E /\ Len(Tail(s)) = Len(s) - 1
             /\ \A x : In(x, s) <=> x = Head(s) \/ In(x, Tail(s))
  <2>1. /\ Tail(s) \in Seq(E) /\ Head(s) \in E /\ Len(Tail(s)) = Len(s) - 1 /\ Len(s) \in Nat \ {0} /\ Head(s) = s[1]
        /\ \A i \in 1..Len(s) - 1 : Tail(s)[i] = s[i + 1]
    BY <1>2
  <2>2. ASSUME NEW x PROVE In(x, s) <=> x = Head(s) \/ In(x, Tail(s))
    <3>1. ASSUME NEW i \in 1..Len(s), s[i] = x PROVE x = Head(s) \/ In(x, Tail(s))
      <4>1. CASE i # 1
        <5>1. i - 1 \in 1..Len(Tail(s)) /\ Tail(s)[i - 1] = s[i]
          BY <2>1, <3>1, <4>1
        <5> QED BY <3>1, <5>1 DEF In
      <4> QED BY <2>1, <3>1, <4>1
    <3>2. ASSUME NEW i \in 1..Len(Tail(s)), Tail(s)[i] = x PROVE In(x, s)
      <4>1. i + 1 \in 1..Len(s) /\ s[i + 1] = x
        BY <2>1, <3>2
      <4> QED BY <4>1 DEF In
    <3>3. 1 \in 1..Len(s) /\ s[1] = Head(s)
      BY <2>1
    <3> QED BY <3>1, <3>2, <3>3 DEF In
  <2> QED BY <2>1, <2>2
<1> QED BY <1>1, <1>2

(* One element added. *)
LEMMA AddedOne ==
  ASSUME NEW E, NEW s \in Seq(E), NEW e \in E
  PROVE  /\ Append(s, e) \in Seq(E) /\ Len(Append(s, e)) = Len(s) + 1 /\ Len(s) \in Nat
         /\ \A x : In(x, Append(s, e)) <=> In(x, s) \/ x = e
<1>1. Append(s, e) = s \o <<e>> /\ <<e>> \in Seq(E) /\ Len(Append(s, e)) = Len(s) + 1 /\ Len(s) \in Nat
  OBVIOUS
<1>2. \A x : In(x, <<e>>) <=> x = e
  BY DEF In
<1>3. \A x : In(x, s \o <<e>>) <=> In(x, s) \/ In(x, <<e>>)
  BY <1>1, EndsOf
<1> QED BY <1>1, <1>2, <1>3

(* Of a pick, what was picked is there, and nothing else. *)
LEMMA PickedIn ==
  ASSUME NEW E, NEW s \in Seq(E), NEW K
  PROVE  /\ Picked(s, K) \in Seq(E)
         /\ \A x : In(x, Picked(s, K)) <=> \E i \in K \cap 1..Len(s) : s[i] = x
<1>1. Picked(s, K) \in Seq(E) /\ Drawn(Picked(s, K), s, K)
  BY PickedKeeps
<1> DEFINE p == Picked(s, K)
<1> HIDE DEF p
<1>2. /\ \A j \in 1..Len(p) : \E i \in K \cap 1..Len(s) : p[j] = s[i]
      /\ \A i \in K \cap 1..Len(s) : \E j \in 1..Len(p) : p[j] = s[i]
  BY <1>1 DEF Drawn, p
<1>3. ASSUME NEW x PROVE In(x, p) <=> \E i \in K \cap 1..Len(s) : s[i] = x
  BY <1>2, Zenon DEF In
<1> QED BY <1>1, <1>3 DEF p

(***************************************************************************)
(* The invariant                                                           *)
(***************************************************************************)

Messages == Accounts \X Mailboxes \X (1..2)

(* A command that is about a mailbox names one, and one about a message a
   message. *)
OfMailbox == {"FetchHeaders", "FetchBody", "BulkDownload", "StoreFlags", "MoveMessage"}
OfMessage == {"FetchBody", "StoreFlags", "MoveMessage"}
Orders ==
  {c \in [op : OfMailbox \cup {"Connect", "FetchMailboxes", "FetchUnreadCounts"},
          mb : Mailboxes \cup {NoOne}, uid : 0..2, id : Nat] :
    (c.op \in OfMailbox => c.mb \in Mailboxes) /\ (c.op \in OfMessage => c.uid \in 1..2)}
Downloads == {c \in Orders : c.op \in {"FetchBody", "BulkDownload"}}
ReplyKinds ==
  {"Connected", "Disconnected", "Error", "Mailboxes", "UnreadCounts", "Headers", "Body", "BodyFailed", "FlagsUpdated",
   "FlagsUpdateFailed", "Moved", "MoveFailed", "IndexProgress", "IndexDone"}
Replies ==
  {e \in [acct : Accounts, ev : ReplyKinds, mb : Mailboxes \cup {NoOne}, uid : 0..2, id : Nat, uids : SUBSET (1..2)] :
    (e.ev \in {"Headers", "Body"} => e.mb \in Mailboxes) /\ (e.ev = "Body" => e.uid \in 1..2)}
Bulks == [kind : {"Flags", "Move"}, pending : SUBSET (1..2)] \cup {NoBulk}
ConnStates == {"none", "Connecting", "Connected", "Disconnected", "Failed"}

(* Commands wait for accounts of the list only, and within the capacity. *)
Queues(q) ==
  /\ q \in [Accounts -> Seq(Orders)]
  /\ \A a \in Accounts : Len(q[a]) <= ActorQueue /\ (q[a] # <<>> => In(a, accts))

WorldTyped ==
  /\ box \in [Accounts -> [Mailboxes -> SUBSET (1..2)]]
  /\ workQ \in [Accounts -> Seq(Downloads)]
  /\ live \in [Accounts -> {"never", "up", "down"}]
  /\ events \in Seq(Replies)
  /\ Queues(cmdQ)

ViewTyped ==
  /\ accts \in Seq(Accounts) /\ conn \in [Accounts -> ConnStates]
  /\ active \in Accounts \cup {NoOne} /\ (active = NoOne \/ In(active, accts))
  /\ open \in Mailboxes /\ rows \subseteq Messages /\ sel \in 0..2 /\ sels \subseteq 1..2
  /\ pane \in Word \cup Messages
  /\ hits \in Seq(1..2) /\ origins \in Seq(Accounts \X Mailboxes)
  /\ req \in Nat /\ bulk \in Bulks

(* What a bulk action waits for: a command with one of the queues, or its
   reply on the way from an account that is in the list. *)
Ordered(q, op, u) == \E a \in Accounts, c \in Orders : In(c, q[a]) /\ c.op = op /\ c.uid = u
Answers(e, op, u) ==
  e.uid = u /\ e.ev \in IF op = "StoreFlags" THEN {"FlagsUpdated", "FlagsUpdateFailed"} ELSE {"Moved", "MoveFailed"}
Answered(es, heard, op, u) == \E e \in Replies : In(e, es) /\ In(e.acct, heard) /\ Answers(e, op, u)
OpOf(b) == IF b.kind = "Flags" THEN "StoreFlags" ELSE "MoveMessage"
Awaited(op, u) == Ordered(cmdQ, op, u) \/ Answered(events, accts, op, u)
Outstanding == bulk # NoBulk /\ ~cut => \A u \in bulk.pending : Awaited(OpOf(bulk), u)

CoreInv == WorldTyped /\ ViewTyped /\ RowsOfActive /\ PaneIsSelected /\ SearchAligned /\ Outstanding

-----------------------------------------------------------------------------
(* Sending                                                                 *)

(* What waits in q waits in r. *)
Keeps(q, r) == \A a \in Accounts : \A c : In(c, q[a]) => In(c, r[a])

(* Sending a command leaves the others where they are. *)
LEMMA SendToKeeps ==
  ASSUME NEW q, Queues(q), NEW a \in Accounts, NEW c \in Orders, accts \in Seq(Accounts)
  PROVE  Queues(SendTo(q, a, c)) /\ Keeps(q, SendTo(q, a, c))
<1> DEFINE r == SendTo(q, a, c)
<1>0. q \in [Accounts -> Seq(Orders)] /\ ActorQueue \in Nat
  BY CoreAssumption DEF Queues
<1>1. CASE InList(a) /\ Len(q[a]) < ActorQueue
  <2>1. r = [q EXCEPT ![a] = Append(@, c)]
    BY <1>1 DEF SendTo
  <2>2. /\ Append(q[a], c) \in Seq(Orders) /\ Len(Append(q[a], c)) = Len(q[a]) + 1 /\ Len(q[a]) \in Nat
        /\ \A x : In(x, Append(q[a], c)) <=> In(x, q[a]) \/ x = c
    BY <1>0, AddedOne
  <2>3. r \in [Accounts -> Seq(Orders)] /\ r[a] = Append(q[a], c) /\ \A b \in Accounts : b # a => r[b] = q[b]
    BY <1>0, <2>1, <2>2
  <2> HIDE DEF r
  <2>4. In(a, accts)
    BY <1>1 DEF InList, In
  <2>5. Len(r[a]) <= ActorQueue
    BY <1>0, <1>1, <2>2, <2>3
  <2>6. Queues(r)
    BY <2>3, <2>4, <2>5 DEF Queues
  <2>7. Keeps(q, r)
    BY <2>2, <2>3, Zenon DEF Keeps
  <2> QED BY <2>6, <2>7 DEF r
<1>2. CASE ~(InList(a) /\ Len(q[a]) < ActorQueue)
  BY <1>2 DEF SendTo, Keeps
<1> QED BY <1>1, <1>2

(* So does sending several, and if the queue has room all of them wait. *)
LEMMA SendAllKeeps ==
  ASSUME NEW q, Queues(q), NEW a \in Accounts, NEW cs \in Seq(Orders), accts \in Seq(Accounts), In(a, accts)
  PROVE  /\ Queues(SendAll(q, a, cs)) /\ Keeps(q, SendAll(q, a, cs))
         /\ Len(q[a]) + Len(cs) <= ActorQueue => \A c : In(c, cs) => In(c, SendAll(q, a, cs)[a])
<1> DEFINE r == SendAll(q, a, cs)
           room == ActorQueue - Len(q[a])
           t == IF Len(cs) <= room THEN cs ELSE SubSeq(cs, 1, room)
<1>0. q \in [Accounts -> Seq(Orders)] /\ ActorQueue \in Nat /\ q[a] \in Seq(Orders) /\ Len(q[a]) \in Nat /\ Len(q[a]) <= ActorQueue /\ room \in Nat
  <2>1. q \in [Accounts -> Seq(Orders)] /\ ActorQueue \in Nat /\ q[a] \in Seq(Orders) /\ Len(q[a]) <= ActorQueue
    BY CoreAssumption DEF Queues
  <2> QED BY <2>1
<1>1. t \in Seq(Orders) /\ Len(t) <= room /\ Len(t) \in Nat
  <2>1. CASE Len(cs) <= room
    BY <1>0, <2>1
  <2>2. CASE ~(Len(cs) <= room)
    <3>1. SubSeq(cs, 1, room) \in Seq(Orders) /\ Len(SubSeq(cs, 1, room)) = room
      BY <1>0, <2>2, SubSeqProperties
    <3> QED BY <1>0, <2>2, <3>1
  <2> QED BY <2>1, <2>2
<1>2. r = [q EXCEPT ![a] = @ \o t]
  BY DEF SendAll, InList, In
<1> HIDE DEF r, t
<1>3. /\ q[a] \o t \in Seq(Orders) /\ Len(q[a] \o t) = Len(q[a]) + Len(t)
      /\ \A x : In(x, q[a] \o t) <=> In(x, q[a]) \/ In(x, t)
  <2>1. q[a] \o t \in Seq(Orders) /\ Len(q[a] \o t) = Len(q[a]) + Len(t)
    BY <1>0, <1>1
  <2> QED BY <1>0, <1>1, <2>1, EndsOf
<1>4. r \in [Accounts -> Seq(Orders)] /\ r[a] = q[a] \o t /\ \A b \in Accounts : b # a => r[b] = q[b]
  BY <1>0, <1>2, <1>3
<1>5. Len(r[a]) <= ActorQueue
  BY <1>0, <1>1, <1>3, <1>4
<1>6. Queues(r)
  BY <1>4, <1>5 DEF Queues
<1>7. Keeps(q, r)
  BY <1>3, <1>4, Zenon DEF Keeps
<1>8. ASSUME Len(q[a]) + Len(cs) <= ActorQueue PROVE \A c : In(c, cs) => In(c, r[a])
  <2>1. Len(cs) <= room /\ Len(cs) \in Nat
    BY <1>0, <1>8
  <2>2. t = cs
    BY <2>1 DEF t
  <2> QED BY <1>3, <1>4, <2>2
<1> QED BY <1>6, <1>7, <1>8 DEF r

(* What was awaited is awaited when queues and list only grow. *)
LEMMA StillOrdered ==
  ASSUME NEW q, NEW r, Keeps(q, r), NEW op, NEW u, Ordered(q, op, u)
  PROVE  Ordered(r, op, u)
BY DEF Keeps, Ordered

(* More replies and more work: what was answered is answered still. *)
LEMMA StillAnswered ==
  ASSUME NEW es, NEW fs, \A e : In(e, es) => In(e, fs), NEW k, NEW l, \A a : In(a, k) => In(a, l),
         NEW op, NEW u, Answered(es, k, op, u)
  PROVE  Answered(fs, l, op, u)
BY DEF Answered

-----------------------------------------------------------------------------
(* The actors and body workers                                             *)

Single(x) == <<x>>

(* The replies the model makes are replies. *)
LEMMA ReplyTyped ==
  ASSUME NEW a \in Accounts, NEW ev \in ReplyKinds, NEW mb \in Mailboxes \cup {NoOne}, NEW uid \in 0..2, NEW id \in Nat,
         NEW uids \in SUBSET (1..2), ev \in {"Headers", "Body"} => mb \in Mailboxes, ev = "Body" => uid \in 1..2
  PROVE  Reply(a, ev, mb, uid, id, uids) \in Replies
BY DEF Reply, Replies, ReplyKinds

(* The commands the core sends are commands. *)
LEMMA CommandTyped ==
  ASSUME NEW op \in OfMailbox \cup {"Connect", "FetchMailboxes", "FetchUnreadCounts"}, NEW mb \in Mailboxes \cup {NoOne},
         NEW uid \in 0..2, NEW id \in Nat, op \in OfMailbox => mb \in Mailboxes, op \in OfMessage => uid \in 1..2
  PROVE  /\ Command(op, mb, uid, id) \in Orders
         /\ Command(op, mb, uid, id).op = op /\ Command(op, mb, uid, id).uid = uid
BY DEF Command, Orders

(* Replies end with the one that says how it went. *)
LEMMA EndsWith ==
  ASSUME NEW E, NEW s \in Seq(E), NEW x \in E
  PROVE  s \o <<x>> \in Seq(E) /\ In(x, s \o <<x>>)
<1>1. s \o <<x>> = Append(s, x)
  OBVIOUS
<1>2. Append(s, x) \in Seq(E) /\ (In(x, Append(s, x)) <=> In(x, s) \/ x = x)
  BY AddedOne
<1> QED BY <1>1, <1>2

(* So are what a reconnection reports ... *)
LEMMA ReconnectedTyped == ASSUME NEW a \in Accounts PROVE Reconnected(a) \in Seq(Replies)
<1>1. Reply(a, "Disconnected", NoOne, 0, 0, {}) \in Replies /\ Reply(a, "Connected", NoOne, 0, 0, {}) \in Replies
  BY DEF Reply, Replies, ReplyKinds
<1> QED BY <1>1 DEF Reconnected

(* ... and what the index reports of a folder. *)
LEMMA IndexReportsTyped ==
  ASSUME NEW a \in Accounts, NEW mb \in Mailboxes, box[a][mb] \in SUBSET (1..2)
  PROVE  IndexReports(a, mb) \in Seq(Replies) /\ Len(IndexReports(a, mb)) \in Nat
<1> DEFINE n == Cardinality(box[a][mb])
           Rep(i) == Reply(a, IF i = n + 1 THEN "IndexDone" ELSE "IndexProgress", mb, 0, 0, {})
<1>1. n \in Nat
  <2>0. 1 \in Int /\ 2 \in Int
    OBVIOUS
  <2>1. IsFiniteSet(1..2)
    BY ONLY <2>0, FS_Interval
  <2> QED BY <2>1, FS_Subset, FS_CardinalityType
<1>2. \A i \in 1..(n + 1) : Rep(i) \in Replies
  <2> SUFFICES ASSUME NEW i \in 1..(n + 1) PROVE Rep(i) \in Replies
    OBVIOUS
  <2> HIDE DEF n
  <2>1. CASE i = n + 1
    BY <2>1 DEF Reply, Replies, ReplyKinds
  <2>2. CASE i # n + 1
    BY <2>2 DEF Reply, Replies, ReplyKinds
  <2> QED BY <2>1, <2>2
<1>3. [i \in 1..(n + 1) |-> Rep(i)] \in Seq(Replies)
  <2> HIDE DEF Rep, n
  <2> QED BY <1>1, <1>2
<1>4. IndexReports(a, mb) = <<>> \/ IndexReports(a, mb) = [i \in 1..(n + 1) |-> Rep(i)]
  BY DEF IndexReports
<1> HIDE DEF Rep, n
<1>5. IndexReports(a, mb) \in Seq(Replies)
  <2>1. <<>> \in Seq(Replies)
    OBVIOUS
  <2> QED BY <1>3, <1>4, <2>1, Zenon
<1> QED BY <1>5

(* A command taken from a queue, and what is left. *)
LEMMA HeadIs ==
  ASSUME NEW q, Queues(q), NEW a \in Accounts, q[a] # <<>>
  PROVE  /\ Head(q[a]) \in Orders /\ Queues([q EXCEPT ![a] = Tail(@)]) /\ In(a, accts)
         /\ \A b \in Accounts : \A c : In(c, q[b]) => In(c, [q EXCEPT ![a] = Tail(@)][b]) \/ (b = a /\ c = Head(q[a]))
<1> DEFINE r == [q EXCEPT ![a] = Tail(@)]
<1>1. q \in [Accounts -> Seq(Orders)] /\ Len(q[a]) <= ActorQueue /\ In(a, accts) /\ ActorQueue \in Nat
  BY CoreAssumption DEF Queues
<1>2. /\ Tail(q[a]) \in Seq(Orders) /\ Head(q[a]) \in Orders /\ Len(Tail(q[a])) = Len(q[a]) - 1
      /\ \A x : In(x, q[a]) <=> x = Head(q[a]) \/ In(x, Tail(q[a]))
  BY <1>1, EndsOf
<1>3. r \in [Accounts -> Seq(Orders)] /\ r[a] = Tail(q[a]) /\ \A b \in Accounts : b # a => r[b] = q[b]
  BY <1>1, <1>2
<1> HIDE DEF r
<1>4. Len(r[a]) <= ActorQueue
  BY <1>1, <1>2, <1>3
<1>5. Queues(r)
  BY <1>1, <1>3, <1>4 DEF Queues
<1>6. \A b \in Accounts : \A c : In(c, q[b]) => In(c, r[b]) \/ (b = a /\ c = Head(q[a]))
  BY <1>2, <1>3, Zenon
<1> QED BY <1>1, <1>2, <1>5, <1>6 DEF r

AnsweredBy(es, a, c) ==
  c.op \in {"StoreFlags", "MoveMessage"} => \E e \in Replies : In(e, es) /\ e.acct = a /\ Answers(e, c.op, c.uid)

(* What an actor or a worker of a does: it takes a command or not, and says
   how it went. *)
Takes(a, es) ==
  /\ events' = events \o es
  /\ box' \in [Accounts -> [Mailboxes -> SUBSET (1..2)]]
  /\ workQ' \in [Accounts -> Seq(Downloads)]
  /\ live' \in [Accounts -> {"never", "up", "down"}]
  /\ \/ cmdQ' = cmdQ
     \/ cmdQ[a] # <<>> /\ cmdQ' = [cmdQ EXCEPT ![a] = Tail(@)] /\ AnsweredBy(es, a, Head(cmdQ[a]))

(* A reply that says what became of a command answers for its message. *)
LEMMA SaysSo ==
  ASSUME NEW a \in Accounts, NEW s \in Seq(Replies), NEW c \in Orders, NEW e \in Replies, e.acct = a, e.uid = c.uid,
         c.op = "StoreFlags" => e.ev \in {"FlagsUpdated", "FlagsUpdateFailed"},
         c.op = "MoveMessage" => e.ev \in {"Moved", "MoveFailed"}
  PROVE  s \o <<e>> \in Seq(Replies) /\ AnsweredBy(s \o <<e>>, a, c)
<1>1. s \o <<e>> \in Seq(Replies) /\ In(e, s \o <<e>>)
  BY EndsWith
<1>2. c.op \in {"StoreFlags", "MoveMessage"} => Answers(e, c.op, c.uid)
  BY DEF Answers
<1> QED BY <1>1, <1>2 DEF AnsweredBy

(* What is known of the command at the head of a queue. *)
HeadOf(a) ==
  /\ Head(cmdQ[a]) \in Orders /\ Head(cmdQ[a]).uid \in 0..2 /\ Head(cmdQ[a]).id \in Nat
  /\ Head(cmdQ[a]).mb \in Mailboxes \cup {NoOne}
  /\ Head(cmdQ[a]).op \in OfMailbox => Head(cmdQ[a]).mb \in Mailboxes /\ box[a][Head(cmdQ[a]).mb] \in SUBSET (1..2)
  /\ Head(cmdQ[a]).op \in OfMessage => Head(cmdQ[a]).uid \in 1..2

(* The first command of an actor's queue, and the queue without it. *)
LEMMA HeadTyped == ASSUME WorldTyped, NEW a \in Accounts, cmdQ[a] # <<>> PROVE HeadOf(a)
<1>1. Head(cmdQ[a]) \in Orders
  BY HeadIs DEF WorldTyped
<1> DEFINE c == Head(cmdQ[a])
<1>2. c.uid \in 0..2 /\ c.id \in Nat /\ c.mb \in Mailboxes \cup {NoOne} /\ (c.op \in OfMailbox => c.mb \in Mailboxes) /\ (c.op \in OfMessage => c.uid \in 1..2)
  BY <1>1 DEF Orders
<1> HIDE DEF c
<1>3. \A mb \in Mailboxes : box[a][mb] \in SUBSET (1..2)
  BY DEF WorldTyped
<1> QED BY <1>1, <1>2, <1>3 DEF HeadOf, c

(* A request that is answered with one reply, after what the reconnect says. *)
LEMMA OneReply ==
  ASSUME WorldTyped, NEW a \in Accounts, cmdQ[a] # <<>>, cmdQ' = [cmdQ EXCEPT ![a] = Tail(@)], workQ' = workQ,
         box' \in [Accounts -> [Mailboxes -> SUBSET (1..2)]], live' \in [Accounts -> {"never", "up", "down"}],
         NEW s \in Seq(Replies), NEW e \in Replies, events' = events \o (s \o <<e>>), e.acct = a, e.uid = Head(cmdQ[a]).uid,
         Head(cmdQ[a]).op = "StoreFlags" => e.ev \in {"FlagsUpdated", "FlagsUpdateFailed"},
         Head(cmdQ[a]).op = "MoveMessage" => e.ev \in {"Moved", "MoveFailed"}
  PROVE  \E es \in Seq(Replies) : Takes(a, es)
<1>1. Head(cmdQ[a]) \in Orders
  BY HeadTyped DEF HeadOf
<1>2. s \o <<e>> \in Seq(Replies) /\ AnsweredBy(s \o <<e>>, a, Head(cmdQ[a]))
  BY <1>1, SaysSo
<1>3. Takes(a, s \o <<e>>)
  BY <1>2 DEF Takes, WorldTyped
<1> QED BY <1>2, <1>3

(* One that no bulk action waits for may be answered with anything. *)
LEMMA OtherReply ==
  ASSUME WorldTyped, NEW a \in Accounts, cmdQ[a] # <<>>, cmdQ' = [cmdQ EXCEPT ![a] = Tail(@)],
         workQ' \in [Accounts -> Seq(Downloads)], box' = box, live' \in [Accounts -> {"never", "up", "down"}],
         NEW es \in Seq(Replies), events' = events \o es, Head(cmdQ[a]).op \notin {"StoreFlags", "MoveMessage"}
  PROVE  \E fs \in Seq(Replies) : Takes(a, fs)
<1>1. Takes(a, es)
  BY DEF Takes, WorldTyped, AnsweredBy
<1> QED BY <1>1

(* The state of a connection, changed or not. *)
LEMMA LiveTyped ==
  ASSUME WorldTyped, NEW a \in Accounts
  PROVE  /\ \A l \in {"never", "up", "down"} : [live EXCEPT ![a] = l] \in [Accounts -> {"never", "up", "down"}]
         /\ live \in [Accounts -> {"never", "up", "down"}]
BY DEF WorldTyped

(* The actor connects: it took one command and sent replies. *)
LEMMA ConnectsTakes == ASSUME WorldTyped, NEW a \in Accounts, ActorConnects(a) PROVE \E es \in Seq(Replies) : Takes(a, es)
<1>1. /\ cmdQ[a] # <<>> /\ Head(cmdQ[a]).op = "Connect" /\ cmdQ' = [cmdQ EXCEPT ![a] = Tail(@)] /\ box' = box /\ workQ' = workQ
      /\ live' = [live EXCEPT ![a] = "up"] \/ live' = live
      /\ events' = events \o <<Reply(a, "Connected", NoOne, 0, 0, {})>> \/ events' = events \o <<Reply(a, "Error", NoOne, 0, 0, {})>>
  BY DEF ActorConnects, Next1, Emit
<1>2. Reply(a, "Connected", NoOne, 0, 0, {}) \in Replies /\ Reply(a, "Error", NoOne, 0, 0, {}) \in Replies
  BY DEF Reply, Replies, ReplyKinds
<1> HIDE DEF Reply
<1>3. <<Reply(a, "Connected", NoOne, 0, 0, {})>> \in Seq(Replies) /\ <<Reply(a, "Error", NoOne, 0, 0, {})>> \in Seq(Replies)
  BY <1>2
<1>4. live' \in [Accounts -> {"never", "up", "down"}] /\ workQ' \in [Accounts -> Seq(Downloads)]
  BY <1>1, LiveTyped DEF WorldTyped
<1> QED BY <1>1, <1>3, <1>4, OtherReply

(* The failure of a request is of its message, and of its kind. *)
FailReply(a) == Reply(a, FailEvent(Head(cmdQ[a]).op), Head(cmdQ[a]).mb, Head(cmdQ[a]).uid, Head(cmdQ[a]).id, {})

(* The reply of a command that failed names its message. *)
LEMMA FailTyped ==
  ASSUME WorldTyped, NEW a \in Accounts, cmdQ[a] # <<>>
  PROVE  /\ FailReply(a) \in Replies /\ FailReply(a).acct = a /\ FailReply(a).uid = Head(cmdQ[a]).uid
         /\ Head(cmdQ[a]).op = "StoreFlags" => FailReply(a).ev = "FlagsUpdateFailed"
         /\ Head(cmdQ[a]).op = "MoveMessage" => FailReply(a).ev = "MoveFailed"
<1> DEFINE c == Head(cmdQ[a])
           ev == FailEvent(c.op)
<1>1. ev \in {"FlagsUpdateFailed", "MoveFailed", "BodyFailed", "Error"}
  BY DEF FailEvent
<1>2. (c.op = "StoreFlags" => ev = "FlagsUpdateFailed") /\ (c.op = "MoveMessage" => ev = "MoveFailed")
  BY DEF FailEvent
<1>3. c.uid \in 0..2 /\ c.id \in Nat /\ c.mb \in Mailboxes \cup {NoOne}
  BY HeadTyped DEF HeadOf
<1> HIDE DEF c, ev
<1>4. FailReply(a) = Reply(a, ev, c.mb, c.uid, c.id, {})
  BY DEF FailReply, ev, c
<1>5. ev \in ReplyKinds \ {"Headers", "Body"}
  BY <1>1 DEF ReplyKinds
<1>6. FailReply(a) \in Replies
  BY <1>3, <1>4, <1>5, ReplyTyped
<1> QED BY <1>2, <1>4, <1>6 DEF Reply, c

(* A command without a connection is answered by a failure ... *)
LEMMA NotConnectedTakes == ASSUME WorldTyped, NEW a \in Accounts, ActorNotConnected(a) PROVE \E es \in Seq(Replies) : Takes(a, es)
<1>1. /\ cmdQ[a] # <<>> /\ cmdQ' = [cmdQ EXCEPT ![a] = Tail(@)] /\ box' = box /\ workQ' = workQ /\ live' = live
      /\ \/ Head(cmdQ[a]).op = "FetchUnreadCounts" /\ events' = events
         \/ events' = events \o <<FailReply(a)>>
  BY DEF ActorNotConnected, Emit, FailReply
<1>2. /\ box' \in [Accounts -> [Mailboxes -> SUBSET (1..2)]] /\ live' \in [Accounts -> {"never", "up", "down"}]
      /\ workQ' \in [Accounts -> Seq(Downloads)] /\ events \in Seq(Replies)
  BY <1>1 DEF WorldTyped
<1>3. CASE Head(cmdQ[a]).op = "FetchUnreadCounts" /\ events' = events
  <2>1. <<>> \in Seq(Replies) /\ events' = events \o <<>>
    BY <1>2, <1>3
  <2> QED BY <1>1, <1>2, <1>3, <2>1, OtherReply
<1>4. CASE events' = events \o <<FailReply(a)>>
  <2>1. <<>> \in Seq(Replies) /\ <<FailReply(a)>> = <<>> \o <<FailReply(a)>>
    BY FailTyped, <1>1
  <2>2. events' = events \o (<<>> \o <<FailReply(a)>>)
    BY <1>4, <2>1
  <2> QED BY <1>1, <1>2, <2>1, <2>2, FailTyped, OneReply
<1> QED BY <1>1, <1>3, <1>4

(* A copy added, or a message moved: the mailboxes keep their type. *)
LEMMA BoxTyped ==
  ASSUME WorldTyped, NEW a \in Accounts, cmdQ[a] # <<>>, Head(cmdQ[a]).op = "MoveMessage"
  PROVE  LET u == Head(cmdQ[a]).uid IN
         /\ [box EXCEPT ![a]["Trash"] = @ \cup {u}] \in [Accounts -> [Mailboxes -> SUBSET (1..2)]]
         /\ [box EXCEPT ![a]["INBOX"] = @ \ {u}, ![a]["Trash"] = @ \cup {u}] \in [Accounts -> [Mailboxes -> SUBSET (1..2)]]
<1> DEFINE u == Head(cmdQ[a]).uid
<1>1. u \in 1..2
  BY HeadTyped DEF HeadOf, OfMessage
<1> HIDE DEF u
<1> QED BY <1>1 DEF WorldTyped, Mailboxes, u

(* ... and so is one whose request failed. *)
LEMMA RequestFailsTakes == ASSUME WorldTyped, NEW a \in Accounts, ActorRequestFails(a) PROVE \E es \in Seq(Replies) : Takes(a, es)
<1>1. /\ cmdQ[a] # <<>> /\ cmdQ' = [cmdQ EXCEPT ![a] = Tail(@)] /\ workQ' = workQ /\ live' = [live EXCEPT ![a] = "down"]
      /\ \/ events' = events \o (Reconnected(a) \o <<FailReply(a)>>) /\ box' \in AfterCopy(a, Head(cmdQ[a]))
         \/ events' = events \o (<<Reply(a, "Disconnected", NoOne, 0, 0, {})>> \o <<FailReply(a)>>) /\ box' = box
  BY DEF ActorRequestFails, Emit, FailReply
<1>2. live' \in [Accounts -> {"never", "up", "down"}]
  BY <1>1, LiveTyped
<1>3. box' \in [Accounts -> [Mailboxes -> SUBSET (1..2)]]
  <2>1. CASE box' = box
    BY <2>1 DEF WorldTyped
  <2>2. CASE box' # box
    <3>1. Head(cmdQ[a]).op = "MoveMessage" /\ box' = [box EXCEPT ![a]["Trash"] = @ \cup {Head(cmdQ[a]).uid}]
      BY <1>1, <2>2 DEF AfterCopy
    <3> QED BY <1>1, <3>1, BoxTyped
  <2> QED BY <2>1, <2>2
<1>4. Reconnected(a) \in Seq(Replies)
  BY ReconnectedTyped
<1>5. <<Reply(a, "Disconnected", NoOne, 0, 0, {})>> \in Seq(Replies)
  <2>1. Reply(a, "Disconnected", NoOne, 0, 0, {}) \in Replies
    BY DEF Reply, Replies, ReplyKinds
  <2> HIDE DEF Reply
  <2> QED BY <2>1
<1>6. PICK s \in Seq(Replies) : events' = events \o (s \o <<FailReply(a)>>)
  BY <1>1, <1>4, <1>5
<1> QED BY <1>1, <1>2, <1>3, <1>6, FailTyped, OneReply

(* The others: one reply after the reconnect. *)
LEMMA AnswerTakes ==
  ASSUME WorldTyped, NEW a \in Accounts, cmdQ[a] # <<>>, cmdQ' = [cmdQ EXCEPT ![a] = Tail(@)], workQ' = workQ,
         box' \in [Accounts -> [Mailboxes -> SUBSET (1..2)]], \E l \in {"up", "down"} : live' = [live EXCEPT ![a] = l],
         NEW e \in Replies, events' = events \o (Reconnected(a) \o <<e>>), e.acct = a, e.uid = Head(cmdQ[a]).uid,
         Head(cmdQ[a]).op = "StoreFlags" => e.ev \in {"FlagsUpdated", "FlagsUpdateFailed"},
         Head(cmdQ[a]).op = "MoveMessage" => e.ev \in {"Moved", "MoveFailed"}
  PROVE  \E es \in Seq(Replies) : Takes(a, es)
<1>1. live' \in [Accounts -> {"never", "up", "down"}]
  BY LiveTyped
<1>2. Reconnected(a) \in Seq(Replies)
  BY ReconnectedTyped
<1> QED BY <1>1, <1>2, OneReply

(* A command that changes no message is answered, whatever the replies say. *)
LEMMA PlainAnswerTakes ==
  ASSUME WorldTyped, NEW a \in Accounts, cmdQ[a] # <<>>, cmdQ' = [cmdQ EXCEPT ![a] = Tail(@)], workQ' = workQ, box' = box,
         live' = [live EXCEPT ![a] = "up"], Head(cmdQ[a]).op \notin {"StoreFlags", "MoveMessage"},
         NEW e \in Replies, events' = events \o (Reconnected(a) \o <<e>>)
  PROVE  \E es \in Seq(Replies) : Takes(a, es)
<1>1. Reconnected(a) \o <<e>> \in Seq(Replies)
  BY ReconnectedTyped, EndsWith
<1>2. live' \in [Accounts -> {"never", "up", "down"}] /\ workQ' \in [Accounts -> Seq(Downloads)]
  BY LiveTyped DEF WorldTyped
<1> QED BY <1>1, <1>2, OtherReply

(* Listings are such commands. *)
LEMMA ListingTakes ==
  ASSUME WorldTyped, NEW a \in Accounts, ActorMailboxes(a) \/ ActorHeaders(a) \/ ActorCounts(a)
  PROVE  \E es \in Seq(Replies) : Takes(a, es)
<1>1. /\ cmdQ[a] # <<>> /\ cmdQ' = [cmdQ EXCEPT ![a] = Tail(@)] /\ workQ' = workQ /\ box' = box /\ live' = [live EXCEPT ![a] = "up"]
      /\ Head(cmdQ[a]).op \in {"FetchMailboxes", "FetchHeaders", "FetchUnreadCounts"}
  BY DEF ActorMailboxes, ActorHeaders, ActorCounts, Next1, Up
<1>2. HeadOf(a)
  BY <1>1, HeadTyped
<1>3. \E e \in Replies : events' = events \o (Reconnected(a) \o <<e>>)
  <2>1. CASE ActorMailboxes(a)
    <3>1. Reply(a, "Mailboxes", NoOne, 0, 0, {}) \in Replies
      BY DEF Reply, Replies, ReplyKinds
    <3> QED BY <2>1, <3>1 DEF ActorMailboxes, Emit
  <2>2. CASE ActorCounts(a)
    <3>1. Reply(a, "UnreadCounts", NoOne, 0, 0, {}) \in Replies
      BY DEF Reply, Replies, ReplyKinds
    <3> QED BY <2>2, <3>1 DEF ActorCounts, Emit
  <2>3. CASE ActorHeaders(a)
    <3> DEFINE c == Head(cmdQ[a])
    <3>1. c.mb \in Mailboxes /\ c.id \in Nat /\ box[a][c.mb] \in SUBSET (1..2)
      BY <1>2, <2>3 DEF HeadOf, ActorHeaders, Next1, OfMailbox
    <3> HIDE DEF c
    <3>2. Reply(a, "Headers", c.mb, 0, c.id, box[a][c.mb]) \in Replies
      BY <3>1 DEF Reply, Replies, ReplyKinds
    <3>3. events' = events \o (Reconnected(a) \o <<Reply(a, "Headers", c.mb, 0, c.id, box[a][c.mb])>>)
      BY <2>3 DEF ActorHeaders, Emit, c
    <3> QED BY <3>2, <3>3
  <2> QED BY <2>1, <2>2, <2>3
<1> QED BY <1>1, <1>3, PlainAnswerTakes

(* Flags and moves change the folder, and say so for their message. *)
LEMMA ChangingTakes ==
  ASSUME WorldTyped, NEW a \in Accounts, ActorFlags(a) \/ ActorMove(a)
  PROVE  \E es \in Seq(Replies) : Takes(a, es)
<1> DEFINE c == Head(cmdQ[a])
<1>1. /\ cmdQ[a] # <<>> /\ cmdQ' = [cmdQ EXCEPT ![a] = Tail(@)] /\ workQ' = workQ
      /\ \E l \in {"up", "down"} : live' = [live EXCEPT ![a] = l]
  BY DEF ActorFlags, ActorMove, Next1, Up
<1>2. HeadOf(a)
  BY <1>1, HeadTyped
<1>3. CASE ActorFlags(a)
  <2>1. c.op = "StoreFlags" /\ box' = box
    BY <1>3 DEF ActorFlags, Next1
  <2>2. c.mb \in Mailboxes /\ c.uid \in 0..2
    BY <1>2, <2>1 DEF HeadOf, OfMailbox
  <2>3. PICK ev \in {"FlagsUpdated", "FlagsUpdateFailed"} : events' = events \o (Reconnected(a) \o <<Reply(a, ev, c.mb, c.uid, 0, {})>>)
    <3>1. \/ events' = events \o (Reconnected(a) \o <<Reply(a, "FlagsUpdated", c.mb, c.uid, 0, {})>>)
          \/ events' = events \o (Reconnected(a) \o <<Reply(a, "FlagsUpdateFailed", c.mb, c.uid, 0, {})>>)
      BY <1>3 DEF ActorFlags, Emit
    <3> QED BY <3>1
  <2> HIDE DEF c
  <2> DEFINE e == Reply(a, ev, c.mb, c.uid, 0, {})
  <2>4. e \in Replies /\ e.acct = a /\ e.uid = c.uid /\ e.ev \in {"FlagsUpdated", "FlagsUpdateFailed"}
    BY <2>2, <2>3 DEF Reply, Replies, ReplyKinds
  <2>5. box' \in [Accounts -> [Mailboxes -> SUBSET (1..2)]] /\ c.op # "MoveMessage"
    BY <2>1 DEF WorldTyped
  <2>6. events' = events \o (Reconnected(a) \o <<e>>)
    BY <2>3
  <2> HIDE DEF e
  <2> QED BY <1>1, <2>1, <2>4, <2>5, <2>6, AnswerTakes DEF c
<1>4. CASE ActorMove(a)
  <2>1. /\ c.op = "MoveMessage" /\ events' = events \o (Reconnected(a) \o <<Reply(a, "Moved", c.mb, c.uid, 0, {})>>)
        /\ box' = [box EXCEPT ![a]["INBOX"] = @ \ {c.uid}, ![a]["Trash"] = @ \cup {c.uid}] \/ box' = box
    BY <1>4 DEF ActorMove, Next1, Emit
  <2>2. c.mb \in Mailboxes /\ c.uid \in 0..2
    BY <1>2, <2>1 DEF HeadOf, OfMailbox
  <2>3. box' \in [Accounts -> [Mailboxes -> SUBSET (1..2)]]
    BY <1>1, <2>1, BoxTyped DEF WorldTyped
  <2> HIDE DEF c
  <2> DEFINE e == Reply(a, "Moved", c.mb, c.uid, 0, {})
  <2>4. e \in Replies /\ e.acct = a /\ e.uid = c.uid /\ e.ev \in {"Moved", "MoveFailed"}
    BY <2>2 DEF Reply, Replies, ReplyKinds
  <2>5. events' = events \o (Reconnected(a) \o <<e>>) /\ c.op # "StoreFlags"
    BY <2>1
  <2> HIDE DEF e
  <2> QED BY <1>1, <2>1, <2>3, <2>4, <2>5, AnswerTakes DEF c
<1> QED BY <1>3, <1>4

(* A command the actor hands over is work for the body worker ... *)
LEMMA HandsOverTakes == ASSUME WorldTyped, NEW a \in Accounts, ActorHandsOver(a) PROVE \E es \in Seq(Replies) : Takes(a, es)
<1>1. /\ cmdQ[a] # <<>> /\ Head(cmdQ[a]).op \in {"FetchBody", "BulkDownload"} /\ cmdQ' = [cmdQ EXCEPT ![a] = Tail(@)]
      /\ workQ' = [workQ EXCEPT ![a] = Append(@, Head(cmdQ[a]))] /\ box' = box /\ live' = live /\ events' = events
  BY DEF ActorHandsOver
<1>2. Head(cmdQ[a]) \in Downloads
  BY <1>1, HeadTyped DEF HeadOf, Downloads
<1>3. /\ workQ' \in [Accounts -> Seq(Downloads)] /\ live' \in [Accounts -> {"never", "up", "down"}]
      /\ <<>> \in Seq(Replies) /\ events' = events \o <<>>
  BY <1>1, <1>2 DEF WorldTyped
<1> QED BY <1>1, <1>3, OtherReply

(* A body worker's command, and what is left. *)
LEMMA WorkIs ==
  ASSUME WorldTyped, NEW a \in Accounts, workQ[a] # <<>>
  PROVE  /\ [workQ EXCEPT ![a] = Tail(@)] \in [Accounts -> Seq(Downloads)]
         /\ Head(workQ[a]).mb \in Mailboxes /\ Head(workQ[a]).uid \in 0..2 /\ Head(workQ[a]).id \in Nat
         /\ Head(workQ[a]).op # "BulkDownload" => Head(workQ[a]).uid \in 1..2
         /\ box[a][Head(workQ[a]).mb] \in SUBSET (1..2)
<1> DEFINE c == Head(workQ[a])
<1>1. workQ \in [Accounts -> Seq(Downloads)] /\ workQ[a] \in Seq(Downloads)
  BY DEF WorldTyped
<1>2. c \in Downloads /\ Tail(workQ[a]) \in Seq(Downloads)
  BY <1>1
<1>3. c.mb \in Mailboxes /\ c.uid \in 0..2 /\ c.id \in Nat /\ (c.op # "BulkDownload" => c.uid \in 1..2)
  BY <1>2 DEF Downloads, Orders, OfMailbox, OfMessage
<1>4. box[a][c.mb] \in SUBSET (1..2)
  BY <1>3 DEF WorldTyped
<1>5. [workQ EXCEPT ![a] = Tail(@)] \in [Accounts -> Seq(Downloads)]
  BY <1>1, <1>2
<1> QED BY <1>3, <1>4, <1>5

(* ... which answers it, or fails it. *)
LEMMA WorkerTakes ==
  ASSUME WorldTyped, NEW a \in Accounts, WorkerDone(a) \/ WorkerFails(a)
  PROVE  \E es \in Seq(Replies) : Takes(a, es)
<1> DEFINE c == Head(workQ[a])
<1>1. workQ[a] # <<>> /\ workQ' = [workQ EXCEPT ![a] = Tail(@)] /\ box' = box /\ cmdQ' = cmdQ /\ live' = live
  BY DEF WorkerDone, WorkerFails
<1>2. /\ workQ' \in [Accounts -> Seq(Downloads)] /\ c.mb \in Mailboxes /\ c.uid \in 0..2 /\ c.id \in Nat
      /\ (c.op # "BulkDownload" => c.uid \in 1..2) /\ box[a][c.mb] \in SUBSET (1..2)
  BY <1>1, WorkIs
<1>3. IndexReports(a, c.mb) \in Seq(Replies) /\ Len(IndexReports(a, c.mb)) \in Nat
  BY <1>2, IndexReportsTyped
<1> DEFINE Served == Reply(a, IF c.uid \in box[a][c.mb] THEN "Body" ELSE "BodyFailed", c.mb, c.uid, c.id, {})
           Failure == Reply(a, "BodyFailed", c.mb, c.uid, c.id, {})
           Broken == Reply(a, "Error", c.mb, 0, 0, {})
<1>4. \/ events' = events \o IndexReports(a, c.mb)
      \/ c.op # "BulkDownload" /\ events' = events \o <<Served>>
      \/ \E n \in 0..Len(IndexReports(a, c.mb)) :
           n < Len(IndexReports(a, c.mb)) /\ events' = events \o (SubSeq(IndexReports(a, c.mb), 1, n) \o <<Broken>>)
      \/ events' = events \o <<Failure>>
  BY DEF WorkerDone, WorkerFails, Emit
<1> HIDE DEF c
<1>5. Failure \in Replies /\ Broken \in Replies
  BY <1>2 DEF Reply, Replies, ReplyKinds
<1>6. c.op # "BulkDownload" => Served \in Replies
  <2>1. CASE c.uid \in box[a][c.mb]
    BY <1>2, <2>1 DEF Reply, Replies, ReplyKinds
  <2>2. CASE c.uid \notin box[a][c.mb]
    BY <1>2, <2>2 DEF Reply, Replies, ReplyKinds
  <2> QED BY <2>1, <2>2
<1> HIDE DEF Served, Failure, Broken
<1>7. \E es \in Seq(Replies) : events' = events \o es
  <2>1. CASE \E n \in 0..Len(IndexReports(a, c.mb)) :
               n < Len(IndexReports(a, c.mb)) /\ events' = events \o (SubSeq(IndexReports(a, c.mb), 1, n) \o <<Broken>>)
    <3>1. PICK n \in 0..Len(IndexReports(a, c.mb)) :
            n < Len(IndexReports(a, c.mb)) /\ events' = events \o (SubSeq(IndexReports(a, c.mb), 1, n) \o <<Broken>>)
      BY <2>1
    <3>2. SubSeq(IndexReports(a, c.mb), 1, n) \in Seq(Replies)
      BY <1>3, <3>1, SubSeqProperties
    <3>3. SubSeq(IndexReports(a, c.mb), 1, n) \o <<Broken>> \in Seq(Replies)
      BY <1>5, <3>2, EndsWith
    <3> QED BY <3>1, <3>3
  <2>2. CASE events' = events \o IndexReports(a, c.mb)
    BY <1>3, <2>2
  <2>3. CASE c.op # "BulkDownload" /\ events' = events \o <<Served>>
    <3>1. <<Served>> \in Seq(Replies)
      BY <1>6, <2>3
    <3> QED BY <2>3, <3>1
  <2>4. CASE events' = events \o <<Failure>>
    <3>1. <<Failure>> \in Seq(Replies)
      BY <1>5
    <3> QED BY <2>4, <3>1
  <2> QED BY <1>4, <2>1, <2>2, <2>3, <2>4
<1>8. PICK es \in Seq(Replies) : events' = events \o es
  BY <1>7
<1>9. Takes(a, es)
  BY <1>1, <1>2, <1>8 DEF Takes, WorldTyped
<1> QED BY <1>9

(* Whatever an actor or worker does, what is awaited stays awaited. *)
LEMMA TakesKeeps ==
  ASSUME WorldTyped, accts \in Seq(Accounts), NEW a \in Accounts, NEW es \in Seq(Replies), Takes(a, es), accts' = accts
  PROVE  WorldTyped' /\ \A op \in {"StoreFlags", "MoveMessage"} : \A u : Awaited(op, u) => Awaited(op, u)'
<1>1. events \in Seq(Replies) /\ events' = events \o es /\ events' \in Seq(Replies)
  BY DEF WorldTyped, Takes
<1>2. \A e : In(e, events') <=> In(e, events) \/ In(e, es)
  BY <1>1, EndsOf
<1>3. Queues(cmdQ)
  BY DEF WorldTyped
<1>4. Queues(cmdQ')
  <2>1. CASE cmdQ' = cmdQ
    BY <1>3, <2>1
  <2>2. CASE cmdQ[a] # <<>> /\ cmdQ' = [cmdQ EXCEPT ![a] = Tail(@)]
    BY <1>3, <2>2, HeadIs
  <2> QED BY <2>1, <2>2 DEF Takes
<1>5. WorldTyped'
  BY <1>1, <1>4 DEF WorldTyped, Takes, Queues
<1>6. ASSUME NEW op \in {"StoreFlags", "MoveMessage"}, NEW u, Answered(events, accts, op, u) PROVE Answered(events', accts, op, u)
  BY <1>2, <1>6, StillAnswered
<1>7. ASSUME NEW op \in {"StoreFlags", "MoveMessage"}, NEW u, Ordered(cmdQ, op, u)
      PROVE  Ordered(cmdQ', op, u) \/ Answered(events', accts, op, u)
  <2>1. CASE cmdQ' = cmdQ
    BY <1>7, <2>1
  <2>2. CASE cmdQ[a] # <<>> /\ cmdQ' = [cmdQ EXCEPT ![a] = Tail(@)] /\ AnsweredBy(es, a, Head(cmdQ[a]))
    <3>1. PICK b \in Accounts, c \in Orders : In(c, cmdQ[b]) /\ c.op = op /\ c.uid = u
      BY <1>7 DEF Ordered
    <3>2. In(a, accts) /\ (In(c, cmdQ'[b]) \/ (b = a /\ c = Head(cmdQ[a])))
      BY <1>3, <2>2, <3>1, HeadIs
    <3>3. CASE In(c, cmdQ'[b])
      BY <3>1, <3>3 DEF Ordered
    <3>4. CASE b = a /\ c = Head(cmdQ[a])
      <4>1. PICK e \in Replies : In(e, es) /\ e.acct = a /\ Answers(e, c.op, c.uid)
        BY <2>2, <3>1, <3>4 DEF AnsweredBy
      <4>2. In(e, events') /\ In(e.acct, accts) /\ Answers(e, op, u)
        BY <1>2, <3>1, <3>2, <4>1
      <4> QED BY <4>2 DEF Answered
    <3> QED BY <3>2, <3>3, <3>4
  <2> QED BY <2>1, <2>2 DEF Takes
<1> QED BY <1>5, <1>6, <1>7 DEF Awaited

ViewInv == ViewTyped /\ RowsOfActive /\ PaneIsSelected /\ SearchAligned

(* What shows nothing new keeps what is shown. *)
LEMMA SameView == ASSUME ViewInv, UNCHANGED <<coreView, req, bulk, gone>> PROVE ViewInv'
BY DEF ViewInv, ViewTyped, RowsOfActive, PaneIsSelected, SearchAligned, coreView, In

(* The actors and workers change nothing the core keeps. *)
LEMMA ActorStep == ASSUME CoreInv, CoreActors PROVE CoreInv'
<1>1. PICK a \in Accounts :
        \/ ActorConnects(a) \/ ActorNotConnected(a) \/ ActorRequestFails(a) \/ ActorMailboxes(a) \/ ActorHeaders(a) \/ ActorFlags(a)
        \/ ActorMove(a) \/ ActorCounts(a) \/ ActorHandsOver(a) \/ WorkerDone(a) \/ WorkerFails(a)
  BY DEF CoreActors
<1>2. WorldTyped /\ ViewInv /\ Outstanding /\ accts \in Seq(Accounts) /\ bulk \in Bulks
  BY DEF CoreInv, ViewInv, ViewTyped
<1>3. UNCHANGED <<coreView, coreReqs, coreNotes, ops>>
  BY <1>1 DEF WorldOnly, ActorConnects, ActorNotConnected, ActorRequestFails, ActorMailboxes, ActorHeaders, ActorFlags, ActorMove,
              ActorCounts, ActorHandsOver, WorkerDone, WorkerFails
<1>4. accts' = accts /\ bulk' = bulk /\ cut' = cut /\ UNCHANGED <<coreView, req, bulk, gone>>
  BY <1>3 DEF coreView, coreReqs, coreNotes
<1>5. PICK es \in Seq(Replies) : Takes(a, es)
  BY <1>1, <1>2, ConnectsTakes, NotConnectedTakes, RequestFailsTakes, ListingTakes, ChangingTakes, HandsOverTakes, WorkerTakes
<1>6. WorldTyped' /\ \A op \in {"StoreFlags", "MoveMessage"} : \A u : Awaited(op, u) => Awaited(op, u)'
  BY <1>2, <1>4, <1>5, TakesKeeps
<1>7. ViewInv'
  BY <1>2, <1>4, SameView
<1>8. Outstanding'
  <2>1. OpOf(bulk) \in {"StoreFlags", "MoveMessage"}
    BY DEF OpOf
  <2> QED BY <1>2, <1>4, <1>6, <2>1 DEF Outstanding
<1> QED BY <1>6, <1>7, <1>8 DEF CoreInv, ViewInv

-----------------------------------------------------------------------------
(* The events                                                              *)

(* Taking an event off the channel, commands being sent meanwhile. *)
LEMMA PumpedWorld ==
  ASSUME WorldTyped, accts \in Seq(Accounts), events # <<>>, events' = Tail(events), UNCHANGED <<accts, box, workQ, live>>,
         Queues(cmdQ'), Keeps(cmdQ, cmdQ')
  PROVE  /\ WorldTyped' /\ Head(events) \in Replies
         /\ \A op \in {"StoreFlags", "MoveMessage"} : \A u :
              Awaited(op, u) => Awaited(op, u)' \/ (In(Head(events).acct, accts) /\ Answers(Head(events), op, u))
<1>1. /\ events \in Seq(Replies) /\ events' \in Seq(Replies) /\ Head(events) \in Replies
      /\ \A x : In(x, events) <=> x = Head(events) \/ In(x, events')
  BY EndsOf DEF WorldTyped
<1>2. WorldTyped'
  BY <1>1 DEF WorldTyped, Queues
<1>3. ASSUME NEW op \in {"StoreFlags", "MoveMessage"}, NEW u, Ordered(cmdQ, op, u) PROVE Ordered(cmdQ', op, u)
  BY <1>3, StillOrdered
<1>4. ASSUME NEW op \in {"StoreFlags", "MoveMessage"}, NEW u, Answered(events, accts, op, u)
      PROVE  Answered(events', accts, op, u) \/ (In(Head(events).acct, accts) /\ Answers(Head(events), op, u))
  <2>1. PICK e \in Replies : In(e, events) /\ In(e.acct, accts) /\ Answers(e, op, u)
    BY <1>4 DEF Answered
  <2>2. e = Head(events) \/ In(e, events')
    BY <1>1, <2>1
  <2> QED BY <2>1, <2>2 DEF Answered
<1> QED BY <1>1, <1>2, <1>3, <1>4 DEF Awaited

(* A bulk action waits for fewer messages, not for the one whose reply was
   taken. *)
LEMMA StillOutstanding ==
  ASSUME Outstanding, bulk \in Bulks, cut' = cut, NEW e,
         \A op \in {"StoreFlags", "MoveMessage"} : \A u : Awaited(op, u) => Awaited(op, u)' \/ Answers(e, op, u),
         bulk' # NoBulk =>
           bulk # NoBulk /\ bulk'.kind = bulk.kind /\ \A u \in bulk'.pending : u \in bulk.pending /\ ~Answers(e, OpOf(bulk), u)
  PROVE  Outstanding'
<1>0. PICK o : o = OpOf(bulk)
  OBVIOUS
<1>1. o \in {"StoreFlags", "MoveMessage"} /\ (bulk' # NoBulk => OpOf(bulk') = o)
  BY <1>0 DEF OpOf
<1>2. ASSUME bulk' # NoBulk, ~cut, NEW u \in bulk'.pending PROVE Awaited(o, u)'
  <2>1. u \in bulk.pending /\ ~Answers(e, o, u) /\ bulk # NoBulk
    BY <1>0, <1>2
  <2>2. Awaited(o, u)
    BY <1>0, <1>2, <2>1 DEF Outstanding
  <2> QED BY <1>1, <2>1, <2>2
<1> QED BY <1>1, <1>2 DEF Outstanding, Awaited, OpOf

(* Opening an account's mailbox. *)
LEMMA ActivatedIs ==
  ASSUME accts \in Seq(Accounts), req \in Nat, NEW a \in Accounts, NEW mb \in Mailboxes, NEW q, Queues(q), Activated(a, mb, q)
  PROVE  /\ active' = a /\ open' = mb /\ sel' = 0 /\ sels' = {} /\ req' \in Nat /\ Queues(cmdQ') /\ Keeps(q, cmdQ')
         /\ \A b \in Accounts : b # a => cmdQ'[b] = q[b]
<1> DEFINE c == Command("FetchHeaders", mb, 0, req + 1)
<1>1. active' = a /\ open' = mb /\ sel' = 0 /\ sels' = {} /\ req' \in Nat /\ cmdQ' = SendTo(q, a, c)
  BY DEF Activated
<1>2. c \in Orders
  BY CommandTyped DEF OfMailbox, OfMessage
<1> HIDE DEF c
<1>3. Queues(cmdQ') /\ Keeps(q, cmdQ')
  BY <1>1, <1>2, SendToKeeps
<1>4. q \in [Accounts -> Seq(Orders)]
  BY DEF Queues
<1>5. \A b \in Accounts : b # a => cmdQ'[b] = q[b]
  BY <1>1, <1>4 DEF SendTo
<1> QED BY <1>1, <1>3, <1>5

(* What the pane says is among what it may say. *)
LEMMA EmptyIsWord == Said("empty") \in Word /\ Said("loading") \in Word /\ Said("moved") \in Word /\ Said("failed") \in Word
BY DEF Word

(* Another folder is opened: nothing of the last one stays on screen. *)
LEMMA ActivateView ==
  ASSUME ViewInv, NEW a \in Accounts, In(a, accts), NEW mb \in Mailboxes, active' = a, open' = mb, sel' = 0, sels' = {}, req' \in Nat,
         ActivateClears(a), accts' = accts, conn' \in [Accounts -> ConnStates], bulk' = bulk, gone' = gone
  PROVE  ViewInv'
<1>0. ViewTyped /\ RowsOfActive /\ PaneIsSelected /\ SearchAligned
  BY DEF ViewInv
<1>1. \/ rows' = {} /\ pane' = Said("empty") /\ hits' = <<>> /\ origins' = <<>>
      \/ active = a /\ UNCHANGED <<rows, pane, hits, origins>>
  BY DEF ActivateClears
<1>2. rows' \subseteq Messages /\ pane' \in Word \cup Messages /\ hits' \in Seq(1..2) /\ origins' \in Seq(Accounts \X Mailboxes)
  <2>1. rows \subseteq Messages /\ pane \in Word \cup Messages /\ hits \in Seq(1..2) /\ origins \in Seq(Accounts \X Mailboxes)
    BY <1>0 DEF ViewTyped
  <2>2. <<>> \in Seq(1..2) /\ <<>> \in Seq(Accounts \X Mailboxes) /\ Said("empty") \in Word
    BY EmptyIsWord
  <2> QED BY ONLY <1>1, <2>1, <2>2
<1>3. ViewTyped'
  BY <1>0, <1>2 DEF ViewTyped, In
<1>4. RowsOfActive'
  BY <1>0, <1>1 DEF RowsOfActive
<1>5. PaneIsSelected'
  BY DEF PaneIsSelected
<1>6. SearchAligned'
  BY <1>0, <1>1 DEF SearchAligned
<1> QED BY <1>3, <1>4, <1>5, <1>6 DEF ViewInv

(* An event that keeps all but the states of the accounts and the queues. *)
LEMMA PlainView == ASSUME ViewInv, UNCHANGED <<accts, active, open, rows, sel, sels, pane, hits, origins, bulk, gone>>,
                          conn' \in [Accounts -> ConnStates], req' \in Nat
                   PROVE  ViewInv'
BY DEF ViewInv, ViewTyped, RowsOfActive, PaneIsSelected, SearchAligned, In

(* What an event leaves: the view as it should be, the commands there were. *)
Handled == ViewInv' /\ accts' = accts /\ Queues(cmdQ') /\ Keeps(cmdQ, cmdQ') /\ cut' = cut

(* Adding commands to queues is a preorder. *)
LEMMA KeepsAll == ASSUME NEW q PROVE Keeps(q, q) /\ \A r, t : Keeps(q, r) /\ Keeps(r, t) => Keeps(q, t)
BY DEF Keeps

(* A session connects: its folders are asked for, no bulk action changes. *)
LEMMA ConnectedHandled ==
  ASSUME ViewInv, Queues(cmdQ), NEW e \in Replies, In(e.acct, accts), PumpConnected(e)
  PROVE  Handled /\ bulk' = bulk
<1> DEFINE c == Command("FetchMailboxes", NoOne, 0, 0)
           q == SendTo(cmdQ, e.acct, c)
           d == Command("FetchHeaders", open, 0, req + 1)
<1>0. ViewTyped /\ accts \in Seq(Accounts) /\ e.acct \in Accounts /\ req \in Nat /\ open \in Mailboxes /\ e.acct # NoOne
  BY CoreAssumption DEF ViewInv, ViewTyped, Replies
<1>1. c \in Orders /\ d \in Orders
  <2>1. c \in Orders
    BY CommandTyped DEF OfMailbox, OfMessage
  <2>2. req + 1 \in Nat
    BY <1>0
  <2>3. d \in Orders
    BY <1>0, <2>2, CommandTyped DEF OfMailbox, OfMessage
  <2> QED BY <2>1, <2>3
<1> HIDE DEF c, d
<1>2. Queues(q) /\ Keeps(cmdQ, q)
  BY <1>0, <1>1, SendToKeeps
<1>3. conn' \in [Accounts -> ConnStates] /\ accts' = accts /\ bulk' = bulk /\ gone' = gone /\ cut' = cut
  <2>1. conn' = [conn EXCEPT ![e.acct] = "Connected"] /\ accts' = accts /\ bulk' = bulk /\ gone' = gone /\ cut' = cut
    BY DEF PumpConnected, coreNotes
  <2> QED BY <1>0, <2>1 DEF ViewTyped, ConnStates
<1>4. CASE active = NoOne
  <2>1. Activated(e.acct, "INBOX", q) /\ ActivateClears(e.acct)
    BY <1>4 DEF PumpConnected, q, c
  <2> HIDE DEF q
  <2>2. "INBOX" \in Mailboxes
    BY DEF Mailboxes
  <2>3. /\ active' = e.acct /\ open' = "INBOX" /\ sel' = 0 /\ sels' = {} /\ req' \in Nat /\ Queues(cmdQ') /\ Keeps(q, cmdQ')
    BY <1>0, <1>2, <2>1, <2>2, ActivatedIs
  <2>4. ViewInv'
    BY <1>0, <1>3, <2>1, <2>2, <2>3, ActivateView
  <2> QED BY <1>2, <1>3, <2>3, <2>4, KeepsAll DEF Handled
<1>5. CASE active # NoOne
  <2>1. /\ UNCHANGED <<active, open, rows, sel, sels, pane, hits, origins>>
        /\ \/ req' = req + 1 /\ cmdQ' = SendTo(q, e.acct, d)
           \/ req' = req /\ cmdQ' = q
    BY <1>5 DEF PumpConnected, q, c, d
  <2> HIDE DEF q
  <2>2. Queues(cmdQ') /\ Keeps(q, cmdQ')
    BY <1>0, <1>1, <1>2, <2>1, SendToKeeps, KeepsAll
  <2>3. req' \in Nat
    BY <1>0, <2>1
  <2>4. ViewInv'
    BY <1>3, <2>1, <2>3, PlainView
  <2> QED BY <1>2, <1>3, <2>2, <2>4, KeepsAll DEF Handled
<1> QED BY <1>4, <1>5

(* Replies that concern no message leave the bulk action alone. *)
LEMMA PlainHandled ==
  ASSUME ViewInv, Queues(cmdQ), NEW e \in Replies, In(e.acct, accts),
         PumpDisconnected(e) \/ PumpError(e) \/ PumpMailboxes(e) \/ PumpIndex(e)
  PROVE  Handled /\ bulk' = bulk
<1> DEFINE c == Command("FetchUnreadCounts", NoOne, 0, 0)
<1>0. ViewTyped /\ accts \in Seq(Accounts) /\ e.acct \in Accounts /\ req \in Nat /\ conn \in [Accounts -> ConnStates]
  BY DEF ViewInv, ViewTyped, Replies
<1>1. /\ UNCHANGED <<accts, active, open, rows, sel, sels, pane, hits, origins, req, bulk, cut, gone>>
      /\ cmdQ' = cmdQ \/ cmdQ' = SendTo(cmdQ, e.acct, c)
      /\ \/ conn' = conn
         \/ conn' = [conn EXCEPT ![e.acct] = "Disconnected"]
         \/ conn' = [conn EXCEPT ![e.acct] = IF @ \in {"Connecting", "Disconnected"} THEN "Failed" ELSE @]
  BY DEF PumpDisconnected, PumpError, PumpMailboxes, PumpIndex, KeepView, KeepReqs, coreReqs, coreNotes
<1>2. c \in Orders
  BY CommandTyped DEF OfMailbox, OfMessage
<1> HIDE DEF c
<1>3. Queues(cmdQ') /\ Keeps(cmdQ, cmdQ')
  BY <1>0, <1>1, <1>2, SendToKeeps, KeepsAll
<1>4. conn' \in [Accounts -> ConnStates]
  BY <1>0, <1>1 DEF ConnStates
<1>5. ViewInv'
  BY <1>0, <1>1, <1>4, PlainView
<1> QED BY <1>1, <1>3, <1>5 DEF Handled

(* A listing is shown only if it is of the mailbox on screen. *)
LEMMA HeadersHandled ==
  ASSUME ViewInv, Queues(cmdQ), NEW e \in Replies, e.ev = "Headers", PumpHeaders(e)
  PROVE  Handled /\ bulk' = bulk
<1>0. ViewTyped /\ RowsOfActive /\ e.acct \in Accounts /\ e.mb \in Mailboxes /\ e.uids \in SUBSET (1..2)
  BY DEF ViewInv, Replies
<1>1. /\ UNCHANGED <<accts, conn, active, open, sel, sels, pane, hits, origins, req, bulk, cmdQ, cut, gone>>
      /\ rows' = rows \/ (active = e.acct /\ rows' = {<<e.acct, e.mb, u>> : u \in e.uids})
  BY DEF PumpHeaders, HeadersWanted, IsActive, coreReqs, coreNotes
<1>2. rows' \subseteq Messages /\ \A m \in rows' : m[1] = active
  <2>1. CASE rows' = rows
    BY <1>0, <2>1 DEF ViewTyped, RowsOfActive
  <2>2. CASE active = e.acct /\ rows' = {<<e.acct, e.mb, u>> : u \in e.uids}
    <3>1. ASSUME NEW m \in rows' PROVE m \in Messages /\ m[1] = active
      <4>1. PICK u \in e.uids : m = <<e.acct, e.mb, u>>
        BY <2>2, <3>1
      <4> QED BY <1>0, <2>2, <4>1 DEF Messages
    <3> QED BY <3>1
  <2> QED BY <1>1, <2>1, <2>2
<1>3. ViewTyped'
  BY <1>0, <1>1, <1>2 DEF ViewTyped, In
<1>4. RowsOfActive' /\ PaneIsSelected' /\ SearchAligned'
  BY <1>1, <1>2 DEF ViewInv, RowsOfActive, PaneIsSelected, SearchAligned
<1> QED BY <1>1, <1>3, <1>4, KeepsAll DEF Handled, ViewInv

(* A body is shown only if its message is the one selected. *)
LEMMA BodyHandled ==
  ASSUME ViewInv, Queues(cmdQ), NEW e \in Replies, (e.ev = "Body" /\ PumpBody(e)) \/ (e.ev = "BodyFailed" /\ PumpBodyFailed(e))
  PROVE  Handled /\ bulk' = bulk
<1>0. ViewTyped /\ PaneIsSelected /\ e.acct \in Accounts /\ (e.ev = "Body" => e.mb \in Mailboxes /\ e.uid \in 1..2)
  BY DEF ViewInv, Replies
<1>1. /\ UNCHANGED <<accts, conn, active, open, rows, sel, sels, hits, origins, req, bulk, cmdQ, cut, gone>>
      /\ \/ pane' = pane \/ pane' = Said("failed")
         \/ e.ev = "Body" /\ active = e.acct /\ sel = e.uid /\ pane' = <<e.acct, e.mb, e.uid>>
  BY DEF PumpBody, PumpBodyFailed, BodyWanted, IsActive, coreReqs, coreNotes
<1>2. pane' \in Word \cup Messages /\ (pane' \notin Word /\ sel # 0 => pane'[1] = active /\ pane'[3] = sel)
  <2>1. CASE pane' = pane
    BY <1>0, <2>1 DEF ViewTyped, PaneIsSelected
  <2>2. CASE pane' = Said("failed")
    BY <2>2, EmptyIsWord
  <2>3. CASE e.ev = "Body" /\ active = e.acct /\ sel = e.uid /\ pane' = <<e.acct, e.mb, e.uid>>
    BY <1>0, <2>3 DEF Messages
  <2> QED BY <1>1, <2>1, <2>2, <2>3
<1>3. ViewTyped'
  BY <1>0, <1>1, <1>2 DEF ViewTyped, In
<1>4. RowsOfActive' /\ PaneIsSelected' /\ SearchAligned'
  BY <1>1, <1>2 DEF ViewInv, RowsOfActive, PaneIsSelected, SearchAligned, Word
<1> QED BY <1>1, <1>3, <1>4, KeepsAll DEF Handled, ViewInv

(* The two lists of the search results are picked alike. *)
LEMMA DropsHit ==
  ASSUME ViewTyped, SearchAligned, NEW e \in Replies, DropHit(e), gone' = gone \cup {<<e.acct, e.mb, e.uid>>}
  PROVE  hits' \in Seq(1..2) /\ origins' \in Seq(Accounts \X Mailboxes) /\ SearchAligned'
<1> DEFINE K == {i \in 1..Len(hits) : ~(hits[i] = e.uid /\ origins[i] = <<e.acct, e.mb>>)}
<1>1. hits' = Picked(hits, K) /\ origins' = Picked(origins, K)
  BY DEF DropHit
<1>2. hits \in Seq(1..2) /\ origins \in Seq(Accounts \X Mailboxes) /\ Len(hits) = Len(origins)
  BY DEF ViewTyped, SearchAligned
<1>3. \A i \in K : ~(hits[i] = e.uid /\ origins[i] = <<e.acct, e.mb>>)
  OBVIOUS
<1> HIDE DEF K
<1>4. /\ Picked(hits, K) \in Seq(1..2) /\ Len(Picked(hits, K)) = Place(K, Len(hits))
      /\ \A i \in K \cap 1..Len(hits) : Picked(hits, K)[Place(K, i)] = hits[i]
      /\ \A j \in 1..Len(Picked(hits, K)) : \E i \in K \cap 1..Len(hits) : j = Place(K, i)
  BY <1>2, PickedPlaces
<1>5. /\ Picked(origins, K) \in Seq(Accounts \X Mailboxes) /\ Len(Picked(origins, K)) = Place(K, Len(origins))
      /\ \A i \in K \cap 1..Len(origins) : Picked(origins, K)[Place(K, i)] = origins[i]
  BY <1>2, PickedPlaces
<1>6. Len(hits') = Len(origins')
  BY <1>1, <1>2, <1>4, <1>5
<1>7. ASSUME NEW j \in 1..Len(hits') PROVE <<origins'[j][1], origins'[j][2], hits'[j]>> \notin gone'
  <2>1. PICK i \in K \cap 1..Len(hits) : j = Place(K, i)
    BY <1>1, <1>4
  <2>2. hits'[j] = hits[i] /\ origins'[j] = origins[i] /\ origins[i] \in Accounts \X Mailboxes /\ i \in 1..Len(hits)
    BY <1>1, <1>2, <1>4, <1>5, <2>1
  <2>3. <<origins[i][1], origins[i][2], hits[i]>> \notin gone
    BY <2>2 DEF SearchAligned
  <2>4. origins[i] = <<origins[i][1], origins[i][2]>>
    BY <2>2
  <2>5. <<origins[i][1], origins[i][2], hits[i]>> # <<e.acct, e.mb, e.uid>>
    BY <1>3, <2>1, <2>4
  <2> QED BY <2>2, <2>3, <2>5
<1> QED BY <1>1, <1>4, <1>5, <1>6, <1>7 DEF SearchAligned

(* The bulk action waits on, but not for the message that e answers. *)
Fewer(e) ==
  bulk' # NoBulk =>
    bulk # NoBulk /\ bulk'.kind = bulk.kind /\ \A u \in bulk'.pending : u \in bulk.pending /\ ~Answers(e, OpOf(bulk), u)

(* A reply about a message of the bulk action takes it off. *)
LEMMA Advances ==
  ASSUME bulk \in Bulks, NEW kind \in {"Flags", "Move"}, NEW e, AdvanceBulk(kind, e),
         e.ev \in IF kind = "Flags" THEN {"FlagsUpdated", "FlagsUpdateFailed"} ELSE {"Moved", "MoveFailed"}
  PROVE  bulk' \in Bulks /\ Fewer(e)
<1>1. CASE bulk = NoBulk
  <2>1. bulk.kind # kind
    BY <1>1 DEF NoBulk
  <2>2. bulk' = bulk
    BY <2>1 DEF AdvanceBulk
  <2> QED BY <1>1, <2>2 DEF Fewer
<1>2. CASE bulk # NoBulk
  <2>1. bulk \in [kind : {"Flags", "Move"}, pending : SUBSET (1..2)]
    BY <1>2 DEF Bulks
  <2>2. CASE bulk.kind # kind
    <3>1. bulk' = bulk
      BY <2>2 DEF AdvanceBulk
    <3>2. \A u : ~Answers(e, OpOf(bulk), u)
      BY <2>1, <2>2 DEF Answers, OpOf
    <3> QED BY <1>2, <3>1, <3>2 DEF Fewer
  <2>3. CASE bulk.kind = kind /\ e.uid \notin bulk.pending
    <3>1. bulk' = bulk
      BY <2>3 DEF AdvanceBulk
    <3>2. \A u \in bulk.pending : ~Answers(e, OpOf(bulk), u)
      BY <2>3 DEF Answers
    <3> QED BY <1>2, <3>1, <3>2 DEF Fewer
  <2>4. CASE bulk.kind = kind /\ e.uid \in bulk.pending /\ bulk.pending = {e.uid}
    <3>1. bulk' = NoBulk
      BY <2>4 DEF AdvanceBulk
    <3> QED BY <3>1 DEF Bulks, Fewer
  <2>5. CASE bulk.kind = kind /\ e.uid \in bulk.pending /\ bulk.pending # {e.uid}
    <3>1. bulk' = [bulk EXCEPT !.pending = @ \ {e.uid}]
      BY <2>5 DEF AdvanceBulk
    <3>2. bulk' \in [kind : {"Flags", "Move"}, pending : SUBSET (1..2)] /\ bulk'.kind = bulk.kind /\ bulk'.pending = bulk.pending \ {e.uid}
      BY <2>1, <3>1
    <3>3. \A u \in bulk'.pending : u \in bulk.pending /\ ~Answers(e, OpOf(bulk), u)
      BY <3>2 DEF Answers
    <3> QED BY <1>2, <3>2, <3>3 DEF Bulks, Fewer
  <2> QED BY <2>2, <2>3, <2>4, <2>5
<1> QED BY <1>1, <1>2

(* The core handles a reply to a bulk action's flags, or a move that failed
   ... *)
LEMMA BulkReplyHandled ==
  ASSUME ViewInv, Queues(cmdQ), NEW e \in Replies,
         \/ e.ev \in {"FlagsUpdated", "FlagsUpdateFailed"} /\ PumpFlags(e)
         \/ e.ev = "MoveFailed" /\ PumpMoveFailed(e)
  PROVE  Handled /\ Fewer(e)
<1>0. ViewTyped /\ bulk \in Bulks
  BY DEF ViewInv, ViewTyped
<1>1. UNCHANGED <<accts, conn, active, open, rows, sel, sels, pane, hits, origins, req, cmdQ, cut, gone>>
  BY DEF PumpFlags, PumpMoveFailed, KeepView, KeepReqs, coreNotes
<1>2. bulk' \in Bulks /\ Fewer(e)
  <2>1. CASE e.ev \in {"FlagsUpdated", "FlagsUpdateFailed"} /\ PumpFlags(e)
    <3>1. AdvanceBulk("Flags", e)
      BY <2>1 DEF PumpFlags
    <3> QED BY <1>0, <2>1, <3>1, Advances
  <2>2. CASE e.ev = "MoveFailed" /\ PumpMoveFailed(e)
    <3>1. AdvanceBulk("Move", e)
      BY <2>2 DEF PumpMoveFailed
    <3> QED BY <1>0, <2>2, <3>1, Advances
  <2> QED BY <2>1, <2>2
<1>3. ViewInv'
  BY <1>1, <1>2 DEF ViewInv, ViewTyped, RowsOfActive, PaneIsSelected, SearchAligned, In
<1> QED BY <1>1, <1>2, <1>3, KeepsAll DEF Handled

(* ... or succeeded. *)
LEMMA MovedHandled ==
  ASSUME ViewInv, Queues(cmdQ), NEW e \in Replies, e.ev = "Moved", PumpMoved(e)
  PROVE  Handled /\ Fewer(e)
<1>0. ViewTyped /\ bulk \in Bulks /\ RowsOfActive /\ PaneIsSelected /\ SearchAligned
  BY DEF ViewInv, ViewTyped
<1>1. /\ UNCHANGED <<accts, conn, active, open, req, cmdQ, cut>> /\ AdvanceBulk("Move", e)
      /\ DropHit(e) /\ gone' = gone \cup {<<e.acct, e.mb, e.uid>>} /\ rows' \subseteq rows
      /\ \/ sels' = sels \ {e.uid} /\ sel = e.uid /\ sel' = 0 /\ pane' = Said("moved")
         \/ sels' \subseteq sels /\ sel' = sel /\ pane' = pane
  BY DEF PumpMoved, KeepReqs
<1>2. bulk' \in Bulks /\ Fewer(e)
  BY <1>0, <1>1, Advances
<1>3. hits' \in Seq(1..2) /\ origins' \in Seq(Accounts \X Mailboxes) /\ SearchAligned'
  BY <1>0, <1>1, DropsHit
<1>4. pane' \in Word \cup Messages /\ sel' \in 0..2 /\ sels' \subseteq 1..2 /\ rows' \subseteq Messages
  <2>1. pane \in Word \cup Messages /\ sel \in 0..2 /\ sels \subseteq 1..2 /\ rows \subseteq Messages
    BY <1>0 DEF ViewTyped
  <2>2. Said("moved") \in Word /\ 0 \in 0..2
    BY EmptyIsWord
  <2> QED BY ONLY <1>1, <2>1, <2>2
<1>5. ViewTyped'
  BY <1>0, <1>1, <1>2, <1>3, <1>4 DEF ViewTyped, In
<1>6. RowsOfActive' /\ PaneIsSelected'
  <2>1. RowsOfActive'
    BY <1>0, <1>1 DEF RowsOfActive
  <2>2. CASE sel' = 0
    BY <2>1, <2>2 DEF PaneIsSelected
  <2>3. CASE sel' = sel /\ pane' = pane
    BY <1>0, <1>1, <2>1, <2>3 DEF PaneIsSelected
  <2> QED BY <1>1, <2>1, <2>2, <2>3
<1> QED BY <1>1, <1>2, <1>3, <1>5, <1>6, KeepsAll DEF Handled, ViewInv

(* The core takes a reply. *)
LEMMA PumpStep == ASSUME CoreInv, Pump PROVE CoreInv'
<1> DEFINE e == Head(events)
<1>1. events # <<>> /\ events' = Tail(events) /\ UNCHANGED <<box, workQ, live>>
  BY DEF Pump
<1>2. WorldTyped /\ ViewInv /\ Outstanding /\ ViewTyped /\ accts \in Seq(Accounts) /\ bulk \in Bulks /\ Queues(cmdQ) /\ events \in Seq(Replies)
  BY DEF CoreInv, ViewInv, ViewTyped, WorldTyped
<1>3. e \in Replies
  BY <1>1, <1>2, EndsOf
<1>4. /\ In(e.acct, accts) => Handled /\ Fewer(e)
      /\ ~In(e.acct, accts) => Handled /\ bulk' = bulk
  <2>1. CASE In(e.acct, accts)
    <3>0. InList(e.acct)
      BY <2>1 DEF InList, In
    <3>1. \/ e.ev = "Connected" /\ PumpConnected(e)
          \/ e.ev = "Disconnected" /\ PumpDisconnected(e)
          \/ e.ev = "Error" /\ PumpError(e)
          \/ e.ev = "Mailboxes" /\ PumpMailboxes(e)
          \/ e.ev = "Headers" /\ PumpHeaders(e)
          \/ e.ev = "Body" /\ PumpBody(e)
          \/ e.ev = "BodyFailed" /\ PumpBodyFailed(e)
          \/ e.ev \in {"FlagsUpdated", "FlagsUpdateFailed"} /\ PumpFlags(e)
          \/ e.ev = "Moved" /\ PumpMoved(e)
          \/ e.ev = "MoveFailed" /\ PumpMoveFailed(e)
          \/ e.ev \in {"IndexProgress", "IndexDone"} /\ PumpIndex(e)
          \/ e.ev = "UnreadCounts" /\ UNCHANGED <<coreView, coreReqs, cmdQ, coreNotes>>
      BY <3>0 DEF Pump
    <3> HIDE DEF e
    <3>2. CASE e.ev \in {"FlagsUpdated", "FlagsUpdateFailed"} \/ e.ev \in {"Moved", "MoveFailed"}
      <4>1. CASE \/ e.ev \in {"FlagsUpdated", "FlagsUpdateFailed"} /\ PumpFlags(e)
                 \/ e.ev = "MoveFailed" /\ PumpMoveFailed(e)
        <5>1. Handled /\ Fewer(e)
          BY ONLY <1>2, <1>3, <4>1, BulkReplyHandled
        <5> QED BY <2>1, <5>1
      <4>2. CASE e.ev = "Moved" /\ PumpMoved(e)
        <5>1. Handled /\ Fewer(e)
          BY ONLY <1>2, <1>3, <4>2, MovedHandled
        <5> QED BY <2>1, <5>1
      <4> QED BY <3>1, <3>2, <4>1, <4>2
    <3>3. CASE e.ev \notin {"FlagsUpdated", "FlagsUpdateFailed", "Moved", "MoveFailed"}
      <4>1. Handled /\ bulk' = bulk
        <5>1. CASE e.ev = "UnreadCounts" /\ UNCHANGED <<coreView, coreReqs, cmdQ, coreNotes>>
          <6>1. UNCHANGED <<coreView, req, bulk, gone>> /\ accts' = accts /\ cmdQ' = cmdQ /\ cut' = cut
            BY <5>1 DEF coreView, coreReqs, coreNotes
          <6> QED BY <1>2, <6>1, SameView, KeepsAll DEF Handled
        <5>2. CASE e.ev = "Connected" /\ PumpConnected(e)
          BY ONLY <1>2, <1>3, <2>1, <5>2, ConnectedHandled
        <5>3. CASE PumpDisconnected(e) \/ PumpError(e) \/ PumpMailboxes(e) \/ PumpIndex(e)
          BY ONLY <1>2, <1>3, <2>1, <5>3, PlainHandled
        <5>4. CASE e.ev = "Headers" /\ PumpHeaders(e)
          BY ONLY <1>2, <1>3, <5>4, HeadersHandled
        <5>5. CASE (e.ev = "Body" /\ PumpBody(e)) \/ (e.ev = "BodyFailed" /\ PumpBodyFailed(e))
          BY ONLY <1>2, <1>3, <5>5, BodyHandled
        <5>6. \/ PumpDisconnected(e) \/ PumpError(e) \/ PumpMailboxes(e) \/ PumpIndex(e)
              \/ e.ev = "Connected" /\ PumpConnected(e)
              \/ e.ev = "Headers" /\ PumpHeaders(e)
              \/ (e.ev = "Body" /\ PumpBody(e)) \/ (e.ev = "BodyFailed" /\ PumpBodyFailed(e))
              \/ e.ev = "UnreadCounts" /\ UNCHANGED <<coreView, coreReqs, cmdQ, coreNotes>>
          BY ONLY <3>1, <3>3
        <5> QED BY ONLY <5>1, <5>2, <5>3, <5>4, <5>5, <5>6, Zenon
      <4>2. \A op, u : ~Answers(e, op, u)
        BY <3>3 DEF Answers
      <4> QED BY <4>1, <4>2 DEF Fewer
    <3> QED BY <2>1, <3>2, <3>3
  <2>2. CASE ~In(e.acct, accts)
    <3>1. UNCHANGED <<coreView, coreReqs, cmdQ, coreNotes>>
      BY <2>2 DEF Pump, InList, In
    <3>2. UNCHANGED <<coreView, req, bulk, gone>> /\ accts' = accts /\ cmdQ' = cmdQ /\ cut' = cut /\ bulk' = bulk
      BY <3>1 DEF coreView, coreReqs, coreNotes
    <3> QED BY <1>2, <2>2, <3>2, SameView, KeepsAll DEF Handled
  <2> QED BY <2>1, <2>2
<1>5. Handled
  BY <1>4
<1>6. /\ WorldTyped'
      /\ \A op \in {"StoreFlags", "MoveMessage"} : \A u : Awaited(op, u) => Awaited(op, u)' \/ (In(e.acct, accts) /\ Answers(e, op, u))
  BY <1>1, <1>2, <1>5, PumpedWorld DEF Handled
<1> HIDE DEF e
<1>7. Outstanding'
  <2>1. cut' = cut
    BY <1>5 DEF Handled
  <2>2. CASE In(e.acct, accts)
    BY <1>2, <1>4, <1>6, <2>1, <2>2, StillOutstanding DEF Fewer
  <2>3. CASE ~In(e.acct, accts)
    <3>1. \A op \in {"StoreFlags", "MoveMessage"} : \A u : Awaited(op, u) => Awaited(op, u)'
      BY <1>6, <2>3
    <3>2. bulk' = bulk /\ OpOf(bulk) \in {"StoreFlags", "MoveMessage"}
      BY <1>4, <2>3 DEF OpOf
    <3> QED BY <1>2, <2>1, <3>1, <3>2 DEF Outstanding
  <2> QED BY <2>2, <2>3
<1> QED BY <1>5, <1>6, <1>7 DEF CoreInv, ViewInv, Handled

-----------------------------------------------------------------------------
(* What the frontend calls                                                 *)

(* The list of the accounts without one of them. *)
LEMMA WithoutIs ==
  ASSUME accts \in Seq(Accounts), NEW a
  PROVE  Without(a) \in Seq(Accounts) /\ \A b : In(b, Without(a)) <=> In(b, accts) /\ b # a
<1> DEFINE K == {i \in 1..Len(accts) : accts[i] # a}
<1>1. Without(a) = Picked(accts, K)
  BY DEF Without
<1>2. Picked(accts, K) \in Seq(Accounts) /\ \A b : In(b, Picked(accts, K)) <=> \E i \in K \cap 1..Len(accts) : accts[i] = b
  <2> HIDE DEF K
  <2> QED BY PickedIn
<1>3. ASSUME NEW b PROVE (\E i \in K \cap 1..Len(accts) : accts[i] = b) <=> In(b, accts) /\ b # a
  BY DEF In
<1> QED BY <1>1, <1>2, <1>3

(* Commands sent, and nothing else that a bulk action has to do with. *)
LEMMA SentOnly ==
  ASSUME CoreInv, UNCHANGED <<accts, box, workQ, live, events, bulk, cut>>, Queues(cmdQ'), Keeps(cmdQ, cmdQ'), ViewInv'
  PROVE  CoreInv'
<1>1. WorldTyped'
  BY DEF CoreInv, WorldTyped, Queues
<1>2. \A op, u : Awaited(op, u) => Awaited(op, u)'
  BY StillOrdered DEF Awaited
<1>3. Outstanding'
  BY <1>2 DEF CoreInv, Outstanding
<1> QED BY <1>1, <1>3 DEF CoreInv, ViewInv

(* Parts of the invariant at hand. *)
LEMMA CoreParts ==
  ASSUME CoreInv
  PROVE  /\ WorldTyped /\ ViewInv /\ ViewTyped /\ Outstanding /\ accts \in Seq(Accounts) /\ req \in Nat /\ Queues(cmdQ)
         /\ cmdQ \in [Accounts -> Seq(Orders)] /\ bulk \in Bulks /\ open \in Mailboxes
BY DEF CoreInv, ViewInv, ViewTyped, WorldTyped, Queues

(* An account's session is opened. *)
LEMMA OpenSessionStep == ASSUME CoreInv, NEW a \in Accounts, OpenSession(a) PROVE CoreInv'
<1> DEFINE c == Command("Connect", NoOne, 0, 0)
<1>0. /\ WorldTyped /\ ViewInv /\ ViewTyped /\ Outstanding /\ accts \in Seq(Accounts) /\ Queues(cmdQ)
      /\ cmdQ \in [Accounts -> Seq(Orders)]
  BY CoreParts
<1>1. /\ accts' = Append(Without(a), a) /\ conn' = [conn EXCEPT ![a] = "Connecting"]
      /\ cut' = (cut \/ (bulk # NoBulk /\ InList(a))) /\ cmdQ' = [cmdQ EXCEPT ![a] = <<c>>]
      /\ workQ' = [workQ EXCEPT ![a] = <<>>] /\ live' = [live EXCEPT ![a] = "never"]
      /\ UNCHANGED <<active, open, rows, sel, sels, pane, hits, origins, req, bulk, box, events, gone>>
  BY DEF OpenSession, coreReqs
<1>2. c \in Orders
  BY CommandTyped DEF OfMailbox, OfMessage
<1> HIDE DEF c
<1>3. accts' \in Seq(Accounts) /\ \A b : In(b, accts') <=> In(b, accts) \/ b = a
  <2>1. Without(a) \in Seq(Accounts) /\ \A b : In(b, Without(a)) <=> In(b, accts) /\ b # a
    BY <1>0, WithoutIs
  <2>2. Append(Without(a), a) \in Seq(Accounts) /\ \A b : In(b, Append(Without(a), a)) <=> In(b, Without(a)) \/ b = a
    BY <2>1, AddedOne
  <2> QED BY <1>1, <2>1, <2>2
<1>4. cmdQ' \in [Accounts -> Seq(Orders)] /\ cmdQ'[a] = <<c>> /\ \A b \in Accounts : b # a => cmdQ'[b] = cmdQ[b]
  BY <1>0, <1>1, <1>2
<1>5. Queues(cmdQ)'
  <2>1. Len(cmdQ'[a]) <= ActorQueue
    <3>1. ActorQueue \in Nat \ {0} /\ Len(<<c>>) = 1
      BY CoreAssumption
    <3> QED BY <1>4, <3>1
  <2>2. \A b \in Accounts : b # a => Len(cmdQ'[b]) <= ActorQueue /\ (cmdQ'[b] # <<>> => In(b, accts'))
    BY <1>0, <1>3, <1>4 DEF Queues
  <2>3. In(a, accts')
    BY <1>3
  <2> QED BY <1>4, <2>1, <2>2, <2>3 DEF Queues
<1>6. WorldTyped'
  <2>1. workQ' \in [Accounts -> Seq(Downloads)] /\ live' \in [Accounts -> {"never", "up", "down"}]
    BY <1>0, <1>1 DEF WorldTyped
  <2> QED BY <1>0, <1>1, <1>5, <2>1 DEF WorldTyped
<1>7. ViewInv'
  <2>1. conn' \in [Accounts -> ConnStates]
    BY <1>0, <1>1 DEF ViewTyped, ConnStates
  <2>2. active = NoOne \/ In(active, accts')
    BY <1>0, <1>3 DEF ViewTyped
  <2>3. ViewTyped'
    BY <1>0, <1>1, <1>3, <2>1, <2>2 DEF ViewTyped
  <2> QED BY <1>0, <1>1, <2>3 DEF ViewInv, RowsOfActive, PaneIsSelected, SearchAligned
<1>8. Outstanding'
  <2>1. CASE bulk = NoBulk \/ cut'
    BY <1>1, <2>1 DEF Outstanding
  <2>2. CASE bulk # NoBulk /\ ~cut'
    <3>1. ~cut /\ ~In(a, accts)
      BY <1>1, <2>2 DEF InList, In
    <3>2. cmdQ[a] = <<>>
      BY <1>0, <3>1 DEF Queues
    <3>3. Keeps(cmdQ, cmdQ')
      <4>1. \A x : ~In(x, <<>>)
        BY DEF In
      <4> QED BY <1>4, <3>2, <4>1 DEF Keeps
    <3>4. \A op, u : Ordered(cmdQ, op, u) => Ordered(cmdQ', op, u)
      BY <3>3, StillOrdered
    <3>5. \A op, u : Answered(events, accts, op, u) => Answered(events, accts', op, u)
      BY <1>3 DEF Answered
    <3>6. \A op, u : Awaited(op, u) => Awaited(op, u)'
      BY <1>1, <3>4, <3>5 DEF Awaited
    <3> QED BY <1>0, <1>1, <2>2, <3>1, <3>6 DEF Outstanding
  <2> QED BY <2>1, <2>2
<1> QED BY <1>6, <1>7, <1>8 DEF CoreInv, ViewInv

(* The user opens a folder. *)
LEMMA ActivateStep == ASSUME CoreInv, NEW a \in Accounts, NEW mb \in Mailboxes, Activate(a, mb) PROVE CoreInv'
<1>0. ViewInv /\ ViewTyped /\ accts \in Seq(Accounts) /\ Queues(cmdQ) /\ req \in Nat
  BY CoreParts
<1>1. /\ In(a, accts) /\ Activated(a, mb, cmdQ) /\ ActivateClears(a)
      /\ UNCHANGED <<accts, conn, bulk, box, workQ, live, events, cut, gone>>
  BY DEF Activate, InList, In, coreNotes
<1>2. active' = a /\ open' = mb /\ sel' = 0 /\ sels' = {} /\ req' \in Nat /\ Queues(cmdQ') /\ Keeps(cmdQ, cmdQ')
  BY <1>0, <1>1, ActivatedIs
<1>3. conn' \in [Accounts -> ConnStates]
  BY <1>0, <1>1 DEF ViewTyped
<1>4. ViewInv'
  BY <1>0, <1>1, <1>2, <1>3, ActivateView
<1> QED BY <1>1, <1>2, <1>4, SentOnly

(* The user opens a message. *)
LEMMA OpenMessageStep == ASSUME CoreInv, NEW u \in 1..2, OpenMessage(u) PROVE CoreInv'
<1> DEFINE c == Command("FetchBody", open, u, req + 1)
<1>0. ViewInv /\ ViewTyped /\ accts \in Seq(Accounts) /\ Queues(cmdQ) /\ req \in Nat /\ open \in Mailboxes
  BY CoreParts
<1>1. /\ active # NoOne /\ sel' = u /\ sels' = {u} /\ pane' = Said("loading") /\ req' = req + 1 /\ cmdQ' = SendTo(cmdQ, active, c)
      /\ UNCHANGED <<accts, conn, active, open, rows, hits, origins, bulk, box, workQ, live, events, cut, gone>>
  BY DEF OpenMessage, coreNotes
<1>2. c \in Orders
  <2>1. req + 1 \in Nat /\ u \in 0..2
    BY <1>0
  <2> QED BY <1>0, <2>1, CommandTyped DEF OfMailbox, OfMessage
<1> HIDE DEF c
<1>3. active \in Accounts
  BY <1>0, <1>1 DEF ViewTyped
<1>4. Queues(cmdQ') /\ Keeps(cmdQ, cmdQ')
  BY <1>0, <1>1, <1>2, <1>3, SendToKeeps
<1>5. req' \in Nat /\ sel' \in 0..2 /\ sels' \subseteq 1..2 /\ pane' \in Word
  BY <1>0, <1>1, EmptyIsWord
<1>6. ViewTyped'
  BY <1>0, <1>1, <1>5 DEF ViewTyped, In
<1>7. RowsOfActive' /\ PaneIsSelected' /\ SearchAligned'
  BY <1>0, <1>1, <1>5 DEF ViewInv, RowsOfActive, PaneIsSelected, SearchAligned, Word
<1>8. ViewInv'
  BY <1>6, <1>7 DEF ViewInv
<1> QED BY <1>1, <1>4, <1>8, SentOnly

(* The commands of a bulk action, one for each message shown. *)
LEMMA BeginBulkStep ==
  ASSUME CoreInv, NEW op, NEW kind, BeginBulk(op, kind),
         (op = "StoreFlags" /\ kind = "Flags") \/ (op = "MoveMessage" /\ kind = "Move")
  PROVE  CoreInv'
<1> DEFINE uids == {m[3] : m \in rows}
           each == SetToSeq(uids)
           cs == [i \in 1..Len(each) |-> Command(op, open, each[i], 0)]
<1>0. /\ WorldTyped /\ ViewInv /\ ViewTyped /\ accts \in Seq(Accounts) /\ Queues(cmdQ) /\ open \in Mailboxes
      /\ cmdQ \in [Accounts -> Seq(Orders)]
  BY CoreParts
<1>1. /\ active # NoOne /\ bulk = NoBulk /\ cmdQ' = SendAll(cmdQ, active, cs)
      /\ \/ bulk' = bulk
         \/ bulk' = [kind |-> kind, pending |-> uids]
      /\ cut' = (cut \/ Len(cmdQ[active]) + Cardinality(uids) > ActorQueue)
      /\ UNCHANGED <<accts, conn, active, open, rows, sel, sels, pane, hits, origins, req, box, workQ, live, events, gone>>
  BY DEF BeginBulk, BulkInFlight, coreView
<1>2. uids \subseteq 1..2
  BY <1>0 DEF ViewTyped, Messages
<1>3. IsFiniteSet(uids)
  <2>0. 1 \in Int /\ 2 \in Int
    OBVIOUS
  <2>1. IsFiniteSet(1..2)
    BY ONLY <2>0, FS_Interval
  <2> HIDE DEF uids
  <2> QED BY <1>2, <2>1, FS_Subset
<1> HIDE DEF uids
<1>4. /\ each \in Seq(uids) /\ Len(each) = Cardinality(uids) /\ Len(each) \in Nat
      /\ \A x \in uids : \E i \in 1..Len(each) : each[i] = x
  BY <1>3, SetToSeqIs
<1> HIDE DEF each
<1>5. \A i \in 1..Len(each) : Command(op, open, each[i], 0) \in Orders /\ Command(op, open, each[i], 0).op = op
                              /\ Command(op, open, each[i], 0).uid = each[i]
  <2> SUFFICES ASSUME NEW i \in 1..Len(each) PROVE Command(op, open, each[i], 0) \in Orders /\ Command(op, open, each[i], 0).op = op
                                                   /\ Command(op, open, each[i], 0).uid = each[i]
    OBVIOUS
  <2>0. each[i] \in uids
    BY ONLY <1>4, i \in 1..Len(each)
  <2>1. each[i] \in 1..2 /\ each[i] \in 0..2 /\ op \in OfMailbox /\ 0 \in Nat
    <3>1. each[i] \in 1..2
      BY ONLY <1>2, <2>0
    <3>2. each[i] \in 0..2
      BY ONLY <3>1
    <3> QED BY <3>1, <3>2 DEF OfMailbox
  <2> QED BY <1>0, <2>1, CommandTyped
<1>6. cs \in Seq(Orders) /\ Len(cs) = Len(each)
  BY <1>4, <1>5
<1>7. active \in Accounts /\ In(active, accts)
  BY <1>0, <1>1 DEF ViewTyped
<1>8. \A x \in uids : \E c \in Orders : In(c, cs) /\ c.op = op /\ c.uid = x
  <2> SUFFICES ASSUME NEW x \in uids PROVE \E c \in Orders : In(c, cs) /\ c.op = op /\ c.uid = x
    OBVIOUS
  <2>1. PICK i \in 1..Len(each) : each[i] = x
    BY <1>4
  <2>2. cs[i] \in Orders /\ In(cs[i], cs) /\ cs[i].op = op /\ cs[i].uid = x
    BY <1>5, <1>6, <2>1 DEF In
  <2> QED BY <2>2
<1> HIDE DEF cs
<1>9. /\ Queues(cmdQ') /\ Keeps(cmdQ, cmdQ')
      /\ Len(cmdQ[active]) + Len(cs) <= ActorQueue => \A c : In(c, cs) => In(c, cmdQ'[active])
  BY <1>0, <1>1, <1>6, <1>7, SendAllKeeps
<1>10. bulk' \in Bulks
  <2>1. kind \in {"Flags", "Move"}
    OBVIOUS
  <2>2. [kind |-> kind, pending |-> uids] \in Bulks
    BY ONLY <1>2, <2>1 DEF Bulks
  <2>3. NoBulk \in Bulks
    BY DEF Bulks
  <2> QED BY ONLY <1>1, <2>2, <2>3
<1>11. ViewInv'
  <2>1. ViewTyped'
    BY <1>0, <1>1, <1>10 DEF ViewTyped, In
  <2> QED BY <1>0, <1>1, <2>1 DEF ViewInv, RowsOfActive, PaneIsSelected, SearchAligned
<1>12. WorldTyped'
  BY <1>0, <1>1, <1>9 DEF WorldTyped, Queues
<1>13. Outstanding'
  <2>1. CASE bulk' = bulk
    BY <1>1, <2>1 DEF Outstanding
  <2>2. CASE bulk' = [kind |-> kind, pending |-> uids] /\ ~cut'
    <3>1. Len(cmdQ[active]) + Len(cs) <= ActorQueue
      <4>1. Len(cmdQ[active]) \in Nat /\ ActorQueue \in Nat
        BY <1>0, <1>7, CoreAssumption
      <4>2. ~(Len(cmdQ[active]) + Cardinality(uids) > ActorQueue)
        BY ONLY <1>1, <2>2, Zenon
      <4>3. Len(cs) = Cardinality(uids) /\ Cardinality(uids) \in Nat
        BY ONLY <1>4, <1>6
      <4> QED BY ONLY <4>1, <4>2, <4>3
    <3>2. \A x \in uids : Ordered(cmdQ', op, x)
      BY <1>7, <1>8, <1>9, <3>1 DEF Ordered
    <3>3. OpOf(bulk') = op /\ bulk'.pending = uids
      BY <2>2 DEF OpOf
    <3>4. \A x \in bulk'.pending : Ordered(cmdQ', OpOf(bulk'), x)
      BY <3>2, <3>3
    <3> QED BY <3>4 DEF Outstanding, Awaited
  <2>3. CASE cut'
    BY <2>3 DEF Outstanding
  <2> QED BY <1>1, <2>1, <2>2, <2>3
<1> QED BY <1>11, <1>12, <1>13 DEF CoreInv, ViewInv

(* The user searches. *)
LEMMA SearchStep == ASSUME CoreInv, Search PROVE CoreInv'
<1> DEFINE S == {h \in Accounts \X Mailboxes \X (1..2) : h[3] \in box[h[1]][h[2]]}
           hs == SetToSeq(S)
<1>0. ViewInv /\ ViewTyped /\ Queues(cmdQ)
  BY CoreParts
<1>1. /\ hits' = [i \in 1..Len(hs) |-> hs[i][3]] /\ origins' = [i \in 1..Len(hs) |-> <<hs[i][1], hs[i][2]>>]
      /\ gone' = {}
      /\ UNCHANGED <<accts, conn, active, open, rows, sel, sels, pane, req, bulk, box, cmdQ, workQ, live, events, cut>>
  BY DEF Search, coreReqs, coreWorld
<1>2. IsFiniteSet(S)
  <2>0. 1 \in Int /\ 2 \in Int
    OBVIOUS
  <2>1. IsFiniteSet(1..2)
    BY ONLY <2>0, FS_Interval
  <2>2. IsFiniteSet(Mailboxes)
    <3>1. IsFiniteSet({}) /\ Mailboxes = ({} \cup {"INBOX"}) \cup {"Trash"}
      BY FS_EmptySet DEF Mailboxes
    <3>2. IsFiniteSet({} \cup {"INBOX"})
      BY <3>1, FS_AddElement
    <3> QED BY <3>1, <3>2, FS_AddElement
  <2>3. IsFiniteSet(Accounts \X Mailboxes)
    BY <2>2, FS_Product, CoreAssumption
  <2>4. IsFiniteSet((Accounts \X Mailboxes) \X (1..2))
    BY <2>1, <2>3, FS_Product
  <2>5. IsFiniteSet({<<h[1][1], h[1][2], h[2]>> : h \in (Accounts \X Mailboxes) \X (1..2)})
    <3> DEFINE D == (Accounts \X Mailboxes) \X (1..2)
               Trio(h) == <<h[1][1], h[1][2], h[2]>>
               g == [h \in D |-> Trio(h)]
    <3>1. g \in Surjection(D, {Trio(h) : h \in D})
      <4> HIDE DEF D, Trio
      <4> QED BY DEF Surjection
    <3>2. IsFiniteSet(D)
      BY <2>4
    <3> HIDE DEF g
    <3>3. IsFiniteSet({Trio(h) : h \in D})
      BY ONLY <3>1, <3>2, FS_Surjection
    <3> QED BY <3>3
  <2>6. S \subseteq {<<h[1][1], h[1][2], h[2]>> : h \in (Accounts \X Mailboxes) \X (1..2)}
    <3> SUFFICES ASSUME NEW x \in Accounts \X Mailboxes \X (1..2)
                 PROVE  x \in {<<h[1][1], h[1][2], h[2]>> : h \in (Accounts \X Mailboxes) \X (1..2)}
      OBVIOUS
    <3>1. x = <<x[1], x[2], x[3]>> /\ <<<<x[1], x[2]>>, x[3]>> \in (Accounts \X Mailboxes) \X (1..2)
      OBVIOUS
    <3> QED BY <3>1
  <2> QED BY <2>5, <2>6, FS_Subset
<1>3. \A h \in S : h[1] \in Accounts /\ h[2] \in Mailboxes /\ h[3] \in 1..2
  OBVIOUS
<1> HIDE DEF S
<1>4. hs \in Seq(S) /\ Len(hs) \in Nat
  BY <1>2, SetToSeqIs
<1> HIDE DEF hs
<1>5. hits' \in Seq(1..2) /\ origins' \in Seq(Accounts \X Mailboxes) /\ Len(hits') = Len(origins')
  BY <1>1, <1>3, <1>4
<1>6. ViewInv'
  <2>1. ViewTyped'
    BY <1>0, <1>1, <1>5 DEF ViewTyped, In
  <2> QED BY <1>0, <1>1, <1>5, <2>1 DEF ViewInv, RowsOfActive, PaneIsSelected, SearchAligned
<1>7. Queues(cmdQ') /\ Keeps(cmdQ, cmdQ')
  BY <1>0, <1>1, KeepsAll
<1> QED BY <1>1, <1>6, <1>7, SentOnly

(* The user has the folder downloaded. *)
LEMMA StartIndexStep == ASSUME CoreInv, StartIndex PROVE CoreInv'
<1> DEFINE c == Command("BulkDownload", open, 0, 0)
<1>0. ViewInv /\ ViewTyped /\ accts \in Seq(Accounts) /\ Queues(cmdQ) /\ open \in Mailboxes
  BY CoreParts
<1>1. active # NoOne /\ cmdQ' = SendTo(cmdQ, active, c) /\ UNCHANGED <<coreView, coreReqs, box, workQ, live, events, coreNotes>>
  BY DEF StartIndex
<1>2. UNCHANGED <<accts, box, workQ, live, events, bulk, cut>> /\ UNCHANGED <<coreView, req, bulk, gone>>
  BY <1>1 DEF coreView, coreReqs, coreNotes
<1>3. c \in Orders
  BY <1>0, CommandTyped DEF OfMailbox, OfMessage
<1> HIDE DEF c
<1>4. active \in Accounts
  BY <1>0, <1>1 DEF ViewTyped
<1>5. Queues(cmdQ') /\ Keeps(cmdQ, cmdQ')
  BY <1>0, <1>1, <1>3, <1>4, SendToKeeps
<1>6. ViewInv'
  BY <1>0, <1>2, SameView
<1> QED BY <1>2, <1>5, <1>6, SentOnly

(* A connection breaks. *)
LEMMA DisconnectStep == ASSUME CoreInv, NEW a \in Accounts, Disconnect(a) PROVE CoreInv'
<1> DEFINE q == [cmdQ EXCEPT ![a] = <<>>]
           rest == Without(a)
           next == Picked(rest, {i \in 1..Len(rest) : conn[rest[i]] = "Connected"})
<1>0. /\ WorldTyped /\ ViewInv /\ ViewTyped /\ accts \in Seq(Accounts) /\ Queues(cmdQ) /\ req \in Nat
      /\ cmdQ \in [Accounts -> Seq(Orders)] /\ bulk \in Bulks
  BY CoreParts
<1>1. /\ accts' = rest /\ conn' = [conn EXCEPT ![a] = "none"] /\ cut' = (cut \/ (bulk # NoBulk /\ active # a))
      /\ workQ' = [workQ EXCEPT ![a] = <<>>] /\ live' = [live EXCEPT ![a] = "never"] /\ UNCHANGED <<box, events, gone>>
      /\ DisconnectBulk(a)
      /\ \/ active # a /\ UNCHANGED <<active, open, rows, sel, sels, pane, hits, origins, req>> /\ cmdQ' = q
         \/ /\ active = a /\ rows' = {} /\ hits' = <<>> /\ origins' = <<>> /\ pane' = Said("empty")
            /\ \/ next # <<>> /\ Activated(next[1], "INBOX", q)
               \/ active' = NoOne /\ sel' = 0 /\ sels' = {} /\ cmdQ' = q /\ UNCHANGED <<open, req>>
  BY DEF Disconnect
<1>2. rest \in Seq(Accounts) /\ \A b : In(b, rest) <=> In(b, accts) /\ b # a
  BY <1>0, WithoutIs
<1> HIDE DEF rest
<1>3. q \in [Accounts -> Seq(Orders)] /\ q[a] = <<>> /\ \A b \in Accounts : b # a => q[b] = cmdQ[b]
  <2>1. <<>> \in Seq(Orders)
    OBVIOUS
  <2> QED BY <1>0, <2>1
<1> HIDE DEF q
<1>4. Queues(q)
  <2>1. Len(q[a]) <= ActorQueue
    <3>1. ActorQueue \in Nat /\ Len(<<>>) = 0
      BY CoreAssumption
    <3> QED BY <1>3, <3>1
  <2> QED BY <1>0, <1>3, <2>1 DEF Queues
<1>5. next # <<>> => next[1] \in Accounts /\ In(next[1], rest) /\ next[1] # a
  <2> DEFINE K == {i \in 1..Len(rest) : conn[rest[i]] = "Connected"}
  <2>1. Picked(rest, K) \in Seq(Accounts) /\ \A x : In(x, Picked(rest, K)) <=> \E i \in K \cap 1..Len(rest) : rest[i] = x
    <3> HIDE DEF K
    <3> QED BY <1>2, PickedIn
  <2>2. next = Picked(rest, K)
    OBVIOUS
  <2> HIDE DEF K, next
  <2>3. ASSUME next # <<>> PROVE next[1] \in Accounts /\ In(next[1], next)
    <3>1. next \in Seq(Accounts) /\ 1 \in 1..Len(next)
      BY <2>1, <2>2, <2>3
    <3> QED BY <3>1 DEF In
  <2>4. \A x : In(x, next) => In(x, rest)
    BY <2>1, <2>2 DEF In
  <2> QED BY <1>2, <2>3, <2>4
<1> HIDE DEF next
<1>6. /\ cmdQ' \in [Accounts -> Seq(Orders)] /\ (\A b \in Accounts : Len(cmdQ'[b]) <= ActorQueue /\ (cmdQ'[b] # <<>> => In(b, accts)))
      /\ cmdQ'[a] = <<>> /\ req' \in Nat
  <2>1. CASE cmdQ' = q /\ req' = req
    BY <1>0, <1>3, <1>4, <2>1 DEF Queues
  <2>2. CASE next # <<>> /\ Activated(next[1], "INBOX", q)
    <3>1. "INBOX" \in Mailboxes
      BY DEF Mailboxes
    <3>2. Queues(cmdQ') /\ req' \in Nat /\ \A b \in Accounts : b # next[1] => cmdQ'[b] = q[b]
      BY <1>0, <1>4, <1>5, <2>2, <3>1, ActivatedIs
    <3> QED BY <1>3, <1>5, <2>2, <3>2 DEF Queues
  <2> QED BY <1>1, <2>1, <2>2
<1>7. Queues(cmdQ)'
  BY <1>1, <1>2, <1>6 DEF Queues
<1>8. WorldTyped'
  <2>1. workQ' \in [Accounts -> Seq(Downloads)] /\ live' \in [Accounts -> {"never", "up", "down"}]
    BY <1>0, <1>1 DEF WorldTyped
  <2> QED BY <1>0, <1>1, <1>7, <2>1 DEF WorldTyped
<1>9. bulk' \in Bulks /\ Outstanding'
  <2>1. CASE active = a
    <3>1. bulk' = NoBulk
      BY <1>1, <2>1 DEF DisconnectBulk
    <3> QED BY <3>1 DEF Bulks, Outstanding
  <2>2. CASE active # a
    <3>1. bulk' = bulk /\ (bulk # NoBulk => cut')
      BY <1>1, <2>2 DEF DisconnectBulk
    <3> QED BY <1>0, <3>1 DEF Outstanding
  <2> QED BY <2>1, <2>2
<1>10. conn' \in [Accounts -> ConnStates]
  BY <1>0, <1>1 DEF ViewTyped, ConnStates
<1>11. ViewInv'
  <2>1. CASE active # a /\ UNCHANGED <<active, open, rows, sel, sels, pane, hits, origins, req>>
    <3>1. active = NoOne \/ In(active, accts')
      BY <1>0, <1>1, <1>2, <2>1 DEF ViewTyped
    <3>2. ViewTyped'
      BY <1>0, <1>1, <1>2, <1>6, <1>9, <1>10, <2>1, <3>1 DEF ViewTyped
    <3> QED BY <1>0, <1>1, <2>1, <3>2 DEF ViewInv, RowsOfActive, PaneIsSelected, SearchAligned
  <2>2. CASE /\ rows' = {} /\ hits' = <<>> /\ origins' = <<>> /\ pane' = Said("empty")
             /\ \/ next # <<>> /\ Activated(next[1], "INBOX", q)
                \/ active' = NoOne /\ sel' = 0 /\ sels' = {} /\ cmdQ' = q /\ UNCHANGED <<open, req>>
    <3>1. /\ active' \in Accounts \cup {NoOne} /\ (active' = NoOne \/ In(active', accts'))
          /\ open' \in Mailboxes /\ sel' = 0 /\ sels' = {}
      <4>1. CASE next # <<>> /\ Activated(next[1], "INBOX", q)
        BY <1>1, <1>5, <4>1 DEF Activated, Mailboxes
      <4>2. CASE active' = NoOne /\ sel' = 0 /\ sels' = {} /\ UNCHANGED <<open, req>>
        BY <1>0, <4>2 DEF ViewTyped
      <4> QED BY <2>2, <4>1, <4>2
    <3>2. rows' \subseteq Messages /\ pane' \in Word \cup Messages /\ sel' \in 0..2 /\ sels' \subseteq 1..2
      BY <2>2, <3>1, EmptyIsWord
    <3>3. hits' \in Seq(1..2) /\ origins' \in Seq(Accounts \X Mailboxes) /\ Len(hits') = 0 /\ Len(origins') = 0
      BY <2>2
    <3>4. ViewTyped'
      BY <1>1, <1>2, <1>6, <1>9, <1>10, <3>1, <3>2, <3>3 DEF ViewTyped
    <3>5. RowsOfActive' /\ PaneIsSelected' /\ SearchAligned'
      BY <2>2, <3>1, <3>3 DEF RowsOfActive, PaneIsSelected, SearchAligned
    <3> QED BY <3>4, <3>5 DEF ViewInv
  <2> QED BY <1>1, <2>1, <2>2
<1> QED BY <1>8, <1>9, <1>11 DEF CoreInv, ViewInv

-----------------------------------------------------------------------------
(* All steps                                                               *)

(* The invariant holds at first, ... *)
LEMMA CoreStarts == CoreInit => CoreInv
<1> SUFFICES ASSUME CoreInit PROVE CoreInv
  OBVIOUS
<1> DEFINE c == Command("FetchBody", "INBOX", 1, 2)
<1>1. accts \in Seq(Accounts) /\ Len(accts) \in Nat \ {0}
  <2>1. accts = SetToSeq(Accounts)
    BY DEF CoreInit
  <2>2. IsFiniteSet(Accounts) /\ Cardinality(Accounts) # 0
    BY CoreAssumption, FS_EmptySet
  <2> QED BY <2>1, <2>2, SetToSeqIs
<1>2. active \in Accounts /\ In(active, accts)
  <2>1. active = accts[1] /\ 1 \in 1..Len(accts)
    BY <1>1 DEF CoreInit
  <2> QED BY <1>1, <2>1 DEF In
<1>3. c \in Orders
  BY CommandTyped DEF OfMailbox, OfMessage, Mailboxes
<1>4. cmdQ = [a \in Accounts |-> IF a = active THEN <<c>> ELSE <<>>]
  BY DEF CoreInit
<1> HIDE DEF c
<1>5. <<c>> \in Seq(Orders) /\ Len(<<c>>) = 1 /\ <<>> \in Seq(Orders) /\ Len(<<>>) = 0 /\ ActorQueue \in Nat \ {0}
  BY <1>3, CoreAssumption
<1>6. Queues(cmdQ)
  <2>1. \A a \in Accounts : cmdQ[a] \in Seq(Orders) /\ Len(cmdQ[a]) <= ActorQueue /\ (cmdQ[a] # <<>> => a = active)
    BY <1>4, <1>5
  <2> QED BY <1>2, <1>4, <2>1 DEF Queues
<1>7. WorldTyped
  <2>1. /\ workQ = [a \in Accounts |-> <<>>] /\ live = [a \in Accounts |-> "up"] /\ events = <<>>
        /\ box = [a \in Accounts |-> [mb \in Mailboxes |-> IF mb = "INBOX" THEN {1, 2} ELSE {}]]
    BY DEF CoreInit
  <2>2. <<>> \in Seq(Downloads) /\ <<>> \in Seq(Replies)
    OBVIOUS
  <2> QED BY <1>6, <2>1, <2>2 DEF WorldTyped
<1>8. /\ conn = [a \in Accounts |-> "Connected"] /\ open = "INBOX" /\ rows = {<<active, "INBOX", u>> : u \in {1, 2}}
      /\ sel = 1 /\ sels = {1} /\ pane = Said("loading") /\ hits = <<>> /\ origins = <<>> /\ req = 2 /\ bulk = NoBulk
  BY DEF CoreInit
<1>9. ViewTyped
  <2>1. conn \in [Accounts -> ConnStates] /\ open \in Mailboxes /\ rows \subseteq Messages
    BY <1>2, <1>8 DEF ConnStates, Mailboxes, Messages
  <2>2. sel \in 0..2 /\ sels \subseteq 1..2 /\ pane \in Word \cup Messages /\ hits \in Seq(1..2) /\ origins \in Seq(Accounts \X Mailboxes)
        /\ req \in Nat /\ bulk \in Bulks
    BY <1>8, EmptyIsWord DEF Bulks
  <2> QED BY <1>1, <1>2, <2>1, <2>2 DEF ViewTyped
<1>10. RowsOfActive /\ PaneIsSelected /\ SearchAligned
  <2>1. RowsOfActive
    BY <1>8 DEF RowsOfActive
  <2>2. PaneIsSelected
    BY <1>8, EmptyIsWord DEF PaneIsSelected
  <2>3. SearchAligned
    BY <1>8 DEF SearchAligned
  <2> QED BY <2>1, <2>2, <2>3
<1> QED BY <1>7, <1>8, <1>9, <1>10 DEF CoreInv, Outstanding

(* ... is kept by every step of the core ... *)
LEMMA CoreStep == CoreInv /\ CoreNext => CoreInv'
<1> SUFFICES ASSUME CoreInv, CoreNext PROVE CoreInv'
  OBVIOUS
<1>1. CASE CoreFrontend
  <2>1. ASSUME NEW a \in Accounts, OpenSession(a) PROVE CoreInv'
    BY <2>1, OpenSessionStep
  <2>2. ASSUME NEW a \in Accounts, NEW mb \in Mailboxes, Activate(a, mb) PROVE CoreInv'
    BY <2>2, ActivateStep
  <2>3. ASSUME NEW u \in 1..2, OpenMessage(u) PROVE CoreInv'
    BY <2>3, OpenMessageStep
  <2>4. ASSUME BeginBulk("StoreFlags", "Flags") PROVE CoreInv'
    BY <2>4, BeginBulkStep
  <2>5. ASSUME BeginBulk("MoveMessage", "Move") PROVE CoreInv'
    BY <2>5, BeginBulkStep
  <2>6. ASSUME NEW a \in Accounts, Disconnect(a) PROVE CoreInv'
    BY <2>6, DisconnectStep
  <2> QED BY <1>1, <2>1, <2>2, <2>3, <2>4, <2>5, <2>6, SearchStep, StartIndexStep DEF CoreFrontend
<1>2. CASE CoreActors
  BY <1>2, ActorStep
<1>3. CASE Pump
  BY <1>3, PumpStep
<1> QED BY <1>1, <1>2, <1>3 DEF CoreNext

(* ... and by one of other parts, ... *)
LEMMA CoreSame == CoreInv /\ UNCHANGED coreVars => CoreInv'
<1> SUFFICES ASSUME CoreInv, UNCHANGED coreVars PROVE CoreInv'
  OBVIOUS
<1>1. UNCHANGED <<accts, box, workQ, live, events, bulk, cut>> /\ UNCHANGED <<coreView, req, bulk, gone>> /\ cmdQ' = cmdQ
  BY DEF coreVars, coreView, coreReqs, coreWorld, coreNotes
<1>2. Queues(cmdQ') /\ Keeps(cmdQ, cmdQ') /\ ViewInv'
  BY <1>1, CoreParts, SameView, KeepsAll
<1> QED BY <1>1, <1>2, SentOnly

(* ... and says what the core shows. *)
LEMMA CoreImplies == CoreInv => CoreTypeOK /\ BulkIsOutstanding
<1> SUFFICES ASSUME CoreInv PROVE CoreTypeOK /\ BulkIsOutstanding
  OBVIOUS
<1>1. WorldTyped /\ ViewTyped /\ Outstanding /\ Queues(cmdQ)
  BY CoreParts
<1>2. CoreTypeOK
  BY <1>1 DEF CoreTypeOK, WorldTyped, ViewTyped, Queues, ConnStates, InList, In, Messages
<1>3. BulkIsOutstanding
  <2> SUFFICES ASSUME bulk # NoBulk, ~cut, NEW u \in bulk.pending
               PROVE  \/ \E a \in Accounts : \E i \in 1..Len(cmdQ[a]) : cmdQ[a][i].op = OpOf(bulk) /\ cmdQ[a][i].uid = u
                      \/ \E i \in 1..Len(events) : Answers(events[i], OpOf(bulk), u) /\ InList(events[i].acct)
    BY DEF BulkIsOutstanding, OpOf, Answers
  <2>1. Awaited(OpOf(bulk), u)
    BY <1>1 DEF Outstanding
  <2>2. CASE Ordered(cmdQ, OpOf(bulk), u)
    BY <2>2 DEF Ordered, In
  <2>3. CASE Answered(events, accts, OpOf(bulk), u)
    BY <2>3 DEF Answered, In, InList
  <2> QED BY <2>1, <2>2, <2>3 DEF Awaited
<1> QED BY <1>2, <1>3

-----------------------------------------------------------------------------
(* For every finite set of accounts, every queue capacity and every bound:
   the rows are of the selected account and folder, the body is of the
   selected message, the search hits are where they were found, and for each
   message of a bulk action a command or a reply is on its way, whatever
   replies of other accounts and earlier requests arrive (app/mod.rs,
   loads.rs, actions.rs). *)
THEOREM CoreStaysCurrent == MCSpec => []CoreIsCurrent
<1> DEFINE I == part = "core" => CoreInv
<1>1. MCInit => I
  BY CoreStarts DEF MCInit
<1>2. I /\ [MCNext]_mailVars => I'
  <2> SUFFICES ASSUME I, [MCNext]_mailVars PROVE I'
    OBVIOUS
  <2>1. part' = part
    BY DEF MCNext, mailVars
  <2>2. ASSUME part = "core" PROVE CoreInv'
    <3>1. CASE CoreNext
      BY <2>2, <3>1, CoreStep
    <3>2. CASE UNCHANGED coreVars
      BY <2>2, <3>2, CoreSame
    <3> QED BY <2>2, <3>1, <3>2 DEF MCNext, mailVars
  <2> QED BY <2>1, <2>2
<1>3. I => CoreIsCurrent
  BY CoreImplies DEF CoreIsCurrent, CoreInv
<1> QED BY <1>1, <1>2, <1>3, PTL DEF MCSpec

(***************************************************************************)
(* The cache: the invariant                                                *)
(***************************************************************************)

Listings == {"IndexHeaders", "IndexHeadersSearchable"}
OfOne == {"IndexMail", "UpdateFlags", "RemoveMessage"}
CmdKinds == Listings \cup OfOne \cup {"RemoveAccount", "ReportMailboxState"}
PlanKinds == {"UpToDate", "FetchFrom", "Resync"}
Gens == {1, 2}
Headers == [uid : Uid, gen : Gens, seen : BOOLEAN]
CacheCmds ==
  {c \in [op : CmdKinds, hs : Seq(Headers), gen : {0, 1, 2}, next : Nat] :
     (c.op \in OfOne => Len(c.hs) = 1) /\ (IF c.op = "ReportMailboxState" THEN c.gen # 0 ELSE c.gen = 0 /\ c.next = 0)}
WireCmds == ({"List", "Read", "Move"} \X Uid) \cup ({"From"} \X Nat)
CacheRows == {NoRow} \cup [gen : Gens, seen : BOOLEAN, at : {0, 1}]

TablesTyped ==
  /\ messages \in [Uid -> CacheRows] /\ bodies \in [Uid -> CacheRows] /\ fts \in [Uid -> Nat]
  /\ mailboxRow \in {<<0, 0>>} \cup (Gens \X Nat)
QueuesTyped ==
  /\ wire \in Seq(WireCmds) /\ plans \in Seq(PlanKinds \X Nat)
  /\ (hand = {} \/ \E h \in Headers : hand = {h})
  /\ news \in Seq(CacheCmds) /\ dbCmds \in Seq(CacheCmds) /\ Len(dbCmds) <= DbQueue
CacheTyped ==
  /\ frontend \in {"core", "win32"} /\ columns \subseteq LateColumns /\ spoiled \subseteq {"torn", "lost", "late", "early"}
  /\ TablesTyped /\ QueuesTyped
  /\ stmts # <<>> => columns = LateColumns

(* The server: a UID of its generation was handed out. *)
ServerKnown ==
  /\ srv \in [gen : Gens, next : 1..(MaxUid + 1), uids : SUBSET Uid, seen : SUBSET Uid]
  /\ srv.seen \subseteq srv.uids /\ \A u \in srv.uids : u < srv.next

(* The commands on their way to the cache. *)
Queued(c) == In(c, dbCmds) \/ In(c, news)
Heads(c) == {c.hs[i] : i \in 1..Len(c.hs)}

(* No command knows more than the server; what was moved is not there. *)
MovesKnown(c, s) == c.op = "RemoveMessage" => \A h \in Heads(c) : h.gen = s.gen => h.uid \notin s.uids /\ h.uid < s.next
Fits(c, s) ==
  /\ \A h \in Heads(c) : h.gen <= s.gen
  /\ c.op = "ReportMailboxState" => c.gen <= s.gen /\ (c.gen = s.gen => c.next <= s.next)
  /\ MovesKnown(c, s)

(* Nor is it older than what the cache knows: a listing, a removal, a report
   come from a generation not before g. *)
Since(c, g) ==
  /\ c.op \in Listings \cup {"RemoveMessage"} => \A h \in Heads(c) : h.gen >= g
  /\ c.op = "ReportMailboxState" => c.gen >= g
ListsSince(c, g) == c.op \in Listings => \A h \in Heads(c) : h.gen >= g

(* Of two commands the second is not from before the first, but for
   downloads, which are reported when they are done. *)
InTurn(c, d) ==
  /\ c.op = "IndexMail" => \A h \in Heads(c) : ListsSince(d, h.gen)
  /\ c.op = "ReportMailboxState" => Since(d, c.gen)
  /\ c.op = "RemoveMessage" /\ d.op \in Listings => \A h \in Heads(c), k \in Heads(d) : ~(h.uid = k.uid /\ h.gen = k.gen)
InOrder(s) == \A i, j \in 1..Len(s) : i < j => InTurn(s[i], s[j])
Across(s, t) == \A c, d : In(c, s) /\ In(d, t) => InTurn(c, d)

(* Each frontend asks what it asks. *)
Asked(c) == IF frontend = "core" THEN c.op # "IndexHeadersSearchable" ELSE c.op \notin {"IndexHeaders", "ReportMailboxState"}
Sides == frontend = "win32" => plans = <<>> /\ mailboxRow = <<0, 0>> /\ \A w : In(w, wire) => w[1] # "From"

Waiting ==
  \A c \in CacheCmds : Queued(c) => Fits(c, srv) /\ Since(c, mailboxRow[1]) /\ Asked(c) /\ \A u \in Uid : ListsSince(c, bodies[u].gen)
QueuesOrdered == InOrder(dbCmds) /\ InOrder(news) /\ Across(dbCmds, news)
HandKnown == \A h \in hand : h.gen <= srv.gen

TablesKnown ==
  /\ \A u \in Uid : messages[u].gen <= srv.gen /\ bodies[u].gen <= srv.gen
  /\ mailboxRow[1] <= srv.gen /\ (mailboxRow[1] = srv.gen => mailboxRow[2] <= srv.next)

(* What was lost, torn or late is excused. *)
Whole == "torn" \notin spoiled
Clean == spoiled \cap {"torn", "late", "early"} = {}
OnTime == spoiled \subseteq {"early"}

(* A removal of the message u of this generation is on its way; its header is. *)
Leaves(u) == \E c \in CacheCmds : Queued(c) /\ c.op = "RemoveMessage" /\ \E h \in Heads(c) : h.uid = u /\ h.gen = srv.gen
Brings(u) ==
  \/ \E p \in PlanKinds \X Nat : In(p, plans) /\ p[1] # "UpToDate" /\ p[2] <= u
  \/ \E w \in WireCmds : In(w, wire) /\ w[1] = "From" /\ w[2] <= u
  \/ \E c \in CacheCmds : Queued(c) /\ c.op = "IndexHeaders" /\ \E h \in Heads(c) : h.uid = u /\ h.gen = srv.gen
  \/ \E i \in 1..Len(stmts) : stmts[i].st = "message" /\ stmts[i].h.uid = u /\ stmts[i].h.gen = srv.gen

(* A listing on its way that has a message that was moved since is followed
   by the removal. *)
MovedFollow ==
  OnTime => \A c \in CacheCmds : Queued(c) /\ c.op \in Listings =>
    \A h \in Heads(c) : h.gen = srv.gen /\ h.uid \notin srv.uids => Leaves(h.uid)

-----------------------------------------------------------------------------
(* What the tables satisfy, but for the messages in X. *)

Matched(u) == messages[u] # NoRow <=> fts[u] = 1
Indexed(X) == Whole => (\A u \in Uid : fts[u] <= 1) /\ (frontend = "win32" => \A u \in Uid \ X : Matched(u))
HasBody == {u \in Uid : bodies[u] # NoRow}
Capped == Whole => Cardinality(HasBody) <= BodyCap
BodiesKnown == Clean => \A u \in HasBody : bodies[u].gen >= mailboxRow[1] /\ mailboxRow[1] # 0
Joined(X) ==
  Clean => \A u \in HasBody \ X : messages[u] # NoRow /\ messages[u].gen = mailboxRow[1] => bodies[u].gen = mailboxRow[1]
Fetched ==
  frontend = "core" /\ OnTime /\ mailboxRow[1] = srv.gen =>
    \A u \in srv.uids : u < mailboxRow[2] => messages[u].gen = srv.gen \/ Brings(u)
MovedLeave(X) == OnTime => \A u \in Uid \ (srv.uids \cup X) : messages[u].gen = srv.gen => Leaves(u)

-----------------------------------------------------------------------------
(* The command being run: what is left of it, and what the tables satisfy.  *)

Do(st, h) == Stmt(st, h, 0, 0)

(* Headers of a listing. *)
HeaderDue(s) ==
  \E h \in Headers :
    /\ s = Do(IF frontend = "core" THEN "message" ELSE "searchable", h)
    /\ h.gen <= srv.gen /\ h.gen >= mailboxRow[1] /\ \A u \in Uid : h.gen >= bodies[u].gen
    /\ OnTime /\ h.gen = srv.gen /\ h.uid \notin srv.uids => Leaves(h.uid)
AllAgree == Indexed({}) /\ Capped /\ BodiesKnown /\ Joined({}) /\ Fetched /\ MovedLeave({})
HeaderSteps == {Do(st, h) : st \in {"message", "searchable"}, h \in Headers}
Listing == stmts \in Seq(HeaderSteps) /\ (\A i \in 1..Len(stmts) : HeaderDue(stmts[i])) /\ AllAgree

Flags(h) == stmts = <<Do("flags", h)>> /\ AllAgree

(* A download: index_mail. *)
MailKnown(h) ==
  /\ h.gen <= srv.gen /\ ("late" \notin spoiled => h.gen >= mailboxRow[1]) /\ (Clean => mailboxRow[1] # 0)
  /\ \A c \in CacheCmds : Queued(c) => ListsSince(c, h.gen)
Mail1(h) ==
  /\ stmts = <<Do("message", h), Do("body", h), Do("unindex", h), Do("index", h), Do("evict", h)>> /\ MailKnown(h) /\ AllAgree
  /\ OnTime /\ h.gen = srv.gen /\ h.uid \notin srv.uids => Leaves(h.uid)
Mail2(h) ==
  /\ stmts = <<Do("body", h), Do("unindex", h), Do("index", h), Do("evict", h)>> /\ MailKnown(h)
  /\ messages[h.uid].gen = h.gen /\ Indexed({h.uid}) /\ Capped /\ BodiesKnown /\ Joined({h.uid}) /\ Fetched /\ MovedLeave({})
Mail3(h) ==
  /\ stmts = <<Do("unindex", h), Do("index", h), Do("evict", h)>>
  /\ messages[h.uid] # NoRow /\ Indexed({h.uid}) /\ BodiesKnown /\ Joined({}) /\ Fetched /\ MovedLeave({})
Mail4(h) ==
  /\ stmts = <<Do("index", h), Do("evict", h)>> /\ fts[h.uid] = 0
  /\ messages[h.uid] # NoRow /\ Indexed({h.uid}) /\ BodiesKnown /\ Joined({}) /\ Fetched /\ MovedLeave({})
Mail5(h) == stmts = <<Do("evict", h)>> /\ Indexed({}) /\ BodiesKnown /\ Joined({}) /\ Fetched /\ MovedLeave({})

(* A removal. *)
Move1(h) ==
  /\ stmts = <<Do("unmessage", h), Do("unbody", h), Do("unindex", h)>>
  /\ h.gen <= srv.gen /\ h.gen >= mailboxRow[1] /\ (h.gen = srv.gen => h.uid \notin srv.uids /\ h.uid < srv.next)
  /\ Indexed({}) /\ Capped /\ BodiesKnown /\ Joined({}) /\ Fetched /\ MovedLeave({h.uid})
Move2(h) ==
  /\ stmts = <<Do("unbody", h), Do("unindex", h)>>
  /\ messages[h.uid] = NoRow /\ Indexed({h.uid}) /\ Capped /\ BodiesKnown /\ Joined({}) /\ Fetched /\ MovedLeave({})
Move3(h) ==
  /\ stmts = <<Do("unindex", h)>>
  /\ messages[h.uid] = NoRow /\ Indexed({h.uid}) /\ Capped /\ BodiesKnown /\ Joined({}) /\ Fetched /\ MovedLeave({})

NoMessages == messages = [u \in Uid |-> NoRow]
NoBodies == bodies = [u \in Uid |-> NoRow]

(* The account is removed. *)
Forget1 ==
  /\ stmts = <<Do("clear messages", NoHeader), Do("clear bodies", NoHeader), Do("clear fts", NoHeader), Do("clear mailbox", NoHeader)>>
  /\ Indexed({}) /\ Capped /\ BodiesKnown /\ Joined({}) /\ MovedLeave({})
Forget2 ==
  /\ stmts = <<Do("clear bodies", NoHeader), Do("clear fts", NoHeader), Do("clear mailbox", NoHeader)>>
  /\ NoMessages /\ Indexed(Uid) /\ Capped /\ BodiesKnown
Forget3 == stmts = <<Do("clear fts", NoHeader), Do("clear mailbox", NoHeader)>> /\ NoMessages /\ NoBodies /\ Indexed(Uid)
Forget4 == stmts = <<Do("clear mailbox", NoHeader)>> /\ NoMessages /\ NoBodies /\ Indexed({})

(* A listing is reported; a mailbox that was made again is wiped first. *)
Tell(st, g, m) == Stmt(st, NoHeader, g, m)
ReportKnown(g, m) ==
  /\ frontend = "core" /\ g <= srv.gen /\ g >= mailboxRow[1] /\ (g = srv.gen => m <= srv.next)
  /\ \A c \in CacheCmds : Queued(c) => Since(c, g)
Planned(g, m) == OnTime /\ g = srv.gen => \A u \in srv.uids : u < m => Brings(u)
Report1(g, m) ==
  /\ stmts = <<Tell("clear messages", g, m), Tell("clear bodies", g, m), Tell("clear fts", g, m), Tell("mailbox", g, m)>>
  /\ ReportKnown(g, m) /\ Planned(g, m) /\ mailboxRow[1] # g
  /\ Indexed({}) /\ Capped /\ BodiesKnown /\ Joined({}) /\ MovedLeave({})
Report2(g, m) ==
  /\ stmts = <<Tell("clear bodies", g, m), Tell("clear fts", g, m), Tell("mailbox", g, m)>>
  /\ ReportKnown(g, m) /\ Planned(g, m) /\ NoMessages /\ Indexed(Uid) /\ Capped /\ BodiesKnown
Report3(g, m) ==
  /\ stmts = <<Tell("clear fts", g, m), Tell("mailbox", g, m)>>
  /\ ReportKnown(g, m) /\ Planned(g, m) /\ NoMessages /\ NoBodies /\ Indexed(Uid)
Report4(g, m) ==
  /\ stmts = <<Tell("mailbox", g, m)>>
  /\ ReportKnown(g, m)
  /\ OnTime /\ g = srv.gen => \A u \in srv.uids : u < m => messages[u].gen = srv.gen \/ Brings(u)
  /\ Clean => NoBodies \/ mailboxRow[1] = g
  /\ Indexed({}) /\ Capped /\ BodiesKnown /\ Joined({}) /\ MovedLeave({})

Doing ==
  \/ Listing
  \/ \E h \in Headers : Flags(h) \/ Mail1(h) \/ Mail2(h) \/ Mail3(h) \/ Mail4(h) \/ Mail5(h) \/ Move1(h) \/ Move2(h) \/ Move3(h)
  \/ Forget1 \/ Forget2 \/ Forget3 \/ Forget4
  \/ \E g \in Gens, m \in Nat : Report1(g, m) \/ Report2(g, m) \/ Report3(g, m) \/ Report4(g, m)

CacheInv == CacheTyped /\ ServerKnown /\ Sides /\ Waiting /\ QueuesOrdered /\ HandKnown /\ TablesKnown /\ MovedFollow /\ Doing

(***************************************************************************)
(* The cache: its queues                                                   *)
(***************************************************************************)

(* Taking the first of a list in order, and adding one to it. *)
LEMMA OrderTail ==
  ASSUME NEW E, NEW s \in Seq(E), s # <<>>, InOrder(s)
  PROVE  InOrder(Tail(s)) /\ \A d : In(d, Tail(s)) => InTurn(Head(s), d)
<1>1. /\ Tail(s) \in Seq(E) /\ Len(Tail(s)) = Len(s) - 1 /\ Len(s) \in Nat \ {0} /\ Head(s) = s[1]
      /\ \A i \in 1..Len(s) - 1 : Tail(s)[i] = s[i + 1]
  OBVIOUS
<1>2. ASSUME NEW i \in 1..Len(Tail(s)), NEW j \in 1..Len(Tail(s)), i < j PROVE InTurn(Tail(s)[i], Tail(s)[j])
  <2>1. i + 1 \in 1..Len(s) /\ j + 1 \in 1..Len(s) /\ i + 1 < j + 1 /\ Tail(s)[i] = s[i + 1] /\ Tail(s)[j] = s[j + 1]
    BY <1>1, <1>2
  <2>2. InTurn(s[i + 1], s[j + 1])
    BY <2>1 DEF InOrder
  <2> QED BY <2>1, <2>2
<1>3. ASSUME NEW j \in 1..Len(Tail(s)) PROVE InTurn(Head(s), Tail(s)[j])
  <2>1. 1 \in 1..Len(s) /\ j + 1 \in 1..Len(s) /\ 1 < j + 1 /\ Tail(s)[j] = s[j + 1]
    BY <1>1, <1>3
  <2>2. InTurn(s[1], s[j + 1])
    BY <2>1 DEF InOrder
  <2> QED BY <1>1, <2>1, <2>2
<1>4. InOrder(Tail(s))
  BY <1>2 DEF InOrder
<1> QED BY <1>3, <1>4 DEF In

(* A command that comes after those queued keeps the order. *)
LEMMA OrderAppend ==
  ASSUME NEW E, NEW s \in Seq(E), NEW e \in E, InOrder(s), \A c : In(c, s) => InTurn(c, e)
  PROVE  InOrder(Append(s, e))
<1>1. /\ Append(s, e) \in Seq(E) /\ Len(Append(s, e)) = Len(s) + 1 /\ Len(s) \in Nat
      /\ Append(s, e)[Len(s) + 1] = e /\ \A i \in 1..Len(s) : Append(s, e)[i] = s[i]
  OBVIOUS
<1>2. ASSUME NEW i \in 1..Len(Append(s, e)), NEW j \in 1..Len(Append(s, e)), i < j PROVE InTurn(Append(s, e)[i], Append(s, e)[j])
  <2>1. i \in 1..Len(s) /\ Append(s, e)[i] = s[i]
    BY <1>1, <1>2
  <2>2. CASE j = Len(s) + 1
    <3>1. In(s[i], s)
      BY <2>1 DEF In
    <3> QED BY <1>1, <2>1, <2>2, <3>1
  <2>3. CASE j # Len(s) + 1
    <3>1. j \in 1..Len(s) /\ Append(s, e)[j] = s[j]
      BY <1>1, <1>2, <2>3
    <3>2. InTurn(s[i], s[j])
      BY <1>2, <2>1, <3>1 DEF InOrder
    <3> QED BY <2>1, <3>1, <3>2
  <2> QED BY <2>2, <2>3
<1> QED BY <1>2 DEF InOrder

(* The header of a command about one message. *)
LEMMA OneHeader ==
  ASSUME NEW c \in CacheCmds, c.op \in OfOne
  PROVE  c.hs[1] \in Headers /\ Heads(c) = {c.hs[1]}
<1>1. c.hs \in Seq(Headers) /\ Len(c.hs) = 1
  BY DEF CacheCmds
<1> QED BY <1>1 DEF Heads

(* The headers of a command are headers, ... *)
LEMMA HeadsTyped == ASSUME NEW c \in CacheCmds, NEW h \in Heads(c) PROVE h \in Headers
<1>1. c.hs \in Seq(Headers)
  BY DEF CacheCmds
<1> QED BY <1>1 DEF Heads

(* ... whose numbers are numbers. *)
LEMMA HeaderTyped == ASSUME NEW h \in Headers PROVE h.uid \in Uid /\ h.uid \in Nat /\ h.gen \in Gens /\ h.gen \in Nat \ {0} /\ h.gen <= 2
<1>1. MaxUid \in Nat
  BY MailCacheAssumption
<1> QED BY <1>1 DEF Headers, Gens, Uid

(* What is queued after a command was added at the end. *)
LEMMA NewsGrow ==
  ASSUME QueuesTyped, NEW e \in CacheCmds, news' = Append(news, e), dbCmds' = dbCmds
  PROVE  news' \in Seq(CacheCmds) /\ (\A c : Queued(c)' <=> Queued(c) \/ c = e) /\ (\A c : In(c, news') <=> In(c, news) \/ c = e)
BY AddedOne DEF QueuesTyped, Queued

-----------------------------------------------------------------------------
(* What happens outside the cache actor: the tables and the command being
   run stay, and what is newly queued is of the server as it is. *)

Fresh(c, s) ==
  /\ c.op \in Listings => \A h \in Heads(c) : h.gen = s.gen /\ h.uid \in s.uids
  /\ c.op = "RemoveMessage" => \A h \in Heads(c) : h.gen = s.gen
  /\ c.op = "ReportMailboxState" => c.gen = s.gen

Outside ==
  /\ UNCHANGED <<frontend, messages, bodies, fts, mailboxRow, stmts>>
  /\ spoiled \subseteq spoiled'
  /\ srv'.gen >= srv.gen
  /\ srv'.gen = srv.gen => srv'.next >= srv.next /\ \A u \in srv'.uids : u \in srv.uids \/ u >= srv.next
  /\ OnTime' /\ srv'.gen = srv.gen => \A u \in srv.uids \cap srv'.uids : Brings(u) => Brings(u)'
  /\ OnTime' /\ srv'.gen = srv.gen => \A u \in Uid \ srv'.uids : u \in srv.uids \/ Leaves(u) => Leaves(u)'
  /\ \A c \in CacheCmds : Queued(c)' => Queued(c) \/ (Fresh(c, srv) /\ Fits(c, srv') /\ Asked(c))

(* The numbers. *)
LEMMA Numbers ==
  ASSUME CacheTyped, ServerKnown
  PROVE  /\ srv.gen \in Nat \ {0} /\ srv.next \in Nat /\ srv.uids \subseteq Uid /\ Uid \subseteq Nat
         /\ mailboxRow[1] \in Nat /\ mailboxRow[2] \in Nat
         /\ \A u \in Uid : messages[u].gen \in Nat /\ bodies[u].gen \in Nat
<1>1. MaxUid \in Nat
  BY MailCacheAssumption
<1>2. srv.gen \in Nat \ {0} /\ srv.next \in Nat /\ srv.uids \subseteq Uid /\ Uid \subseteq Nat
  BY <1>1 DEF ServerKnown, Uid, Gens
<1>3. mailboxRow[1] \in Nat /\ mailboxRow[2] \in Nat
  BY DEF CacheTyped, TablesTyped, Gens
<1>4. \A r \in CacheRows : r.gen \in Nat
  BY DEF CacheRows, NoRow, Gens
<1>5. \A u \in Uid : messages[u] \in CacheRows /\ bodies[u] \in CacheRows
  BY DEF CacheTyped, TablesTyped
<1> QED BY <1>2, <1>3, <1>4, <1>5

(* And after a step outside: a generation that was known is known still. *)
LEMMA Later ==
  ASSUME CacheTyped, ServerKnown, ServerKnown', Outside
  PROVE  /\ srv'.gen \in Nat \ {0} /\ srv'.next \in Nat /\ srv'.uids \subseteq Uid /\ srv'.gen >= srv.gen
         /\ \A g \in Nat : g <= srv.gen => g <= srv'.gen /\ (g = srv'.gen => srv'.gen = srv.gen)
<1>1. srv.gen \in Nat
  BY Numbers
<1>2. srv'.gen \in Nat \ {0} /\ srv'.next \in Nat /\ srv'.uids \subseteq Uid
  BY MailCacheAssumption DEF ServerKnown, Gens
<1>3. srv'.gen >= srv.gen
  BY DEF Outside
<1> DEFINE a == srv.gen
           b == srv'.gen
<1>4. a \in Nat /\ b \in Nat /\ b >= a
  BY <1>1, <1>2, <1>3
<1> HIDE DEF a, b
<1>5. \A g \in Nat : g <= a => g <= b /\ (g = b => b = a)
  BY <1>4
<1> QED BY <1>2, <1>3, <1>5 DEF a, b

(* What the tables satisfy they satisfy still. *)
LEMMA OutsideTables ==
  ASSUME CacheTyped, ServerKnown, ServerKnown', TablesKnown, Outside
  PROVE  /\ \A X : Indexed(X) => Indexed(X)'
         /\ Capped => Capped'
         /\ BodiesKnown => BodiesKnown'
         /\ \A X : Joined(X) => Joined(X)'
         /\ Fetched => Fetched'
         /\ \A X : MovedLeave(X) => MovedLeave(X)'
         /\ TablesKnown'
<1>0. UNCHANGED <<frontend, messages, bodies, fts, mailboxRow, stmts>> /\ (Whole' => Whole) /\ (Clean' => Clean) /\ (OnTime' => OnTime)
  BY DEF Outside, Whole, Clean, OnTime
<1>1. ASSUME NEW X, Indexed(X) PROVE Indexed(X)'
  BY <1>0, <1>1 DEF Indexed, Matched
<1>2. Capped => Capped'
  BY <1>0 DEF Capped, HasBody
<1>3. BodiesKnown => BodiesKnown'
  BY <1>0 DEF BodiesKnown, HasBody
<1>4. ASSUME NEW X, Joined(X) PROVE Joined(X)'
  BY <1>0, <1>4 DEF Joined, HasBody
<1>n. /\ srv.gen \in Nat \ {0} /\ srv.next \in Nat /\ srv.uids \subseteq Uid /\ Uid \subseteq Nat
      /\ mailboxRow[1] \in Nat /\ mailboxRow[2] \in Nat
      /\ \A u \in Uid : messages[u].gen \in Nat /\ bodies[u].gen \in Nat
  BY Numbers
<1>m. /\ srv'.gen \in Nat \ {0} /\ srv'.next \in Nat /\ srv'.uids \subseteq Uid /\ srv'.gen >= srv.gen
      /\ \A g \in Nat : g <= srv.gen => g <= srv'.gen /\ (g = srv'.gen => srv'.gen = srv.gen)
  BY Later
<1>5. ASSUME Fetched PROVE Fetched'
  <2> SUFFICES ASSUME frontend' = "core", OnTime', mailboxRow'[1] = srv'.gen, NEW u \in srv'.uids, u < mailboxRow'[2]
               PROVE  messages'[u].gen = srv'.gen \/ Brings(u)'
    BY DEF Fetched
  <2>0. u \in Nat /\ mailboxRow'[1] = mailboxRow[1] /\ mailboxRow'[2] = mailboxRow[2] /\ mailboxRow[1] <= srv.gen
    BY <1>0, <1>n, <1>m DEF TablesKnown
  <2>a. srv'.gen = srv.gen
    BY <1>n, <1>m, <2>0
  <2>b. mailboxRow[2] <= srv.next
    BY <2>0, <2>a DEF TablesKnown
  <2>d. u < mailboxRow[2] /\ mailboxRow[2] \in Nat /\ srv.next \in Nat
    BY <1>n, <2>0
  <2>1. srv'.gen = srv.gen /\ u < srv.next
    <3>1. u \in Nat /\ mailboxRow[2] \in Nat /\ srv.next \in Nat /\ u < mailboxRow[2] /\ mailboxRow[2] <= srv.next
      BY <2>0, <2>b, <2>d
    <3>2. \A a, b, c \in Nat : a < b /\ b <= c => a < c
      OBVIOUS
    <3>3. u < srv.next
      BY ONLY <3>1, <3>2
    <3> QED BY <2>a, <3>3
  <2>c. u \in srv.uids \/ u >= srv.next
    BY <2>a DEF Outside
  <2>2. u \in srv.uids
    BY <1>n, <2>0, <2>1, <2>c
  <2>3. messages[u].gen = srv.gen \/ Brings(u)
    BY <1>0, <1>5, <2>1, <2>2 DEF Fetched
  <2>4. Brings(u) => Brings(u)'
    BY <1>n, <2>1, <2>2 DEF Outside
  <2> QED BY <1>0, <2>1, <2>3, <2>4
<1>6. ASSUME NEW X, MovedLeave(X) PROVE MovedLeave(X)'
  <2> SUFFICES ASSUME OnTime', NEW u \in Uid \ (srv'.uids \cup X), messages'[u].gen = srv'.gen PROVE Leaves(u)'
    BY DEF MovedLeave
  <2>1. srv'.gen = srv.gen
    BY <1>0, <1>n, <1>m DEF TablesKnown
  <2>2. u \in srv.uids \/ Leaves(u)
    BY <1>0, <1>6, <2>1 DEF MovedLeave
  <2> QED BY <2>1, <2>2 DEF Outside
<1>7. TablesKnown'
  BY <1>0, <1>n, <1>m DEF TablesKnown, Outside
<1> QED BY <1>1, <1>2, <1>3, <1>4, <1>5, <1>6, <1>7

(* So it is with the commands on their way. *)
LEMMA OutsideQueue ==
  ASSUME CacheTyped, ServerKnown, ServerKnown', TablesKnown, Waiting, MovedFollow, Outside
  PROVE  Waiting' /\ MovedFollow'
<1>0. UNCHANGED <<frontend, bodies, mailboxRow>> /\ (OnTime' => OnTime)
  BY DEF Outside, OnTime
<1>n. /\ srv.gen \in Nat \ {0} /\ srv.next \in Nat /\ srv.uids \subseteq Uid /\ Uid \subseteq Nat
      /\ mailboxRow[1] \in Nat /\ \A u \in Uid : bodies[u].gen \in Nat
  BY Numbers
<1>m. /\ srv'.gen \in Nat \ {0} /\ srv'.next \in Nat /\ srv'.uids \subseteq Uid /\ srv'.gen >= srv.gen
      /\ \A g \in Nat : g <= srv.gen => g <= srv'.gen /\ (g = srv'.gen => srv'.gen = srv.gen)
  BY Later
<1>1. ASSUME NEW c \in CacheCmds, Queued(c), Fits(c, srv) PROVE Fits(c, srv')
  <2>1. ASSUME NEW h \in Heads(c) PROVE h.gen <= srv'.gen /\ h.gen \in Nat /\ h.gen <= srv.gen /\ h.uid \in Nat
    <3>1. h \in Headers
      BY HeadsTyped
    <3>2. h.gen \in Nat /\ h.uid \in Nat
      BY <3>1, HeaderTyped
    <3>3. h.gen <= srv.gen
      BY <1>1 DEF Fits
    <3> QED BY <1>m, <3>2, <3>3
  <2>2. ASSUME c.op = "ReportMailboxState" PROVE c.gen <= srv'.gen /\ (c.gen = srv'.gen => c.next <= srv'.next)
    <3>1. c.gen \in Nat /\ c.next \in Nat /\ c.gen <= srv.gen /\ (c.gen = srv.gen => c.next <= srv.next)
      BY <1>1, <2>2 DEF Fits, CacheCmds
    <3>2. srv'.gen = srv.gen => srv'.next >= srv.next
      BY DEF Outside
    <3> QED BY <1>n, <1>m, <3>1, <3>2
  <2>3. ASSUME c.op = "RemoveMessage", NEW h \in Heads(c), h.gen = srv'.gen PROVE h.uid \notin srv'.uids /\ h.uid < srv'.next
    <3>1. srv'.gen = srv.gen
      BY <1>n, <1>m, <2>1, <2>3
    <3>2. h.uid \notin srv.uids /\ h.uid < srv.next /\ h.uid \in Nat
      BY <1>1, <2>1, <2>3, <3>1 DEF Fits, MovesKnown
    <3>3. srv'.next >= srv.next /\ (h.uid \in srv'.uids => h.uid \in srv.uids \/ h.uid >= srv.next)
      BY <3>1 DEF Outside
    <3> QED BY <1>n, <1>m, <3>2, <3>3
  <2> QED BY <2>1, <2>2, <2>3 DEF Fits, MovesKnown
<1>2. ASSUME NEW c \in CacheCmds, Fresh(c, srv) PROVE Since(c, mailboxRow[1]) /\ \A u \in Uid : ListsSince(c, bodies[u].gen)
  BY <1>2 DEF Fresh, Since, ListsSince, TablesKnown
<1>3. ASSUME NEW c \in CacheCmds, Queued(c)' PROVE Fits(c, srv') /\ Since(c, mailboxRow[1]) /\ Asked(c) /\ \A u \in Uid : ListsSince(c, bodies[u].gen)
  <2>1. Queued(c) \/ (Fresh(c, srv) /\ Fits(c, srv') /\ Asked(c))
    BY <1>3 DEF Outside
  <2>2. Queued(c) => Fits(c, srv') /\ Since(c, mailboxRow[1]) /\ Asked(c) /\ \A u \in Uid : ListsSince(c, bodies[u].gen)
    BY <1>1 DEF Waiting
  <2> QED BY <1>2, <2>1, <2>2
<1>4. Waiting'
  BY <1>0, <1>3 DEF Waiting, Asked
<1>5. MovedFollow'
  <2> SUFFICES ASSUME OnTime', NEW c \in CacheCmds, Queued(c)', c.op \in Listings, NEW h \in Heads(c),
                      h.gen = srv'.gen, h.uid \notin srv'.uids
               PROVE  Leaves(h.uid)'
    BY DEF MovedFollow
  <2>1. h.uid \in Uid /\ h.gen \in Nat /\ OnTime
    BY <1>0, HeadsTyped, HeaderTyped
  <2>2. Queued(c) \/ Fresh(c, srv)
    BY DEF Outside
  <2>3. h.gen <= srv.gen
    BY <1>n, <2>1, <2>2 DEF Waiting, Fits, Fresh
  <2>4. srv'.gen = srv.gen
    BY <1>n, <1>m, <2>1, <2>3
  <2>5. h.uid \in srv.uids \/ Leaves(h.uid)
    BY <2>1, <2>2, <2>4 DEF MovedFollow, Fresh
  <2> QED BY <2>1, <2>4, <2>5 DEF Outside
<1> QED BY <1>4, <1>5

(* And with the command being run. *)
LEMMA OutsideDoing ==
  ASSUME CacheTyped, ServerKnown, ServerKnown', TablesKnown, Outside, Doing
  PROVE  Doing'
<1>0. UNCHANGED <<frontend, messages, bodies, fts, mailboxRow, stmts>> /\ (OnTime' => OnTime) /\ (Clean' => Clean) /\ spoiled \subseteq spoiled'
  BY DEF Outside, OnTime, Clean
<1>n. /\ srv.gen \in Nat \ {0} /\ srv.next \in Nat /\ srv.uids \subseteq Uid /\ Uid \subseteq Nat
      /\ mailboxRow[1] \in Nat /\ \A u \in Uid : bodies[u].gen \in Nat
  BY Numbers
<1>m. /\ srv'.gen \in Nat \ {0} /\ srv'.next \in Nat /\ srv'.uids \subseteq Uid /\ srv'.gen >= srv.gen
      /\ \A g \in Nat : g <= srv.gen => g <= srv'.gen /\ (g = srv'.gen => srv'.gen = srv.gen)
  BY Later
<1>t. /\ \A X : Indexed(X) => Indexed(X)'
      /\ Capped => Capped'
      /\ BodiesKnown => BodiesKnown'
      /\ \A X : Joined(X) => Joined(X)'
      /\ Fetched => Fetched'
      /\ \A X : MovedLeave(X) => MovedLeave(X)'
  BY OutsideTables
<1>a. AllAgree => AllAgree'
  BY <1>t DEF AllAgree
<1>b. NoMessages' = NoMessages /\ NoBodies' = NoBodies
  BY <1>0 DEF NoMessages, NoBodies
<1>l. ASSUME NEW h \in Headers, h.gen <= srv.gen, OnTime => (h.gen = srv.gen /\ h.uid \notin srv.uids => Leaves(h.uid))
      PROVE  h.gen <= srv'.gen /\ (OnTime' /\ h.gen = srv'.gen /\ h.uid \notin srv'.uids => Leaves(h.uid)')
  <2>1. h.uid \in Uid /\ h.gen \in Nat
    BY HeaderTyped
  <2>2. ASSUME OnTime', h.gen = srv'.gen, h.uid \notin srv'.uids PROVE Leaves(h.uid)'
    <3>1. srv'.gen = srv.gen
      BY <1>n, <1>m, <1>l, <2>1, <2>2
    <3>2. h.uid \in srv.uids \/ Leaves(h.uid)
      BY <1>0, <1>l, <2>2, <3>1
    <3> QED BY <2>1, <2>2, <3>1, <3>2 DEF Outside
  <2> QED BY <1>n, <1>m, <1>l, <2>1, <2>2
<1>q. ASSUME NEW g \in Gens, g <= srv.gen
      PROVE  /\ (\A c \in CacheCmds : Queued(c) => ListsSince(c, g)) => (\A c \in CacheCmds : Queued(c)' => ListsSince(c, g))
             /\ (\A c \in CacheCmds : Queued(c) => Since(c, g)) => (\A c \in CacheCmds : Queued(c)' => Since(c, g))
  <2>1. \A c \in CacheCmds : Fresh(c, srv) => ListsSince(c, g) /\ Since(c, g)
    BY <1>q DEF Fresh, ListsSince, Since
  <2> QED BY <2>1 DEF Outside
<1>1. ASSUME Listing PROVE Listing'
  <2>1. ASSUME NEW i \in 1..Len(stmts) PROVE HeaderDue(stmts[i])'
    <3>1. PICK h \in Headers :
            /\ stmts[i] = Do(IF frontend = "core" THEN "message" ELSE "searchable", h)
            /\ h.gen <= srv.gen /\ h.gen >= mailboxRow[1] /\ \A u \in Uid : h.gen >= bodies[u].gen
            /\ OnTime /\ h.gen = srv.gen /\ h.uid \notin srv.uids => Leaves(h.uid)
      BY <1>1 DEF Listing, HeaderDue
    <3>2. h.gen <= srv'.gen /\ (OnTime' /\ h.gen = srv'.gen /\ h.uid \notin srv'.uids => Leaves(h.uid)')
      BY <1>l, <3>1
    <3> QED BY <1>0, <3>1, <3>2 DEF HeaderDue
  <2> QED BY <1>0, <1>1, <1>a, <2>1 DEF Listing
<1>2. ASSUME NEW h \in Headers, MailKnown(h) PROVE MailKnown(h)'
  BY <1>0, <1>2, <1>l, <1>q, <1>n, <1>m, HeaderTyped DEF MailKnown
<1>3. ASSUME NEW h \in Headers,
             Flags(h) \/ Mail1(h) \/ Mail2(h) \/ Mail3(h) \/ Mail4(h) \/ Mail5(h) \/ Move1(h) \/ Move2(h) \/ Move3(h)
      PROVE  (Flags(h) \/ Mail1(h) \/ Mail2(h) \/ Mail3(h) \/ Mail4(h) \/ Mail5(h) \/ Move1(h) \/ Move2(h) \/ Move3(h))'
  <2>1. CASE Flags(h)
    BY <1>0, <1>a, <2>1 DEF Flags
  <2>2. CASE Mail1(h)
    <3>1. OnTime' /\ h.gen = srv'.gen /\ h.uid \notin srv'.uids => Leaves(h.uid)'
      BY <1>l, <2>2 DEF Mail1, MailKnown
    <3> QED BY <1>0, <1>a, <1>2, <2>2, <3>1 DEF Mail1
  <2>3. CASE Mail2(h)
    BY <1>0, <1>t, <1>2, <2>3 DEF Mail2
  <2>4. CASE Mail3(h)
    BY <1>0, <1>t, <2>4 DEF Mail3
  <2>5. CASE Mail4(h)
    BY <1>0, <1>t, <2>5 DEF Mail4
  <2>6. CASE Mail5(h)
    BY <1>0, <1>t, <2>6 DEF Mail5
  <2>7. CASE Move1(h)
    <3>0. h.gen \in Nat /\ h.uid \in Nat
      BY HeaderTyped
    <3>1. h.gen \in Nat /\ h.uid \in Nat /\ h.gen <= srv'.gen
      BY <1>m, <2>7, <3>0 DEF Move1
    <3>2. ASSUME h.gen = srv'.gen PROVE h.uid \notin srv'.uids /\ h.uid < srv'.next
      <4>1. srv'.gen = srv.gen
        BY <1>n, <1>m, <2>7, <3>1, <3>2 DEF Move1
      <4>2. h.uid \notin srv.uids /\ h.uid < srv.next
        BY <2>7, <3>2, <4>1 DEF Move1
      <4>3. srv'.next >= srv.next /\ (h.uid \in srv'.uids => h.uid \in srv.uids \/ h.uid >= srv.next)
        BY <4>1 DEF Outside
      <4> QED BY <1>n, <1>m, <3>1, <4>2, <4>3
    <3> QED BY <1>0, <1>t, <2>7, <3>1, <3>2 DEF Move1
  <2>8. CASE Move2(h)
    BY <1>0, <1>t, <2>8 DEF Move2
  <2>9. CASE Move3(h)
    BY <1>0, <1>t, <2>9 DEF Move3
  <2> QED BY <1>3, <2>1, <2>2, <2>3, <2>4, <2>5, <2>6, <2>7, <2>8, <2>9
<1>4. ASSUME Forget1 \/ Forget2 \/ Forget3 \/ Forget4 PROVE (Forget1 \/ Forget2 \/ Forget3 \/ Forget4)'
  BY <1>0, <1>t, <1>b, <1>4 DEF Forget1, Forget2, Forget3, Forget4
<1>5. ASSUME NEW g \in Gens, NEW m \in Nat, Report1(g, m) \/ Report2(g, m) \/ Report3(g, m) \/ Report4(g, m)
      PROVE  (Report1(g, m) \/ Report2(g, m) \/ Report3(g, m) \/ Report4(g, m))'
  <2>0. g \in Nat
    BY DEF Gens
  <2>1. ReportKnown(g, m) /\ g \in Nat
    BY <1>5, <2>0 DEF Report1, Report2, Report3, Report4
  <2>2. ReportKnown(g, m)'
    <3>1. g <= srv'.gen /\ (g = srv'.gen => srv'.gen = srv.gen)
      BY <1>n, <1>m, <2>1 DEF ReportKnown
    <3>2. g = srv'.gen => m <= srv'.next
      <4>1. srv'.gen = srv.gen => srv'.next >= srv.next
        BY DEF Outside
      <4> QED BY <1>n, <1>m, <2>1, <3>1, <4>1 DEF ReportKnown
    <3> QED BY <1>0, <1>q, <2>1, <3>1, <3>2 DEF ReportKnown
  <2>3. ASSUME OnTime', g = srv'.gen, NEW u \in srv'.uids, u < m PROVE g = srv.gen /\ srv'.gen = srv.gen /\ u \in srv.uids /\ u \in Uid
    <3>1. srv'.gen = srv.gen
      BY <1>n, <1>m, <2>1, <2>3 DEF ReportKnown
    <3>4. g = srv.gen /\ m <= srv.next /\ u \in Uid
      BY <1>m, <2>1, <2>3, <3>1 DEF ReportKnown
    <3>5. u \in Nat /\ srv.next \in Nat /\ u < m
      BY <1>n, <2>3, <3>4
    <3>2. u < srv.next /\ u \in Nat /\ u \in Uid
      BY <3>4, <3>5
    <3>3. u \in srv.uids \/ u >= srv.next
      BY <3>1 DEF Outside
    <3> QED BY <1>n, <2>3, <3>1, <3>2, <3>3
  <2>4. Planned(g, m) => Planned(g, m)'
    BY <1>0, <2>3 DEF Planned, Outside
  <2>5. CASE Report1(g, m)
    BY <1>0, <1>t, <2>2, <2>4, <2>5 DEF Report1
  <2>6. CASE Report2(g, m)
    BY <1>0, <1>t, <1>b, <2>2, <2>4, <2>6 DEF Report2
  <2>7. CASE Report3(g, m)
    BY <1>0, <1>t, <1>b, <2>2, <2>4, <2>7 DEF Report3
  <2>8. CASE Report4(g, m)
    <3>1. ASSUME OnTime', g = srv'.gen, NEW u \in srv'.uids, u < m PROVE messages'[u].gen = srv'.gen \/ Brings(u)'
      BY <1>0, <2>3, <2>8, <3>1 DEF Report4, Outside
    <3> QED BY <1>0, <1>t, <1>b, <2>2, <2>8, <3>1 DEF Report4
  <2> QED BY <1>5, <2>5, <2>6, <2>7, <2>8
<1> QED BY <1>1, <1>3, <1>4, <1>5 DEF Doing

(* So nothing outside the cache actor breaks the invariant. *)
LEMMA OutsideStep ==
  ASSUME CacheInv, Outside, CacheTyped', ServerKnown', Sides', QueuesOrdered', HandKnown'
  PROVE  CacheInv'
<1>1. CacheTyped /\ ServerKnown /\ TablesKnown /\ Waiting /\ MovedFollow /\ Doing
  BY DEF CacheInv
<1>2. TablesKnown'
  BY <1>1, OutsideTables
<1>3. Waiting' /\ MovedFollow'
  BY <1>1, OutsideQueue
<1>4. Doing'
  BY <1>1, OutsideDoing
<1> QED BY <1>2, <1>3, <1>4 DEF CacheInv

-----------------------------------------------------------------------------
(* The steps outside the cache actor. *)

(* A command of the server as it is comes after any that is queued. *)
LEMMA FreshAfter ==
  ASSUME NEW c \in CacheCmds, Fits(c, srv), NEW e \in CacheCmds, Fresh(e, srv)
  PROVE  InTurn(c, e)
<1>1. ASSUME c.op = "IndexMail", NEW h \in Heads(c) PROVE ListsSince(e, h.gen)
  BY <1>1 DEF Fits, Fresh, ListsSince
<1>2. c.op = "ReportMailboxState" => Since(e, c.gen)
  BY DEF Fits, Fresh, Since
<1>3. ASSUME c.op = "RemoveMessage", e.op \in Listings, NEW h \in Heads(c), NEW k \in Heads(e), h.uid = k.uid, h.gen = k.gen
      PROVE  FALSE
  <2>1. k.gen = srv.gen /\ k.uid \in srv.uids
    BY <1>3 DEF Fresh
  <2> QED BY <1>3, <2>1 DEF Fits, MovesKnown
<1> QED BY <1>1, <1>2, <1>3 DEF InTurn

(* An event for the cache is emitted. *)
LEMMA Emits ==
  ASSUME QueuesTyped, Waiting, QueuesOrdered, NEW e \in CacheCmds, Fresh(e, srv), news' = Append(news, e), dbCmds' = dbCmds
  PROVE  /\ news' \in Seq(CacheCmds) /\ QueuesOrdered'
         /\ \A c : Queued(c)' <=> Queued(c) \/ c = e
<1>1. news' \in Seq(CacheCmds) /\ (\A c : Queued(c)' <=> Queued(c) \/ c = e) /\ (\A c : In(c, news') <=> In(c, news) \/ c = e)
  BY NewsGrow
<1>2. ASSUME NEW c \in CacheCmds, Queued(c) PROVE InTurn(c, e)
  <2>1. Fits(c, srv)
    BY <1>2 DEF Waiting
  <2> QED BY <2>1, FreshAfter
<1>3. news \in Seq(CacheCmds) /\ dbCmds \in Seq(CacheCmds)
  BY DEF QueuesTyped
<1>4. (\A c : In(c, news) => c \in CacheCmds) /\ (\A c : In(c, dbCmds) => c \in CacheCmds)
  BY <1>3 DEF In
<1>5. InOrder(news')
  <2>1. \A c : In(c, news) => InTurn(c, e)
    BY <1>2, <1>4 DEF Queued
  <2>2. InOrder(news)
    BY DEF QueuesOrdered
  <2>3. InOrder(Append(news, e))
    BY <1>3, <2>1, <2>2, OrderAppend
  <2> QED BY <2>3
<1>6. Across(dbCmds, news')
  BY <1>1, <1>2, <1>4 DEF Across, Queued, QueuesOrdered
<1> QED BY <1>1, <1>5, <1>6 DEF QueuesOrdered

(* What is on its way stays on its way. *)
LEMMA StillComes ==
  ASSUME srv'.gen = srv.gen, stmts' = stmts, \A c : Queued(c) => Queued(c)',
         \A p : In(p, plans) => In(p, plans'), \A w : In(w, wire) => In(w, wire')
  PROVE  \A u : (Brings(u) => Brings(u)') /\ (Leaves(u) => Leaves(u)')
<1>1. ASSUME NEW u, Leaves(u) PROVE Leaves(u)'
  BY <1>1 DEF Leaves
<1>2. ASSUME NEW u, Brings(u) PROVE Brings(u)'
  <2>1. CASE \E p \in PlanKinds \X Nat : In(p, plans) /\ p[1] # "UpToDate" /\ p[2] <= u
    BY <2>1 DEF Brings
  <2>2. CASE \E w \in WireCmds : In(w, wire) /\ w[1] = "From" /\ w[2] <= u
    BY <2>2 DEF Brings
  <2>3. CASE \E c \in CacheCmds : Queued(c) /\ c.op = "IndexHeaders" /\ \E h \in Heads(c) : h.uid = u /\ h.gen = srv.gen
    BY <2>3 DEF Brings
  <2>4. CASE \E i \in 1..Len(stmts) : stmts[i].st = "message" /\ stmts[i].h.uid = u /\ stmts[i].h.gen = srv.gen
    BY <2>4 DEF Brings
  <2> QED BY <1>2, <2>1, <2>2, <2>3, <2>4 DEF Brings
<1> QED BY <1>1, <1>2

(* A message is delivered: its UID was not there before. *)
LEMMA DeliverStep == ASSUME CacheInv, Deliver PROVE CacheInv'
<1>0. CacheTyped /\ ServerKnown /\ Sides /\ QueuesOrdered /\ HandKnown /\ Waiting
  BY DEF CacheInv
<1>1. /\ srv' = [srv EXCEPT !.next = @ + 1, !.uids = @ \union {srv.next}] /\ srv.next <= MaxUid
      /\ UNCHANGED <<frontend, wire, hand, news, dbCmds, stmts, plans, columns, messages, bodies, fts, mailboxRow, spoiled>>
  BY DEF Deliver, tables
<1>2. srv \in [gen : Gens, next : 1..(MaxUid + 1), uids : SUBSET Uid, seen : SUBSET Uid] /\ MaxUid \in Nat /\ srv.next \in Nat \ {0}
  BY <1>0, MailCacheAssumption DEF ServerKnown
<1>3. /\ srv'.gen = srv.gen /\ srv'.next = srv.next + 1 /\ srv'.uids = srv.uids \cup {srv.next} /\ srv'.seen = srv.seen
      /\ srv' \in [gen : Gens, next : 1..(MaxUid + 1), uids : SUBSET Uid, seen : SUBSET Uid]
  <2>1. srv.next \in Uid /\ srv.next + 1 \in 1..(MaxUid + 1)
    BY <1>1, <1>2 DEF Uid
  <2> QED BY <1>1, <1>2, <2>1
<1>4. srv.uids \subseteq Nat
  BY <1>2 DEF Uid
<1>5. ServerKnown'
  <2>1. \A u \in srv'.uids : u < srv'.next
    BY <1>0, <1>2, <1>3, <1>4 DEF ServerKnown
  <2> QED BY <1>0, <1>3, <2>1 DEF ServerKnown
<1>6. \A u : (Brings(u) => Brings(u)') /\ (Leaves(u) => Leaves(u)')
  BY <1>1, <1>3, StillComes DEF Queued
<1>7. ASSUME NEW c \in CacheCmds PROVE Queued(c)' => Queued(c)
  BY <1>1 DEF Queued
<1>8. Outside
  <2>1. srv'.gen >= srv.gen /\ srv'.next >= srv.next /\ \A u \in srv'.uids : u \in srv.uids \/ u >= srv.next
    BY <1>2, <1>3 DEF Gens
  <2>2. \A u \in Uid \ srv'.uids : u \in srv.uids \/ Leaves(u) => Leaves(u)'
    BY <1>3, <1>6
  <2> QED BY <1>1, <1>6, <1>7, <2>1, <2>2 DEF Outside
<1>9. CacheTyped' /\ Sides' /\ QueuesOrdered'
  BY <1>0, <1>1 DEF CacheTyped, TablesTyped, QueuesTyped, Sides, QueuesOrdered
<1>10. HandKnown'
  BY <1>0, <1>1, <1>3 DEF HandKnown
<1> QED BY <1>5, <1>8, <1>9, <1>10, OutsideStep

(* The mailbox is made again: everything known is of an older generation. *)
LEMMA RecreateStep == ASSUME CacheInv, Recreate PROVE CacheInv'
<1>0. CacheTyped /\ ServerKnown /\ Sides /\ QueuesOrdered /\ HandKnown /\ Waiting
  BY DEF CacheInv
<1>1. /\ srv' = [gen |-> srv.gen + 1, next |-> 2, uids |-> {1}, seen |-> {}] /\ srv.gen < 2
      /\ UNCHANGED <<frontend, wire, hand, news, dbCmds, stmts, plans, columns, messages, bodies, fts, mailboxRow, spoiled>>
  BY DEF Recreate, tables
<1>2. MaxUid \in Nat \ {0} /\ srv.gen \in Gens
  BY <1>0, MailCacheAssumption DEF ServerKnown
<1>3. srv'.gen = 2 /\ srv.gen = 1 /\ srv'.next = 2 /\ srv'.uids = {1} /\ srv'.seen = {}
  BY <1>1, <1>2 DEF Gens
<1>5. ServerKnown'
  BY <1>1, <1>2, <1>3 DEF ServerKnown, Uid, Gens
<1>7. ASSUME NEW c \in CacheCmds PROVE Queued(c)' => Queued(c)
  BY <1>1 DEF Queued
<1>8. Outside
  BY <1>1, <1>3, <1>7 DEF Outside
<1>9. CacheTyped' /\ Sides' /\ QueuesOrdered'
  BY <1>0, <1>1 DEF CacheTyped, TablesTyped, QueuesTyped, Sides, QueuesOrdered
<1>10. HandKnown'
  <2>1. \A h \in hand : h.gen \in Gens
    BY <1>0 DEF CacheTyped, QueuesTyped, Headers
  <2> QED BY <1>1, <1>3, <2>1 DEF HandKnown, Gens
<1> QED BY <1>5, <1>8, <1>9, <1>10, OutsideStep

(* A step that leaves the server alone. *)
Rests == UNCHANGED <<frontend, srv, stmts, messages, bodies, fts, mailboxRow>>
(* A step that leaves the server, the tables and the command being run alone. *)
LEMMA SameServer ==
  ASSUME CacheInv, Rests, spoiled \subseteq spoiled',
         \A c \in CacheCmds : Queued(c)' => Queued(c) \/ (Fresh(c, srv) /\ Fits(c, srv) /\ Asked(c)),
         OnTime' => \A u \in srv.uids : Brings(u) => Brings(u)',
         OnTime' => \A u \in Uid : Leaves(u) => Leaves(u)'
  PROVE  ServerKnown' /\ Outside
<1>1. ServerKnown /\ CacheTyped
  BY DEF CacheInv
<1>2. srv' = srv /\ srv.gen \in Nat /\ srv.next \in Nat
  BY <1>1, Numbers DEF Rests
<1>3. ServerKnown'
  BY <1>1, <1>2 DEF ServerKnown
<1>4. srv'.gen >= srv.gen /\ srv'.next >= srv.next
  BY <1>2
<1>5. Outside
  BY <1>2, <1>4 DEF Outside, Rests
<1> QED BY <1>3, <1>5

(* The user asks for something: a command more for the IMAP actor. *)
LEMMA RequestStep == ASSUME CacheInv, NEW op \in {"List", "Read", "Move"}, NEW u \in Uid, Request(op, u) PROVE CacheInv'
<1>0. CacheTyped /\ QueuesTyped /\ Sides /\ QueuesOrdered /\ HandKnown /\ wire \in Seq(WireCmds)
  BY DEF CacheInv, CacheTyped, QueuesTyped
<1>1. /\ wire' = Append(wire, <<op, u>>) /\ Rests
      /\ UNCHANGED <<hand, news, dbCmds, plans, columns, spoiled>>
  BY DEF Request, tables, Rests
<1>2. <<op, u>> \in WireCmds
  BY DEF WireCmds
<1>3. wire' \in Seq(WireCmds) /\ \A w : In(w, wire') <=> In(w, wire) \/ w = <<op, u>>
  BY <1>0, <1>1, <1>2, AddedOne
<1>4. \A v : (Brings(v) => Brings(v)') /\ (Leaves(v) => Leaves(v)')
  BY <1>1, <1>3, StillComes DEF Queued, Rests
<1>5. ASSUME NEW c \in CacheCmds PROVE Queued(c)' => Queued(c)
  BY <1>1 DEF Queued
<1>6. ServerKnown' /\ Outside
  BY <1>1, <1>4, <1>5, SameServer
<1>7. CacheTyped'
  BY <1>0, <1>1, <1>3 DEF CacheTyped, TablesTyped, QueuesTyped, Rests
<1>8. QueuesOrdered' /\ HandKnown'
  BY <1>0, <1>1 DEF QueuesOrdered, HandKnown, Rests
<1>9. Sides'
  <2>1. <<op, u>>[1] # "From"
    OBVIOUS
  <2> QED BY <1>0, <1>1, <1>3, <2>1 DEF Sides, Rests
<1> QED BY <1>6, <1>7, <1>8, <1>9, OutsideStep

(* A header as the server has it. *)
LEMMA ServerHeader == ASSUME ServerKnown, NEW u \in Uid PROVE Header(u) \in Headers /\ Header(u).gen = srv.gen /\ Header(u).uid = u
BY DEF Header, Headers, ServerKnown

(* The body worker fetches a message ... *)
LEMMA DownloadStep == ASSUME CacheInv, NEW u \in Uid, Download(u) PROVE CacheInv'
<1>0. CacheTyped /\ QueuesTyped /\ Sides /\ QueuesOrdered /\ HandKnown /\ ServerKnown
  BY DEF CacheInv, CacheTyped
<1>1. /\ hand' = {Header(u)} /\ Rests
      /\ UNCHANGED <<wire, news, dbCmds, plans, columns, spoiled>>
  BY DEF Download, tables, Rests
<1>2. Header(u) \in Headers /\ Header(u).gen = srv.gen
  BY <1>0, ServerHeader
<1>4. \A v : (Brings(v) => Brings(v)') /\ (Leaves(v) => Leaves(v)')
  BY <1>1, StillComes DEF Queued, Rests
<1>5. ASSUME NEW c \in CacheCmds PROVE Queued(c)' => Queued(c)
  BY <1>1 DEF Queued
<1>6. ServerKnown' /\ Outside
  BY <1>1, <1>4, <1>5, SameServer
<1>7. CacheTyped'
  BY <1>0, <1>1, <1>2 DEF CacheTyped, TablesTyped, QueuesTyped, Rests
<1>8. QueuesOrdered' /\ Sides'
  BY <1>0, <1>1 DEF QueuesOrdered, Sides, Rests
<1>9. HandKnown'
  <2>1. srv.gen \in Nat
    BY <1>0, Numbers
  <2> QED BY <1>1, <1>2, <2>1 DEF HandKnown, Rests
<1> QED BY <1>6, <1>7, <1>8, <1>9, OutsideStep

(* What a command is. *)
LEMMA CommandIs ==
  ASSUME NEW op \in CmdKinds, NEW hs \in Seq(Headers), NEW g \in {0, 1, 2}, NEW n \in Nat,
         op \in OfOne => Len(hs) = 1, IF op = "ReportMailboxState" THEN g # 0 ELSE g = 0 /\ n = 0
  PROVE  DbCmd(op, hs, g, n) \in CacheCmds /\ DbCmd(op, hs, g, n).op = op /\ DbCmd(op, hs, g, n).hs = hs
         /\ DbCmd(op, hs, g, n).gen = g /\ DbCmd(op, hs, g, n).next = n
BY DEF DbCmd, CacheCmds

(* ... and reports it: no listing queued is newer than what it read. *)
LEMMA MailDataStep == ASSUME CacheInv, MailData PROVE CacheInv'
<1> DEFINE e == DbCmd("IndexMail", SetToSeq(hand), 0, 0)
<1>0. CacheTyped /\ QueuesTyped /\ Sides /\ QueuesOrdered /\ HandKnown /\ ServerKnown /\ Waiting
  BY DEF CacheInv, CacheTyped
<1>1. /\ hand # {} /\ hand' = {} /\ news' = Append(news, e) /\ Rests
      /\ UNCHANGED <<wire, dbCmds, plans, columns, spoiled>>
  BY DEF MailData, tables, Rests
<1>2. PICK h \in Headers : hand = {h}
  BY <1>0, <1>1 DEF QueuesTyped
<1>3. IsFiniteSet(hand) /\ Cardinality(hand) = 1
  BY <1>2, FS_Singleton
<1>4. SetToSeq(hand) \in Seq(hand) /\ Len(SetToSeq(hand)) = 1
  BY <1>3, SetToSeqIs
<1>5. SetToSeq(hand) \in Seq(Headers) /\ \A i \in 1..Len(SetToSeq(hand)) : SetToSeq(hand)[i] = h
  <2> DEFINE s == SetToSeq(hand)
  <2>1. s \in Seq({h}) /\ {h} \subseteq Headers
    BY <1>2, <1>4
  <2> HIDE DEF s
  <2>2. s \in Seq(Headers) /\ \A i \in 1..Len(s) : s[i] = h
    BY <2>1
  <2> QED BY <2>2 DEF s
<1>6. e \in CacheCmds /\ e.op = "IndexMail" /\ e.hs = SetToSeq(hand)
  <2>1. "IndexMail" \in CmdKinds /\ 0 \in {0, 1, 2} /\ 0 \in Nat /\ "IndexMail" # "ReportMailboxState"
    BY DEF CmdKinds, OfOne
  <2> QED BY <1>4, <1>5, <2>1, CommandIs
<1> HIDE DEF e
<1>7. Heads(e) \subseteq {h} /\ h.gen <= srv.gen
  BY <1>0, <1>2, <1>5, <1>6 DEF Heads, HandKnown
<1>8. Fresh(e, srv) /\ Fits(e, srv) /\ Asked(e)
  BY <1>6, <1>7 DEF Fresh, Fits, MovesKnown, Asked, Listings
<1>9. news' \in Seq(CacheCmds) /\ QueuesOrdered' /\ \A c : Queued(c)' <=> Queued(c) \/ c = e
  BY <1>0, <1>1, <1>6, <1>8, Emits
<1>10. \A v : (Brings(v) => Brings(v)') /\ (Leaves(v) => Leaves(v)')
  BY <1>1, <1>9, StillComes DEF Rests
<1>11. ServerKnown' /\ Outside
  BY <1>1, <1>8, <1>9, <1>10, SameServer
<1>12. CacheTyped'
  BY <1>0, <1>1, <1>9 DEF CacheTyped, TablesTyped, QueuesTyped, Rests
<1>13. HandKnown' /\ Sides'
  BY <1>0, <1>1 DEF HandKnown, Sides, Rests
<1> QED BY <1>9, <1>11, <1>12, <1>13, OutsideStep

(* The schema is migrated. *)
LEMMA AddColumnStep == ASSUME CacheInv, NEW col \in LateColumns, AddColumn(col) PROVE CacheInv'
<1>0. CacheTyped /\ QueuesTyped /\ Sides /\ QueuesOrdered /\ HandKnown
  BY DEF CacheInv, CacheTyped
<1>1. /\ columns' = columns \union {col} /\ col \notin columns /\ Rests
      /\ UNCHANGED <<wire, hand, news, dbCmds, plans, spoiled>>
  BY DEF AddColumn, tables, Rests
<1>4. \A v : (Brings(v) => Brings(v)') /\ (Leaves(v) => Leaves(v)')
  BY <1>1, StillComes DEF Queued, Rests
<1>5. ASSUME NEW c \in CacheCmds PROVE Queued(c)' => Queued(c)
  BY <1>1 DEF Queued
<1>6. ServerKnown' /\ Outside
  BY <1>1, <1>4, <1>5, SameServer
<1>7. CacheTyped'
  BY <1>0, <1>1 DEF CacheTyped, TablesTyped, QueuesTyped, Rests
<1>8. QueuesOrdered' /\ Sides' /\ HandKnown'
  BY <1>0, <1>1 DEF QueuesOrdered, Sides, HandKnown, Rests
<1> QED BY <1>6, <1>7, <1>8, OutsideStep

(* The account is removed: a command more. *)
LEMMA RemoveAccountStep == ASSUME CacheInv, RemoveAccount PROVE CacheInv'
<1> DEFINE e == DbCmd("RemoveAccount", <<>>, 0, 0)
<1>0. CacheTyped /\ QueuesTyped /\ Sides /\ QueuesOrdered /\ HandKnown /\ Waiting /\ dbCmds \in Seq(CacheCmds) /\ news \in Seq(CacheCmds)
  BY DEF CacheInv, CacheTyped, QueuesTyped
<1>1. /\ dbCmds' = Append(dbCmds, e) /\ Len(dbCmds) < DbQueue /\ Rests
      /\ UNCHANGED <<wire, hand, news, plans, columns, spoiled>>
  BY DEF RemoveAccount, tables, Rests
<1>2. e \in CacheCmds /\ e.op = "RemoveAccount" /\ e.hs = <<>>
  <2>1. "RemoveAccount" \in CmdKinds /\ "RemoveAccount" \notin OfOne /\ 0 \in {0, 1, 2} /\ 0 \in Nat /\ <<>> \in Seq(Headers)
        /\ "RemoveAccount" # "ReportMailboxState"
    BY DEF CmdKinds, OfOne
  <2> QED BY <2>1 DEF DbCmd, CacheCmds
<1> HIDE DEF e
<1>3. dbCmds' \in Seq(CacheCmds) /\ Len(dbCmds') = Len(dbCmds) + 1 /\ Len(dbCmds) \in Nat
      /\ \A c : In(c, dbCmds') <=> In(c, dbCmds) \/ c = e
  BY <1>0, <1>1, <1>2, AddedOne
<1>4. Heads(e) = {} /\ \A c : InTurn(c, e) /\ InTurn(e, c)
  BY <1>2 DEF Heads, InTurn, ListsSince, Since, Listings
<1>5. \A c : Queued(c)' <=> Queued(c) \/ c = e
  BY <1>1, <1>3 DEF Queued
<1>6. Fresh(e, srv) /\ Fits(e, srv) /\ Asked(e)
  BY <1>2, <1>4 DEF Fresh, Fits, MovesKnown, Asked
<1>7. \A v : (Brings(v) => Brings(v)') /\ (Leaves(v) => Leaves(v)')
  BY <1>1, <1>5, StillComes DEF Rests
<1>8. ServerKnown' /\ Outside
  BY <1>1, <1>5, <1>6, <1>7, SameServer
<1>9. CacheTyped'
  <2>1. Len(dbCmds') <= DbQueue
    BY <1>1, <1>3, MailCacheAssumption
  <2> QED BY <1>0, <1>1, <1>3, <2>1 DEF CacheTyped, TablesTyped, QueuesTyped, Rests
<1>10. QueuesOrdered'
  <2>1. InOrder(dbCmds')
    <3>1. InOrder(dbCmds)
      BY <1>0 DEF QueuesOrdered
    <3>2. InOrder(Append(dbCmds, e))
      BY <1>0, <1>2, <1>4, <3>1, OrderAppend
    <3> QED BY <1>1, <3>2
  <2>2. Across(dbCmds', news')
    BY <1>0, <1>1, <1>3, <1>4 DEF Across, QueuesOrdered
  <2> QED BY <1>0, <1>1, <2>1, <2>2 DEF QueuesOrdered
<1>11. Sides' /\ HandKnown'
  BY <1>0, <1>1 DEF Sides, HandKnown, Rests
<1> QED BY <1>8, <1>9, <1>10, <1>11, OutsideStep

(* The wire and the plans, as queues. *)
LEMMA WireIs ==
  ASSUME QueuesTyped, wire # <<>>
  PROVE  Tail(wire) \in Seq(WireCmds) /\ Head(wire) \in WireCmds /\ \A w : In(w, wire) <=> w = Head(wire) \/ In(w, Tail(wire))
BY EndsOf DEF QueuesTyped

(* A fetch fails: what it would have brought is lost. *)
LEMMA ImapFailsStep == ASSUME CacheInv, ImapFails PROVE CacheInv'
<1>0. CacheTyped /\ QueuesTyped /\ Sides /\ QueuesOrdered /\ HandKnown
  BY DEF CacheInv, CacheTyped
<1>1. /\ wire # <<>> /\ wire' = Tail(wire) /\ Rests
      /\ spoiled' = spoiled \union (IF Head(wire)[1] = "From" THEN {"lost"} ELSE {})
      /\ UNCHANGED <<hand, news, dbCmds, plans, columns>>
  BY DEF ImapFails, tables, Rests
<1>2. wire' \in Seq(WireCmds) /\ \A w : In(w, wire) <=> w = Head(wire) \/ In(w, wire')
  BY <1>0, <1>1, WireIs
<1>3. OnTime' => Head(wire)[1] # "From"
  BY <1>1 DEF OnTime
<1>4. ASSUME NEW v, Brings(v), OnTime' PROVE Brings(v)'
  <2>1. \A w : In(w, wire) /\ w[1] = "From" => In(w, wire')
    BY <1>2, <1>3, <1>4
  <2> QED BY <1>1, <1>4, <2>1 DEF Brings, Queued, Rests
<1>5. \A v : Leaves(v) => Leaves(v)'
  BY <1>1 DEF Leaves, Queued, Rests
<1>6. ASSUME NEW c \in CacheCmds PROVE Queued(c)' => Queued(c)
  BY <1>1 DEF Queued
<1>7. ServerKnown' /\ Outside
  BY <1>1, <1>4, <1>5, <1>6, SameServer
<1>8. CacheTyped'
  BY <1>0, <1>1, <1>2 DEF CacheTyped, TablesTyped, QueuesTyped, Rests
<1>9. QueuesOrdered' /\ Sides' /\ HandKnown'
  BY <1>0, <1>1, <1>2 DEF QueuesOrdered, Sides, HandKnown, Rests
<1> QED BY <1>7, <1>8, <1>9, OutsideStep

(* A plan becomes a fetch from the same UID. *)
LEMMA HandlePlanStep == ASSUME CacheInv, HandlePlan PROVE CacheInv'
<1> DEFINE p == Head(plans)
           w == <<"From", p[2]>>
<1>0. CacheTyped /\ QueuesTyped /\ Sides /\ QueuesOrdered /\ HandKnown
  BY DEF CacheInv, CacheTyped
<1>1. /\ plans # <<>> /\ plans' = Tail(plans) /\ wire' = (IF p[1] = "UpToDate" THEN wire ELSE Append(wire, w)) /\ Rests
      /\ UNCHANGED <<hand, news, dbCmds, columns, spoiled>>
  BY DEF HandlePlan, tables, Rests
<1>2. plans' \in Seq(PlanKinds \X Nat) /\ p \in PlanKinds \X Nat /\ \A x : In(x, plans) <=> x = p \/ In(x, plans')
  BY <1>0, <1>1, EndsOf DEF QueuesTyped
<1>3. w \in WireCmds /\ w[1] = "From" /\ w[2] = p[2] /\ wire \in Seq(WireCmds)
  BY <1>0, <1>2 DEF WireCmds, QueuesTyped
<1> HIDE DEF w
<1>4. wire' \in Seq(WireCmds) /\ (\A x : In(x, wire) => In(x, wire')) /\ (p[1] # "UpToDate" => In(w, wire'))
  BY <1>1, <1>3, AddedOne
<1> HIDE DEF p
<1>5. ASSUME NEW v, Brings(v) PROVE Brings(v)'
  <2>1. CASE \E x \in PlanKinds \X Nat : In(x, plans) /\ x[1] # "UpToDate" /\ x[2] <= v
    <3>1. PICK x \in PlanKinds \X Nat : In(x, plans) /\ x[1] # "UpToDate" /\ x[2] <= v
      BY <2>1
    <3>2. CASE x = p
      BY <1>3, <1>4, <3>1, <3>2 DEF Brings
    <3>3. CASE x # p
      BY <1>2, <3>1, <3>3 DEF Brings
    <3> QED BY <3>2, <3>3
  <2>2. CASE \E x \in WireCmds : In(x, wire) /\ x[1] = "From" /\ x[2] <= v
    BY <1>4, <2>2 DEF Brings
  <2>3. CASE \E c \in CacheCmds : Queued(c) /\ c.op = "IndexHeaders" /\ \E h \in Heads(c) : h.uid = v /\ h.gen = srv.gen
    BY <1>1, <2>3 DEF Brings, Queued, Rests
  <2>4. CASE \E i \in 1..Len(stmts) : stmts[i].st = "message" /\ stmts[i].h.uid = v /\ stmts[i].h.gen = srv.gen
    BY <1>1, <2>4 DEF Brings, Rests
  <2> QED BY <1>5, <2>1, <2>2, <2>3, <2>4 DEF Brings
<1>6. \A v : Leaves(v) => Leaves(v)'
  BY <1>1 DEF Leaves, Queued, Rests
<1>7. ASSUME NEW c \in CacheCmds PROVE Queued(c)' => Queued(c)
  BY <1>1 DEF Queued
<1>8. ServerKnown' /\ Outside
  BY <1>1, <1>5, <1>6, <1>7, SameServer
<1>9. CacheTyped'
  BY <1>0, <1>1, <1>2, <1>4 DEF CacheTyped, TablesTyped, QueuesTyped, Rests
<1>10. QueuesOrdered' /\ Sides' /\ HandKnown'
  BY <1>0, <1>1 DEF QueuesOrdered, Sides, HandKnown, Rests
<1> QED BY <1>8, <1>9, <1>10, OutsideStep

(* An answer becomes a command of the cache, or is dropped and lost. *)
LEMMA PumpNewsStep == ASSUME CacheInv, PumpNews PROVE CacheInv'
<1> DEFINE e == Head(news)
<1>0. CacheTyped /\ QueuesTyped /\ Sides /\ QueuesOrdered /\ HandKnown /\ dbCmds \in Seq(CacheCmds) /\ news \in Seq(CacheCmds)
  BY DEF CacheInv, CacheTyped, QueuesTyped
<1>1. /\ news # <<>> /\ news' = Tail(news) /\ Rests
      /\ \/ Len(dbCmds) < DbQueue /\ dbCmds' = Append(dbCmds, e) /\ spoiled' = spoiled
         \/ spoiled' = spoiled \union {"lost"} /\ dbCmds' = dbCmds
      /\ UNCHANGED <<wire, hand, plans, columns>>
  BY DEF PumpNews, tables, Rests
<1>2. news' \in Seq(CacheCmds) /\ e \in CacheCmds /\ \A x : In(x, news) <=> x = e \/ In(x, news')
  BY <1>0, <1>1, EndsOf
<1>3. InOrder(news') /\ \A d : In(d, news') => InTurn(e, d)
  BY <1>0, <1>1, OrderTail DEF QueuesOrdered
<1>i. Len(dbCmds) \in Nat
  BY <1>0
<1> HIDE DEF e
<1>4. CASE Len(dbCmds) < DbQueue /\ dbCmds' = Append(dbCmds, e) /\ spoiled' = spoiled
  <2>1. dbCmds' \in Seq(CacheCmds) /\ Len(dbCmds') = Len(dbCmds) + 1 /\ \A c : In(c, dbCmds') <=> In(c, dbCmds) \/ c = e
    BY <1>0, <1>2, <1>4, AddedOne
  <2>2. \A c : Queued(c)' <=> Queued(c)
    BY <1>2, <2>1 DEF Queued
  <2>3. \A v : (Brings(v) => Brings(v)') /\ (Leaves(v) => Leaves(v)')
    BY <1>1, <2>2, StillComes DEF Rests
  <2>4. ServerKnown' /\ Outside
    BY <1>1, <1>4, <2>2, <2>3, SameServer
  <2>5. CacheTyped'
    <3>1. Len(dbCmds') <= DbQueue
      BY <1>4, <1>i, <2>1, MailCacheAssumption
    <3> QED BY <1>0, <1>1, <1>2, <1>4, <2>1, <3>1 DEF CacheTyped, TablesTyped, QueuesTyped, Rests
  <2>6. QueuesOrdered'
    <3>1. InOrder(dbCmds) /\ (\A c : In(c, dbCmds) => InTurn(c, e))
      BY <1>0, <1>2 DEF QueuesOrdered, Across
    <3>2. InOrder(dbCmds')
      BY <1>0, <1>2, <1>4, <3>1, OrderAppend
    <3>3. Across(dbCmds', news')
      BY <1>0, <1>2, <1>3, <2>1 DEF Across, QueuesOrdered
    <3> QED BY <1>3, <3>2, <3>3 DEF QueuesOrdered
  <2>7. Sides' /\ HandKnown'
    BY <1>0, <1>1 DEF Sides, HandKnown, Rests
  <2> QED BY <2>4, <2>5, <2>6, <2>7, OutsideStep
<1>5. CASE spoiled' = spoiled \union {"lost"} /\ dbCmds' = dbCmds
  <2>1. ~OnTime'
    BY <1>5 DEF OnTime
  <2>2. ASSUME NEW c \in CacheCmds PROVE Queued(c)' => Queued(c)
    BY <1>2, <1>5 DEF Queued
  <2>3. ServerKnown' /\ Outside
    BY <1>1, <1>5, <2>1, <2>2, SameServer
  <2>4. CacheTyped'
    BY <1>0, <1>1, <1>2, <1>5 DEF CacheTyped, TablesTyped, QueuesTyped, Rests
  <2>5. QueuesOrdered' /\ Sides' /\ HandKnown'
    BY <1>0, <1>1, <1>2, <1>3, <1>5 DEF QueuesOrdered, Across, Sides, HandKnown, Rests
  <2> QED BY <2>3, <2>4, <2>5, OutsideStep
<1> QED BY <1>1, <1>4, <1>5

(* The headers from a UID on. *)
LEMMA FromIs ==
  ASSUME ServerKnown, NEW n \in Nat, NEW s, s = Picked([u \in Uid |-> Header(u)], {u \in srv.uids : u >= n})
  PROVE  /\ s \in Seq(Headers)
         /\ \A x : In(x, s) <=> \E u \in srv.uids : u >= n /\ x = Header(u)
<1> DEFINE all == [u \in Uid |-> Header(u)]
           K == {u \in srv.uids : u >= n}
<1>0. MaxUid \in Nat /\ Uid = 1..MaxUid /\ srv.uids \subseteq Uid
  BY MailCacheAssumption DEF Uid, ServerKnown
<1>1. \A u \in Uid : Header(u) \in Headers
  BY ServerHeader
<1>2. all \in [1..MaxUid -> Headers] /\ \A u \in Uid : all[u] = Header(u)
  BY <1>0, <1>1
<1>3. all \in Seq(Headers) /\ Len(all) = MaxUid
  BY <1>0, <1>2
<1> HIDE DEF all
<1>4. Picked(all, K) \in Seq(Headers) /\ \A x : In(x, Picked(all, K)) <=> \E i \in K \cap 1..Len(all) : all[i] = x
  BY <1>3, PickedIn
<1>5. K \cap 1..Len(all) = K
  BY <1>0, <1>3
<1>6. s = Picked(all, K)
  BY DEF all
<1> HIDE DEF K
<1>7. \A x : In(x, s) <=> \E i \in K : all[i] = x
  BY <1>4, <1>5, <1>6
<1>8. \A i \in K : i \in srv.uids /\ i >= n /\ all[i] = Header(i)
  BY <1>0, <1>2 DEF K
<1>9. \A i \in srv.uids : i >= n => i \in K /\ all[i] = Header(i)
  BY <1>0, <1>2 DEF K
<1> QED BY <1>4, <1>6, <1>7, <1>8, <1>9

(* The IMAP actor took the first command: what it answered, if anything, is
   of the server as it was, and what is gone from there is on its way. *)
Took ==
  /\ wire # <<>> /\ wire' = Tail(wire)
  /\ UNCHANGED <<frontend, hand, dbCmds, stmts, plans, columns, messages, bodies, fts, mailboxRow, spoiled>>
  /\ srv'.gen = srv.gen /\ srv'.next = srv.next /\ srv'.uids \subseteq srv.uids
AnswerOf(c, e) ==
  /\ Fresh(e, srv) /\ Fits(e, srv') /\ Asked(e)
  /\ c[1] = "From" => e.op = "IndexHeaders" /\ \A u \in srv.uids : u >= c[2] => \E h \in Heads(e) : h.uid = u /\ h.gen = srv.gen
  /\ \A u \in srv.uids \ srv'.uids : e.op = "RemoveMessage" /\ \E h \in Heads(e) : h.uid = u /\ h.gen = srv.gen

(* The IMAP actor answers a command: with one that tells what it did, or
   with none. *)
LEMMA TookStep ==
  ASSUME CacheInv, Took, ServerKnown',
         \/ news' = news /\ Head(wire)[1] # "From" /\ srv'.uids = srv.uids
         \/ \E e \in CacheCmds : news' = Append(news, e) /\ AnswerOf(Head(wire), e)
  PROVE  CacheInv'
<1>0. CacheTyped /\ QueuesTyped /\ Sides /\ QueuesOrdered /\ HandKnown /\ Waiting /\ ServerKnown
  BY DEF CacheInv, CacheTyped
<1>1. /\ wire # <<>> /\ wire' = Tail(wire)
      /\ UNCHANGED <<frontend, hand, dbCmds, stmts, plans, columns, messages, bodies, fts, mailboxRow, spoiled>>
      /\ srv'.gen = srv.gen /\ srv'.next = srv.next /\ srv'.uids \subseteq srv.uids
  BY DEF Took
<1>2. wire' \in Seq(WireCmds) /\ Head(wire) \in WireCmds /\ \A w : In(w, wire) <=> w = Head(wire) \/ In(w, wire')
  BY <1>0, <1>1, WireIs
<1>3. news' \in Seq(CacheCmds) /\ QueuesOrdered'
  <2>1. CASE news' = news
    BY <1>0, <1>1, <2>1 DEF QueuesTyped, QueuesOrdered
  <2>2. ASSUME NEW e \in CacheCmds, news' = Append(news, e), AnswerOf(Head(wire), e) PROVE news' \in Seq(CacheCmds) /\ QueuesOrdered'
    <3>1. Fresh(e, srv)
      BY <2>2 DEF AnswerOf
    <3> QED BY <1>0, <1>1, <2>2, <3>1, Emits
  <2> QED BY <2>1, <2>2
<1>4. /\ \A c : Queued(c) => Queued(c)'
      /\ \A c \in CacheCmds : Queued(c)' => Queued(c) \/ (Fresh(c, srv) /\ Fits(c, srv') /\ Asked(c))
  <2>1. CASE news' = news
    BY <1>1, <2>1 DEF Queued
  <2>2. ASSUME NEW e \in CacheCmds, news' = Append(news, e), AnswerOf(Head(wire), e)
        PROVE  /\ \A c : Queued(c) => Queued(c)'
               /\ \A c \in CacheCmds : Queued(c)' => Queued(c) \/ (Fresh(c, srv) /\ Fits(c, srv') /\ Asked(c))
    <3>1. Fresh(e, srv) /\ Fits(e, srv') /\ Asked(e)
      BY <2>2 DEF AnswerOf
    <3>2. \A c : Queued(c)' <=> Queued(c) \/ c = e
      BY <1>0, <1>1, <2>2, <3>1, Emits
    <3> QED BY <3>1, <3>2
  <2> QED BY <2>1, <2>2
<1>5. ASSUME NEW u \in srv.uids, Brings(u) PROVE Brings(u)'
  <2>1. CASE \E p \in PlanKinds \X Nat : In(p, plans) /\ p[1] # "UpToDate" /\ p[2] <= u
    BY <1>1, <2>1 DEF Brings
  <2>2. CASE \E w \in WireCmds : In(w, wire) /\ w[1] = "From" /\ w[2] <= u
    <3>1. PICK w \in WireCmds : In(w, wire) /\ w[1] = "From" /\ w[2] <= u
      BY <2>2
    <3>2. CASE In(w, wire')
      BY <3>1, <3>2 DEF Brings
    <3>3. CASE w = Head(wire)
      <4>1. PICK e \in CacheCmds : news' = Append(news, e) /\ AnswerOf(w, e)
        BY <3>1, <3>3
      <4>2. Fresh(e, srv) /\ e.op = "IndexHeaders"
        BY <3>1, <4>1 DEF AnswerOf
      <4>3. w[2] \in Nat /\ u \in Nat
        BY <1>0, <3>1, Numbers DEF WireCmds
      <4>4. u >= w[2]
        BY <3>1, <4>3
      <4>5. \E h \in Heads(e) : h.uid = u /\ h.gen = srv'.gen
        BY <1>1, <3>1, <4>1, <4>4 DEF AnswerOf
      <4>6. Queued(e)'
        BY <1>0, <1>1, <4>1, <4>2, Emits
      <4> QED BY <4>2, <4>5, <4>6 DEF Brings
    <3> QED BY <1>2, <3>1, <3>2, <3>3
  <2>3. CASE \E c \in CacheCmds : Queued(c) /\ c.op = "IndexHeaders" /\ \E h \in Heads(c) : h.uid = u /\ h.gen = srv.gen
    BY <1>1, <1>4, <2>3 DEF Brings
  <2>4. CASE \E i \in 1..Len(stmts) : stmts[i].st = "message" /\ stmts[i].h.uid = u /\ stmts[i].h.gen = srv.gen
    BY <1>1, <2>4 DEF Brings
  <2> QED BY <1>5, <2>1, <2>2, <2>3, <2>4 DEF Brings
<1>6. \A u : Leaves(u) => Leaves(u)'
  BY <1>1, <1>4 DEF Leaves
<1>7. ASSUME NEW u \in srv.uids, u \notin srv'.uids PROVE Leaves(u)'
  <2>1. PICK e \in CacheCmds : news' = Append(news, e) /\ AnswerOf(Head(wire), e)
    BY <1>7
  <2>2. Fresh(e, srv) /\ e.op = "RemoveMessage" /\ \E h \in Heads(e) : h.uid = u /\ h.gen = srv'.gen
    BY <1>1, <1>7, <2>1 DEF AnswerOf
  <2>3. Queued(e)'
    BY <1>0, <1>1, <2>1, <2>2, Emits
  <2> QED BY <2>2, <2>3 DEF Leaves
<1>8. Outside
  <2>1. srv'.gen >= srv.gen /\ srv'.next >= srv.next
    BY <1>0, <1>1, Numbers
  <2>2. \A u \in Uid \ srv'.uids : u \in srv.uids \/ Leaves(u) => Leaves(u)'
    BY <1>6, <1>7
  <2> QED BY <1>1, <1>4, <1>5, <2>1, <2>2 DEF Outside
<1>9. CacheTyped'
  BY <1>0, <1>1, <1>2, <1>3 DEF CacheTyped, TablesTyped, QueuesTyped
<1>10. Sides' /\ HandKnown'
  BY <1>0, <1>1, <1>2 DEF Sides, HandKnown
<1> QED BY <1>3, <1>8, <1>9, <1>10, OutsideStep

(* The answer to a listing, ... *)
LEMMA ListAnswer ==
  ASSUME CacheInv, Took, srv' = srv, Head(wire)[1] = "List", news' = news \o Answer(Head(wire))
  PROVE  \E e \in CacheCmds : news' = Append(news, e) /\ AnswerOf(Head(wire), e)
<1> DEFINE c == Head(wire)
<1>0. ServerKnown /\ frontend \in {"core", "win32"} /\ news \in Seq(CacheCmds) /\ MaxUid \in Nat /\ CacheTyped
  BY MailCacheAssumption DEF CacheInv, CacheTyped, QueuesTyped
<1>1. CASE frontend = "core"
  <2> DEFINE e == DbCmd("ReportMailboxState", <<>>, srv.gen, srv.next)
  <2>1. Answer(c) = <<e>>
    BY <1>1 DEF Answer
  <2>2. "ReportMailboxState" \in CmdKinds /\ "ReportMailboxState" \notin OfOne /\ <<>> \in Seq(Headers)
        /\ srv.gen \in {0, 1, 2} /\ srv.gen # 0 /\ srv.next \in Nat
    BY <1>0 DEF CmdKinds, OfOne, ServerKnown, Gens
  <2>3. e \in CacheCmds /\ e.op = "ReportMailboxState" /\ e.hs = <<>> /\ e.gen = srv.gen /\ e.next = srv.next
    BY <2>2 DEF DbCmd, CacheCmds
  <2> HIDE DEF e
  <2>4. Heads(e) = {}
    BY <2>3 DEF Heads
  <2>5. Fresh(e, srv) /\ Fits(e, srv') /\ Asked(e)
    BY <1>1, <2>2, <2>3, <2>4 DEF Fresh, Fits, MovesKnown, Asked, Listings
  <2>6. AnswerOf(c, e)
    BY <2>5 DEF AnswerOf
  <2>7. news \o <<e>> = Append(news, e)
    BY <1>0
  <2> QED BY <2>1, <2>3, <2>6, <2>7
<1>2. CASE frontend = "win32"
  <2> DEFINE s == Picked([u \in Uid |-> Header(u)], {u \in srv.uids : u >= 1})
             e == DbCmd("IndexHeadersSearchable", s, 0, 0)
  <2>1. Answer(c) = <<e>>
    BY <1>2 DEF Answer
  <2>2. s \in Seq(Headers) /\ \A x : In(x, s) <=> \E u \in srv.uids : u >= 1 /\ x = Header(u)
    BY <1>0, FromIs
  <2> HIDE DEF s
  <2>3. "IndexHeadersSearchable" \in CmdKinds /\ "IndexHeadersSearchable" \notin OfOne
    BY DEF CmdKinds, OfOne, Listings
  <2>4. e \in CacheCmds /\ e.op = "IndexHeadersSearchable" /\ e.hs = s
    BY <2>2, <2>3 DEF DbCmd, CacheCmds
  <2> HIDE DEF e
  <2>5. \A h \in Heads(e) : \E u \in srv.uids : h = Header(u)
    BY <2>2, <2>4 DEF Heads, In
  <2>6. \A h \in Heads(e) : h.gen = srv.gen /\ h.uid \in srv.uids
    BY <1>0, <2>5, ServerHeader DEF ServerKnown
  <2>7. srv.gen \in Nat
    BY <1>0, Numbers
  <2>8. Fresh(e, srv) /\ Fits(e, srv') /\ Asked(e)
    BY <1>2, <2>4, <2>6, <2>7 DEF Fresh, Fits, MovesKnown, Asked
  <2>9. AnswerOf(c, e)
    BY <2>8 DEF AnswerOf
  <2>10. news \o <<e>> = Append(news, e)
    BY <1>0
  <2> QED BY <2>1, <2>4, <2>9, <2>10
<1> QED BY <1>0, <1>1, <1>2

(* ... to a fetch, ... *)
LEMMA FromAnswer ==
  ASSUME CacheInv, Took, srv' = srv, Head(wire)[1] = "From", news' = news \o Answer(Head(wire))
  PROVE  \E e \in CacheCmds : news' = Append(news, e) /\ AnswerOf(Head(wire), e)
<1> DEFINE c == Head(wire)
           s == Picked([u \in Uid |-> Header(u)], {u \in srv.uids : u >= c[2]})
           e == DbCmd("IndexHeaders", s, 0, 0)
<1>0. ServerKnown /\ Sides /\ frontend \in {"core", "win32"} /\ news \in Seq(CacheCmds) /\ MaxUid \in Nat /\ CacheTyped /\ QueuesTyped
  BY MailCacheAssumption DEF CacheInv, CacheTyped, QueuesTyped
<1>1. c \in WireCmds /\ In(c, wire)
  BY <1>0, WireIs DEF Took
<1>2. c[2] \in Nat
  <2>1. MaxUid \in Nat
    BY <1>0
  <2> QED BY <1>1, <2>1 DEF WireCmds, Uid
<1>3. frontend = "core"
  BY <1>0, <1>1 DEF Sides
<1>4. Answer(c) = <<e>>
  BY DEF Answer
<1>5. s \in Seq(Headers) /\ \A x : In(x, s) <=> \E u \in srv.uids : u >= c[2] /\ x = Header(u)
  BY <1>0, <1>2, FromIs
<1> HIDE DEF s
<1>6. "IndexHeaders" \in CmdKinds /\ "IndexHeaders" \notin OfOne
  BY DEF CmdKinds, OfOne, Listings
<1>7. e \in CacheCmds /\ e.op = "IndexHeaders" /\ e.hs = s
  BY <1>5, <1>6 DEF DbCmd, CacheCmds
<1> HIDE DEF e
<1>8. \A x : x \in Heads(e) <=> \E u \in srv.uids : u >= c[2] /\ x = Header(u)
  <2>1. \A x : x \in Heads(e) <=> In(x, s)
    BY <1>7 DEF Heads, In
  <2> QED BY <1>5, <2>1
<1>9. srv.uids \subseteq Uid
  BY <1>0 DEF ServerKnown
<1>10. \A u \in srv.uids : Header(u).gen = srv.gen /\ Header(u).uid = u
  BY <1>0, <1>9, ServerHeader
<1>11. \A h \in Heads(e) : h.gen = srv.gen /\ h.uid \in srv.uids
  BY <1>8, <1>10
<1>12. srv.gen \in Nat
  BY <1>0, Numbers
<1>13. Fresh(e, srv) /\ Fits(e, srv') /\ Asked(e)
  BY <1>3, <1>7, <1>11, <1>12 DEF Fresh, Fits, MovesKnown, Asked
<1>14. ASSUME NEW u \in srv.uids, u >= c[2] PROVE \E h \in Heads(e) : h.uid = u /\ h.gen = srv.gen
  <2>1. Header(u) \in Heads(e)
    BY <1>8, <1>14
  <2> QED BY <1>10, <2>1
<1>15. AnswerOf(c, e)
  BY <1>7, <1>13, <1>14 DEF AnswerOf
<1>16. news \o <<e>> = Append(news, e)
  BY <1>0
<1> QED BY <1>4, <1>7, <1>15, <1>16

(* ... to a message being read or moved. *)
LEMMA OneAnswer ==
  ASSUME CacheInv, Took, Head(wire)[1] \in {"Read", "Move"}, Head(wire)[2] \in srv.uids, news' = news \o Answer(Head(wire)),
         srv'.uids = IF Head(wire)[1] = "Move" THEN srv.uids \ {Head(wire)[2]} ELSE srv.uids
  PROVE  \E e \in CacheCmds : news' = Append(news, e) /\ AnswerOf(Head(wire), e)
<1> DEFINE c == Head(wire)
           u == c[2]
           h == IF c[1] = "Read" THEN [Header(u) EXCEPT !.seen = TRUE] ELSE Header(u)
           op == IF c[1] = "Read" THEN "UpdateFlags" ELSE "RemoveMessage"
           e == DbCmd(op, <<h>>, 0, 0)
<1>0. ServerKnown /\ news \in Seq(CacheCmds) /\ CacheTyped /\ srv.uids \subseteq Uid
  BY DEF CacheInv, CacheTyped, QueuesTyped, ServerKnown
<1>1. Answer(c) = <<e>>
  BY DEF Answer
<1>2. Header(u) \in Headers /\ Header(u).gen = srv.gen /\ Header(u).uid = u
  BY <1>0, ServerHeader
<1>3. h \in Headers /\ h.gen = srv.gen /\ h.uid = u
  BY <1>2 DEF Headers
<1> HIDE DEF h
<1>4. op \in CmdKinds /\ op \in OfOne /\ op # "ReportMailboxState" /\ op \notin Listings /\ <<h>> \in Seq(Headers) /\ Len(<<h>>) = 1
  BY <1>3 DEF CmdKinds, OfOne, Listings
<1>5. (op = "RemoveMessage" <=> c[1] = "Move") /\ c[1] # "From" /\ op # "IndexHeaders" /\ op # "IndexHeadersSearchable"
  OBVIOUS
<1> HIDE DEF op
<1>6. e \in CacheCmds /\ e.op = op /\ e.hs = <<h>>
  BY <1>4 DEF DbCmd, CacheCmds
<1> HIDE DEF e
<1>7. Heads(e) = {h}
  <2>1. Len(e.hs) = 1 /\ e.hs[1] = h
    BY <1>6
  <2> QED BY <2>1 DEF Heads
<1>8. srv'.gen = srv.gen /\ srv'.next = srv.next /\ srv.gen \in Nat /\ u < srv.next
  BY <1>0, Numbers DEF Took, ServerKnown
<1>9. c[1] = "Move" => u \notin srv'.uids
  OBVIOUS
<1>10. Fresh(e, srv) /\ Fits(e, srv') /\ Asked(e)
  BY <1>3, <1>4, <1>5, <1>6, <1>7, <1>8, <1>9 DEF Fresh, Fits, MovesKnown, Asked
<1>11. \A v \in srv.uids \ srv'.uids : v = u /\ c[1] = "Move"
  OBVIOUS
<1>12. AnswerOf(c, e)
  BY <1>3, <1>5, <1>6, <1>7, <1>10, <1>11 DEF AnswerOf
<1>13. news \o <<e>> = Append(news, e)
  BY <1>0
<1> QED BY <1>1, <1>6, <1>12, <1>13

(* Every answer of the IMAP actor is one of these. *)
LEMMA ImapStepStep == ASSUME CacheInv, ImapStep PROVE CacheInv'
<1> DEFINE c == Head(wire)
<1>0. ServerKnown /\ news \in Seq(CacheCmds) /\ CacheTyped /\ QueuesTyped /\ srv.uids \subseteq Uid
  BY DEF CacheInv, CacheTyped, QueuesTyped, ServerKnown
<1>1. /\ wire # <<>> /\ news' = news \o Answer(c) /\ wire' = Tail(wire)
      /\ srv' = CASE c[1] = "Read" -> [srv EXCEPT !.seen = @ \union ({c[2]} \cap srv.uids)]
                  [] c[1] = "Move" -> [srv EXCEPT !.uids = @ \ {c[2]}, !.seen = @ \ {c[2]}]
                  [] OTHER -> srv
      /\ UNCHANGED <<frontend, hand, dbCmds, stmts, plans, columns, messages, bodies, fts, mailboxRow, spoiled>>
  BY DEF ImapStep, tables
<1>2. c \in WireCmds
  BY <1>0, <1>1, WireIs
<1>3. c[1] \in {"List", "Read", "Move", "From"}
  BY <1>2 DEF WireCmds
<1>4. srv \in [gen : Gens, next : 1..(MaxUid + 1), uids : SUBSET Uid, seen : SUBSET Uid]
  BY <1>0 DEF ServerKnown
<1>5. /\ srv'.gen = srv.gen /\ srv'.next = srv.next
      /\ srv'.uids = IF c[1] = "Move" THEN srv.uids \ {c[2]} ELSE srv.uids
      /\ srv'.seen \subseteq srv'.uids
      /\ srv' \in [gen : Gens, next : 1..(MaxUid + 1), uids : SUBSET Uid, seen : SUBSET Uid]
      /\ c[1] \in {"List", "From"} => srv' = srv
  <2>0. srv.seen \subseteq srv.uids
    BY <1>0 DEF ServerKnown
  <2>1. CASE c[1] = "Read"
    <3>1. srv' = [srv EXCEPT !.seen = srv.seen \union ({c[2]} \cap srv.uids)]
      BY <1>1, <2>1
    <3>2. srv.seen \union ({c[2]} \cap srv.uids) \in SUBSET Uid
      BY <1>4
    <3> QED BY <1>4, <2>0, <2>1, <3>1, <3>2
  <2>2. CASE c[1] = "Move"
    <3>1. srv' = [srv EXCEPT !.uids = srv.uids \ {c[2]}, !.seen = srv.seen \ {c[2]}]
      BY <1>1, <2>2
    <3> QED BY <1>4, <2>0, <2>2, <3>1
  <2>3. CASE c[1] \in {"List", "From"}
    <3>1. srv' = srv
      BY <1>1, <2>3
    <3> QED BY <1>4, <2>0, <2>3, <3>1
  <2> QED BY <1>3, <2>1, <2>2, <2>3
<1>6. ServerKnown'
  BY <1>0, <1>5 DEF ServerKnown
<1>7. Took
  BY <1>1, <1>5 DEF Took
<1>8. CASE c[1] = "List"
  BY <1>1, <1>5, <1>6, <1>7, <1>8, ListAnswer, TookStep
<1>9. CASE c[1] = "From"
  BY <1>1, <1>5, <1>6, <1>7, <1>9, FromAnswer, TookStep
<1>10. CASE c[1] \in {"Read", "Move"} /\ c[2] \in srv.uids
  BY <1>1, <1>5, <1>6, <1>7, <1>10, OneAnswer, TookStep
<1>11. CASE c[1] \in {"Read", "Move"} /\ c[2] \notin srv.uids
  <2>1. Answer(c) = <<>>
    BY <1>11 DEF Answer
  <2>2. news' = news
    BY <1>0, <1>1, <2>1
  <2>3. srv'.uids = srv.uids /\ c[1] # "From"
    BY <1>5, <1>11
  <2> QED BY <1>6, <1>7, <2>2, <2>3, TookStep
<1> QED BY <1>3, <1>8, <1>9, <1>10, <1>11

(* Between commands all tables agree. *)
LEMMA IdleAgrees == ASSUME Doing, stmts = <<>> PROVE AllAgree
<1>1. ASSUME NEW h \in Headers, Flags(h) \/ Mail1(h) \/ Mail2(h) \/ Mail3(h) \/ Mail4(h) \/ Mail5(h) \/ Move1(h) \/ Move2(h) \/ Move3(h)
      PROVE  FALSE
  BY <1>1 DEF Flags, Mail1, Mail2, Mail3, Mail4, Mail5, Move1, Move2, Move3
<1>2. ~(Forget1 \/ Forget2 \/ Forget3 \/ Forget4)
  BY DEF Forget1, Forget2, Forget3, Forget4
<1>3. ASSUME NEW g \in Gens, NEW m \in Nat, Report1(g, m) \/ Report2(g, m) \/ Report3(g, m) \/ Report4(g, m) PROVE FALSE
  BY <1>3 DEF Report1, Report2, Report3, Report4
<1> QED BY <1>1, <1>2, <1>3 DEF Doing, Listing

(* A crash: what it lost is recorded. *)
LEMMA CrashStep == ASSUME CacheInv, CacheCrash PROVE CacheInv'
<1>0. CacheTyped /\ ServerKnown /\ Sides /\ TablesKnown /\ Doing /\ QueuesTyped /\ TablesTyped
  BY DEF CacheInv, CacheTyped
<1>1. /\ wire' = <<>> /\ hand' = {} /\ news' = <<>> /\ dbCmds' = <<>> /\ stmts' = <<>> /\ plans' = <<>>
      /\ spoiled' = spoiled \union (IF stmts # <<>> THEN {"torn", "lost"}
                                    ELSE IF <<wire, news, dbCmds, plans>> # <<<<>>, <<>>, <<>>, <<>>>> THEN {"lost"} ELSE {})
      /\ UNCHANGED <<frontend, srv, columns, messages, bodies, fts, mailboxRow>>
  BY DEF CacheCrash, tables
<1>2. \A x : ~In(x, <<>>)
  BY DEF In
<1>3. CacheTyped'
  BY <1>0, <1>1, MailCacheAssumption DEF CacheTyped, TablesTyped, QueuesTyped
<1>4. ServerKnown' /\ Sides' /\ HandKnown' /\ TablesKnown'
  BY <1>0, <1>1, <1>2 DEF ServerKnown, Sides, HandKnown, TablesKnown
<1>5. Waiting' /\ QueuesOrdered' /\ MovedFollow'
  BY <1>1, <1>2 DEF Waiting, QueuesOrdered, InOrder, Across, MovedFollow, Queued
<1>6. AllAgree'
  <2>1. CASE stmts # <<>>
    <3>1. ~Whole' /\ ~Clean' /\ ~OnTime'
      BY <1>1, <2>1 DEF Whole, Clean, OnTime
    <3> QED BY <3>1 DEF AllAgree, Indexed, Capped, BodiesKnown, Joined, Fetched, MovedLeave
  <2>2. CASE stmts = <<>>
    <3>1. AllAgree
      BY <1>0, <2>2, IdleAgrees
    <3>2. (Whole' => Whole) /\ (Clean' => Clean) /\ (OnTime' => OnTime)
      BY <1>1 DEF Whole, Clean, OnTime
    <3>3. Indexed({})' /\ Capped' /\ BodiesKnown' /\ Joined({})'
      BY <1>1, <3>1, <3>2 DEF AllAgree, Indexed, Matched, Capped, BodiesKnown, Joined, HasBody
    <3>4. ASSUME OnTime' PROVE wire = <<>> /\ news = <<>> /\ dbCmds = <<>> /\ plans = <<>>
      BY <1>1, <2>2, <3>4 DEF OnTime
    <3>5. OnTime' => UNCHANGED <<wire, news, dbCmds, plans, stmts, srv>>
      BY <1>1, <2>2, <3>4
    <3>6. OnTime' => \A u : (Brings(u) => Brings(u)') /\ (Leaves(u) => Leaves(u)')
      BY <3>5 DEF Brings, Leaves, Queued
    <3>7. Fetched' /\ MovedLeave({})'
      BY <1>1, <3>1, <3>2, <3>6 DEF AllAgree, Fetched, MovedLeave
    <3> QED BY <3>3, <3>7 DEF AllAgree
  <2> QED BY <2>1, <2>2
<1>7. Doing'
  <2>1. stmts' \in Seq(HeaderSteps) /\ Len(stmts') = 0
    BY <1>1
  <2> QED BY <1>6, <2>1 DEF Doing, Listing
<1> QED BY <1>3, <1>4, <1>5, <1>7 DEF CacheInv

-----------------------------------------------------------------------------
(* The cache actor takes a command. *)

Taking(c) ==
  /\ c = Head(dbCmds) /\ c \in CacheCmds /\ Queued(c)
  /\ dbCmds' = Tail(dbCmds) /\ stmts = <<>> /\ stmts' = Statements(c) /\ columns = LateColumns
  /\ plans' = IF c.op = "ReportMailboxState" THEN Append(plans, SyncDecision(c.gen, c.next)) ELSE plans
  /\ spoiled' = IF c.op = "IndexMail" THEN spoiled \union Untimely(c.hs[1]) ELSE spoiled
  /\ UNCHANGED <<frontend, srv, wire, hand, news, columns, messages, bodies, fts, mailboxRow>>

(* A command is taken: it was the first, and those left are in order. *)
LEMMA TakesFirst ==
  ASSUME CacheInv, TakeCommand
  PROVE  \E c \in CacheCmds : /\ Taking(c) /\ (\A x : Queued(x)' => Queued(x)) /\ (\A x : Queued(x) => x = c \/ Queued(x)')
                              /\ dbCmds' \in Seq(CacheCmds) /\ Len(dbCmds') <= DbQueue /\ QueuesOrdered'
                              /\ \A d : Queued(d)' => InTurn(c, d)
<1> DEFINE c == Head(dbCmds)
<1>0. dbCmds \in Seq(CacheCmds) /\ QueuesOrdered /\ Len(dbCmds) \in Nat /\ Len(dbCmds) <= DbQueue
  BY DEF CacheInv, CacheTyped, QueuesTyped
<1>1. dbCmds # <<>>
  BY DEF TakeCommand
<1>2. /\ Tail(dbCmds) \in Seq(CacheCmds) /\ c \in CacheCmds /\ Len(Tail(dbCmds)) = Len(dbCmds) - 1
      /\ \A x : In(x, dbCmds) <=> x = c \/ In(x, Tail(dbCmds))
  BY <1>0, <1>1, EndsOf
<1>3. Taking(c)
  BY <1>2 DEF TakeCommand, Taking, tables, Queued
<1>4. dbCmds' = Tail(dbCmds) /\ news' = news
  BY <1>3 DEF Taking
<1>5. (\A x : Queued(x)' => Queued(x)) /\ (\A x : Queued(x) => x = c \/ Queued(x)')
  BY <1>2, <1>4 DEF Queued
<1>6. InOrder(Tail(dbCmds)) /\ \A d : In(d, Tail(dbCmds)) => InTurn(c, d)
  BY <1>0, <1>1, OrderTail DEF QueuesOrdered
<1>7. QueuesOrdered'
  BY <1>0, <1>2, <1>4, <1>6 DEF QueuesOrdered, Across
<1>8. \A d : In(d, news) => InTurn(c, d)
  BY <1>0, <1>2 DEF QueuesOrdered, Across
<1>9. \A d : Queued(d)' => InTurn(c, d)
  BY <1>4, <1>6, <1>8 DEF Queued
<1>10. Len(dbCmds') <= DbQueue
  BY <1>0, <1>2, <1>4, MailCacheAssumption
<1> QED BY <1>2, <1>3, <1>4, <1>5, <1>7, <1>9, <1>10

(* The plan of a report. *)
LEMMA PlanIs ==
  ASSUME CacheTyped, NEW g \in Gens, NEW m \in Nat
  PROVE  LET p == SyncDecision(g, m) IN
         /\ p \in PlanKinds \X Nat
         /\ \/ mailboxRow = <<0, 0>> /\ p[1] # "Resync" /\ (m > 1 => p[1] # "UpToDate" /\ p[2] = 1)
            \/ mailboxRow[1] # g /\ mailboxRow[1] # 0 /\ p = <<"Resync", 1>>
            \/ mailboxRow[1] = g /\ p[1] # "Resync" /\ (m > mailboxRow[2] => p[1] # "UpToDate" /\ p[2] = mailboxRow[2])
<1>1. mailboxRow = <<0, 0>> \/ (mailboxRow[1] \in Gens /\ mailboxRow[2] \in Nat)
  BY DEF CacheTyped, TablesTyped
<1> QED BY <1>1 DEF SyncDecision, PlanKinds, Gens

(* What a step that takes a command leaves as it is. *)
LEMMA TakeRest ==
  ASSUME CacheInv, NEW c \in CacheCmds, Taking(c), \A x : Queued(x)' => Queued(x), \A x : Queued(x) => x = c \/ Queued(x)',
         dbCmds' \in Seq(CacheCmds), Len(dbCmds') <= DbQueue, \A d : Queued(d)' => InTurn(c, d)
  PROVE  /\ CacheTyped' /\ ServerKnown' /\ Sides' /\ Waiting' /\ HandKnown' /\ TablesKnown' /\ MovedFollow'
         /\ Indexed({})' /\ Capped' /\ BodiesKnown' /\ Joined({})'
         /\ (\A u \in Uid : OnTime' /\ c.op # "RemoveMessage" /\ Leaves(u) => Leaves(u)')
         /\ (c.op # "RemoveMessage" => MovedLeave({})')
<1>0. CacheTyped /\ ServerKnown /\ Sides /\ TablesKnown /\ Doing /\ QueuesTyped /\ TablesTyped /\ Waiting /\ HandKnown /\ MovedFollow
  BY DEF CacheInv, CacheTyped
<1>1. /\ dbCmds' = Tail(dbCmds) /\ stmts = <<>> /\ columns = LateColumns
      /\ plans' = (IF c.op = "ReportMailboxState" THEN Append(plans, SyncDecision(c.gen, c.next)) ELSE plans)
      /\ spoiled' = (IF c.op = "IndexMail" THEN spoiled \union Untimely(c.hs[1]) ELSE spoiled)
      /\ UNCHANGED <<frontend, srv, wire, hand, news, columns, messages, bodies, fts, mailboxRow>>
  BY DEF Taking
<1>2. AllAgree
  BY <1>0, <1>1, IdleAgrees
<1>3. spoiled \subseteq spoiled' /\ spoiled' \subseteq {"torn", "lost", "late", "early"} /\ (Whole' => Whole) /\ (Clean' => Clean) /\ (OnTime' => OnTime)
  BY <1>0, <1>1 DEF Whole, Clean, OnTime, Untimely, CacheTyped
<1>4. plans' \in Seq(PlanKinds \X Nat)
  <2>1. ASSUME c.op = "ReportMailboxState" PROVE SyncDecision(c.gen, c.next) \in PlanKinds \X Nat
    <3>1. c.gen \in Gens /\ c.next \in Nat
      BY <2>1 DEF CacheCmds, Gens
    <3> QED BY <1>0, <3>1, PlanIs
  <2>2. plans \in Seq(PlanKinds \X Nat)
    BY <1>0 DEF QueuesTyped
  <2> QED BY <1>1, <2>1, <2>2
<1>5. CacheTyped'
  BY <1>0, <1>1, <1>3, <1>4 DEF CacheTyped, TablesTyped, QueuesTyped
<1>6. ServerKnown' /\ HandKnown' /\ TablesKnown'
  BY <1>0, <1>1 DEF ServerKnown, HandKnown, TablesKnown
<1>7. Asked(c) /\ Fits(c, srv)
  BY <1>0 DEF Waiting, Taking
<1>8. Sides'
  BY <1>0, <1>1, <1>7 DEF Sides, Asked
<1>9. Waiting'
  BY <1>0, <1>1 DEF Waiting, Asked
<1>10. Indexed({})' /\ Capped' /\ BodiesKnown' /\ Joined({})'
  BY <1>1, <1>2, <1>3 DEF AllAgree, Indexed, Matched, Capped, BodiesKnown, Joined, HasBody
<1>11. ASSUME NEW u \in Uid, c.op # "RemoveMessage", Leaves(u) PROVE Leaves(u)'
  <2>1. PICK d \in CacheCmds : Queued(d) /\ d.op = "RemoveMessage" /\ \E h \in Heads(d) : h.uid = u /\ h.gen = srv.gen
    BY <1>11 DEF Leaves
  <2>2. Queued(d)'
    BY <1>11, <2>1
  <2> QED BY <1>1, <2>1, <2>2 DEF Leaves
<1>12. c.op # "RemoveMessage" => MovedLeave({})'
  BY <1>1, <1>2, <1>3, <1>11 DEF AllAgree, MovedLeave
<1>13. MovedFollow'
  <2> SUFFICES ASSUME OnTime', NEW d \in CacheCmds, Queued(d)', d.op \in Listings, NEW h \in Heads(d), h.gen = srv.gen, h.uid \notin srv.uids
               PROVE  Leaves(h.uid)'
    BY <1>1 DEF MovedFollow
  <2>1. Leaves(h.uid) /\ h.uid \in Uid
    BY <1>0, <1>3, HeadsTyped, HeaderTyped DEF MovedFollow
  <2>2. PICK e \in CacheCmds : Queued(e) /\ e.op = "RemoveMessage" /\ \E k \in Heads(e) : k.uid = h.uid /\ k.gen = srv.gen
    BY <2>1 DEF Leaves
  <2>3. e # c
    <3>1. ASSUME e = c PROVE FALSE
      <4>1. InTurn(c, d) /\ c.op = "RemoveMessage"
        BY <2>2, <3>1
      <4> QED BY <2>2, <3>1, <4>1 DEF InTurn
    <3> QED BY <3>1
  <2>4. Queued(e)'
    BY <2>2, <2>3
  <2> QED BY <1>1, <2>2, <2>4 DEF Leaves
<1> QED BY <1>5, <1>6, <1>8, <1>9, <1>10, <1>11, <1>12, <1>13

(* A list of statements given one by one. *)
Each(sts, h, g, n) == [i \in 1..Len(sts) |-> Stmt(sts[i], h, g, n)]
(* The statements of a command written out: one, ... *)
LEMMA OneByOne ==
  ASSUME NEW h, NEW g, NEW n, NEW a
  PROVE  Each(<<a>>, h, g, n) = <<Stmt(a, h, g, n)>>
BY DEF Each
(* ... three, ... *)
LEMMA ThreeByThree ==
  ASSUME NEW h, NEW g, NEW n, NEW a, NEW b, NEW c
  PROVE  Each(<<a, b, c>>, h, g, n) = <<Stmt(a, h, g, n), Stmt(b, h, g, n), Stmt(c, h, g, n)>>
BY DEF Each
(* ... four ... *)
LEMMA FourByFour ==
  ASSUME NEW h, NEW g, NEW n, NEW a, NEW b, NEW c, NEW d
  PROVE  Each(<<a, b, c, d>>, h, g, n) = <<Stmt(a, h, g, n), Stmt(b, h, g, n), Stmt(c, h, g, n), Stmt(d, h, g, n)>>
BY DEF Each
(* ... or five. *)
LEMMA FiveByFive ==
  ASSUME NEW h, NEW g, NEW n, NEW a, NEW b, NEW c, NEW d, NEW e
  PROVE  Each(<<a, b, c, d, e>>, h, g, n) = <<Stmt(a, h, g, n), Stmt(b, h, g, n), Stmt(c, h, g, n), Stmt(d, h, g, n), Stmt(e, h, g, n)>>
BY DEF Each

(* Two lists joined: the elements of the one, then of the other. *)
LEMMA Joins ==
  ASSUME NEW E, NEW s \in Seq(E), NEW t \in Seq(E)
  PROVE  /\ s \o t \in Seq(E) /\ Len(s \o t) = Len(s) + Len(t)
         /\ \A i \in 1..Len(s) : (s \o t)[i] = s[i]
         /\ \A i \in 1..Len(t) : (s \o t)[Len(s) + i] = t[i]
OBVIOUS

(* Three elements and one, ... *)
LEMMA ThreeAndOne ==
  ASSUME NEW E, NEW s \in Seq(E), NEW t \in Seq(E), Len(s) = 3, Len(t) = 1
  PROVE  s \o t = <<s[1], s[2], s[3], t[1]>>
<1> DEFINE r == s \o t
<1>1. r \in Seq(E) /\ Len(r) = 4 /\ r[1] = s[1] /\ r[2] = s[2] /\ r[3] = s[3] /\ r[4] = t[1]
  <2>1. /\ r \in Seq(E) /\ Len(r) = Len(s) + Len(t)
        /\ \A i \in 1..Len(s) : r[i] = s[i]
        /\ \A i \in 1..Len(t) : r[Len(s) + i] = t[i]
    BY ONLY s \in Seq(E), t \in Seq(E), Joins
  <2> HIDE DEF r
  <2>2. 1 \in 1..Len(s) /\ 2 \in 1..Len(s) /\ 3 \in 1..Len(s) /\ 1 \in 1..Len(t) /\ Len(s) + 1 = 4 /\ Len(s) + Len(t) = 4
    OBVIOUS
  <2> QED BY <2>1, <2>2
<1> HIDE DEF r
<1>2. r = <<r[1], r[2], r[3], r[4]>>
  BY <1>1
<1> QED BY <1>1, <1>2 DEF r

(* ... written out. *)
LEMMA ThenOne == ASSUME NEW a, NEW b, NEW c, NEW d PROVE <<a, b, c>> \o <<d>> = <<a, b, c, d>>
<1>1. <<a, b, c>> \in Seq({a, b, c, d}) /\ <<d>> \in Seq({a, b, c, d}) /\ Len(<<a, b, c>>) = 3 /\ Len(<<d>>) = 1
  OBVIOUS
<1>2. <<a, b, c>> \o <<d>> = <<<<a, b, c>>[1], <<a, b, c>>[2], <<a, b, c>>[3], <<d>>[1]>>
  BY <1>1, ThreeAndOne
<1> QED BY <1>2

(* The statements of each command. *)
LEMMA StatementsAre ==
  ASSUME NEW c \in CacheCmds
  PROVE  /\ c.op = "IndexHeaders" => Statements(c) = [i \in 1..Len(c.hs) |-> Do("message", c.hs[i])]
         /\ c.op = "IndexHeadersSearchable" => Statements(c) = [i \in 1..Len(c.hs) |-> Do("searchable", c.hs[i])]
         /\ c.op = "IndexMail" =>
              Statements(c) = <<Do("message", c.hs[1]), Do("body", c.hs[1]), Do("unindex", c.hs[1]), Do("index", c.hs[1]), Do("evict", c.hs[1])>>
         /\ c.op = "UpdateFlags" => Statements(c) = <<Do("flags", c.hs[1])>>
         /\ c.op = "RemoveMessage" => Statements(c) = <<Do("unmessage", c.hs[1]), Do("unbody", c.hs[1]), Do("unindex", c.hs[1])>>
         /\ c.op = "RemoveAccount" =>
              Statements(c) = <<Do("clear messages", NoHeader), Do("clear bodies", NoHeader), Do("clear fts", NoHeader), Do("clear mailbox", NoHeader)>>
         /\ c.op = "ReportMailboxState" =>
              Statements(c) = IF SyncDecision(c.gen, c.next)[1] = "Resync"
                              THEN <<Tell("clear messages", c.gen, c.next), Tell("clear bodies", c.gen, c.next), Tell("clear fts", c.gen, c.next),
                                     Tell("mailbox", c.gen, c.next)>>
                              ELSE <<Tell("mailbox", c.gen, c.next)>>
<1>0. c.op # "ReportMailboxState" => c.gen = 0 /\ c.next = 0
  BY DEF CacheCmds
<1>1. ASSUME c.op = "IndexHeaders" PROVE Statements(c) = [i \in 1..Len(c.hs) |-> Do("message", c.hs[i])]
  BY <1>1 DEF Statements, Do
<1>2. ASSUME c.op = "IndexHeadersSearchable" PROVE Statements(c) = [i \in 1..Len(c.hs) |-> Do("searchable", c.hs[i])]
  BY <1>2 DEF Statements, Do
<1>3. ASSUME c.op = "IndexMail"
      PROVE Statements(c) = <<Do("message", c.hs[1]), Do("body", c.hs[1]), Do("unindex", c.hs[1]), Do("index", c.hs[1]), Do("evict", c.hs[1])>>
  <2>1. Statements(c) = Each(<<"message", "body", "unindex", "index", "evict">>, c.hs[1], c.gen, c.next)
    BY <1>3 DEF Statements, Each
  <2> QED BY <1>0, <1>3, <2>1, FiveByFive DEF Do
<1>4. ASSUME c.op = "UpdateFlags" PROVE Statements(c) = <<Do("flags", c.hs[1])>>
  <2>1. Statements(c) = Each(<<"flags">>, c.hs[1], c.gen, c.next)
    BY <1>4 DEF Statements, Each
  <2> QED BY <1>0, <1>4, <2>1, OneByOne DEF Do
<1>5. ASSUME c.op = "RemoveMessage" PROVE Statements(c) = <<Do("unmessage", c.hs[1]), Do("unbody", c.hs[1]), Do("unindex", c.hs[1])>>
  <2>1. Statements(c) = Each(<<"unmessage", "unbody", "unindex">>, c.hs[1], c.gen, c.next)
    BY <1>5 DEF Statements, Each
  <2> QED BY <1>0, <1>5, <2>1, ThreeByThree DEF Do
<1>6. ASSUME c.op = "RemoveAccount"
      PROVE Statements(c) = <<Do("clear messages", NoHeader), Do("clear bodies", NoHeader), Do("clear fts", NoHeader), Do("clear mailbox", NoHeader)>>
  <2>1. Statements(c) = Each(<<"clear messages", "clear bodies", "clear fts", "clear mailbox">>, NoHeader, c.gen, c.next)
    BY <1>6 DEF Statements, Each
  <2>2. Statements(c) = <<Stmt("clear messages", NoHeader, c.gen, c.next), Stmt("clear bodies", NoHeader, c.gen, c.next),
                          Stmt("clear fts", NoHeader, c.gen, c.next), Stmt("clear mailbox", NoHeader, c.gen, c.next)>>
    <3> DEFINE m == "clear messages"
               b == "clear bodies"
               f == "clear fts"
               l == "clear mailbox"
    <3>1. Statements(c) = Each(<<m, b, f, l>>, NoHeader, c.gen, c.next)
      BY <2>1
    <3> HIDE DEF m, b, f, l
    <3>2. Statements(c) = <<Stmt(m, NoHeader, c.gen, c.next), Stmt(b, NoHeader, c.gen, c.next), Stmt(f, NoHeader, c.gen, c.next),
                            Stmt(l, NoHeader, c.gen, c.next)>>
      BY <3>1, FourByFour
    <3> QED BY <3>2 DEF m, b, f, l
  <2> QED BY <1>0, <1>6, <2>2 DEF Do
<1>7. ASSUME c.op = "ReportMailboxState", SyncDecision(c.gen, c.next)[1] = "Resync"
      PROVE Statements(c) = <<Tell("clear messages", c.gen, c.next), Tell("clear bodies", c.gen, c.next), Tell("clear fts", c.gen, c.next),
                              Tell("mailbox", c.gen, c.next)>>
  <2>1. <<"clear messages", "clear bodies", "clear fts">> \o <<"mailbox">> = <<"clear messages", "clear bodies", "clear fts", "mailbox">>
    BY ThenOne
  <2>2. Statements(c) = Each(<<"clear messages", "clear bodies", "clear fts", "mailbox">>, NoHeader, c.gen, c.next)
    BY <1>7, <2>1 DEF Statements, Each
  <2>3. Statements(c) = <<Stmt("clear messages", NoHeader, c.gen, c.next), Stmt("clear bodies", NoHeader, c.gen, c.next),
                          Stmt("clear fts", NoHeader, c.gen, c.next), Stmt("mailbox", NoHeader, c.gen, c.next)>>
    <3> DEFINE m == "clear messages"
               b == "clear bodies"
               f == "clear fts"
               l == "mailbox"
    <3>1. Statements(c) = Each(<<m, b, f, l>>, NoHeader, c.gen, c.next)
      BY <2>2
    <3> HIDE DEF m, b, f, l
    <3>2. Statements(c) = <<Stmt(m, NoHeader, c.gen, c.next), Stmt(b, NoHeader, c.gen, c.next), Stmt(f, NoHeader, c.gen, c.next),
                            Stmt(l, NoHeader, c.gen, c.next)>>
      BY <3>1, FourByFour
    <3> QED BY <3>2 DEF m, b, f, l
  <2> QED BY <2>3 DEF Tell
<1>8. ASSUME c.op = "ReportMailboxState", SyncDecision(c.gen, c.next)[1] # "Resync" PROVE Statements(c) = <<Tell("mailbox", c.gen, c.next)>>
  <2>1. <<>> \o <<"mailbox">> = <<"mailbox">>
    OBVIOUS
  <2>2. Statements(c) = Each(<<"mailbox">>, NoHeader, c.gen, c.next)
    BY <1>8, <2>1 DEF Statements, Each
  <2> QED BY <1>8, <2>2, OneByOne DEF Tell
<1> QED BY <1>1, <1>2, <1>3, <1>4, <1>5, <1>6, <1>7, <1>8

(* A command taken does not lose a fetch. *)
LEMMA TakeBrings ==
  ASSUME CacheInv, NEW c \in CacheCmds, Taking(c), \A x : Queued(x) => x = c \/ Queued(x)',
         NEW u, Brings(u), c.op = "IndexHeaders" => \A h \in Heads(c) : \E i \in 1..Len(stmts') : stmts'[i].st = "message" /\ stmts'[i].h = h
  PROVE  Brings(u)'
<1>1. /\ stmts = <<>> /\ srv' = srv /\ wire' = wire
      /\ plans' = (IF c.op = "ReportMailboxState" THEN Append(plans, SyncDecision(c.gen, c.next)) ELSE plans)
  BY DEF Taking
<1>2. CASE \E p \in PlanKinds \X Nat : In(p, plans) /\ p[1] # "UpToDate" /\ p[2] <= u
  <2>1. \A p : In(p, plans) => In(p, plans')
    <3>1. ASSUME c.op = "ReportMailboxState" PROVE \A p : In(p, plans) => In(p, plans')
      <4>1. c.gen \in Gens /\ c.next \in Nat /\ CacheTyped
        BY <3>1 DEF CacheCmds, Gens, CacheInv
      <4>2. SyncDecision(c.gen, c.next) \in PlanKinds \X Nat /\ plans \in Seq(PlanKinds \X Nat)
        BY <4>1, PlanIs DEF CacheTyped, QueuesTyped
      <4> QED BY <1>1, <3>1, <4>2, AddedOne
    <3> QED BY <1>1, <3>1
  <2> QED BY <1>2, <2>1 DEF Brings
<1>3. CASE \E w \in WireCmds : In(w, wire) /\ w[1] = "From" /\ w[2] <= u
  BY <1>1, <1>3 DEF Brings
<1>4. CASE \E d \in CacheCmds : Queued(d) /\ d.op = "IndexHeaders" /\ \E h \in Heads(d) : h.uid = u /\ h.gen = srv.gen
  <2>1. PICK d \in CacheCmds : Queued(d) /\ d.op = "IndexHeaders" /\ \E h \in Heads(d) : h.uid = u /\ h.gen = srv.gen
    BY <1>4
  <2>2. CASE Queued(d)'
    BY <1>1, <2>1, <2>2 DEF Brings
  <2>3. CASE d = c
    BY <1>1, <2>1, <2>3 DEF Brings
  <2> QED BY <2>1, <2>2, <2>3
<1>5. ~\E i \in 1..Len(stmts) : stmts[i].st = "message" /\ stmts[i].h.uid = u /\ stmts[i].h.gen = srv.gen
  BY <1>1
<1> QED BY <1>2, <1>3, <1>4, <1>5 DEF Brings

TakenRight(c) ==
  /\ Taking(c) /\ (\A x : Queued(x)' => Queued(x)) /\ (\A x : Queued(x) => x = c \/ Queued(x)') /\ \A d : Queued(d)' => InTurn(c, d)
  /\ Indexed({})' /\ Capped' /\ BodiesKnown' /\ Joined({})'
  /\ (\A u \in Uid : OnTime' /\ c.op # "RemoveMessage" /\ Leaves(u) => Leaves(u)')
  /\ (c.op # "RemoveMessage" => MovedLeave({})')
  /\ AllAgree /\ spoiled \subseteq spoiled' /\ UNCHANGED <<frontend, srv, messages, bodies, fts, mailboxRow>>

(* What was to be fetched is there or comes. *)
LEMMA TakeFetched ==
  ASSUME CacheInv, NEW c \in CacheCmds, TakenRight(c),
         c.op = "IndexHeaders" => \A h \in Heads(c) : \E i \in 1..Len(stmts') : stmts'[i].st = "message" /\ stmts'[i].h = h
  PROVE  Fetched'
<1>1. Taking(c) /\ (\A x : Queued(x) => x = c \/ Queued(x)') /\ Fetched /\ (OnTime' => OnTime)
      /\ UNCHANGED <<frontend, srv, messages, bodies, fts, mailboxRow>>
  BY DEF TakenRight, AllAgree, OnTime
<1>2. \A u : Brings(u) => Brings(u)'
  BY <1>1, TakeBrings
<1> QED BY <1>1, <1>2 DEF Fetched

(* A listing starts: its headers are due. *)
LEMMA TakeListing == ASSUME CacheInv, NEW c \in CacheCmds, TakenRight(c), c.op \in Listings PROVE Listing'
<1>1. /\ stmts' = Statements(c) /\ Queued(c) /\ UNCHANGED <<frontend, srv, messages, bodies, fts, mailboxRow>> /\ (OnTime' => OnTime)
      /\ c.hs \in Seq(Headers) /\ frontend \in {"core", "win32"}
  BY DEF TakenRight, Taking, CacheCmds, OnTime, CacheInv, CacheTyped
<1>2. Waiting /\ MovedFollow
  BY DEF CacheInv
<1>3. Fits(c, srv) /\ Since(c, mailboxRow[1]) /\ Asked(c) /\ \A u \in Uid : ListsSince(c, bodies[u].gen)
  BY <1>1, <1>2 DEF Waiting
<1> DEFINE st == IF frontend = "core" THEN "message" ELSE "searchable"
<1>4. c.op = IF frontend = "core" THEN "IndexHeaders" ELSE "IndexHeadersSearchable"
  BY <1>1, <1>3 DEF Asked, Listings
<1>5. stmts' = [i \in 1..Len(c.hs) |-> Do(st, c.hs[i])] /\ st \in {"message", "searchable"}
  BY <1>1, <1>4, StatementsAre
<1> HIDE DEF st
<1>6. Len(c.hs) \in Nat /\ \A i \in 1..Len(c.hs) : c.hs[i] \in Headers /\ c.hs[i] \in Heads(c)
  BY <1>1 DEF Heads
<1>7. stmts' \in Seq(HeaderSteps) /\ Len(stmts') = Len(c.hs) /\ \A i \in 1..Len(c.hs) : stmts'[i] = Do(st, c.hs[i])
  <2>1. \A i \in 1..Len(c.hs) : Do(st, c.hs[i]) \in HeaderSteps
    BY <1>5, <1>6 DEF HeaderSteps
  <2> QED BY <1>5, <1>6, <2>1
<1>8. ASSUME NEW i \in 1..Len(stmts') PROVE HeaderDue(stmts[i])'
  <2> DEFINE h == c.hs[i]
  <2>1. h \in Headers /\ h \in Heads(c) /\ stmts'[i] = Do(st, h) /\ h.uid \in Uid
    BY <1>6, <1>7, HeaderTyped
  <2> HIDE DEF h
  <2>2. h.gen <= srv.gen /\ h.gen >= mailboxRow[1] /\ \A u \in Uid : h.gen >= bodies[u].gen
    BY <1>3, <2>1 DEF Fits, Since, ListsSince, Listings
  <2>3. ASSUME OnTime', h.gen = srv.gen, h.uid \notin srv.uids PROVE Leaves(h.uid)'
    <3>1. Leaves(h.uid)
      BY <1>1, <1>2, <2>1, <2>3 DEF MovedFollow
    <3> QED BY <2>1, <2>3, <3>1 DEF TakenRight, Listings
  <2> QED BY <1>1, <2>1, <2>2, <2>3 DEF HeaderDue, st
<1>9. c.op = "IndexHeaders" => \A h \in Heads(c) : \E i \in 1..Len(stmts') : stmts'[i].st = "message" /\ stmts'[i].h = h
  <2> SUFFICES ASSUME c.op = "IndexHeaders", NEW h \in Heads(c) PROVE \E i \in 1..Len(stmts') : stmts'[i].st = "message" /\ stmts'[i].h = h
    OBVIOUS
  <2>1. PICK i \in 1..Len(c.hs) : c.hs[i] = h
    BY DEF Heads
  <2>2. stmts'[i] = Do(st, h) /\ st = "message"
    BY <1>4, <1>7, <2>1 DEF st
  <2>3. stmts'[i].st = "message" /\ stmts'[i].h = h
    BY <2>2 DEF Do, Stmt
  <2> QED BY <1>7, <2>1, <2>3
<1>10. Fetched'
  BY <1>9, TakeFetched
<1>11. AllAgree'
  BY <1>10 DEF TakenRight, AllAgree, Listings
<1> QED BY <1>7, <1>8, <1>11 DEF Listing

(* A command about one message starts. *)
LEMMA TakeOfOne ==
  ASSUME CacheInv, NEW c \in CacheCmds, TakenRight(c), c.op \in OfOne
  PROVE  (Flags(c.hs[1]) \/ Mail1(c.hs[1]) \/ Move1(c.hs[1]))' /\ c.hs[1] \in Headers
<1> DEFINE h == c.hs[1]
<1>1. /\ stmts' = Statements(c) /\ Queued(c) /\ UNCHANGED <<frontend, srv, messages, bodies, fts, mailboxRow>> /\ (OnTime' => OnTime)
      /\ h \in Headers /\ Heads(c) = {h} /\ c.op # "IndexHeaders" /\ h' = h
  BY OneHeader DEF TakenRight, Taking, OnTime, OfOne
<1>2. Waiting /\ CacheTyped /\ ServerKnown
  BY DEF CacheInv
<1>3. Fits(c, srv) /\ Since(c, mailboxRow[1])
  BY <1>1, <1>2 DEF Waiting
<1>4. Fetched'
  BY <1>1, TakeFetched
<1>5. h.gen <= srv.gen /\ h.gen \in Nat /\ mailboxRow[1] \in Nat
  BY <1>1, <1>2, <1>3, HeaderTyped, Numbers DEF Fits
<1>6. CASE c.op = "UpdateFlags"
  <2>1. stmts' = <<Do("flags", h)>>
    BY <1>1, <1>6, StatementsAre
  <2>2. AllAgree'
    BY <1>4, <1>6 DEF TakenRight, AllAgree
  <2> QED BY <1>1, <2>1, <2>2 DEF Flags
<1>7. CASE c.op = "IndexMail"
  <2>1. stmts' = <<Do("message", h), Do("body", h), Do("unindex", h), Do("index", h), Do("evict", h)>>
    BY <1>1, <1>7, StatementsAre
  <2>2. AllAgree'
    BY <1>4, <1>7 DEF TakenRight, AllAgree
  <2>3. spoiled' = spoiled \cup Untimely(h)
    BY <1>7 DEF TakenRight, Taking
  <2>4. "late" \notin spoiled' => h.gen >= mailboxRow[1] /\ ~(h.gen = srv.gen /\ h.uid \notin srv.uids)
    BY <1>5, <2>3 DEF Untimely
  <2>5. Clean' => mailboxRow[1] # 0
    BY <2>3 DEF Untimely, Clean
  <2>6. \A d \in CacheCmds : Queued(d)' => ListsSince(d, h.gen)
    BY <1>1, <1>7 DEF TakenRight, InTurn
  <2>7. MailKnown(h)'
    BY <1>1, <1>5, <2>4, <2>5, <2>6 DEF MailKnown
  <2>8. OnTime' => "late" \notin spoiled'
    BY DEF OnTime
  <2> QED BY <1>1, <2>1, <2>2, <2>4, <2>7, <2>8 DEF Mail1
<1>8. CASE c.op = "RemoveMessage"
  <2>1. stmts' = <<Do("unmessage", h), Do("unbody", h), Do("unindex", h)>>
    BY <1>1, <1>8, StatementsAre
  <2>2. h.gen >= mailboxRow[1] /\ (h.gen = srv.gen => h.uid \notin srv.uids /\ h.uid < srv.next)
    BY <1>1, <1>3, <1>8 DEF Since, Fits, MovesKnown
  <2>3. MovedLeave({h.uid})'
    <3> SUFFICES ASSUME OnTime', NEW u \in Uid \ (srv.uids \cup {h.uid}), messages[u].gen = srv.gen PROVE Leaves(u)'
      BY <1>1 DEF MovedLeave
    <3>1. Leaves(u)
      BY <1>1 DEF TakenRight, AllAgree, MovedLeave
    <3>2. PICK d \in CacheCmds : Queued(d) /\ d.op = "RemoveMessage" /\ \E k \in Heads(d) : k.uid = u /\ k.gen = srv.gen
      BY <3>1 DEF Leaves
    <3>3. d # c
      BY <1>1, <3>2
    <3>4. Queued(d)'
      BY <3>2, <3>3 DEF TakenRight
    <3> QED BY <1>1, <3>2, <3>4 DEF Leaves
  <2> QED BY <1>1, <1>4, <1>5, <2>1, <2>2, <2>3 DEF Move1, TakenRight
<1> QED BY <1>1, <1>6, <1>7, <1>8 DEF OfOne

(* An account starts to be forgotten. *)
LEMMA TakeForget == ASSUME CacheInv, NEW c \in CacheCmds, TakenRight(c), c.op = "RemoveAccount" PROVE Forget1'
<1>1. stmts' = <<Do("clear messages", NoHeader), Do("clear bodies", NoHeader), Do("clear fts", NoHeader), Do("clear mailbox", NoHeader)>>
  BY StatementsAre DEF TakenRight, Taking
<1> QED BY <1>1 DEF Forget1, TakenRight

(* A report starts: the mailbox is wiped first, or recorded at once, and a
   fetch is planned for what is missing. *)
LEMMA TakeReport ==
  ASSUME CacheInv, NEW c \in CacheCmds, TakenRight(c), c.op = "ReportMailboxState"
  PROVE  (Report1(c.gen, c.next) \/ Report4(c.gen, c.next))' /\ c.gen \in Gens /\ c.next \in Nat
<1> DEFINE g == c.gen
           m == c.next
           p == SyncDecision(g, m)
<1>1. /\ stmts' = Statements(c) /\ Queued(c) /\ UNCHANGED <<frontend, srv, messages, bodies, fts, mailboxRow>> /\ (OnTime' => OnTime)
      /\ (Clean' => Clean) /\ plans' = Append(plans, p) /\ g \in Gens /\ m \in Nat /\ g \in Nat \ {0} /\ g' = g /\ m' = m
  BY DEF TakenRight, Taking, OnTime, Clean, CacheCmds, Gens
<1>2. Waiting /\ CacheTyped /\ ServerKnown /\ frontend \in {"core", "win32"} /\ plans \in Seq(PlanKinds \X Nat)
  BY DEF CacheInv, CacheTyped, QueuesTyped
<1>3. Fits(c, srv) /\ Since(c, mailboxRow[1]) /\ Asked(c)
  BY <1>1, <1>2 DEF Waiting
<1>4. ReportKnown(g, m)'
  <2>1. \A d \in CacheCmds : Queued(d)' => Since(d, g)
    BY DEF TakenRight, InTurn
  <2> QED BY <1>1, <1>2, <1>3, <2>1 DEF ReportKnown, Fits, Since, Asked
<1>5. Indexed({})' /\ Capped' /\ BodiesKnown' /\ Joined({})' /\ MovedLeave({})' /\ Fetched /\ BodiesKnown
  BY DEF TakenRight, AllAgree
<1>6. /\ p \in PlanKinds \X Nat
      /\ \/ mailboxRow = <<0, 0>> /\ p[1] # "Resync" /\ (m > 1 => p[1] # "UpToDate" /\ p[2] = 1)
         \/ mailboxRow[1] # g /\ mailboxRow[1] # 0 /\ p = <<"Resync", 1>>
         \/ mailboxRow[1] = g /\ p[1] # "Resync" /\ (m > mailboxRow[2] => p[1] # "UpToDate" /\ p[2] = mailboxRow[2])
  BY <1>1, <1>2, PlanIs
<1>7. p[2] \in Nat /\ In(p, plans')
  BY <1>1, <1>2, <1>6, AddedOne
<1>8. /\ p[1] = "Resync" => stmts' = <<Tell("clear messages", g, m), Tell("clear bodies", g, m), Tell("clear fts", g, m), Tell("mailbox", g, m)>>
      /\ p[1] # "Resync" => stmts' = <<Tell("mailbox", g, m)>>
  BY <1>1, StatementsAre
<1> HIDE DEF p
<1>n. srv.uids \subseteq Uid /\ Uid \subseteq Nat /\ (\A u \in Uid : u >= 1) /\ mailboxRow[2] \in Nat
  BY <1>2, Numbers DEF Uid
<1>9. \A u \in Nat : p[1] # "UpToDate" /\ p[2] <= u => Brings(u)'
  BY <1>6, <1>7 DEF Brings
<1>10. \A u : Brings(u) => Brings(u)'
  BY TakeBrings DEF TakenRight
<1>11. CASE mailboxRow[1] # g /\ mailboxRow[1] # 0 /\ p = <<"Resync", 1>>
  <2>1. Planned(g, m)'
    <3>1. ASSUME NEW u \in srv.uids PROVE Brings(u)'
      <4>1. u \in Nat /\ 1 <= u
        BY <1>n
      <4> QED BY <1>9, <1>11, <4>1
    <3> QED BY <1>1, <3>1 DEF Planned
  <2>2. Report1(g, m)'
    BY <1>1, <1>4, <1>5, <1>8, <1>11, <2>1 DEF Report1
  <2> QED BY <1>1, <2>2
<1>12. CASE mailboxRow = <<0, 0>> /\ p[1] # "Resync" /\ (m > 1 => p[1] # "UpToDate" /\ p[2] = 1)
  <2>1. ASSUME NEW u \in srv.uids, u < m PROVE Brings(u)'
    <3>1. u \in Nat /\ 1 <= u /\ m > 1
      <4>1. u \in Uid /\ u \in Nat /\ u >= 1 /\ m \in Nat /\ u < m
        BY <1>1, <1>n, <2>1
      <4>2. \A a, b \in Nat : a >= 1 /\ a < b => 1 <= a /\ b > 1
        OBVIOUS
      <4> QED BY ONLY <4>1, <4>2
    <3> QED BY <1>9, <1>12, <3>1
  <2>2. Clean' => NoBodies'
    <3>1. mailboxRow[1] = 0
      BY <1>12
    <3>2. Clean => \A u \in Uid : bodies[u] = NoRow
      BY <1>5, <3>1 DEF BodiesKnown, HasBody
    <3>3. bodies \in [Uid -> CacheRows]
      BY <1>2 DEF CacheTyped, TablesTyped
    <3> QED BY <1>1, <3>2, <3>3 DEF NoBodies
  <2>3. Report4(g, m)'
    BY <1>1, <1>4, <1>5, <1>8, <1>12, <2>1, <2>2 DEF Report4
  <2> QED BY <1>1, <2>3
<1>13. CASE mailboxRow[1] = g /\ p[1] # "Resync" /\ (m > mailboxRow[2] => p[1] # "UpToDate" /\ p[2] = mailboxRow[2])
  <2>1. ASSUME OnTime', g = srv.gen, NEW u \in srv.uids, u < m PROVE messages[u].gen = srv.gen \/ Brings(u)'
    <3>1. u \in Nat
      BY <1>n
    <3>2. CASE u < mailboxRow[2]
      <4>1. frontend = "core"
        BY <1>2, <1>3 DEF Asked
      <4> QED BY <1>1, <1>5, <1>10, <1>13, <2>1, <3>2, <4>1 DEF Fetched
    <3>3. CASE ~(u < mailboxRow[2])
      <4>1. mailboxRow[2] <= u /\ m > mailboxRow[2]
        BY <1>1, <1>n, <2>1, <3>1, <3>3
      <4> QED BY <1>9, <1>13, <3>1, <4>1
    <3> QED BY <3>2, <3>3
  <2>2. Report4(g, m)'
    BY <1>1, <1>4, <1>5, <1>8, <1>13, <2>1 DEF Report4
  <2> QED BY <1>1, <2>2
<1> QED BY <1>6, <1>11, <1>12, <1>13

(* A command is taken. *)
LEMMA TakeCommandStep == ASSUME CacheInv, TakeCommand PROVE CacheInv'
<1>1. PICK c \in CacheCmds : /\ Taking(c) /\ (\A x : Queued(x)' => Queued(x)) /\ (\A x : Queued(x) => x = c \/ Queued(x)')
                             /\ dbCmds' \in Seq(CacheCmds) /\ Len(dbCmds') <= DbQueue /\ QueuesOrdered'
                             /\ \A d : Queued(d)' => InTurn(c, d)
  BY TakesFirst
<1>2. /\ CacheTyped' /\ ServerKnown' /\ Sides' /\ Waiting' /\ HandKnown' /\ TablesKnown' /\ MovedFollow'
      /\ Indexed({})' /\ Capped' /\ BodiesKnown' /\ Joined({})'
      /\ (\A u \in Uid : OnTime' /\ c.op # "RemoveMessage" /\ Leaves(u) => Leaves(u)')
      /\ (c.op # "RemoveMessage" => MovedLeave({})')
  BY <1>1, TakeRest
<1>3. AllAgree /\ spoiled \subseteq spoiled' /\ UNCHANGED <<frontend, srv, messages, bodies, fts, mailboxRow>>
  BY <1>1, IdleAgrees DEF Taking, CacheInv
<1>4. TakenRight(c)
  BY <1>1, <1>2, <1>3 DEF TakenRight
<1>5. Doing'
  <2>1. CASE c.op \in Listings
    BY <1>4, <2>1, TakeListing DEF Doing
  <2>2. CASE c.op \in OfOne
    <3>1. (Flags(c.hs[1]) \/ Mail1(c.hs[1]) \/ Move1(c.hs[1]))' /\ c.hs[1] \in Headers
      BY <1>4, <2>2, TakeOfOne
    <3> QED BY <3>1 DEF Doing
  <2>3. CASE c.op = "RemoveAccount"
    BY <1>4, <2>3, TakeForget DEF Doing
  <2>4. CASE c.op = "ReportMailboxState"
    BY <1>4, <2>4, TakeReport DEF Doing
  <2> QED BY <2>1, <2>2, <2>3, <2>4 DEF CacheCmds, CmdKinds
<1> QED BY <1>1, <1>2, <1>5 DEF CacheInv

-----------------------------------------------------------------------------
(* The cache actor runs a statement. *)

Ran(s) ==
  /\ stmts # <<>> /\ s = Head(stmts) /\ stmts' = Tail(stmts)
  /\ messages' = RunMessages(s) /\ bodies' \in RunBodies(s) /\ fts' = RunFts(s)
  /\ mailboxRow' = CASE s.st = "mailbox" -> <<s.gen, s.next>>
                     [] s.st = "clear mailbox" -> <<0, 0>>
                     [] OTHER -> mailboxRow
  /\ UNCHANGED <<frontend, srv, wire, hand, news, dbCmds, plans, columns, spoiled>>

(* The statement that runs is the first. *)
LEMMA Runs == ASSUME RunStatement PROVE Ran(Head(stmts))
BY DEF RunStatement, Ran

Only(m, b, f, r) == (m => messages' = messages) /\ (b => bodies' = bodies) /\ (f => fts' = fts) /\ (r => mailboxRow' = mailboxRow)

(* What each statement does. *)
LEMMA RanMessage ==
  ASSUME NEW s, Ran(s), s.st = "message"
  PROVE  messages' = [messages EXCEPT ![s.h.uid] = Row(s.h.gen, s.h.seen, 0)] /\ Only(FALSE, TRUE, TRUE, TRUE)
BY DEF Ran, RunMessages, RunBodies, RunFts, Only
(* A header of a page, with an index row when it was not known. *)
LEMMA RanSearchable ==
  ASSUME NEW s, Ran(s), s.st = "searchable"
  PROVE  /\ messages' = [messages EXCEPT ![s.h.uid] = Row(s.h.gen, s.h.seen, 0)]
         /\ fts' = (IF messages[s.h.uid] = NoRow THEN [fts EXCEPT ![s.h.uid] = @ + 1] ELSE fts)
         /\ Only(FALSE, TRUE, FALSE, TRUE)
BY DEF Ran, RunMessages, RunBodies, RunFts, Only
(* Flags are written where there is a header. *)
LEMMA RanFlags ==
  ASSUME NEW s, Ran(s), s.st = "flags"
  PROVE  /\ messages' = (IF messages[s.h.uid] # NoRow THEN [messages EXCEPT ![s.h.uid].seen = s.h.seen] ELSE messages)
         /\ Only(FALSE, TRUE, TRUE, TRUE)
BY DEF Ran, RunMessages, RunBodies, RunFts, Only
(* A body, at this second or the next. *)
LEMMA RanBody ==
  ASSUME NEW s, Ran(s), s.st = "body"
  PROVE  (\E at \in {0, 1} : bodies' = [bodies EXCEPT ![s.h.uid] = Row(s.h.gen, FALSE, at)]) /\ Only(TRUE, FALSE, TRUE, TRUE)
BY DEF Ran, RunMessages, RunBodies, RunFts, Only, Second
(* An index row goes, ... *)
LEMMA RanUnindex ==
  ASSUME NEW s, Ran(s), s.st = "unindex"
  PROVE  fts' = [fts EXCEPT ![s.h.uid] = 0] /\ Only(TRUE, TRUE, FALSE, TRUE)
BY DEF Ran, RunMessages, RunBodies, RunFts, Only
(* ... one comes. *)
LEMMA RanIndex ==
  ASSUME NEW s, Ran(s), s.st = "index"
  PROVE  fts' = [fts EXCEPT ![s.h.uid] = @ + 1] /\ Only(TRUE, TRUE, FALSE, TRUE)
BY DEF Ran, RunMessages, RunBodies, RunFts, Only
(* The oldest bodies go. *)
LEMMA RanEvict ==
  ASSUME NEW s, Ran(s), s.st = "evict"
  PROVE  bodies' \in Evict(bodies) /\ Only(TRUE, FALSE, TRUE, TRUE)
BY DEF Ran, RunMessages, RunBodies, RunFts, Only
(* A header goes ... *)
LEMMA RanUnmessage ==
  ASSUME NEW s, Ran(s), s.st = "unmessage"
  PROVE  messages' = [messages EXCEPT ![s.h.uid] = NoRow] /\ Only(FALSE, TRUE, TRUE, TRUE)
BY DEF Ran, RunMessages, RunBodies, RunFts, Only
(* ... and a body. *)
LEMMA RanUnbody ==
  ASSUME NEW s, Ran(s), s.st = "unbody"
  PROVE  bodies' = [bodies EXCEPT ![s.h.uid] = NoRow] /\ Only(TRUE, FALSE, TRUE, TRUE)
BY DEF Ran, RunMessages, RunBodies, RunFts, Only
(* All headers go, ... *)
LEMMA RanClearMessages ==
  ASSUME NEW s, Ran(s), s.st = "clear messages"
  PROVE  messages' = [u \in Uid |-> NoRow] /\ Only(FALSE, TRUE, TRUE, TRUE)
BY DEF Ran, RunMessages, RunBodies, RunFts, Only
(* ... all bodies, ... *)
LEMMA RanClearBodies ==
  ASSUME NEW s, Ran(s), s.st = "clear bodies"
  PROVE  bodies' = [u \in Uid |-> NoRow] /\ Only(TRUE, FALSE, TRUE, TRUE)
BY DEF Ran, RunMessages, RunBodies, RunFts, Only
(* ... all rows of the index. *)
LEMMA RanClearFts ==
  ASSUME NEW s, Ran(s), s.st = "clear fts"
  PROVE  fts' = [u \in Uid |-> 0] /\ Only(TRUE, TRUE, FALSE, TRUE)
BY DEF Ran, RunMessages, RunBodies, RunFts, Only
(* What the mailbox is is recorded ... *)
LEMMA RanMailbox ==
  ASSUME NEW s, Ran(s), s.st = "mailbox"
  PROVE  mailboxRow' = <<s.gen, s.next>> /\ Only(TRUE, TRUE, TRUE, FALSE)
BY DEF Ran, RunMessages, RunBodies, RunFts, Only
(* ... and forgotten. *)
LEMMA RanClearMailbox ==
  ASSUME NEW s, Ran(s), s.st = "clear mailbox"
  PROVE  mailboxRow' = <<0, 0>> /\ Only(TRUE, TRUE, TRUE, FALSE)
BY DEF Ran, RunMessages, RunBodies, RunFts, Only

(* A row there is has a generation. *)
LEMMA RowsAre ==
  ASSUME TablesTyped
  PROVE  /\ \A u \in Uid : messages[u] = NoRow <=> messages[u].gen = 0
         /\ \A u \in Uid : bodies[u] = NoRow <=> bodies[u].gen = 0
         /\ NoRow.gen = 0
<1>1. \A r \in CacheRows : r = NoRow <=> r.gen = 0
  BY DEF CacheRows, NoRow, Gens
<1> QED BY <1>1 DEF TablesTyped, NoRow

(* A row written from a header. *)
LEMMA RowTyped ==
  ASSUME NEW h \in Headers, NEW b \in BOOLEAN, NEW at \in {0, 1}
  PROVE  Row(h.gen, b, at) \in CacheRows /\ Row(h.gen, b, at).gen = h.gen /\ Row(h.gen, b, at) # NoRow /\ h.seen \in BOOLEAN
BY DEF Row, CacheRows, Headers, NoRow, Gens

(* The statements left are a list. *)
LEMMA DoingSeq == ASSUME Doing PROVE \E E : stmts \in Seq(E)
<1>1. ASSUME NEW a PROVE <<a>> \in Seq({a})
  OBVIOUS
<1>2. ASSUME NEW a, NEW b PROVE <<a, b>> \in Seq({a, b})
  OBVIOUS
<1>3. ASSUME NEW a, NEW b, NEW c PROVE <<a, b, c>> \in Seq({a, b, c})
  OBVIOUS
<1>4. ASSUME NEW a, NEW b, NEW c, NEW d PROVE <<a, b, c, d>> \in Seq({a, b, c, d})
  OBVIOUS
<1>5. ASSUME NEW a, NEW b, NEW c, NEW d, NEW e PROVE <<a, b, c, d, e>> \in Seq({a, b, c, d, e})
  OBVIOUS
<1>6. CASE Listing
  BY <1>6 DEF Listing
<1>7. ASSUME NEW h \in Headers, Flags(h) \/ Mail1(h) \/ Mail2(h) \/ Mail3(h) \/ Mail4(h) \/ Mail5(h) \/ Move1(h) \/ Move2(h) \/ Move3(h)
      PROVE  \E E : stmts \in Seq(E)
  <2>1. CASE Flags(h) \/ Mail5(h) \/ Move3(h)
    BY <1>1, <2>1, Zenon DEF Flags, Mail5, Move3
  <2>2. ASSUME NEW a, NEW b, stmts = <<a, b>> PROVE \E E : stmts \in Seq(E)
    BY <1>2, <2>2, Zenon
  <2>3. ASSUME NEW a, NEW b, NEW c, stmts = <<a, b, c>> PROVE \E E : stmts \in Seq(E)
    BY <1>3, <2>3, Zenon
  <2>6. CASE Mail4(h)
    BY <2>2, <2>6, Zenon DEF Mail4
  <2>7. CASE Move2(h)
    BY <2>2, <2>7, Zenon DEF Move2
  <2>8. CASE Mail3(h)
    BY <2>3, <2>8, Zenon DEF Mail3
  <2>9. CASE Move1(h)
    BY <2>3, <2>9, Zenon DEF Move1
  <2>4. CASE Mail2(h)
    BY <1>4, <2>4, Zenon DEF Mail2
  <2>5. CASE Mail1(h)
    BY <1>5, <2>5, Zenon DEF Mail1
  <2> QED BY <1>7, <2>1, <2>4, <2>5, <2>6, <2>7, <2>8, <2>9
<1>8. CASE Forget1 \/ Forget2 \/ Forget3 \/ Forget4
  <2>1. CASE Forget4
    BY <1>1, <2>1, Zenon DEF Forget4
  <2>2. CASE Forget3
    BY <1>2, <2>2, Zenon DEF Forget3
  <2>3. CASE Forget2
    BY <1>3, <2>3, Zenon DEF Forget2
  <2>4. CASE Forget1
    BY <1>4, <2>4, Zenon DEF Forget1
  <2> QED BY <1>8, <2>1, <2>2, <2>3, <2>4
<1>9. ASSUME NEW g \in Gens, NEW m \in Nat, Report1(g, m) \/ Report2(g, m) \/ Report3(g, m) \/ Report4(g, m)
      PROVE  \E E : stmts \in Seq(E)
  <2>1. CASE Report4(g, m)
    BY <1>1, <2>1, Zenon DEF Report4
  <2>2. CASE Report3(g, m)
    BY <1>2, <2>2, Zenon DEF Report3
  <2>3. CASE Report2(g, m)
    BY <1>3, <2>3, Zenon DEF Report2
  <2>4. CASE Report1(g, m)
    BY <1>4, <2>4, Zenon DEF Report1
  <2> QED BY <1>9, <2>1, <2>2, <2>3, <2>4
<1> QED BY <1>6, <1>7, <1>8, <1>9 DEF Doing

(* What a statement leaves as it is; only one that writes a header ends a fetch. *)
LEMMA RanQueues ==
  ASSUME Doing, NEW s, Ran(s)
  PROVE  /\ \A c : Queued(c)' <=> Queued(c)
         /\ \A u : Leaves(u)' <=> Leaves(u)
         /\ \A u : Brings(u) => Brings(u)' \/ (s.st = "message" /\ s.h.uid = u /\ s.h.gen = srv.gen)
         /\ (Whole' <=> Whole) /\ (Clean' <=> Clean) /\ (OnTime' <=> OnTime)
<1>1. UNCHANGED <<srv, wire, news, dbCmds, plans, spoiled>>
  BY DEF Ran
<1>2. (\A c : Queued(c)' <=> Queued(c)) /\ (Whole' <=> Whole) /\ (Clean' <=> Clean) /\ (OnTime' <=> OnTime)
  BY <1>1 DEF Queued, Whole, Clean, OnTime
<1>3. \A u : Leaves(u)' <=> Leaves(u)
  BY <1>1, <1>2 DEF Leaves
<1>4. PICK E : stmts \in Seq(E)
  BY DoingSeq
<1>5. /\ stmts' \in Seq(E) /\ Len(stmts') = Len(stmts) - 1 /\ Len(stmts) \in Nat \ {0} /\ s = stmts[1]
      /\ \A i \in 1..Len(stmts) - 1 : stmts'[i] = stmts[i + 1]
  <2>1. stmts # <<>> /\ s = Head(stmts) /\ stmts' = Tail(stmts)
    BY DEF Ran
  <2>2. \A t \in Seq(E) : t # <<>> => /\ Tail(t) \in Seq(E) /\ Len(Tail(t)) = Len(t) - 1 /\ Len(t) \in Nat \ {0} /\ Head(t) = t[1]
                                     /\ \A i \in 1..Len(t) - 1 : Tail(t)[i] = t[i + 1]
    OBVIOUS
  <2> QED BY <1>4, <2>1, <2>2
<1>6. ASSUME NEW u, Brings(u), ~(s.st = "message" /\ s.h.uid = u /\ s.h.gen = srv.gen) PROVE Brings(u)'
  <2>1. CASE \E i \in 1..Len(stmts) : stmts[i].st = "message" /\ stmts[i].h.uid = u /\ stmts[i].h.gen = srv.gen
    <3>1. PICK i \in 1..Len(stmts) : stmts[i].st = "message" /\ stmts[i].h.uid = u /\ stmts[i].h.gen = srv.gen
      BY <2>1
    <3>2. i # 1
      BY <1>5, <1>6, <3>1
    <3>3. i - 1 \in 1..Len(stmts') /\ stmts'[i - 1] = stmts[i]
      BY <1>5, <3>2
    <3> QED BY <1>1, <3>1, <3>3 DEF Brings
  <2>2. CASE ~\E i \in 1..Len(stmts) : stmts[i].st = "message" /\ stmts[i].h.uid = u /\ stmts[i].h.gen = srv.gen
    BY <1>1, <1>2, <1>6, <2>2 DEF Brings
  <2> QED BY <2>1, <2>2
<1> QED BY <1>2, <1>3, <1>6

(* What the tables satisfied, when they are left alone. *)
LEMMA RanTables ==
  ASSUME Doing, NEW s, Ran(s)
  PROVE  /\ messages' = messages /\ fts' = fts => \A X : Indexed(X) => Indexed(X)'
         /\ bodies' = bodies => (Capped => Capped')
         /\ bodies' = bodies /\ mailboxRow' = mailboxRow => (BodiesKnown => BodiesKnown')
         /\ messages' = messages /\ bodies' = bodies /\ mailboxRow' = mailboxRow => \A X : Joined(X) => Joined(X)'
         /\ messages' = messages /\ mailboxRow' = mailboxRow /\ s.st # "message" => (Fetched => Fetched')
         /\ messages' = messages => \A X : MovedLeave(X) => MovedLeave(X)'
<1>1. /\ frontend' = frontend /\ srv' = srv /\ (Whole' <=> Whole) /\ (Clean' <=> Clean) /\ (OnTime' <=> OnTime)
      /\ \A u : Leaves(u)' <=> Leaves(u)
      /\ s.st # "message" => \A u : Brings(u) => Brings(u)'
  BY RanQueues DEF Ran
<1>2. ASSUME messages' = messages, fts' = fts, NEW X, Indexed(X) PROVE Indexed(X)'
  BY <1>1, <1>2 DEF Indexed, Matched
<1>3. ASSUME bodies' = bodies, Capped PROVE Capped'
  BY <1>1, <1>3 DEF Capped, HasBody
<1>4. ASSUME bodies' = bodies, mailboxRow' = mailboxRow, BodiesKnown PROVE BodiesKnown'
  BY <1>1, <1>4 DEF BodiesKnown, HasBody
<1>5. ASSUME messages' = messages, bodies' = bodies, mailboxRow' = mailboxRow, NEW X, Joined(X) PROVE Joined(X)'
  BY <1>1, <1>5 DEF Joined, HasBody
<1>6. ASSUME messages' = messages, mailboxRow' = mailboxRow, s.st # "message", Fetched PROVE Fetched'
  BY <1>1, <1>6 DEF Fetched
<1>7. ASSUME messages' = messages, NEW X, MovedLeave(X) PROVE MovedLeave(X)'
  BY <1>1, <1>7 DEF MovedLeave
<1> QED BY <1>2, <1>3, <1>4, <1>5, <1>6, <1>7

(* A statement keeps the rest of the invariant when it writes what is known. *)
RanWell ==
  /\ TablesTyped' /\ TablesKnown' /\ (frontend = "win32" => mailboxRow' = <<0, 0>>)
  /\ \A c \in CacheCmds : Queued(c) => Since(c, mailboxRow'[1]) /\ \A u \in Uid : ListsSince(c, bodies'[u].gen)
(* It is kept by every statement that does so, and leaves its command where
   it should be. *)
LEMMA RanStep == ASSUME CacheInv, NEW s, Ran(s), RanWell, Doing' PROVE CacheInv'
<1>1. /\ UNCHANGED <<frontend, srv, wire, hand, news, dbCmds, plans, columns, spoiled>>
      /\ Doing /\ CacheTyped /\ ServerKnown /\ Sides /\ Waiting /\ QueuesOrdered /\ HandKnown /\ MovedFollow
  BY DEF Ran, CacheInv
<1>2. (\A c : Queued(c)' <=> Queued(c)) /\ (\A u : Leaves(u)' <=> Leaves(u)) /\ (OnTime' <=> OnTime)
  BY <1>1, RanQueues
<1>3. CacheTyped'
  <2>1. columns = LateColumns
    BY <1>1 DEF CacheTyped, Ran
  <2> QED BY <1>1, <2>1 DEF CacheTyped, QueuesTyped, RanWell
<1>4. ServerKnown' /\ QueuesOrdered' /\ HandKnown' /\ Sides' /\ TablesKnown'
  BY <1>1 DEF ServerKnown, QueuesOrdered, HandKnown, Sides, RanWell
<1>5. Waiting'
  BY <1>1, <1>2 DEF Waiting, RanWell, Asked
<1>6. MovedFollow'
  BY <1>1, <1>2 DEF MovedFollow
<1> QED BY <1>3, <1>4, <1>5, <1>6 DEF CacheInv

(* The first of some statements, and the others. *)
LEMMA TailOf ==
  ASSUME NEW s, Ran(s)
  PROVE  /\ \A a : stmts = <<a>> => s = a /\ stmts' = <<>>
         /\ \A a, b : stmts = <<a, b>> => s = a /\ stmts' = <<b>>
         /\ \A a, b, c : stmts = <<a, b, c>> => s = a /\ stmts' = <<b, c>>
         /\ \A a, b, c, d : stmts = <<a, b, c, d>> => s = a /\ stmts' = <<b, c, d>>
         /\ \A a, b, c, d, e : stmts = <<a, b, c, d, e>> => s = a /\ stmts' = <<b, c, d, e>>
<1>1. s = Head(stmts) /\ stmts' = Tail(stmts)
  BY DEF Ran
<1>2. ASSUME NEW a PROVE Head(<<a>>) = a /\ Tail(<<a>>) = <<>>
  OBVIOUS
<1>3. ASSUME NEW a, NEW b PROVE Head(<<a, b>>) = a /\ Tail(<<a, b>>) = <<b>>
  OBVIOUS
<1>4. ASSUME NEW a, NEW b, NEW c PROVE Head(<<a, b, c>>) = a /\ Tail(<<a, b, c>>) = <<b, c>>
  OBVIOUS
<1>7. ASSUME NEW a, stmts = <<a>> PROVE s = a /\ stmts' = <<>>
  BY <1>1, <1>2, <1>7, Zenon
<1>8. ASSUME NEW a, NEW b, stmts = <<a, b>> PROVE s = a /\ stmts' = <<b>>
  BY <1>1, <1>3, <1>8, Zenon
<1>9. ASSUME NEW a, NEW b, NEW c, stmts = <<a, b, c>> PROVE s = a /\ stmts' = <<b, c>>
  BY <1>1, <1>4, <1>9, Zenon
<1>10. ASSUME NEW a, NEW b, NEW c, NEW d, stmts = <<a, b, c, d>> PROVE s = a /\ stmts' = <<b, c, d>>
  <2>1. s = Head(<<a, b, c, d>>) /\ stmts' = Tail(<<a, b, c, d>>)
    BY <1>1, <1>10
  <2>2. Head(<<a, b, c, d>>) = a /\ Tail(<<a, b, c, d>>) = <<b, c, d>>
    OBVIOUS
  <2> QED BY <2>1, <2>2
<1>11. ASSUME NEW a, NEW b, NEW c, NEW d, NEW e, stmts = <<a, b, c, d, e>> PROVE s = a /\ stmts' = <<b, c, d, e>>
  <2>1. s = Head(<<a, b, c, d, e>>) /\ stmts' = Tail(<<a, b, c, d, e>>)
    BY <1>1, <1>11
  <2>2. Head(<<a, b, c, d, e>>) = a /\ Tail(<<a, b, c, d, e>>) = <<b, c, d, e>>
    OBVIOUS
  <2> QED BY <2>1, <2>2
<1> QED BY <1>7, <1>8, <1>9, <1>10, <1>11

(* The fields of a statement about a message ... *)
LEMMA DoIs == ASSUME NEW st, NEW h PROVE Do(st, h).st = st /\ Do(st, h).h = h
BY DEF Do, Stmt
(* ... and of one about the mailbox. *)
LEMMA TellIs == ASSUME NEW st, NEW g, NEW m PROVE Tell(st, g, m).st = st /\ Tell(st, g, m).gen = g /\ Tell(st, g, m).next = m
BY DEF Tell, Stmt

(* The command is done. *)
LEMMA Done == ASSUME stmts' = <<>>, AllAgree' PROVE Doing'
<1>1. stmts' \in Seq(HeaderSteps) /\ Len(stmts') = 0
  OBVIOUS
<1> QED BY <1>1 DEF Doing, Listing

(* No command is from before any generation. *)
LEMMA FromNone == ASSUME NEW c \in CacheCmds PROVE ListsSince(c, 0) /\ Since(c, 0)
<1>1. \A h \in Heads(c) : h.gen \in Nat
  BY HeadsTyped, HeaderTyped
<1>2. c.gen \in Nat
  BY DEF CacheCmds
<1> QED BY <1>1, <1>2 DEF ListsSince, Since

(* A statement that writes no mailbox row and caches no body. *)
LEMMA WellSame ==
  ASSUME CacheInv, NEW s, Ran(s), mailboxRow' = mailboxRow, TablesTyped',
         \A u \in Uid : messages'[u].gen <= srv.gen, \A u \in Uid : bodies'[u].gen \in {0, bodies[u].gen}
  PROVE  RanWell
<1>0. TablesKnown /\ Sides /\ Waiting /\ CacheTyped /\ ServerKnown /\ srv' = srv
  BY DEF CacheInv, Ran
<1>1. srv.gen \in Nat
  BY <1>0, Numbers
<1>2. \A u \in Uid : bodies'[u].gen <= srv.gen
  BY <1>0, <1>1 DEF TablesKnown
<1>3. TablesKnown'
  BY <1>0, <1>2 DEF TablesKnown
<1>4. \A c \in CacheCmds : Queued(c) => Since(c, mailboxRow'[1]) /\ \A u \in Uid : ListsSince(c, bodies'[u].gen)
  BY <1>0, FromNone DEF Waiting
<1> QED BY <1>0, <1>3, <1>4 DEF RanWell, Sides

(* Parts of the invariant at hand. *)
LEMMA Parts ==
  ASSUME CacheInv
  PROVE  /\ CacheTyped /\ TablesTyped /\ ServerKnown /\ TablesKnown /\ Sides /\ Waiting /\ Doing
         /\ messages \in [Uid -> CacheRows] /\ bodies \in [Uid -> CacheRows] /\ fts \in [Uid -> Nat]
         /\ mailboxRow \in {<<0, 0>>} \cup (Gens \X Nat) /\ frontend \in {"core", "win32"}
         /\ srv.gen \in Nat \ {0} /\ mailboxRow[1] \in Nat /\ mailboxRow[2] \in Nat
         /\ \A u \in Uid : messages[u].gen \in Nat /\ bodies[u].gen \in Nat /\ messages[u].gen <= srv.gen /\ bodies[u].gen <= srv.gen
BY Numbers DEF CacheInv, CacheTyped, TablesTyped, TablesKnown

(* A header is written over what the tables have of it. *)
LEMMA HeaderWritten ==
  ASSUME CacheInv, NEW s, Ran(s), s.st \in {"message", "searchable"}, NEW h \in Headers, s.h = h, h.gen <= srv.gen
  PROVE  /\ messages' = [messages EXCEPT ![h.uid] = Row(h.gen, h.seen, 0)] /\ messages'[h.uid].gen = h.gen /\ messages'[h.uid] # NoRow
         /\ \A u \in Uid : u # h.uid => messages'[u] = messages[u]
         /\ bodies' = bodies /\ mailboxRow' = mailboxRow /\ RanWell
         /\ s.st = "message" => fts' = fts
         /\ s.st = "searchable" => fts' = (IF messages[h.uid] = NoRow THEN [fts EXCEPT ![h.uid] = @ + 1] ELSE fts)
<1>0. /\ messages \in [Uid -> CacheRows] /\ bodies \in [Uid -> CacheRows] /\ fts \in [Uid -> Nat] /\ h.uid \in Uid
      /\ TablesTyped /\ \A u \in Uid : messages[u].gen <= srv.gen
  BY Parts, HeaderTyped
<1>1. Row(h.gen, h.seen, 0) \in CacheRows /\ Row(h.gen, h.seen, 0).gen = h.gen /\ Row(h.gen, h.seen, 0) # NoRow
  BY RowTyped DEF Headers
<1>2. messages' = [messages EXCEPT ![h.uid] = Row(h.gen, h.seen, 0)] /\ bodies' = bodies /\ mailboxRow' = mailboxRow
  BY RanMessage, RanSearchable DEF Only
<1>3. messages' \in [Uid -> CacheRows] /\ messages'[h.uid] = Row(h.gen, h.seen, 0) /\ \A u \in Uid : u # h.uid => messages'[u] = messages[u]
  BY <1>0, <1>1, <1>2
<1>4. s.st = "message" => fts' = fts
  BY RanMessage DEF Only
<1>5. s.st = "searchable" => fts' = (IF messages[h.uid] = NoRow THEN [fts EXCEPT ![h.uid] = @ + 1] ELSE fts)
  BY RanSearchable
<1>6. fts' \in [Uid -> Nat]
  BY <1>0, <1>4, <1>5
<1>7. TablesTyped'
  BY <1>0, <1>2, <1>3, <1>6 DEF TablesTyped
<1>8. \A u \in Uid : messages'[u].gen <= srv.gen
  BY <1>0, <1>1, <1>3
<1>9. RanWell
  BY <1>2, <1>7, <1>8, WellSame
<1> QED BY <1>1, <1>2, <1>3, <1>4, <1>5, <1>9

(* With it a fetch is still complete, and no message that was moved comes back. *)
LEMMA HeaderAgrees ==
  ASSUME CacheInv, NEW s, Ran(s), s.st \in {"message", "searchable"}, NEW h \in Headers, s.h = h, h.gen <= srv.gen,
         frontend = "core" /\ OnTime => h.gen >= mailboxRow[1], frontend = "core" => s.st = "message",
         OnTime /\ h.gen = srv.gen /\ h.uid \notin srv.uids => Leaves(h.uid)
  PROVE  (Fetched => Fetched') /\ (MovedLeave({}) => MovedLeave({})')
<1>1. /\ messages'[h.uid].gen = h.gen /\ (\A u \in Uid : u # h.uid => messages'[u] = messages[u]) /\ mailboxRow' = mailboxRow
  BY HeaderWritten
<1>2. /\ \A u : Leaves(u)' <=> Leaves(u)
      /\ \A u : Brings(u) => Brings(u)' \/ (s.st = "message" /\ s.h.uid = u /\ s.h.gen = srv.gen)
      /\ (OnTime' <=> OnTime) /\ srv' = srv /\ frontend' = frontend
  BY RanQueues, Parts DEF Ran
<1>3. srv.uids \subseteq Uid /\ srv.gen \in Nat /\ h.gen \in Nat
  BY Parts, Numbers, HeaderTyped
<1>4. ASSUME Fetched PROVE Fetched'
  <2> SUFFICES ASSUME frontend = "core", OnTime, mailboxRow[1] = srv.gen, NEW u \in srv.uids, u < mailboxRow[2]
               PROVE  messages'[u].gen = srv.gen \/ Brings(u)'
    BY <1>1, <1>2 DEF Fetched
  <2>1. messages[u].gen = srv.gen \/ Brings(u)
    BY <1>4 DEF Fetched
  <2>2. CASE u = h.uid
    <3>1. h.gen = srv.gen
      BY <1>3
    <3> QED BY <1>1, <2>2, <3>1
  <2>3. CASE u # h.uid
    BY <1>1, <1>2, <1>3, <2>1, <2>3
  <2> QED BY <2>2, <2>3
<1>5. ASSUME MovedLeave({}) PROVE MovedLeave({})'
  BY <1>1, <1>2, <1>5 DEF MovedLeave
<1> QED BY <1>4, <1>5

(* A header of a listing is written. *)
LEMMA ListingRuns == ASSUME CacheInv, NEW s, Ran(s), Listing PROVE RanWell /\ Doing'
<1>0. /\ stmts \in Seq(HeaderSteps) /\ stmts # <<>> /\ s = Head(stmts) /\ stmts' = Tail(stmts) /\ AllAgree
      /\ \A i \in 1..Len(stmts) : HeaderDue(stmts[i])
  BY DEF Listing, Ran
<1>1. /\ stmts' \in Seq(HeaderSteps) /\ Len(stmts') = Len(stmts) - 1 /\ Len(stmts) \in Nat \ {0} /\ s = stmts[1]
      /\ \A i \in 1..Len(stmts) - 1 : stmts'[i] = stmts[i + 1]
  <2>1. \A t \in Seq(HeaderSteps) : t # <<>> =>
          /\ Tail(t) \in Seq(HeaderSteps) /\ Len(Tail(t)) = Len(t) - 1 /\ Len(t) \in Nat \ {0} /\ Head(t) = t[1]
          /\ \A i \in 1..Len(t) - 1 : Tail(t)[i] = t[i + 1]
    OBVIOUS
  <2> QED BY <1>0, <2>1
<1>2. HeaderDue(s)
  BY <1>0, <1>1
<1>3. PICK h \in Headers :
        /\ s = Do(IF frontend = "core" THEN "message" ELSE "searchable", h)
        /\ h.gen <= srv.gen /\ h.gen >= mailboxRow[1] /\ \A u \in Uid : h.gen >= bodies[u].gen
        /\ OnTime /\ h.gen = srv.gen /\ h.uid \notin srv.uids => Leaves(h.uid)
  BY <1>2 DEF HeaderDue
<1>4. s.st = (IF frontend = "core" THEN "message" ELSE "searchable") /\ s.h = h /\ s.st \in {"message", "searchable"} /\ h.uid \in Uid
  BY <1>3, DoIs, HeaderTyped
<1>5. /\ messages'[h.uid].gen = h.gen /\ messages'[h.uid] # NoRow
      /\ \A u \in Uid : u # h.uid => messages'[u] = messages[u]
      /\ bodies' = bodies /\ mailboxRow' = mailboxRow /\ RanWell
      /\ s.st = "message" => fts' = fts
      /\ s.st = "searchable" => fts' = (IF messages[h.uid] = NoRow THEN [fts EXCEPT ![h.uid] = @ + 1] ELSE fts)
  BY <1>3, <1>4, HeaderWritten
<1>6. Fetched' /\ MovedLeave({})'
  BY <1>0, <1>3, <1>4, HeaderAgrees DEF AllAgree
<1>7. /\ (Whole' <=> Whole) /\ (Clean' <=> Clean) /\ (OnTime' <=> OnTime) /\ srv' = srv /\ frontend' = frontend
      /\ \A u : Leaves(u)' <=> Leaves(u)
  BY RanQueues, Parts DEF Ran
<1>8. fts \in [Uid -> Nat] /\ frontend \in {"core", "win32"}
  BY Parts
<1>9. Indexed({})'
  <2>0. Indexed({})
    BY <1>0 DEF AllAgree
  <2> SUFFICES ASSUME Whole PROVE (\A u \in Uid : fts'[u] <= 1) /\ (frontend = "win32" => \A u \in Uid : messages'[u] # NoRow <=> fts'[u] = 1)
    BY <1>7 DEF Indexed, Matched
  <2>1. (\A u \in Uid : fts[u] <= 1) /\ (frontend = "win32" => \A u \in Uid : messages[u] # NoRow <=> fts[u] = 1)
    BY <2>0 DEF Indexed, Matched
  <2>2. CASE frontend = "core"
    BY <1>4, <1>5, <2>1, <2>2
  <2>3. CASE frontend = "win32"
    <3>1. \A u \in Uid : fts'[u] = IF u = h.uid /\ messages[u] = NoRow THEN fts[u] + 1 ELSE fts[u]
      BY <1>4, <1>5, <1>8, <2>3
    <3>2. messages[h.uid] = NoRow => fts[h.uid] = 0
      BY <1>4, <1>8, <2>1, <2>3
    <3>3. messages[h.uid] # NoRow => fts[h.uid] = 1
      BY <1>4, <1>8, <2>1, <2>3
    <3>4. fts'[h.uid] = 1
      BY <1>4, <3>1, <3>2, <3>3
    <3> QED BY <1>5, <2>1, <2>3, <3>1, <3>4
  <2> QED BY <1>8, <2>2, <2>3
<1>10. Capped' /\ BodiesKnown'
  BY <1>0, <1>5, RanTables, Parts DEF AllAgree
<1>11. Joined({})'
  <2>0. Joined({}) /\ BodiesKnown
    BY <1>0 DEF AllAgree
  <2> SUFFICES ASSUME Clean, NEW u \in HasBody, messages'[u] # NoRow, messages'[u].gen = mailboxRow[1] PROVE bodies[u].gen = mailboxRow[1]
    BY <1>5, <1>7 DEF Joined, HasBody
  <2>1. u \in Uid /\ bodies[u].gen \in Nat /\ mailboxRow[1] \in Nat
    BY Parts DEF HasBody
  <2>2. CASE u = h.uid
    <3>1. bodies[u].gen >= mailboxRow[1] /\ h.gen >= bodies[u].gen /\ h.gen = mailboxRow[1]
      BY <1>3, <1>5, <2>0, <2>1, <2>2 DEF BodiesKnown
    <3>2. \A a, b \in Nat : a >= b /\ b >= a => a = b
      OBVIOUS
    <3> QED BY <2>1, <3>1, <3>2
  <2>3. CASE u # h.uid
    BY <1>5, <2>0, <2>1, <2>3 DEF Joined
  <2> QED BY <2>2, <2>3
<1>12. ASSUME NEW i \in 1..Len(stmts') PROVE HeaderDue(stmts[i])'
  <2>1. i + 1 \in 1..Len(stmts) /\ stmts'[i] = stmts[i + 1]
    BY <1>1
  <2>2. HeaderDue(stmts[i + 1])
    BY <1>0, <2>1
  <2>3. PICK k \in Headers :
          /\ stmts'[i] = Do(IF frontend = "core" THEN "message" ELSE "searchable", k)
          /\ k.gen <= srv.gen /\ k.gen >= mailboxRow[1] /\ \A u \in Uid : k.gen >= bodies[u].gen
          /\ OnTime /\ k.gen = srv.gen /\ k.uid \notin srv.uids => Leaves(k.uid)
    BY <2>1, <2>2 DEF HeaderDue
  <2> QED BY <1>5, <1>7, <2>3 DEF HeaderDue
<1>13. Listing'
  BY <1>1, <1>6, <1>9, <1>10, <1>11, <1>12 DEF Listing, AllAgree
<1> QED BY <1>5, <1>13 DEF Doing

(* The flags of a message are written. *)
LEMMA FlagsRuns == ASSUME CacheInv, NEW s, Ran(s), NEW h \in Headers, Flags(h) PROVE RanWell /\ Doing'
<1>1. s = Do("flags", h) /\ stmts' = <<>> /\ AllAgree
  BY TailOf DEF Flags
<1>2. s.st = "flags" /\ s.h = h /\ h.uid \in Uid /\ h.seen \in BOOLEAN
  BY <1>1, DoIs, HeaderTyped DEF Headers
<1>3. /\ messages' = (IF messages[h.uid] # NoRow THEN [messages EXCEPT ![h.uid].seen = h.seen] ELSE messages)
      /\ bodies' = bodies /\ fts' = fts /\ mailboxRow' = mailboxRow
  BY <1>2, RanFlags DEF Only
<1>4. messages \in [Uid -> CacheRows] /\ TablesTyped /\ \A u \in Uid : messages[u].gen <= srv.gen
  BY Parts
<1>5. messages' \in [Uid -> CacheRows] /\ \A u \in Uid : messages'[u].gen = messages[u].gen
  <2>1. CASE messages[h.uid] = NoRow
    BY <1>3, <1>4, <2>1
  <2>2. CASE messages[h.uid] # NoRow
    <3>1. messages[h.uid] \in [gen : Gens, seen : BOOLEAN, at : {0, 1}]
      BY <1>2, <1>4, <2>2 DEF CacheRows
    <3>2. [messages[h.uid] EXCEPT !.seen = h.seen] \in CacheRows /\ [messages[h.uid] EXCEPT !.seen = h.seen].gen = messages[h.uid].gen
      BY <1>2, <3>1 DEF CacheRows
    <3>3. messages' = [messages EXCEPT ![h.uid] = [messages[h.uid] EXCEPT !.seen = h.seen]]
      BY <1>3, <2>2
    <3> QED BY <1>2, <1>4, <3>2, <3>3
  <2> QED BY <2>1, <2>2
<1>6. TablesTyped'
  BY <1>3, <1>4, <1>5 DEF TablesTyped
<1>7. RanWell
  BY <1>3, <1>4, <1>5, <1>6, WellSame
<1>8. \A u \in Uid : messages'[u] # NoRow <=> messages[u] # NoRow
  <2>1. \A r \in CacheRows : r = NoRow <=> r.gen = 0
    BY DEF CacheRows, NoRow, Gens
  <2>2. \A u \in Uid : messages[u] \in CacheRows /\ messages'[u] \in CacheRows
    BY <1>4, <1>5
  <2> QED BY <1>5, <2>1, <2>2
<1>9. /\ (Whole' <=> Whole) /\ (Clean' <=> Clean) /\ (OnTime' <=> OnTime) /\ srv' = srv /\ frontend' = frontend
      /\ (\A u : Leaves(u)' <=> Leaves(u)) /\ \A u : Brings(u) => Brings(u)'
  BY <1>2, RanQueues, Parts DEF Ran
<1>10. Indexed({})'
  BY <1>1, <1>3, <1>8, <1>9 DEF AllAgree, Indexed, Matched
<1>11. Capped' /\ BodiesKnown'
  BY <1>1, <1>3, RanTables, Parts DEF AllAgree
<1>12. Joined({})'
  BY <1>1, <1>3, <1>5, <1>8, <1>9 DEF AllAgree, Joined, HasBody
<1>13. Fetched' /\ MovedLeave({})'
  <2>1. srv.uids \subseteq Uid
    BY Parts DEF ServerKnown
  <2> QED BY <1>1, <1>3, <1>5, <1>9, <2>1 DEF AllAgree, Fetched, MovedLeave
<1>14. AllAgree'
  BY <1>10, <1>11, <1>12, <1>13 DEF AllAgree
<1> QED BY <1>1, <1>7, <1>14, Done

(* What a step that runs a statement does not change. *)
LEMMA Still ==
  ASSUME CacheInv, NEW s, Ran(s)
  PROVE  /\ (Whole' <=> Whole) /\ (Clean' <=> Clean) /\ (OnTime' <=> OnTime) /\ srv' = srv /\ frontend' = frontend
         /\ (\A u : Leaves(u)' <=> Leaves(u)) /\ (\A c : Queued(c)' <=> Queued(c))
         /\ s.st # "message" => \A u : Brings(u) => Brings(u)'
BY RanQueues, Parts DEF Ran

(* A body that was downloaded: its header is written, ... *)
LEMMA Mail1Runs == ASSUME CacheInv, NEW s, Ran(s), NEW h \in Headers, Mail1(h) PROVE RanWell /\ Doing'
<1>1. /\ s = Do("message", h) /\ stmts' = <<Do("body", h), Do("unindex", h), Do("index", h), Do("evict", h)>>
      /\ AllAgree /\ MailKnown(h) /\ (OnTime /\ h.gen = srv.gen /\ h.uid \notin srv.uids => Leaves(h.uid))
  BY TailOf DEF Mail1
<1>2. s.st = "message" /\ s.h = h /\ h.uid \in Uid /\ h.gen <= srv.gen /\ (OnTime => h.gen >= mailboxRow[1])
  BY <1>1, DoIs, HeaderTyped DEF MailKnown, OnTime
<1>3. /\ messages'[h.uid].gen = h.gen /\ (\A u \in Uid : u # h.uid => messages'[u] = messages[u])
      /\ bodies' = bodies /\ mailboxRow' = mailboxRow /\ RanWell /\ fts' = fts
  BY <1>2, HeaderWritten
<1>4. Fetched' /\ MovedLeave({})'
  BY <1>1, <1>2, HeaderAgrees DEF AllAgree
<1>5. Capped' /\ BodiesKnown'
  BY <1>1, <1>3, RanTables, Parts DEF AllAgree
<1>6. Indexed({h.uid})' /\ Joined({h.uid})'
  BY <1>1, <1>3, Still DEF AllAgree, Indexed, Matched, Joined, HasBody
<1>7. MailKnown(h)'
  <2>1. spoiled' = spoiled
    BY DEF Ran
  <2> QED BY <1>1, <1>3, <2>1, Still DEF MailKnown
<1>8. Mail2(h)'
  BY <1>1, <1>3, <1>4, <1>5, <1>6, <1>7 DEF Mail2
<1> QED BY <1>3, <1>8 DEF Doing

(* ... then the body, ... *)
LEMMA Mail2Runs == ASSUME CacheInv, NEW s, Ran(s), NEW h \in Headers, Mail2(h) PROVE RanWell /\ Doing'
<1>1. /\ s = Do("body", h) /\ stmts' = <<Do("unindex", h), Do("index", h), Do("evict", h)>>
      /\ MailKnown(h) /\ messages[h.uid].gen = h.gen /\ Indexed({h.uid}) /\ BodiesKnown /\ Joined({h.uid}) /\ Fetched /\ MovedLeave({})
  BY TailOf DEF Mail2
<1>2. s.st = "body" /\ s.h = h /\ h.uid \in Uid /\ h.gen \in Nat \ {0}
  BY <1>1, DoIs, HeaderTyped
<1>3. PICK at \in {0, 1} : bodies' = [bodies EXCEPT ![h.uid] = Row(h.gen, FALSE, at)]
  BY <1>2, RanBody
<1>4. messages' = messages /\ fts' = fts /\ mailboxRow' = mailboxRow
  BY <1>2, RanBody DEF Only
<1>5. bodies \in [Uid -> CacheRows] /\ TablesTyped /\ TablesKnown /\ Waiting /\ Sides /\ Doing
  BY Parts
<1>6. Row(h.gen, FALSE, at) \in CacheRows /\ Row(h.gen, FALSE, at).gen = h.gen
  BY RowTyped
<1>7. bodies' \in [Uid -> CacheRows] /\ bodies'[h.uid].gen = h.gen /\ \A u \in Uid : u # h.uid => bodies'[u] = bodies[u]
  BY <1>2, <1>3, <1>5, <1>6
<1>8. RanWell
  <2>1. TablesTyped'
    BY <1>4, <1>5, <1>7 DEF TablesTyped
  <2>2. TablesKnown'
    BY <1>1, <1>4, <1>5, <1>7, Still DEF TablesKnown, MailKnown
  <2>3. \A c \in CacheCmds : Queued(c) => Since(c, mailboxRow'[1]) /\ \A u \in Uid : ListsSince(c, bodies'[u].gen)
    BY <1>1, <1>4, <1>5, <1>7 DEF Waiting, MailKnown
  <2> QED BY <1>4, <1>5, <2>1, <2>2, <2>3 DEF RanWell, Sides
<1>9. Indexed({h.uid})' /\ Fetched' /\ MovedLeave({})'
  BY <1>1, <1>2, <1>4, <1>5, RanTables
<1>10. BodiesKnown'
  <2> SUFFICES ASSUME Clean, NEW u \in Uid, bodies'[u] # NoRow PROVE bodies'[u].gen >= mailboxRow[1] /\ mailboxRow[1] # 0
    BY <1>4, Still DEF BodiesKnown, HasBody
  <2>1. CASE u = h.uid
    BY <1>1, <1>7, <2>1 DEF MailKnown, Clean
  <2>2. CASE u # h.uid
    BY <1>1, <1>7, <2>2 DEF BodiesKnown, HasBody
  <2> QED BY <2>1, <2>2
<1>11. Joined({})'
  BY <1>1, <1>4, <1>7, Still DEF Joined, HasBody
<1>12. messages[h.uid] # NoRow
  BY <1>1, <1>2 DEF NoRow
<1>13. Mail3(h)'
  BY <1>1, <1>4, <1>9, <1>10, <1>11, <1>12 DEF Mail3
<1> QED BY <1>8, <1>13 DEF Doing

(* Writing the index alone. *)
LEMMA FtsWell ==
  ASSUME CacheInv, NEW s, Ran(s), messages' = messages, bodies' = bodies, mailboxRow' = mailboxRow, fts' \in [Uid -> Nat]
  PROVE  RanWell
<1>1. TablesTyped /\ \A u \in Uid : messages[u].gen <= srv.gen
  BY Parts
<1>2. TablesTyped'
  BY <1>1 DEF TablesTyped
<1> QED BY <1>1, <1>2, WellSame

(* ... and its row of the index, the old one going first; ... *)
LEMMA Mail3Runs == ASSUME CacheInv, NEW s, Ran(s), NEW h \in Headers, Mail3(h) PROVE RanWell /\ Doing'
<1>1. /\ s = Do("unindex", h) /\ stmts' = <<Do("index", h), Do("evict", h)>>
      /\ messages[h.uid] # NoRow /\ Indexed({h.uid}) /\ BodiesKnown /\ Joined({}) /\ Fetched /\ MovedLeave({})
  BY TailOf DEF Mail3
<1>2. s.st = "unindex" /\ s.h = h /\ h.uid \in Uid
  BY <1>1, DoIs, HeaderTyped
<1>3. fts' = [fts EXCEPT ![h.uid] = 0] /\ messages' = messages /\ bodies' = bodies /\ mailboxRow' = mailboxRow
  BY <1>2, RanUnindex DEF Only
<1>4. fts \in [Uid -> Nat] /\ Doing
  BY Parts
<1>5. fts' \in [Uid -> Nat] /\ fts'[h.uid] = 0 /\ \A u \in Uid : u # h.uid => fts'[u] = fts[u]
  BY <1>2, <1>3, <1>4
<1>6. RanWell
  BY <1>3, <1>5, FtsWell
<1>7. BodiesKnown' /\ Joined({})' /\ Fetched' /\ MovedLeave({})'
  BY <1>1, <1>2, <1>3, <1>4, RanTables
<1>8. Indexed({h.uid})'
  BY <1>1, <1>3, <1>5, Still DEF Indexed, Matched
<1>9. Mail4(h)'
  BY <1>1, <1>3, <1>5, <1>7, <1>8 DEF Mail4
<1> QED BY <1>6, <1>9 DEF Doing

(* ... then the new one comes, and ... *)
LEMMA Mail4Runs == ASSUME CacheInv, NEW s, Ran(s), NEW h \in Headers, Mail4(h) PROVE RanWell /\ Doing'
<1>1. /\ s = Do("index", h) /\ stmts' = <<Do("evict", h)>> /\ fts[h.uid] = 0
      /\ messages[h.uid] # NoRow /\ Indexed({h.uid}) /\ BodiesKnown /\ Joined({}) /\ Fetched /\ MovedLeave({})
  BY TailOf DEF Mail4
<1>2. s.st = "index" /\ s.h = h /\ h.uid \in Uid
  BY <1>1, DoIs, HeaderTyped
<1>3. fts' = [fts EXCEPT ![h.uid] = @ + 1] /\ messages' = messages /\ bodies' = bodies /\ mailboxRow' = mailboxRow
  BY <1>2, RanIndex DEF Only
<1>4. fts \in [Uid -> Nat] /\ Doing
  BY Parts
<1>5. fts' \in [Uid -> Nat] /\ fts'[h.uid] = 1 /\ \A u \in Uid : u # h.uid => fts'[u] = fts[u]
  BY <1>1, <1>2, <1>3, <1>4
<1>6. RanWell
  BY <1>3, <1>5, FtsWell
<1>7. BodiesKnown' /\ Joined({})' /\ Fetched' /\ MovedLeave({})'
  BY <1>1, <1>2, <1>3, <1>4, RanTables
<1>8. Indexed({})'
  BY <1>1, <1>3, <1>5, Still DEF Indexed, Matched
<1>9. Mail5(h)'
  BY <1>1, <1>7, <1>8 DEF Mail5
<1> QED BY <1>6, <1>9 DEF Doing

(* Fewer bodies. *)
LEMMA FewerBodies ==
  ASSUME CacheInv, NEW s, Ran(s), messages' = messages, fts' = fts, mailboxRow' = mailboxRow, NEW old \in SUBSET Uid,
         bodies' = [u \in Uid |-> IF u \in old THEN NoRow ELSE bodies[u]]
  PROVE  /\ RanWell /\ HasBody' = HasBody \ old /\ IsFiniteSet(HasBody)
         /\ (BodiesKnown => BodiesKnown') /\ (\A X : Joined(X) => Joined(X)') /\ (Capped => Capped')
<1>1. bodies \in [Uid -> CacheRows] /\ TablesTyped /\ (\A u \in Uid : messages[u].gen <= srv.gen) /\ MaxUid \in Nat
  BY Parts, MailCacheAssumption
<1>2. bodies' \in [Uid -> CacheRows]
  BY <1>1 DEF CacheRows
<1>3. \A u \in Uid : bodies'[u] = IF u \in old THEN NoRow ELSE bodies[u]
  OBVIOUS
<1>4. RanWell
  <2>1. TablesTyped'
    BY <1>1, <1>2 DEF TablesTyped
  <2>2. \A u \in Uid : bodies'[u].gen \in {0, bodies[u].gen}
    BY <1>3 DEF NoRow
  <2> QED BY <1>1, <2>1, <2>2, WellSame
<1>5. HasBody' = HasBody \ old
  BY <1>3 DEF HasBody
<1>6. IsFiniteSet(HasBody) /\ IsFiniteSet(HasBody \ old) /\ Cardinality(HasBody \ old) <= Cardinality(HasBody)
      /\ Cardinality(HasBody) \in Nat /\ Cardinality(HasBody \ old) \in Nat
  <2>1. IsFiniteSet(Uid)
    <3>1. 1 \in Int /\ MaxUid \in Int
      BY <1>1
    <3> QED BY ONLY <3>1, FS_Interval DEF Uid
  <2>2. HasBody \subseteq Uid /\ HasBody \ old \subseteq HasBody
    BY DEF HasBody
  <2>3. IsFiniteSet(HasBody)
    BY <2>1, <2>2, FS_Subset
  <2> QED BY <2>2, <2>3, FS_Subset, FS_CardinalityType
<1>7. BodiesKnown => BodiesKnown'
  BY <1>3, <1>5, Still DEF BodiesKnown, HasBody
<1>8. ASSUME NEW X, Joined(X) PROVE Joined(X)'
  BY <1>3, <1>5, <1>8, Still DEF Joined, HasBody
<1>9. Capped => Capped'
  <2>1. BodyCap \in Nat
    BY MailCacheAssumption
  <2> QED BY <1>5, <1>6, <2>1, Still DEF Capped
<1> QED BY <1>4, <1>5, <1>6, <1>7, <1>8, <1>9

(* ... the oldest bodies go. *)
LEMMA Mail5Runs == ASSUME CacheInv, NEW s, Ran(s), NEW h \in Headers, Mail5(h) PROVE RanWell /\ Doing'
<1>1. s = Do("evict", h) /\ stmts' = <<>> /\ Indexed({}) /\ BodiesKnown /\ Joined({}) /\ Fetched /\ MovedLeave({})
  BY TailOf DEF Mail5
<1>2. s.st = "evict"
  BY <1>1, DoIs
<1>3. bodies' \in Evict(bodies) /\ messages' = messages /\ fts' = fts /\ mailboxRow' = mailboxRow
  BY <1>2, RanEvict DEF Only
<1>4. PICK old \in SUBSET HasBody : /\ Cardinality(old) = Max({0, Cardinality(HasBody) - BodyCap})
                                    /\ bodies' = [u \in Uid |-> IF u \in old THEN NoRow ELSE bodies[u]]
  BY <1>3 DEF Evict, HasBody
<1>5. old \in SUBSET Uid
  BY DEF HasBody
<1>6. /\ RanWell /\ HasBody' = HasBody \ old /\ IsFiniteSet(HasBody) /\ BodiesKnown' /\ Joined({})'
  BY <1>1, <1>3, <1>4, <1>5, FewerBodies
<1>7. Capped'
  <2> DEFINE n == Cardinality(HasBody)
             k == Cardinality(old)
  <2>1. n \in Nat /\ k \in Nat /\ k <= n /\ IsFiniteSet(old)
    BY <1>6, FS_Subset, FS_CardinalityType
  <2>2. Cardinality(HasBody \ old) = n - k
    <3>1. Cardinality(HasBody \ old) = Cardinality(HasBody) - Cardinality(HasBody \cap old) /\ HasBody \cap old = old
      BY <1>6, <2>1, FS_Difference
    <3> QED BY <3>1
  <2>3. k = IF 0 >= n - BodyCap THEN 0 ELSE n - BodyCap
    <3>1. 0 \in Int /\ n - BodyCap \in Int
      BY <2>1, MailCacheAssumption
    <3>2. Max({0, n - BodyCap}) = IF 0 >= n - BodyCap THEN 0 ELSE n - BodyCap
      BY ONLY <3>1, OfTwo
    <3> QED BY <1>4, <3>2
  <2> HIDE DEF n, k
  <2>4. n - k <= BodyCap
    BY <2>1, <2>3, MailCacheAssumption
  <2> QED BY <1>6, <2>2, <2>4 DEF Capped
<1>8. Indexed({})' /\ Fetched' /\ MovedLeave({})'
  BY <1>1, <1>2, <1>3, RanTables, Parts
<1>9. AllAgree'
  BY <1>6, <1>7, <1>8 DEF AllAgree
<1> QED BY <1>1, <1>6, <1>9, Done

(* A message that was moved away is removed: its header, ... *)
LEMMA Move1Runs == ASSUME CacheInv, NEW s, Ran(s), NEW h \in Headers, Move1(h) PROVE RanWell /\ Doing'
<1>1. /\ s = Do("unmessage", h) /\ stmts' = <<Do("unbody", h), Do("unindex", h)>>
      /\ h.gen <= srv.gen /\ h.gen >= mailboxRow[1] /\ (h.gen = srv.gen => h.uid \notin srv.uids)
      /\ Indexed({}) /\ Capped /\ BodiesKnown /\ Joined({}) /\ Fetched /\ MovedLeave({h.uid})
  BY TailOf DEF Move1
<1>2. s.st = "unmessage" /\ s.h = h /\ h.uid \in Uid /\ h.gen \in Nat
  BY <1>1, DoIs, HeaderTyped
<1>3. messages' = [messages EXCEPT ![h.uid] = NoRow] /\ bodies' = bodies /\ fts' = fts /\ mailboxRow' = mailboxRow
  BY <1>2, RanUnmessage DEF Only
<1>4. messages \in [Uid -> CacheRows] /\ TablesTyped /\ (\A u \in Uid : messages[u].gen <= srv.gen) /\ srv.gen \in Nat \ {0}
      /\ mailboxRow[1] \in Nat /\ Doing /\ srv.uids \subseteq Uid
  BY Parts DEF ServerKnown
<1>5. /\ messages' \in [Uid -> CacheRows] /\ messages'[h.uid] = NoRow /\ \A u \in Uid : u # h.uid => messages'[u] = messages[u]
  BY <1>2, <1>3, <1>4 DEF CacheRows
<1>6. NoRow.gen = 0
  BY DEF NoRow
<1>7. RanWell
  <2>1. TablesTyped'
    BY <1>3, <1>4, <1>5 DEF TablesTyped
  <2>2. \A u \in Uid : messages'[u].gen <= srv.gen
    BY <1>4, <1>5, <1>6
  <2>3. \A u \in Uid : bodies'[u].gen \in {0, bodies[u].gen}
    BY <1>3
  <2> QED BY <1>3, <2>1, <2>2, <2>3, WellSame
<1>8. Capped' /\ BodiesKnown'
  BY <1>1, <1>3, <1>4, RanTables
<1>9. Indexed({h.uid})' /\ Joined({})'
  BY <1>1, <1>3, <1>5, Still DEF Indexed, Matched, Joined, HasBody
<1>10. Fetched'
  <2> SUFFICES ASSUME frontend = "core", OnTime, mailboxRow[1] = srv.gen, NEW u \in srv.uids, u < mailboxRow[2]
               PROVE  messages'[u].gen = srv.gen \/ Brings(u)'
    BY <1>3, Still DEF Fetched
  <2>1. messages[u].gen = srv.gen \/ Brings(u)
    BY <1>1 DEF Fetched
  <2>2. h.gen = srv.gen
    BY <1>1, <1>2, <1>4
  <2>3. u # h.uid /\ u \in Uid
    BY <1>1, <1>4, <2>2
  <2>4. Brings(u) => Brings(u)'
    BY <1>2, Still
  <2> QED BY <1>5, <2>1, <2>3, <2>4
<1>11. MovedLeave({})'
  BY <1>1, <1>4, <1>5, <1>6, Still DEF MovedLeave
<1>12. Move2(h)'
  BY <1>1, <1>5, <1>8, <1>9, <1>10, <1>11 DEF Move2
<1> QED BY <1>7, <1>12 DEF Doing

(* ... its body, ... *)
LEMMA Move2Runs == ASSUME CacheInv, NEW s, Ran(s), NEW h \in Headers, Move2(h) PROVE RanWell /\ Doing'
<1>1. /\ s = Do("unbody", h) /\ stmts' = <<Do("unindex", h)>> /\ messages[h.uid] = NoRow
      /\ Indexed({h.uid}) /\ Capped /\ BodiesKnown /\ Joined({}) /\ Fetched /\ MovedLeave({})
  BY TailOf DEF Move2
<1>2. s.st = "unbody" /\ s.h = h /\ h.uid \in Uid
  BY <1>1, DoIs, HeaderTyped
<1>3. bodies' = [bodies EXCEPT ![h.uid] = NoRow] /\ messages' = messages /\ fts' = fts /\ mailboxRow' = mailboxRow
  BY <1>2, RanUnbody DEF Only
<1>4. bodies \in [Uid -> CacheRows] /\ Doing
  BY Parts
<1>5. bodies' = [u \in Uid |-> IF u \in {h.uid} THEN NoRow ELSE bodies[u]] /\ {h.uid} \in SUBSET Uid
  BY <1>2, <1>3, <1>4
<1>6. RanWell /\ BodiesKnown' /\ Joined({})' /\ Capped'
  BY <1>1, <1>3, <1>5, FewerBodies
<1>7. Indexed({h.uid})' /\ Fetched' /\ MovedLeave({})'
  BY <1>1, <1>2, <1>3, <1>4, RanTables
<1>8. Move3(h)'
  BY <1>1, <1>3, <1>6, <1>7 DEF Move3
<1> QED BY <1>6, <1>8 DEF Doing

(* ... and its row of the index. *)
LEMMA Move3Runs == ASSUME CacheInv, NEW s, Ran(s), NEW h \in Headers, Move3(h) PROVE RanWell /\ Doing'
<1>1. /\ s = Do("unindex", h) /\ stmts' = <<>> /\ messages[h.uid] = NoRow
      /\ Indexed({h.uid}) /\ Capped /\ BodiesKnown /\ Joined({}) /\ Fetched /\ MovedLeave({})
  BY TailOf DEF Move3
<1>2. s.st = "unindex" /\ s.h = h /\ h.uid \in Uid
  BY <1>1, DoIs, HeaderTyped
<1>3. fts' = [fts EXCEPT ![h.uid] = 0] /\ messages' = messages /\ bodies' = bodies /\ mailboxRow' = mailboxRow
  BY <1>2, RanUnindex DEF Only
<1>4. fts \in [Uid -> Nat] /\ Doing
  BY Parts
<1>5. fts' \in [Uid -> Nat] /\ fts'[h.uid] = 0 /\ \A u \in Uid : u # h.uid => fts'[u] = fts[u]
  BY <1>2, <1>3, <1>4
<1>6. RanWell
  BY <1>3, <1>5, FtsWell
<1>7. Capped' /\ BodiesKnown' /\ Joined({})' /\ Fetched' /\ MovedLeave({})'
  BY <1>1, <1>2, <1>3, <1>4, RanTables
<1>8. Indexed({})'
  BY <1>1, <1>3, <1>5, Still DEF Indexed, Matched
<1>9. AllAgree'
  BY <1>7, <1>8 DEF AllAgree
<1> QED BY <1>1, <1>6, <1>9, Done

-----------------------------------------------------------------------------
(* The tables are cleared, one after the other. *)
WipesMessages(s) == s.st = "clear messages"
WipesBodies(s) == s.st = "clear bodies"
WipesFts(s) == s.st = "clear fts"
WipesMailbox(s) == s.st = "clear mailbox"
(* The statements that clear a table. *)
LEMMA Wipes ==
  ASSUME NEW h, NEW g, NEW m
  PROVE  /\ WipesMessages(Do("clear messages", h)) /\ WipesMessages(Tell("clear messages", g, m))
         /\ WipesBodies(Do("clear bodies", h)) /\ WipesBodies(Tell("clear bodies", g, m))
         /\ WipesFts(Do("clear fts", h)) /\ WipesFts(Tell("clear fts", g, m)) /\ WipesMailbox(Do("clear mailbox", h))
<1>1. WipesMessages(Do("clear messages", h)) /\ WipesMessages(Tell("clear messages", g, m))
  <2>1. Do("clear messages", h).st = "clear messages"
    BY DoIs, Zenon
  <2>2. Tell("clear messages", g, m).st = "clear messages"
    BY Zenon DEF Tell, Stmt
  <2> QED BY ONLY <2>1, <2>2, Zenon DEF WipesMessages
<1>2. WipesBodies(Do("clear bodies", h)) /\ WipesBodies(Tell("clear bodies", g, m))
  <2>1. Do("clear bodies", h).st = "clear bodies"
    BY DoIs, Zenon
  <2>2. Tell("clear bodies", g, m).st = "clear bodies"
    BY Zenon DEF Tell, Stmt
  <2> QED BY ONLY <2>1, <2>2, Zenon DEF WipesBodies
<1>3. WipesFts(Do("clear fts", h)) /\ WipesFts(Tell("clear fts", g, m))
  <2>1. Do("clear fts", h).st = "clear fts"
    BY DoIs, Zenon
  <2>2. Tell("clear fts", g, m).st = "clear fts"
    BY Zenon DEF Tell, Stmt
  <2> QED BY ONLY <2>1, <2>2, Zenon DEF WipesFts
<1>4. WipesMailbox(Do("clear mailbox", h))
  BY DoIs, Zenon DEF WipesMailbox
<1> QED BY <1>1, <1>2, <1>3, <1>4, Zenon
(* What they clear, and that they leave the rest. *)
LEMMA Wiped ==
  ASSUME NEW s, Ran(s)
  PROVE  /\ WipesMessages(s) => messages' = [u \in Uid |-> NoRow] /\ bodies' = bodies /\ fts' = fts /\ mailboxRow' = mailboxRow
         /\ WipesBodies(s) => bodies' = [u \in Uid |-> NoRow] /\ messages' = messages /\ fts' = fts /\ mailboxRow' = mailboxRow
         /\ WipesFts(s) => fts' = [u \in Uid |-> 0] /\ messages' = messages /\ bodies' = bodies /\ mailboxRow' = mailboxRow
         /\ WipesMailbox(s) => mailboxRow' = <<0, 0>> /\ messages' = messages /\ bodies' = bodies /\ fts' = fts
BY RanClearMessages, RanClearBodies, RanClearFts, RanClearMailbox, Zenon DEF Only, WipesMessages, WipesBodies, WipesFts, WipesMailbox
(* They write no header. *)
LEMMA WipesNoHeader ==
  ASSUME NEW s, WipesMessages(s) \/ WipesBodies(s) \/ WipesFts(s)
  PROVE  s.st # "message"
BY Zenon DEF WipesMessages, WipesBodies, WipesFts

(* The headers first: the index has rows for none of them now. *)
LEMMA ClearsMessages ==
  ASSUME CacheInv, NEW s, Ran(s), WipesMessages(s), Indexed({}), Capped, BodiesKnown
  PROVE  RanWell /\ NoMessages' /\ Indexed(Uid)' /\ Capped' /\ BodiesKnown' /\ mailboxRow' = mailboxRow
<1>1. messages' = [u \in Uid |-> NoRow] /\ bodies' = bodies /\ fts' = fts /\ mailboxRow' = mailboxRow
  BY Wiped
<1>2. TablesTyped /\ srv.gen \in Nat /\ Doing
  BY Parts
<1>3. TablesTyped'
  BY <1>1, <1>2 DEF TablesTyped, CacheRows
<1>4. \A u \in Uid : messages'[u].gen <= srv.gen
  BY <1>1, <1>2 DEF NoRow
<1>5. RanWell
  BY <1>1, <1>3, <1>4, WellSame
<1>6. Indexed(Uid)'
  BY <1>1, Still DEF Indexed
<1> QED BY <1>1, <1>2, <1>5, <1>6, RanTables DEF NoMessages

(* Then the bodies. *)
LEMMA ClearsBodies ==
  ASSUME CacheInv, NEW s, Ran(s), WipesBodies(s), NoMessages, Indexed(Uid)
  PROVE  RanWell /\ NoMessages' /\ NoBodies' /\ Indexed(Uid)' /\ mailboxRow' = mailboxRow
<1>1. bodies' = [u \in Uid |-> NoRow] /\ messages' = messages /\ fts' = fts /\ mailboxRow' = mailboxRow
  BY Wiped
<1>2. bodies' = [u \in Uid |-> IF u \in Uid THEN NoRow ELSE bodies[u]] /\ Uid \in SUBSET Uid
  BY <1>1
<1>3. RanWell
  BY <1>1, <1>2, FewerBodies
<1>4. Indexed(Uid)'
  BY <1>1, Parts, RanTables
<1> QED BY <1>1, <1>3, <1>4 DEF NoMessages, NoBodies

(* Then the index, which agrees with the headers again. *)
LEMMA ClearsFts ==
  ASSUME CacheInv, NEW s, Ran(s), WipesFts(s), NoMessages, NoBodies
  PROVE  RanWell /\ NoMessages' /\ NoBodies' /\ Indexed({})' /\ mailboxRow' = mailboxRow
<1>1. fts' = [u \in Uid |-> 0] /\ messages' = messages /\ bodies' = bodies /\ mailboxRow' = mailboxRow
  BY Wiped
<1>2. RanWell
  BY <1>1, FtsWell
<1>3. Indexed({})'
  BY <1>1 DEF Indexed, Matched, NoMessages
<1> QED BY <1>1, <1>2, <1>3 DEF NoMessages, NoBodies

(* Empty tables satisfy what they should. *)
LEMMA EmptyAgrees ==
  ASSUME NoMessages, NoBodies, srv.gen # 0
  PROVE  Capped /\ BodiesKnown /\ Joined({}) /\ MovedLeave({})
<1>1. HasBody = {}
  BY DEF NoBodies, HasBody
<1>2. Cardinality({}) = 0 /\ BodyCap \in Nat
  BY FS_EmptySet, MailCacheAssumption
<1>3. Capped /\ BodiesKnown /\ Joined({})
  BY <1>1, <1>2 DEF Capped, BodiesKnown, Joined
<1>4. MovedLeave({})
  BY DEF MovedLeave, NoMessages, NoRow
<1> QED BY <1>3, <1>4

(* An account that is removed. *)
LEMMA ForgetRuns == ASSUME CacheInv, NEW s, Ran(s), Forget1 \/ Forget2 \/ Forget3 \/ Forget4 PROVE RanWell /\ Doing'
<1>1. CASE Forget1
  <2> DEFINE a == Do("clear messages", NoHeader)
             b == Do("clear bodies", NoHeader)
             c == Do("clear fts", NoHeader)
             d == Do("clear mailbox", NoHeader)
  <2>0. stmts = <<a, b, c, d>> /\ WipesMessages(a) /\ Indexed({}) /\ Capped /\ BodiesKnown
    BY <1>1, Wipes, Zenon DEF Forget1
  <2>4. stmts' = <<b, c, d>> /\ NoMessages' /\ Indexed(Uid)' /\ Capped' /\ BodiesKnown' => Forget2'
    BY Zenon DEF Forget2
  <2> HIDE DEF a, b, c, d
  <2>1. s = a /\ stmts' = <<b, c, d>>
    BY <2>0, TailOf
  <2>2. RanWell /\ NoMessages' /\ Indexed(Uid)' /\ Capped' /\ BodiesKnown'
    BY <2>0, <2>1, ClearsMessages
  <2>3. Forget2'
    BY <2>1, <2>2, <2>4
  <2> QED BY <2>2, <2>3 DEF Doing
<1>2. CASE Forget2
  <2> DEFINE b == Do("clear bodies", NoHeader)
             c == Do("clear fts", NoHeader)
             d == Do("clear mailbox", NoHeader)
  <2>0. stmts = <<b, c, d>> /\ WipesBodies(b) /\ NoMessages /\ Indexed(Uid)
    BY <1>2, Wipes, Zenon DEF Forget2
  <2>4. stmts' = <<c, d>> /\ NoMessages' /\ NoBodies' /\ Indexed(Uid)' => Forget3'
    BY Zenon DEF Forget3
  <2> HIDE DEF b, c, d
  <2>1. s = b /\ stmts' = <<c, d>>
    BY <2>0, TailOf
  <2>2. RanWell /\ NoMessages' /\ NoBodies' /\ Indexed(Uid)'
    BY <2>0, <2>1, ClearsBodies
  <2>3. Forget3'
    BY <2>1, <2>2, <2>4
  <2> QED BY <2>2, <2>3 DEF Doing
<1>3. CASE Forget3
  <2>1. s = Do("clear fts", NoHeader) /\ stmts' = <<Do("clear mailbox", NoHeader)>> /\ NoMessages /\ NoBodies
    BY <1>3, TailOf, Zenon DEF Forget3
  <2>2. RanWell /\ NoMessages' /\ NoBodies' /\ Indexed({})'
    <3>1. WipesFts(s) /\ NoMessages /\ NoBodies
      BY <2>1, Wipes, Zenon
    <3> QED BY ONLY CacheInv, Ran(s), <3>1, ClearsFts
  <2>3. Forget4'
    BY <2>1, <2>2, Zenon DEF Forget4
  <2> QED BY <2>2, <2>3 DEF Doing
<1>4. CASE Forget4
  <2>0. s = Do("clear mailbox", NoHeader) /\ stmts' = <<>> /\ NoMessages /\ NoBodies /\ Indexed({})
    BY <1>4, TailOf, Zenon DEF Forget4
  <2>1. WipesMailbox(s) /\ stmts' = <<>> /\ NoMessages /\ NoBodies /\ Indexed({})
    BY <2>0, Wipes, Zenon
  <2>2. mailboxRow' = <<0, 0>> /\ messages' = messages /\ bodies' = bodies /\ fts' = fts
    BY <2>1, Wiped
  <2>3. TablesTyped /\ TablesKnown /\ Waiting /\ Doing /\ srv.gen \in Nat \ {0} /\ srv' = srv /\ srv.next \in Nat
    BY Parts, Numbers, Still
  <2>4. RanWell
    <3>1. TablesTyped'
      BY <2>2, <2>3 DEF TablesTyped
    <3>2. TablesKnown'
      BY <2>2, <2>3 DEF TablesKnown
    <3>3. \A c \in CacheCmds : Queued(c) => Since(c, mailboxRow'[1]) /\ \A u \in Uid : ListsSince(c, bodies'[u].gen)
      BY <2>2, <2>3, FromNone DEF Waiting
    <3> QED BY <2>2, <3>1, <3>2, <3>3 DEF RanWell
  <2>5. NoMessages' /\ NoBodies' /\ srv'.gen # 0
    BY <2>1, <2>2, <2>3 DEF NoMessages, NoBodies
  <2>6. Indexed({})'
    BY <2>1, <2>2, <2>3, RanTables
  <2>7. (Capped /\ BodiesKnown /\ Joined({}) /\ MovedLeave({}))'
    <3>1. HasBody' = {}
      BY <2>5 DEF NoBodies, HasBody
    <3>2. Cardinality({}) = 0 /\ BodyCap \in Nat
      BY FS_EmptySet, MailCacheAssumption
    <3>3. Capped' /\ BodiesKnown' /\ Joined({})'
      BY <3>1, <3>2 DEF Capped, BodiesKnown, Joined
    <3>4. MovedLeave({})'
      BY <2>5 DEF MovedLeave, NoMessages, NoRow
    <3> QED BY <3>3, <3>4
  <2>8. Fetched'
    BY <2>2, <2>5 DEF Fetched
  <2>9. AllAgree'
    BY <2>6, <2>7, <2>8 DEF AllAgree
  <2> QED BY <2>1, <2>4, <2>9, Done
<1> QED BY <1>1, <1>2, <1>3, <1>4

(* A mailbox that was made again: what is known of the report stays. *)
LEMMA ReportStays ==
  ASSUME CacheInv, NEW s, Ran(s), NEW g \in Gens, NEW m \in Nat, ReportKnown(g, m), mailboxRow' = mailboxRow
  PROVE  ReportKnown(g, m)' /\ (Planned(g, m) /\ s.st # "message" => Planned(g, m)')
<1>1. ReportKnown(g, m)'
  BY Still DEF ReportKnown
<1>2. Planned(g, m) /\ s.st # "message" => Planned(g, m)'
  BY Still DEF Planned
<1> QED BY <1>1, <1>2

(* It is wiped, and what must be fetched stays planned. *)
LEMMA ReportRuns ==
  ASSUME CacheInv, NEW s, Ran(s), NEW g \in Gens, NEW m \in Nat, Report1(g, m) \/ Report2(g, m) \/ Report3(g, m)
  PROVE  RanWell /\ Doing'
<1>1. CASE Report1(g, m)
  <2> DEFINE a == Tell("clear messages", g, m)
             b == Tell("clear bodies", g, m)
             c == Tell("clear fts", g, m)
             d == Tell("mailbox", g, m)
  <2>0. /\ stmts = <<a, b, c, d>> /\ WipesMessages(a)
        /\ ReportKnown(g, m) /\ Planned(g, m) /\ Indexed({}) /\ Capped /\ BodiesKnown
    BY <1>1, Wipes, Zenon DEF Report1
  <2>6. stmts' = <<b, c, d>> /\ ReportKnown(g, m)' /\ Planned(g, m)' /\ NoMessages' /\ Indexed(Uid)' /\ Capped' /\ BodiesKnown'
        => Report2(g, m)'
    BY Zenon DEF Report2
  <2> HIDE DEF a, b, c, d
  <2>1. s = a /\ stmts' = <<b, c, d>>
    BY <2>0, TailOf
  <2>2. WipesMessages(s) /\ s.st # "message"
    BY <2>0, <2>1, WipesNoHeader
  <2>3. RanWell /\ NoMessages' /\ Indexed(Uid)' /\ Capped' /\ BodiesKnown' /\ mailboxRow' = mailboxRow
    BY <2>0, <2>2, ClearsMessages
  <2>4. ReportKnown(g, m)' /\ Planned(g, m)'
    BY <2>0, <2>2, <2>3, ReportStays
  <2>5. Report2(g, m)'
    BY <2>1, <2>3, <2>4, <2>6
  <2> QED BY <2>3, <2>5 DEF Doing
<1>2. CASE Report2(g, m)
  <2> DEFINE b == Tell("clear bodies", g, m)
             c == Tell("clear fts", g, m)
             d == Tell("mailbox", g, m)
  <2>0. stmts = <<b, c, d>> /\ WipesBodies(b) /\ ReportKnown(g, m) /\ Planned(g, m) /\ NoMessages /\ Indexed(Uid)
    BY <1>2, Wipes, Zenon DEF Report2
  <2>6. stmts' = <<c, d>> /\ ReportKnown(g, m)' /\ Planned(g, m)' /\ NoMessages' /\ NoBodies' /\ Indexed(Uid)' => Report3(g, m)'
    BY Zenon DEF Report3
  <2> HIDE DEF b, c, d
  <2>1. s = b /\ stmts' = <<c, d>>
    BY <2>0, TailOf
  <2>2. WipesBodies(s) /\ s.st # "message"
    BY <2>0, <2>1, WipesNoHeader
  <2>3. RanWell /\ NoMessages' /\ NoBodies' /\ Indexed(Uid)' /\ mailboxRow' = mailboxRow
    BY <2>0, <2>2, ClearsBodies
  <2>4. ReportKnown(g, m)' /\ Planned(g, m)'
    BY <2>0, <2>2, <2>3, ReportStays
  <2>5. Report3(g, m)'
    BY <2>1, <2>3, <2>4, <2>6
  <2> QED BY <2>3, <2>5 DEF Doing
<1>3. CASE Report3(g, m)
  <2>1. /\ s = Tell("clear fts", g, m) /\ stmts' = <<Tell("mailbox", g, m)>>
        /\ ReportKnown(g, m) /\ Planned(g, m) /\ NoMessages /\ NoBodies
    BY <1>3, TailOf, Zenon DEF Report3
  <2>2. WipesFts(s) /\ s.st # "message"
    BY <2>1, Wipes, WipesNoHeader, Zenon
  <2>3. RanWell /\ NoMessages' /\ NoBodies' /\ Indexed({})' /\ mailboxRow' = mailboxRow
    <3>1. NoMessages /\ NoBodies
      BY <2>1, Zenon
    <3> QED BY ONLY CacheInv, Ran(s), <2>2, <3>1, ClearsFts
  <2>4. ReportKnown(g, m)' /\ Planned(g, m)'
    <3>1. ReportKnown(g, m) /\ Planned(g, m)
      BY <2>1, Zenon
    <3> QED BY <2>2, <2>3, <3>1, ReportStays
  <2>5. srv'.gen # 0
    BY Parts, Still
  <2>6. (Capped /\ BodiesKnown /\ Joined({}) /\ MovedLeave({}))'
    <3>1. HasBody' = {}
      BY <2>3 DEF NoBodies, HasBody
    <3>2. Cardinality({}) = 0 /\ BodyCap \in Nat
      BY FS_EmptySet, MailCacheAssumption
    <3>3. Capped' /\ BodiesKnown' /\ Joined({})'
      BY <3>1, <3>2 DEF Capped, BodiesKnown, Joined
    <3>4. MovedLeave({})'
      BY <2>3, <2>5 DEF MovedLeave, NoMessages, NoRow
    <3> QED BY <3>3, <3>4
  <2>7. Report4(g, m)'
    <3>1. stmts' = <<Tell("mailbox", g, m)>>
      BY <2>1, Zenon
    <3> QED BY <2>3, <2>4, <2>6, <3>1 DEF Report4, Planned
  <2> QED BY <2>3, <2>7 DEF Doing
<1> QED BY <1>1, <1>2, <1>3

(* What the mailbox is now is recorded. *)
LEMMA RecordRuns ==
  ASSUME CacheInv, NEW s, Ran(s), NEW g \in Gens, NEW m \in Nat, Report4(g, m)
  PROVE  RanWell /\ Doing'
<1>1. /\ s = Tell("mailbox", g, m) /\ stmts' = <<>> /\ ReportKnown(g, m)
      /\ (OnTime /\ g = srv.gen => \A u \in srv.uids : u < m => messages[u].gen = srv.gen \/ Brings(u))
      /\ (Clean => NoBodies \/ mailboxRow[1] = g)
      /\ Indexed({}) /\ Capped /\ BodiesKnown /\ Joined({}) /\ MovedLeave({})
  BY TailOf DEF Report4
<1>2. s.st = "mailbox" /\ s.gen = g /\ s.next = m
  BY <1>1, TellIs
<1>3. mailboxRow' = <<g, m>> /\ messages' = messages /\ bodies' = bodies /\ fts' = fts /\ mailboxRow'[1] = g /\ mailboxRow'[2] = m
  BY <1>2, RanMailbox DEF Only
<1>4. TablesTyped /\ TablesKnown /\ Waiting /\ Doing /\ g # 0
  BY Parts DEF Gens
<1>5. RanWell
  <2>1. TablesTyped'
    BY <1>3, <1>4 DEF TablesTyped
  <2>2. TablesKnown'
    BY <1>1, <1>3, <1>4, Still DEF TablesKnown, ReportKnown
  <2>3. \A c \in CacheCmds : Queued(c) => Since(c, mailboxRow'[1]) /\ \A u \in Uid : ListsSince(c, bodies'[u].gen)
    BY <1>1, <1>3, <1>4 DEF Waiting, ReportKnown
  <2>4. frontend # "win32"
    BY <1>1 DEF ReportKnown
  <2> QED BY <2>1, <2>2, <2>3, <2>4 DEF RanWell
<1>6. Indexed({})' /\ Capped' /\ MovedLeave({})'
  BY <1>1, <1>3, <1>4, RanTables
<1>7. BodiesKnown' /\ Joined({})'
  <2>1. HasBody' = HasBody
    BY <1>3 DEF HasBody
  <2>2. Clean => HasBody = {} \/ mailboxRow[1] = g
    BY <1>1 DEF NoBodies, HasBody
  <2>3. BodiesKnown'
    BY <1>1, <1>3, <1>4, <2>1, <2>2, Still DEF BodiesKnown
  <2>4. Joined({})'
    BY <1>1, <1>3, <2>1, <2>2, Still DEF Joined
  <2> QED BY <2>3, <2>4
<1>8. Fetched'
  BY <1>1, <1>2, <1>3, Still DEF Fetched
<1>9. AllAgree'
  BY <1>6, <1>7, <1>8 DEF AllAgree
<1> QED BY <1>1, <1>5, <1>9, Done

(* A statement runs. *)
LEMMA RunStatementStep == ASSUME CacheInv, RunStatement PROVE CacheInv'
<1>1. PICK s : Ran(s)
  BY Runs
<1>2. Doing
  BY Parts
<1>3. RanWell /\ Doing'
  <2>1. CASE Listing
    BY <1>1, <2>1, ListingRuns
  <2>2. ASSUME NEW h \in Headers, Flags(h) \/ Mail1(h) \/ Mail2(h) \/ Mail3(h) \/ Mail4(h) \/ Mail5(h) \/ Move1(h) \/ Move2(h) \/ Move3(h)
        PROVE  RanWell /\ Doing'
    BY <1>1, <2>2, FlagsRuns, Mail1Runs, Mail2Runs, Mail3Runs, Mail4Runs, Mail5Runs, Move1Runs, Move2Runs, Move3Runs
  <2>3. CASE Forget1 \/ Forget2 \/ Forget3 \/ Forget4
    BY <1>1, <2>3, ForgetRuns
  <2>4. ASSUME NEW g \in Gens, NEW m \in Nat, Report1(g, m) \/ Report2(g, m) \/ Report3(g, m) \/ Report4(g, m)
        PROVE  RanWell /\ Doing'
    BY <1>1, <2>4, ReportRuns, RecordRuns
  <2> QED BY <1>2, <2>1, <2>2, <2>3, <2>4 DEF Doing
<1> QED BY <1>1, <1>3, RanStep

(***************************************************************************)
(* The cache: every step                                                   *)
(***************************************************************************)

(* The invariant is kept by every step of the cache ... *)
LEMMA CacheStep == ASSUME CacheInv, CacheNext PROVE CacheInv'
<1>1. CASE Deliver \/ Recreate \/ MailData
  BY <1>1, DeliverStep, RecreateStep, MailDataStep
<1>2. CASE (\E op \in {"List", "Read", "Move"}, u \in Uid : Request(op, u)) \/ \E u \in Uid : Download(u)
  BY <1>2, RequestStep, DownloadStep
<1>3. CASE ImapStep \/ ImapFails \/ PumpNews
  BY <1>3, ImapStepStep, ImapFailsStep, PumpNewsStep
<1>4. CASE HandlePlan \/ RemoveAccount \/ \E col \in LateColumns : AddColumn(col)
  BY <1>4, HandlePlanStep, RemoveAccountStep, AddColumnStep
<1>5. CASE TakeCommand \/ RunStatement \/ CacheCrash
  BY <1>5, TakeCommandStep, RunStatementStep, CrashStep
<1> QED BY <1>1, <1>2, <1>3, <1>4, <1>5 DEF CacheNext

(* ... and by one of other parts; *)
LEMMA CacheSame == ASSUME CacheInv, UNCHANGED cacheVars PROVE CacheInv'
<1>0. UNCHANGED <<frontend, srv, wire, hand, news, dbCmds, stmts, plans, columns, messages, bodies, fts, mailboxRow, spoiled>>
  BY DEF cacheVars, tables
<1>1. CacheTyped' /\ ServerKnown' /\ HandKnown' /\ TablesKnown' /\ Sides' /\ QueuesOrdered'
  BY <1>0 DEF CacheInv, CacheTyped, TablesTyped, QueuesTyped, ServerKnown, HandKnown, TablesKnown, Sides, QueuesOrdered
<1>2. CacheTyped /\ ServerKnown /\ TablesKnown /\ Waiting /\ MovedFollow /\ Doing
  BY DEF CacheInv
<1>3. (\A c : Queued(c)' <=> Queued(c)) /\ (OnTime' <=> OnTime) /\ (Whole' <=> Whole) /\ (Clean' <=> Clean)
  BY <1>0 DEF Queued, OnTime, Whole, Clean
<1>4. (\A u : Leaves(u)' <=> Leaves(u)) /\ (\A u : Brings(u)' <=> Brings(u))
  BY <1>0, <1>3 DEF Leaves, Brings
<1>5. Waiting' /\ MovedFollow'
  BY <1>0, <1>2, <1>3, <1>4 DEF Waiting, MovedFollow, Asked
<1>6. Outside
  <2>1. srv.gen \in Nat /\ srv.next \in Nat
    BY <1>2, Numbers
  <2> QED BY <1>0, <1>3, <1>4, <2>1 DEF Outside
<1> QED BY <1>1, <1>2, <1>5, <1>6, OutsideStep

(* it holds at first ... *)
LEMMA CacheStarts == ASSUME CacheInit PROVE CacheInv
<1>0. /\ frontend \in {"core", "win32"} /\ srv = [gen |-> 1, next |-> 2, uids |-> {1}, seen |-> {}]
      /\ wire = <<>> /\ hand = {} /\ news = <<>> /\ dbCmds = <<>> /\ stmts = <<>> /\ plans = <<>>
      /\ columns \subseteq LateColumns
      /\ messages = [u \in Uid |-> NoRow] /\ bodies = [u \in Uid |-> NoRow] /\ fts = [u \in Uid |-> 0]
      /\ mailboxRow = <<0, 0>> /\ spoiled = {} /\ MaxUid \in Nat \ {0} /\ DbQueue \in Nat
  BY MailCacheAssumption DEF CacheInit, LateColumns
<1>1. CacheTyped
  BY <1>0 DEF CacheTyped, TablesTyped, QueuesTyped, CacheRows
<1>2. ServerKnown
  BY <1>0 DEF ServerKnown, Uid, Gens
<1>3. \A c : ~Queued(c)
  BY <1>0 DEF Queued, In
<1>4. Sides /\ HandKnown
  BY <1>0 DEF Sides, HandKnown, In
<1>5. Waiting /\ MovedFollow
  BY <1>3 DEF Waiting, MovedFollow
<1>6. QueuesOrdered
  <2>1. InOrder(<<>>) /\ Across(<<>>, <<>>)
    BY DEF InOrder, Across, In
  <2> QED BY <1>0, <2>1 DEF QueuesOrdered
<1>7. TablesKnown
  BY <1>0 DEF TablesKnown, NoRow
<1>8. Capped /\ BodiesKnown /\ Joined({}) /\ MovedLeave({})
  BY <1>0, EmptyAgrees DEF NoMessages, NoBodies
<1>9. Indexed({}) /\ Fetched
  BY <1>0 DEF Indexed, Matched, Fetched
<1>10. Doing
  <2>1. stmts \in Seq(HeaderSteps) /\ Len(stmts) = 0
    BY <1>0
  <2> QED BY <1>8, <1>9, <2>1 DEF Doing, Listing, AllAgree
<1> QED BY <1>1, <1>2, <1>4, <1>5, <1>6, <1>7, <1>10 DEF CacheInv

(* ... and says that the cache agrees with the server. *)
LEMMA CacheImplies ==
  ASSUME CacheInv
  PROVE  CacheTypeOK /\ BodyIsOfItsHeader /\ BelowUidNextIsCached /\ MovedStaysAway /\ FoundOnce /\ CacheWithinCap
<1>1. CacheTyped /\ TablesTyped /\ ServerKnown /\ Doing /\ srv.gen \in Nat /\ Uid \subseteq Nat /\ srv.uids \subseteq Uid
  BY Parts, Numbers
<1>2. stmts = <<>> => AllAgree
  BY <1>1, IdleAgrees
<1>3. CacheTypeOK
  <2>1. \A r \in CacheRows : r.gen \in 0..2
    BY DEF CacheRows, NoRow, Gens
  <2>2. \A u \in Uid : fts[u] \in Nat /\ messages[u] \in CacheRows /\ bodies[u] \in CacheRows
    BY <1>1 DEF TablesTyped
  <2>3. srv.uids \subseteq Uid /\ srv.seen \subseteq srv.uids /\ srv.next \in 1..(MaxUid + 1)
    BY <1>1 DEF ServerKnown
  <2>4. /\ frontend \in {"core", "win32"} /\ columns \subseteq LateColumns /\ Len(dbCmds) <= DbQueue
        /\ (stmts # <<>> => columns = LateColumns) /\ spoiled \subseteq {"torn", "lost", "late", "early"}
    BY <1>1 DEF CacheTyped, QueuesTyped
  <2> QED BY <2>1, <2>2, <2>3, <2>4 DEF CacheTypeOK
<1>4. BodyIsOfItsHeader
  <2> SUFFICES ASSUME stmts = <<>>, Clean, NEW u \in Uid, FetchMail(u) # <<>>, FetchMail(u)[1] = mailboxRow[1]
               PROVE  FetchMail(u)[2] = FetchMail(u)[1]
    BY DEF BodyIsOfItsHeader, Clean
  <2>1. messages[u] # NoRow /\ bodies[u] # NoRow /\ FetchMail(u) = <<messages[u].gen, bodies[u].gen>>
    BY DEF FetchMail
  <2>2. Joined({})
    BY <1>2 DEF AllAgree
  <2>3. bodies[u].gen = mailboxRow[1]
    BY <2>1, <2>2 DEF Joined, HasBody
  <2> QED BY <2>1, <2>3
<1>5. <<stmts, dbCmds, plans, news, wire>> = <<<<>>, <<>>, <<>>, <<>>, <<>>>> => \A u : ~Brings(u) /\ ~Leaves(u)
  BY DEF Brings, Leaves, Queued, In
<1>6. BelowUidNextIsCached
  <2> SUFFICES ASSUME frontend = "core", OnTime, <<stmts, dbCmds, plans, news, wire>> = <<<<>>, <<>>, <<>>, <<>>, <<>>>>,
                      mailboxRow[1] = srv.gen, NEW u \in srv.uids, u < mailboxRow[2]
               PROVE  messages[u].gen = srv.gen
    BY DEF BelowUidNextIsCached, OnTime
  <2>1. stmts = <<>>
    OBVIOUS
  <2> QED BY <1>2, <1>5, <2>1 DEF AllAgree, Fetched
<1>7. MovedStaysAway
  <2> SUFFICES ASSUME <<stmts, dbCmds, plans, news, wire>> = <<<<>>, <<>>, <<>>, <<>>, <<>>>>, OnTime,
                      NEW u \in Newest(MaxUid), messages[u].gen = srv.gen
               PROVE  u \in srv.uids
    BY DEF MovedStaysAway, OnTime
  <2>1. stmts = <<>> /\ u \in Uid
    BY DEF Newest
  <2> QED BY <1>2, <1>5, <2>1 DEF AllAgree, MovedLeave
<1>8. FoundOnce
  <2> SUFFICES ASSUME stmts = <<>>, Whole, NEW u \in Uid
               PROVE  fts[u] <= 1 /\ (frontend = "win32" => SearchHits(u) = (IF messages[u] # NoRow THEN 1 ELSE 0))
    BY DEF FoundOnce, Whole
  <2>1. Indexed({})
    BY <1>2 DEF AllAgree
  <2> QED BY <2>1 DEF Indexed, Matched, SearchHits
<1>9. CacheWithinCap
  BY <1>2 DEF CacheWithinCap, AllAgree, Capped, Whole, HasBody
<1> QED BY <1>3, <1>4, <1>6, <1>7, <1>8, <1>9

(* The cache agrees with the server it was filled from, whatever is listed,
   fetched, downloaded, moved, lost or cut off by a crash, between any two
   statements of its commands (db.rs). *)
THEOREM CacheStaysTrue == MCSpec => []CacheAgrees
<1> DEFINE I == part = "cache" => CacheInv
<1>1. MCInit => I
  BY CacheStarts DEF MCInit
<1>2. I /\ [MCNext]_mailVars => I'
  <2> SUFFICES ASSUME I, [MCNext]_mailVars PROVE I'
    OBVIOUS
  <2>1. part' = part
    BY DEF MCNext, mailVars
  <2>2. ASSUME part = "cache" PROVE CacheInv'
    <3>1. CASE CacheNext
      BY <2>2, <3>1, CacheStep
    <3>2. CASE UNCHANGED cacheVars
      BY <2>2, <3>2, CacheSame
    <3> QED BY <2>2, <3>1, <3>2 DEF MCNext, mailVars
  <2> QED BY <2>1, <2>2
<1>3. I => CacheAgrees
  BY CacheImplies DEF CacheAgrees
<1> QED BY <1>1, <1>2, <1>3, PTL DEF MCSpec
=============================================================================
