--------------------------- MODULE Outbox_proofs ---------------------------
(***************************************************************************)
(* Proofs about Outbox, for every size of the queues, every number of old  *)
(* rows and every bound: types; an outbox row never has two senders; a row *)
(* stays until its message is done; nothing accepted is lost; a locked     *)
(* window has its outcome to come.                                         *)
(*                                                                         *)
(* RowHasOneSender alone is not inductive: in a state where the answer "id *)
(* owns row r" is queued behind a listing that shows r, the timer could    *)
(* claim r first and the answer would then give it a second owner.         *)
(* PendingRowIsUnclaimed excludes those states; it holds because the cache *)
(* actor answers in order.                                                 *)
(*                                                                         *)
(* RowStaysUntilDone needs Faithful: a command to delete a row may wait in *)
(* the queue while everything around it changes, so what justifies it must *)
(* be something no later step takes back (the letter the row is about is   *)
(* done), and every answer that can lead to such a command must be true of *)
(* the row it names.                                                       *)
(*                                                                         *)
(* NothingLost needs two more invariants: GoneIsDone, that what is still   *)
(* remembered of a deleted row is about a letter that is done, and         *)
(* AcceptedIsSafe, which counts only the copies that closing a window does *)
(* not take away.                                                          *)
(***************************************************************************)
EXTENDS Outbox, FiniteSetTheorems, TLAPS

(***************************************************************************)
(* Partial functions                                                       *)
(***************************************************************************)

(* A map keeps its type when a pair is added. *)
LEMMA PutType ==
  ASSUME NEW f, NEW S, NEW T, NEW k \in S, NEW v \in T, MapInto(f, S, T)
  PROVE  /\ MapInto(Put(f, k, v), S, T)
         /\ DOMAIN Put(f, k, v) = DOMAIN f \cup {k}
         /\ Put(f, k, v)[k] = v
         /\ \A x \in DOMAIN f : x # k => Put(f, k, v)[x] = f[x]
BY DEF MapInto, Put

(* A map keeps its type when a key is removed. *)
LEMMA WithoutType ==
  ASSUME NEW f, NEW S, NEW T, NEW k, MapInto(f, S, T)
  PROVE  /\ MapInto(Without(f, k), S, T)
         /\ DOMAIN Without(f, k) = DOMAIN f \ {k}
         /\ \A x \in DOMAIN f \ {k} : Without(f, k)[x] = f[x]
BY DEF MapInto, Without

(* A map keeps its type when the counter behind its keys or values grows. *)
LEMMA WidenType ==
  ASSUME NEW f, NEW S, NEW S2, NEW T, NEW T2,
         MapInto(f, S, T), S \subseteq S2, T \subseteq T2
  PROVE  MapInto(f, S2, T2)
BY DEF MapInto

(* The empty map has every type. *)
LEMMA EmptyType ==
  ASSUME NEW S, NEW T
  PROVE  MapInto(Empty, S, T) /\ DOMAIN Empty = {}
BY DEF MapInto, Empty

(***************************************************************************)
(* The cache actor's command queue                                         *)
(***************************************************************************)

(* Commands whose answer names a compose id name one in 1..n. *)
Commands(q, n) ==
  /\ q \in Seq(Command)
  /\ \A i \in 1..Len(q) : q[i].op = "enqueue" /\ q[i].reply => q[i].id \in 1..n

(* Queueing commands keeps the queue typed and within its channel. *)
LEMMA PushType ==
  ASSUME NEW q, NEW cmds, NEW n \in Nat, NEW m \in Nat, n <= m,
         Commands(q, n), Commands(cmds, m), Len(q) <= CacheQueue
  PROVE  Commands(Push(q, cmds), m) /\ Len(Push(q, cmds)) <= CacheQueue
<1> DEFINE all == q \o cmds
           k == IF Len(q) + Len(cmds) > CacheQueue THEN CacheQueue ELSE Len(q) + Len(cmds)
<1>1. all \in Seq(Command) /\ Len(all) = Len(q) + Len(cmds)
  BY DEF Commands
<1>2. k \in Nat /\ k <= Len(all) /\ k <= CacheQueue
  BY <1>1, QueueAssumption DEF Commands
<1>3. Push(q, cmds) = SubSeq(all, 1, k)
  BY DEF Push
<1>4. /\ SubSeq(all, 1, k) \in Seq(Command) /\ Len(SubSeq(all, 1, k)) = k
      /\ \A i \in 1..k : SubSeq(all, 1, k)[i] = all[i]
  <2> HIDE DEF all, k
  <2> QED BY <1>1, <1>2
<1>5. \A i \in 1..Len(all) : all[i].op = "enqueue" /\ all[i].reply => all[i].id \in 1..m
  <2> SUFFICES ASSUME NEW i \in 1..Len(all), all[i].op = "enqueue", all[i].reply
               PROVE  all[i].id \in 1..m
    OBVIOUS
  <2>1. CASE i <= Len(q)
    BY <2>1, <1>1 DEF Commands
  <2>2. CASE i > Len(q)
    <3>1. i - Len(q) \in 1..Len(cmds) /\ all[i] = cmds[i - Len(q)]
      BY <2>2, <1>1 DEF Commands
    <3> QED BY <3>1 DEF Commands
  <2> QED BY <2>1, <2>2, <1>1 DEF Commands
<1> HIDE DEF all, k
<1> QED BY <1>1, <1>2, <1>3, <1>4, <1>5 DEF Commands

(* What is queued is what was, and what was sent. *)
LEMMA PushElements ==
  ASSUME NEW q \in Seq(Command), NEW cmds \in Seq(Command)
  PROVE  \A k \in 1..Len(Push(q, cmds)) : \/ \E j \in 1..Len(q) : Push(q, cmds)[k] = q[j]
                                          \/ \E j \in 1..Len(cmds) : Push(q, cmds)[k] = cmds[j]
<1> DEFINE all == q \o cmds
           l == IF Len(q) + Len(cmds) > CacheQueue THEN CacheQueue ELSE Len(q) + Len(cmds)
<1>1. all \in Seq(Command) /\ Len(all) = Len(q) + Len(cmds) /\ Len(q) \in Nat /\ Len(cmds) \in Nat
  OBVIOUS
<1>2. l \in Nat /\ l <= Len(all)
  BY <1>1, QueueAssumption
<1>3. Push(q, cmds) = SubSeq(all, 1, l)
  BY DEF Push
<1>4. \A k \in 1..Len(all) : (k \in 1..Len(q) /\ all[k] = q[k]) \/ (k - Len(q) \in 1..Len(cmds) /\ all[k] = cmds[k - Len(q)])
  BY <1>1
<1> HIDE DEF all, l
<1>5. Len(SubSeq(all, 1, l)) = l /\ \A k \in 1..l : SubSeq(all, 1, l)[k] = all[k]
  BY <1>1, <1>2
<1>6. ASSUME NEW k \in 1..l
      PROVE  (\E j \in 1..Len(q) : all[k] = q[j]) \/ \E j \in 1..Len(cmds) : all[k] = cmds[j]
  <2>1. k \in 1..Len(all)
    BY <1>1, <1>2
  <2> QED BY <1>4, <2>1
<1>7. Len(Push(q, cmds)) = l /\ \A k \in 1..l : Push(q, cmds)[k] = all[k]
  BY <1>3, <1>5
<1> QED BY <1>6, <1>7

(* The commands the UI thread queues, other than an enqueue, name no id. *)
LEMMA PlainCommands ==
  ASSUME NEW n \in Nat
  PROVE  /\ Commands(<<>>, n) /\ Commands(Refresh, n)
         /\ \A op \in {"sent", "delete", "failed"}, r \in Nat :
              Commands(<<OnRow(op, r)>>, n) /\ Commands(<<OnRow(op, r)>> \o Refresh, n)
         /\ Commands(<<Ask("due")>>, n) /\ Commands(<<Ask("list")>>, n)
<1>1. \A op \in {"sent", "delete", "failed", "due", "list"}, r \in Nat : OnRow(op, r) \in Command /\ OnRow(op, r).op # "enqueue"
  BY DEF OnRow, Command, NoText, Text
<1> QED BY <1>1 DEF Commands, Refresh, Ask

(* What a refused retry or an unknown account makes the UI thread queue. *)
LEMMA BackOffCommands ==
  ASSUME NEW n \in Nat, NEW rows \in Seq(Nat), queueOpen \in BOOLEAN
  PROVE  LET all == [i \in 1..Len(rows) |-> OnRow("failed", rows[i])]
         IN  /\ Commands(BackOffEach(rows), n) /\ \A k \in 1..Len(BackOffEach(rows)) : BackOffEach(rows)[k].op \in {"failed", "list"}
             /\ Commands(all, n) /\ \A k \in 1..Len(all) : all[k].op \in {"failed", "list"}
<1>1. \A op \in {"failed", "list"}, r \in Nat : OnRow(op, r) \in Command /\ OnRow(op, r).op = op
  BY DEF OnRow, Command, NoText, Text
<1>2. ASSUME NEW len \in Nat, NEW s, DOMAIN s = 1..len, s = [i \in 1..len |-> s[i]],
             \A i \in 1..len : s[i] \in Command /\ s[i].op \in {"failed", "list"}
      PROVE  Commands(s, n) /\ \A i \in 1..Len(s) : s[i].op \in {"failed", "list"}
  <2>1. s \in [1..len -> Command]
    BY <1>2
  <2>2. s \in Seq(Command) /\ Len(s) = len
    BY <2>1
  <2> QED BY <1>2, <2>2 DEF Commands
<1>3. LET s == [i \in 1..Len(rows) |-> OnRow("failed", rows[i])]
      IN  Commands(s, n) /\ \A i \in 1..Len(s) : s[i].op \in {"failed", "list"}
  <2> DEFINE s == [i \in 1..Len(rows) |-> OnRow("failed", rows[i])]
  <2>1. \A i \in 1..Len(rows) : s[i] \in Command /\ s[i].op \in {"failed", "list"}
    BY <1>1
  <2>2. Len(rows) \in Nat /\ DOMAIN s = 1..Len(rows) /\ s = [i \in 1..Len(rows) |-> s[i]]
    OBVIOUS
  <2> HIDE DEF s
  <2>3. Commands(s, n) /\ \A i \in 1..Len(s) : s[i].op \in {"failed", "list"}
    BY <1>2, <2>1, <2>2
  <2> QED BY <2>3 DEF s
<1>4. ASSUME NEW i \in 1..(2 * Len(rows)), i % 2 = 1
      PROVE  (i + 1) \div 2 \in 1..Len(rows)
  BY <1>4
<1>5. LET s == [i \in 1..(2 * Len(rows)) |-> IF i % 2 = 1 THEN OnRow("failed", rows[(i + 1) \div 2]) ELSE Ask("list")]
      IN  Commands(s, n) /\ \A i \in 1..Len(s) : s[i].op \in {"failed", "list"}
  <2> DEFINE s == [i \in 1..(2 * Len(rows)) |-> IF i % 2 = 1 THEN OnRow("failed", rows[(i + 1) \div 2]) ELSE Ask("list")]
  <2>1. \A i \in 1..(2 * Len(rows)) : s[i] \in Command /\ s[i].op \in {"failed", "list"}
    BY <1>1, <1>4 DEF Ask
  <2>2. 2 * Len(rows) \in Nat /\ DOMAIN s = 1..(2 * Len(rows)) /\ s = [i \in 1..(2 * Len(rows)) |-> s[i]]
    OBVIOUS
  <2> HIDE DEF s
  <2>3. Commands(s, n) /\ \A i \in 1..Len(s) : s[i].op \in {"failed", "list"}
    BY <1>2, <2>1, <2>2
  <2> QED BY <2>3 DEF s
<1> QED BY <1>3, <1>5 DEF BackOffEach

(***************************************************************************)
(* outbox_due                                                              *)
(***************************************************************************)

(* A set of rows or ids that a counter has handed out is finite. *)
LEMMA Counted ==
  ASSUME NEW a \in Nat, NEW b \in Nat, NEW S, S \subseteq a..b
  PROVE  IsFiniteSet(S) /\ Cardinality(S) \in Nat
<1>1. IsFiniteSet(a..b)
  BY FS_Interval
<1>2. IsFiniteSet(S)
  BY <1>1, FS_Subset
<1> QED BY <1>2, FS_CardinalityType

(* Sequences of Ascending(S) list elements of S, each once. *)
LEMMA AscendingType ==
  ASSUME NEW S, S \subseteq Nat, IsFiniteSet(S), NEW s \in Ascending(S)
  PROVE  /\ s \in Seq(S) /\ s \in Seq(Nat) /\ Len(s) = Cardinality(S)
         /\ \A i \in 1..Cardinality(S) : s[i] \in S
         /\ \A i, j \in 1..Cardinality(S) : s[i] = s[j] => i = j
<1> DEFINE n == Cardinality(S)
<1>1. n \in Nat
  BY FS_CardinalityType
<1>2. s \in [1..n -> S] /\ \A i, j \in 1..n : i < j => s[i] < s[j]
  BY DEF Ascending
<1> HIDE DEF n
<1>3. s \in [1..n -> Nat]
  BY <1>2
<1>4. s \in Seq(S) /\ s \in Seq(Nat) /\ Len(s) = n
  BY <1>1, <1>2, <1>3
<1>5. ASSUME NEW i \in 1..n, NEW j \in 1..n, s[i] = s[j]
      PROVE  i = j
  <2>1. s[i] \in Nat /\ i \in Int /\ j \in Int
    BY <1>1, <1>3
  <2>2. ~(s[i] < s[j]) /\ ~(s[j] < s[i])
    BY <1>5, <2>1
  <2>3. ~(i < j) /\ ~(j < i)
    BY <1>2, <2>2
  <2> QED BY <2>1, <2>3
<1> QED BY <1>2, <1>4, <1>5 DEF n

(* Appending one sequence to another. *)
LEMMA ConcatType ==
  ASSUME NEW T, NEW a \in Seq(T), NEW b \in Seq(T)
  PROVE  /\ a \o b \in Seq(T) /\ Len(a \o b) = Len(a) + Len(b)
         /\ \A i \in 1..Len(a \o b) :
              \/ i \in 1..Len(a) /\ (a \o b)[i] = a[i]
              \/ i - Len(a) \in 1..Len(b) /\ (a \o b)[i] = b[i - Len(a)]
OBVIOUS

(* A sequence given by its elements. *)
LEMMA SeqOfType ==
  ASSUME NEW T, NEW len \in Nat, NEW s, DOMAIN s = 1..len, s = [i \in 1..len |-> s[i]],
         \A i \in 1..len : s[i] \in T
  PROVE  s \in Seq(T) /\ Len(s) = len
OBVIOUS

(* The text a listing gives for a row it has. *)
LEMMA TextOfType ==
  ASSUME NEW list, list \subseteq Item, NEW r \in RowsOf(list)
  PROVE  TextOf(list, r) \in Text
<1>1. \E it \in list : it.row = r
  BY DEF RowsOf
<1>2. (CHOOSE it \in list : it.row = r) \in Item
  BY <1>1
<1> QED BY <1>2 DEF TextOf, Item

(* The fresh id i retries the row it owns with the text `due` shows. *)
Retried(due, i, text) ==
  i > lastId /\ i \in DOMAIN outboxRows' /\ outboxRows'[i] \in RowsOf(due) /\ text = TextOf(due, outboxRows'[i])

(* What outbox_due does: fresh ids only, each for another row that no live id
   owned, and every queue and map keeps its type. *)
LEMMA OutboxDueFacts ==
  ASSUME TypeOK, NEW due, due \subseteq Item, RowsOf(due) \subseteq 1..lastRow,
         NEW refused, OutboxDue(due, refused)
  PROVE  /\ lastId' \in Nat /\ lastId <= lastId' /\ failures' \in Nat
         /\ MapInto(outboxRows', 1..lastId', 1..lastRow)
         /\ MapInto(inFlight', 1..lastId', Text)
         /\ Commands(dbQ', lastId') /\ Len(dbQ') <= CacheQueue
         /\ smtpQ' \in Seq(Mail) /\ Len(smtpQ') <= SmtpQueue
         /\ \A i \in 1..Len(smtpQ') : smtpQ'[i].id \in 1..lastId'
         /\ DOMAIN inFlight' \subseteq DOMAIN inFlight \cup (lastId + 1)..lastId'
         /\ \A i \in DOMAIN outboxRows' :
              \/ i \in DOMAIN outboxRows /\ outboxRows'[i] = outboxRows[i]
              \/ i > lastId /\ outboxRows'[i] \in RowsOf(due) \ Owned
         /\ \A i, j \in DOMAIN outboxRows' :
              i > lastId /\ j > lastId /\ outboxRows'[i] = outboxRows'[j] => i = j
         /\ \A i \in DOMAIN inFlight' : \/ i \in DOMAIN inFlight /\ inFlight'[i] = inFlight[i]
                                        \/ Retried(due, i, inFlight'[i])
         /\ \A k \in 1..Len(smtpQ') : \/ k \in 1..Len(smtpQ) /\ smtpQ'[k] = smtpQ[k]
                                      \/ Retried(due, smtpQ'[k].id, smtpQ'[k].text)
         /\ \A k \in 1..Len(dbQ') : dbQ'[k].op \in {"failed", "list"} \/ \E j \in 1..Len(dbQ) : dbQ'[k] = dbQ[j]
<1> DEFINE free == RowsOf(due) \ Owned
           todo == IF configured THEN free ELSE {}
           n == Cardinality(todo)
           ids == (lastId + 1)..(lastId + n)
<1>1. /\ lastId \in Nat /\ lastRow \in Nat /\ failures \in Nat /\ queueOpen \in BOOLEAN
      /\ MapInto(inFlight, 1..lastId, Text) /\ MapInto(outboxRows, 1..lastId, 1..lastRow)
      /\ Commands(dbQ, lastId) /\ Len(dbQ) <= CacheQueue
      /\ smtpQ \in Seq(Mail) /\ \A i \in 1..Len(smtpQ) : smtpQ[i].id \in 1..lastId
  BY DEF TypeOK, UiTypeOK, CacheTypeOK, SmtpTypeOK, BoundsTypeOK, Commands
<1>2. free \subseteq 1..lastRow /\ todo \subseteq free
  OBVIOUS
<1>3. IsFiniteSet(free) /\ IsFiniteSet(todo) /\ n \in Nat
  BY <1>1, <1>2, Counted
<1>4. refused \subseteq todo /\ IsFiniteSet(refused) /\ Cardinality(refused) \in Nat
  BY <1>3, FS_Subset, FS_CardinalityType DEF OutboxDue
<1>5. lastId' = lastId + n /\ lastId' \in Nat /\ failures' \in Nat
  BY <1>1, <1>3, <1>4 DEF OutboxDue
<1>6. PICK order \in Ascending(todo) :
        LET rowOf(id) == order[id - lastId]
            sends == {id \in ids : rowOf(id) \notin refused}
        IN /\ outboxRows' = [id \in DOMAIN outboxRows \cup ids |-> IF id \in ids THEN rowOf(id) ELSE outboxRows[id]]
           /\ inFlight' = [id \in DOMAIN inFlight \cup sends |-> IF id \in sends THEN TextOf(due, rowOf(id)) ELSE inFlight[id]]
           /\ \E seq \in Ascending(sends) :
                smtpQ' = smtpQ \o [k \in 1..Len(seq) |-> [id |-> seq[k], text |-> TextOf(due, rowOf(seq[k]))]]
  BY DEF OutboxDue
<1> DEFINE rowOf(id) == order[id - lastId]
           sends == {id \in ids : rowOf(id) \notin refused}
<1>7. /\ outboxRows' = [id \in DOMAIN outboxRows \cup ids |-> IF id \in ids THEN rowOf(id) ELSE outboxRows[id]]
      /\ inFlight' = [id \in DOMAIN inFlight \cup sends |-> IF id \in sends THEN TextOf(due, rowOf(id)) ELSE inFlight[id]]
      /\ \E seq \in Ascending(sends) :
           smtpQ' = smtpQ \o [k \in 1..Len(seq) |-> [id |-> seq[k], text |-> TextOf(due, rowOf(seq[k]))]]
  BY <1>6
<1>8. /\ \A i \in 1..n : order[i] \in todo
      /\ \A i, j \in 1..n : order[i] = order[j] => i = j
  <2>1. todo \subseteq Nat
    BY <1>1, <1>2
  <2> QED BY <1>3, <2>1, AscendingType
<1> HIDE DEF free, todo, n
<1>9. \A id \in ids : /\ id \in 1..lastId' /\ id \in Nat /\ id > lastId /\ id - lastId \in 1..n
                      /\ rowOf(id) \in todo /\ rowOf(id) \in free /\ rowOf(id) \in 1..lastRow
  <2>1. \A id \in ids : id - lastId \in 1..n /\ id \in 1..lastId' /\ id \in Nat /\ id > lastId
    BY <1>1, <1>3, <1>5
  <2> QED BY <2>1, <1>2, <1>8
<1>10. \A id \in ids : TextOf(due, rowOf(id)) \in Text
  <2>1. free \subseteq RowsOf(due)
    BY DEF free
  <2> QED BY <1>9, <2>1, TextOfType
<1>11. \A i, j \in ids : rowOf(i) = rowOf(j) => i = j
  <2> SUFFICES ASSUME NEW i \in ids, NEW j \in ids, rowOf(i) = rowOf(j)
               PROVE  i = j
    OBVIOUS
  <2>1. i - lastId = j - lastId
    BY <1>8, <1>9
  <2> QED BY <2>1, <1>1, <1>9
<1>12. sends \subseteq ids /\ ids = (lastId + 1)..lastId' /\ 1..lastId \subseteq 1..lastId'
  BY <1>1, <1>3, <1>5
<1> HIDE DEF ids, rowOf, sends
<1>13. MapInto(outboxRows', 1..lastId', 1..lastRow)
  BY <1>1, <1>7, <1>9, <1>12 DEF MapInto
<1>14. MapInto(inFlight', 1..lastId', Text) /\ DOMAIN inFlight' \subseteq DOMAIN inFlight \cup (lastId + 1)..lastId'
  BY <1>1, <1>7, <1>9, <1>10, <1>12 DEF MapInto
<1>15. \A i \in DOMAIN outboxRows' :
         \/ i \in DOMAIN outboxRows /\ outboxRows'[i] = outboxRows[i]
         \/ i > lastId /\ outboxRows'[i] \in RowsOf(due) \ Owned
  <2>1. free = RowsOf(due) \ Owned
    BY DEF free
  <2> QED BY <1>7, <1>9, <2>1
<1>16. \A i, j \in DOMAIN outboxRows' : i > lastId /\ j > lastId /\ outboxRows'[i] = outboxRows'[j] => i = j
  <2>1. \A i \in DOMAIN outboxRows : ~(i > lastId)
    BY <1>1 DEF MapInto
  <2> QED BY <1>7, <1>11, <2>1
<1>17. \A i \in ids : i \in DOMAIN outboxRows' /\ outboxRows'[i] = rowOf(i) /\ Retried(due, i, TextOf(due, rowOf(i)))
  <2>1. \A i \in ids : i \in DOMAIN outboxRows' /\ outboxRows'[i] = rowOf(i) /\ rowOf(i) \in RowsOf(due) /\ i > lastId
    BY <1>7, <1>9 DEF free
  <2> QED BY <2>1 DEF Retried
<1>18. \A i \in DOMAIN inFlight' : (i \in DOMAIN inFlight /\ inFlight'[i] = inFlight[i]) \/ Retried(due, i, inFlight'[i])
  BY <1>7, <1>12, <1>17
<1>19. /\ smtpQ' \in Seq(Mail)
       /\ \A i \in 1..Len(smtpQ') : smtpQ'[i].id \in 1..lastId'
       /\ \A k \in 1..Len(smtpQ') : \/ k \in 1..Len(smtpQ) /\ smtpQ'[k] = smtpQ[k]
                                    \/ Retried(due, smtpQ'[k].id, smtpQ'[k].text)
  <2>1. PICK seq \in Ascending(sends) :
          smtpQ' = smtpQ \o [k \in 1..Len(seq) |-> [id |-> seq[k], text |-> TextOf(due, rowOf(seq[k]))]]
    BY <1>7
  <2>2. sends \subseteq Nat /\ IsFiniteSet(sends)
    BY <1>9, <1>12, <1>1, <1>5, Counted
  <2>3. Len(seq) \in Nat /\ \A k \in 1..Len(seq) : seq[k] \in sends
    <3>1. Len(seq) = Cardinality(sends) /\ \A k \in 1..Cardinality(sends) : seq[k] \in sends
      BY <2>2, AscendingType
    <3> QED BY <3>1, <2>2, FS_CardinalityType
  <2> DEFINE more == [k \in 1..Len(seq) |-> [id |-> seq[k], text |-> TextOf(due, rowOf(seq[k]))]]
  <2>4. ASSUME NEW k \in 1..Len(seq)
        PROVE  more[k] \in Mail /\ more[k].id \in 1..lastId' /\ Retried(due, more[k].id, more[k].text)
    <3>1. seq[k] \in ids /\ more[k] = [id |-> seq[k], text |-> TextOf(due, rowOf(seq[k]))]
      BY <2>3, <1>12
    <3>2. seq[k] \in Nat /\ seq[k] \in 1..lastId' /\ TextOf(due, rowOf(seq[k])) \in Text
      BY <3>1, <1>9, <1>10
    <3>3. more[k].id = seq[k] /\ more[k].text = TextOf(due, rowOf(seq[k]))
      BY <3>1
    <3> QED BY <1>17, <3>1, <3>2, <3>3 DEF Mail
  <2>5. DOMAIN more = 1..Len(seq) /\ more = [k \in 1..Len(seq) |-> more[k]]
    OBVIOUS
  <2> HIDE DEF more
  <2>6. more \in Seq(Mail) /\ Len(more) = Len(seq)
    BY <2>3, <2>4, <2>5, SeqOfType
  <2>7. smtpQ' = smtpQ \o more
    BY <2>1 DEF more
  <2>8. smtpQ' \in Seq(Mail)
    BY <1>1, <2>6, <2>7, ConcatType
  <2>9. ASSUME NEW i \in 1..Len(smtpQ')
        PROVE  /\ smtpQ'[i].id \in 1..lastId'
               /\ (i \in 1..Len(smtpQ) /\ smtpQ'[i] = smtpQ[i]) \/ Retried(due, smtpQ'[i].id, smtpQ'[i].text)
    <3>1. \/ i \in 1..Len(smtpQ) /\ smtpQ'[i] = smtpQ[i]
          \/ i - Len(smtpQ) \in 1..Len(more) /\ smtpQ'[i] = more[i - Len(smtpQ)]
      BY <1>1, <2>6, <2>7, ConcatType
    <3> QED BY <3>1, <1>1, <1>12, <2>4, <2>6
  <2> QED BY <2>8, <2>9
<1>20. Len(smtpQ') <= SmtpQueue
  BY DEF OutboxDue
<1>21. /\ Commands(dbQ', lastId') /\ Len(dbQ') <= CacheQueue
       /\ \A k \in 1..Len(dbQ') : dbQ'[k].op \in {"failed", "list"} \/ \E j \in 1..Len(dbQ) : dbQ'[k] = dbQ[j]
  <2>1. PICK rows \in Ascending(IF configured THEN refused ELSE free) :
          dbQ' = Push(dbQ, IF configured THEN BackOffEach(rows) ELSE [k \in 1..Len(rows) |-> OnRow("failed", rows[k])])
    BY DEF OutboxDue, free
  <2>2. (IF configured THEN refused ELSE free) \subseteq Nat /\ IsFiniteSet(IF configured THEN refused ELSE free)
    BY <1>1, <1>2, <1>3, <1>4
  <2>3. rows \in Seq(Nat)
    BY <2>1, <2>2, AscendingType
  <2> DEFINE cmds == IF configured THEN BackOffEach(rows) ELSE [k \in 1..Len(rows) |-> OnRow("failed", rows[k])]
  <2>4. Commands(cmds, lastId') /\ \A k \in 1..Len(cmds) : cmds[k].op \in {"failed", "list"}
    BY <1>1, <1>5, <2>3, BackOffCommands
  <2>5. lastId <= lastId' /\ dbQ' = Push(dbQ, cmds)
    BY <1>1, <1>3, <1>5, <2>1
  <2> HIDE DEF cmds
  <2>6. Commands(dbQ', lastId') /\ Len(dbQ') <= CacheQueue
    BY <1>1, <1>5, <2>4, <2>5, PushType
  <2>7. \A k \in 1..Len(dbQ') : (\E j \in 1..Len(dbQ) : dbQ'[k] = dbQ[j]) \/ \E j \in 1..Len(cmds) : dbQ'[k] = cmds[j]
    <3>1. dbQ \in Seq(Command) /\ cmds \in Seq(Command)
      BY <1>1, <2>4 DEF Commands
    <3>2. \A k \in 1..Len(Push(dbQ, cmds)) : \/ \E j \in 1..Len(dbQ) : Push(dbQ, cmds)[k] = dbQ[j]
                                             \/ \E j \in 1..Len(cmds) : Push(dbQ, cmds)[k] = cmds[j]
      BY <3>1, PushElements
    <3> QED BY <2>5, <3>2
  <2> QED BY <2>4, <2>6, <2>7
<1> QED
  <2>1. lastId <= lastId'
    BY <1>1, <1>3, <1>5
  <2> QED BY <1>5, <1>13, <1>14, <1>15, <1>16, <1>19, <1>20, <1>21, <1>18, <2>1

(***************************************************************************)
(* Types                                                                   *)
(***************************************************************************)

(* The initial state is typed. *)
LEMMA TypeInit == Init => TypeOK
<1> SUFFICES ASSUME Init PROVE TypeOK
  OBVIOUS
<1>1. UiTypeOK
  BY EmptyType, BoundAssumption DEF Init, UiTypeOK, RowsOf
<1>2. CacheTypeOK
  <2>1. MapInto(table, 1..lastRow, Queued) /\ lastRow \in Nat
    BY BoundAssumption DEF Init, MapInto, Queued, Text
  <2>2. dbQ = <<Ask("due")>> /\ dbEv = <<>>
    BY DEF Init
  <2>3. Ask("due") \in Command /\ Ask("due").op # "enqueue"
    BY DEF Ask, OnRow, Command, NoText, Text
  <2> QED BY <2>1, <2>2, <2>3, QueueAssumption DEF CacheTypeOK
<1>3. SmtpTypeOK
  BY QueueAssumption DEF Init, SmtpTypeOK
<1>4. BoundsTypeOK
  BY BoundAssumption DEF Init, BoundsTypeOK
<1> QED BY <1>1, <1>2, <1>3, <1>4 DEF TypeOK

(* A step that leaves the cache actor alone keeps its types. *)
LEMMA CacheFrame ==
  ASSUME TypeOK, lastId' \in Nat, lastId <= lastId', UNCHANGED <<dbEv, table, lastRow>>,
         Commands(dbQ', lastId'), Len(dbQ') <= CacheQueue
  PROVE  CacheTypeOK'
BY DEF TypeOK, UiTypeOK, CacheTypeOK, Commands

(* A step that leaves the SMTP actor alone keeps its types. *)
LEMMA SmtpFrame ==
  ASSUME TypeOK, lastId' \in Nat, lastId <= lastId', UNCHANGED <<smtpQ, smtpEv>>
  PROVE  SmtpTypeOK'
BY DEF TypeOK, UiTypeOK, SmtpTypeOK

(* A step that leaves the command queue alone keeps it typed. *)
LEMMA QueueFrame ==
  ASSUME TypeOK, lastId' \in Nat, lastId <= lastId'
  PROVE  Commands(dbQ, lastId') /\ Len(dbQ) <= CacheQueue
BY DEF TypeOK, UiTypeOK, CacheTypeOK, Commands

(* Queueing commands from the UI thread. *)
LEMMA QueuePush ==
  ASSUME TypeOK, lastId' \in Nat, lastId <= lastId', NEW cmds, Commands(cmds, lastId')
  PROVE  Commands(Push(dbQ, cmds), lastId') /\ Len(Push(dbQ, cmds)) <= CacheQueue
<1>1. lastId \in Nat /\ Commands(dbQ, lastId) /\ Len(dbQ) <= CacheQueue
  BY DEF TypeOK, UiTypeOK, CacheTypeOK, Commands
<1> QED BY <1>1, PushType

(* The bounds of a user's step. *)
LEMMA ActBounds ==
  ASSUME TypeOK, Act, letters' \in Nat, NoFault
  PROVE  BoundsTypeOK'
BY DEF TypeOK, BoundsTypeOK, Act, NoFault

(* Every step of a compose window keeps the types. *)
LEMMA ComposeTypeStep ==
  ASSUME TypeOK,
         OpenCompose \/ \E id \in DOMAIN open : Edit(id) \/ Send(id) \/ SaveDraft(id) \/ Close(id) \/ Discard(id)
  PROVE  TypeOK'
<1>1. /\ lastId \in Nat /\ lastRow \in Nat /\ letters \in Nat
      /\ MapInto(open, 1..lastId, Window) /\ sending \subseteq DOMAIN open
      /\ MapInto(inFlight, 1..lastId, Text) /\ MapInto(outboxRows, 1..lastId, 1..lastRow)
      /\ items \subseteq Item /\ RowsOf(items) \subseteq 1..lastRow
  BY DEF TypeOK, UiTypeOK, CacheTypeOK, BoundsTypeOK
<1>2. CASE OpenCompose
  <2> DEFINE text == [letter |-> letters + 1, v |-> 1]
  <2>1. /\ lastId' = lastId + 1 /\ open' = Put(open, lastId + 1, [text |-> text, saved |-> text.v])
        /\ UNCHANGED <<sending, inFlight, outboxRows, queueOpen, items, account, db, smtp>>
    BY <1>2 DEF OpenCompose, StartCompose
  <2>2. [text |-> text, saved |-> text.v] \in Window
    BY <1>1 DEF Window, Text
  <2>3. lastId' \in Nat /\ lastId <= lastId' /\ lastId + 1 \in 1..lastId' /\ 1..lastId \subseteq 1..lastId'
    BY <1>1, <2>1
  <2> HIDE DEF text
  <2>4. MapInto(open', 1..lastId', Window) /\ DOMAIN open \subseteq DOMAIN open'
    <3> DEFINE w == [text |-> text, saved |-> text.v]
    <3>1. w \in Window /\ open' = Put(open, lastId + 1, w)
      BY <2>1, <2>2
    <3> HIDE DEF w
    <3>2. MapInto(Put(open, lastId + 1, w), 1..lastId', Window) /\ DOMAIN Put(open, lastId + 1, w) = DOMAIN open \cup {lastId + 1}
      <4>1. MapInto(open, 1..lastId', Window)
        BY <1>1, <2>3, WidenType
      <4>2. lastId + 1 \in 1..lastId' /\ w \in Window
        BY <2>3, <3>1
      <4> QED BY <4>1, <4>2 DEF MapInto, Put
    <3> QED BY <3>1, <3>2
  <2>5. MapInto(inFlight', 1..lastId', Text) /\ MapInto(outboxRows', 1..lastId', 1..lastRow')
    BY <1>1, <2>1, <2>3, WidenType DEF db
  <2>6. UiTypeOK'
    BY <1>1, <2>1, <2>3, <2>4, <2>5 DEF TypeOK, UiTypeOK, account, db, RowsOf
  <2>7. CacheTypeOK' /\ SmtpTypeOK'
    BY <2>1, <2>3, QueueFrame, CacheFrame, SmtpFrame DEF db, smtp
  <2>8. letters' \in Nat /\ Act /\ NoFault
    BY <1>1, <1>2 DEF OpenCompose
  <2> QED BY <2>6, <2>7, <2>8, ActBounds DEF TypeOK
<1> SUFFICES ASSUME NEW id \in DOMAIN open,
                    Edit(id) \/ Send(id) \/ SaveDraft(id) \/ Close(id) \/ Discard(id)
             PROVE  TypeOK'
  BY <1>2
<1>3. /\ lastId' = lastId /\ lastId' \in Nat /\ lastId <= lastId' /\ lastRow' = lastRow /\ letters' = letters
      /\ UNCHANGED <<queueOpen, items, configured, removing, dbEv, table>>
      /\ BoundsTypeOK'
  BY <1>1, ActBounds DEF Edit, Send, SaveDraft, Close, Discard, history, account, db, smtp
<1>4. id \in 1..lastId /\ open[id] \in Window /\ open[id].text \in Text
  BY <1>1 DEF MapInto, Window
<1>5. MapInto(open', 1..lastId', Window) /\ sending' \subseteq DOMAIN open'
  <2>1. CASE Edit(id) \/ SaveDraft(id)
    BY <1>1, <1>3, <1>4, <2>1 DEF Edit, SaveDraft, MapInto, Window, Text
  <2>2. CASE Send(id)
    BY <1>1, <1>3, <2>2 DEF Send
  <2>3. CASE Close(id) \/ Discard(id)
    <3>1. MapInto(Without(open, id), 1..lastId, Window) /\ DOMAIN Without(open, id) = DOMAIN open \ {id}
      BY <1>1, WithoutType
    <3>2. open' = Without(open, id) /\ sending' = sending \ {id}
      BY <2>3 DEF Close, Discard
    <3> QED BY <1>1, <1>3, <3>1, <3>2
  <2> QED BY <2>1, <2>2, <2>3
<1>6. MapInto(inFlight', 1..lastId', Text)
  <2>1. MapInto(Without(inFlight, id), 1..lastId, Text)
    BY <1>1, WithoutType
  <2>2. MapInto(Put(inFlight, id, open[id].text), 1..lastId, Text)
    BY <1>1, <1>4, PutType
  <2>3. inFlight' \in {inFlight, Without(inFlight, id), Put(inFlight, id, open[id].text)}
    BY DEF Edit, Send, SaveDraft, Close, Discard
  <2> QED BY <1>1, <1>3, <2>1, <2>2, <2>3
<1>7. MapInto(outboxRows', 1..lastId', 1..lastRow')
  <2>1. MapInto(Without(outboxRows, id), 1..lastId, 1..lastRow)
    BY <1>1, WithoutType
  <2>2. outboxRows' \in {outboxRows, Without(outboxRows, id)}
    BY DEF Edit, Send, SaveDraft, Close, Discard
  <2> QED BY <1>1, <1>3, <2>1, <2>2
<1>8. UiTypeOK'
  BY <1>1, <1>3, <1>5, <1>6, <1>7 DEF TypeOK, UiTypeOK, RowsOf
<1>9. Commands(dbQ', lastId') /\ Len(dbQ') <= CacheQueue
  <2>1. CASE Discard(id) /\ id \in DOMAIN outboxRows
    <3>1. outboxRows[id] \in Nat
      BY <1>1, <2>1 DEF MapInto
    <3> QED BY <1>3, <2>1, <3>1, PlainCommands, QueuePush DEF Discard
  <2>2. CASE dbQ' = dbQ
    BY <1>3, <2>2, QueueFrame
  <2> QED BY <2>1, <2>2 DEF Edit, Send, SaveDraft, Close, Discard, db
<1>10. CacheTypeOK'
  BY <1>3, <1>9, CacheFrame
<1>11. SmtpTypeOK'
  <2>1. CASE Send(id)
    <3>1. [id |-> id, text |-> open[id].text] \in Mail
      BY <1>1, <1>4 DEF Mail
    <3> QED BY <1>1, <1>3, <1>4, <2>1, <3>1, QueueAssumption DEF Send, TypeOK, SmtpTypeOK
  <2>2. CASE UNCHANGED smtp
    BY <1>3, <2>2, SmtpFrame DEF smtp
  <2> QED BY <2>1, <2>2 DEF Edit, SaveDraft, Close, Discard
<1> QED BY <1>3, <1>8, <1>10, <1>11 DEF TypeOK

(* Every step of the Outbox window and of account removal keeps the types. *)
LEMMA QueueTypeStep ==
  ASSUME TypeOK,
         \/ ShowQueue \/ CloseQueue \/ RemoveAccount
         \/ \E it \in items : RetryQueued(it) \/ EditQueued(it) \/ DeleteQueued(it)
  PROVE  TypeOK'
<1>1. /\ lastId \in Nat /\ lastRow \in Nat /\ letters \in Nat
      /\ MapInto(open, 1..lastId, Window) /\ sending \subseteq DOMAIN open
      /\ MapInto(inFlight, 1..lastId, Text) /\ MapInto(outboxRows, 1..lastId, 1..lastRow)
      /\ items \subseteq Item /\ RowsOf(items) \subseteq 1..lastRow
  BY DEF TypeOK, UiTypeOK, CacheTypeOK, BoundsTypeOK
<1>2. CASE ShowQueue \/ CloseQueue \/ RemoveAccount
  <2>1. /\ lastId' = lastId /\ lastId' \in Nat /\ lastId <= lastId' /\ letters' \in Nat /\ Act /\ NoFault
        /\ UNCHANGED <<open, sending, inFlight, outboxRows, dbEv, table, lastRow, smtpQ, smtpEv>>
        /\ items' \in {items, {}}
    BY <1>1, <1>2 DEF ShowQueue, CloseQueue, RemoveAccount, ui, db, smtp, history
  <2>0. queueOpen' \in BOOLEAN /\ configured' \in BOOLEAN /\ removing' \in BOOLEAN
    <3>1. queueOpen \in BOOLEAN /\ configured \in BOOLEAN /\ removing \in BOOLEAN
      BY DEF TypeOK, UiTypeOK
    <3>2. CASE ShowQueue
      BY <3>1, <3>2 DEF ShowQueue, account
    <3>3. CASE CloseQueue
      BY <3>1, <3>3 DEF CloseQueue, account
    <3>4. CASE RemoveAccount
      BY <3>1, <3>4 DEF RemoveAccount, ui
    <3> QED BY <1>2, <3>2, <3>3, <3>4
  <2>2. UiTypeOK'
    BY <1>1, <2>0, <2>1 DEF UiTypeOK, RowsOf
  <2>3. Commands(dbQ', lastId') /\ Len(dbQ') <= CacheQueue
    <3>1. dbQ' \in {dbQ, Push(dbQ, <<Ask("list")>>)}
      BY <1>2 DEF ShowQueue, CloseQueue, RemoveAccount, db
    <3> QED BY <2>1, <3>1, QueueFrame, QueuePush, PlainCommands
  <2> QED BY <2>1, <2>2, <2>3, CacheFrame, SmtpFrame, ActBounds DEF TypeOK
<1> SUFFICES ASSUME NEW it \in items, RetryQueued(it) \/ EditQueued(it) \/ DeleteQueued(it)
             PROVE  TypeOK'
  BY <1>2
<1>3. it \in Item /\ it.row \in 1..lastRow /\ it.row \in Nat /\ it.text \in Text
  BY <1>1 DEF RowsOf, Item
<1>4. CASE RetryQueued(it)
  <2>1. PICK refused : OutboxDue({it}, refused)
    BY <1>4 DEF RetryQueued
  <2>2. {it} \subseteq Item /\ RowsOf({it}) \subseteq 1..lastRow
    BY <1>3 DEF RowsOf
  <2>3. /\ lastId' \in Nat /\ lastId <= lastId' /\ failures' \in Nat
        /\ MapInto(outboxRows', 1..lastId', 1..lastRow) /\ MapInto(inFlight', 1..lastId', Text)
        /\ Commands(dbQ', lastId') /\ Len(dbQ') <= CacheQueue
        /\ smtpQ' \in Seq(Mail) /\ Len(smtpQ') <= SmtpQueue
        /\ \A i \in 1..Len(smtpQ') : smtpQ'[i].id \in 1..lastId'
    BY <2>1, <2>2, OutboxDueFacts
  <2>4. /\ UNCHANGED <<open, sending, queueOpen, items, configured, removing, dbEv, table, lastRow, smtpEv, letters, disruptions>>
        /\ Act
    BY <1>4 DEF RetryQueued, account
  <2>5. MapInto(open', 1..lastId', Window)
    BY <1>1, <2>3, <2>4, WidenType
  <2>6. UiTypeOK'
    BY <1>1, <2>3, <2>4, <2>5 DEF TypeOK, UiTypeOK, RowsOf
  <2>7. CacheTypeOK'
    BY <2>3, <2>4, CacheFrame
  <2>8. SmtpTypeOK'
    BY <1>1, <2>3, <2>4 DEF TypeOK, SmtpTypeOK
  <2>9. BoundsTypeOK'
    BY <2>3, <2>4 DEF TypeOK, BoundsTypeOK, Act
  <2> QED BY <2>6, <2>7, <2>8, <2>9 DEF TypeOK
<1>5. CASE EditQueued(it)
  <2>1. /\ lastId' = lastId + 1 /\ open' = Put(open, lastId + 1, [text |-> it.text, saved |-> it.text.v])
        /\ items' = items \ {it} /\ dbQ' = Push(dbQ, <<OnRow("delete", it.row)>> \o Refresh)
        /\ UNCHANGED <<sending, inFlight, outboxRows, queueOpen, configured, removing, dbEv, table, lastRow, smtpQ, smtpEv, letters>>
        /\ Act /\ NoFault
    BY <1>5 DEF EditQueued, StartCompose, account, smtp
  <2>2. lastId' \in Nat /\ lastId <= lastId' /\ lastId + 1 \in 1..lastId' /\ 1..lastId \subseteq 1..lastId'
    BY <1>1, <2>1
  <2>3. MapInto(open', 1..lastId', Window) /\ DOMAIN open \subseteq DOMAIN open'
    <3> DEFINE w == [text |-> it.text, saved |-> it.text.v]
    <3>1. w \in Window /\ open' = Put(open, lastId + 1, w)
      BY <1>3, <2>1 DEF Window, Text
    <3> HIDE DEF w
    <3>2. MapInto(open, 1..lastId', Window)
      BY <1>1, <2>2, WidenType
    <3> QED BY <2>2, <3>1, <3>2 DEF MapInto, Put
  <2>4. MapInto(inFlight', 1..lastId', Text) /\ MapInto(outboxRows', 1..lastId', 1..lastRow')
    BY <1>1, <2>1, <2>2, WidenType
  <2>5. UiTypeOK'
    BY <1>1, <2>1, <2>2, <2>3, <2>4 DEF TypeOK, UiTypeOK, RowsOf
  <2>6. Commands(dbQ', lastId') /\ Len(dbQ') <= CacheQueue
    BY <1>3, <2>1, <2>2, PlainCommands, QueuePush
  <2> QED BY <1>1, <2>1, <2>2, <2>5, <2>6, CacheFrame, SmtpFrame, ActBounds DEF TypeOK
<1>6. CASE DeleteQueued(it)
  <2>1. /\ lastId' = lastId /\ lastId' \in Nat /\ lastId <= lastId'
        /\ dbQ' = Push(dbQ, <<OnRow("delete", it.row)>> \o Refresh)
        /\ UNCHANGED <<open, sending, inFlight, outboxRows, queueOpen, items, configured, removing, dbEv, table, lastRow, smtpQ, smtpEv, letters>>
        /\ Act /\ NoFault
    BY <1>1, <1>6 DEF DeleteQueued, ui, account, smtp
  <2>2. UiTypeOK'
    BY <1>1, <2>1 DEF TypeOK, UiTypeOK, RowsOf
  <2>3. Commands(dbQ', lastId') /\ Len(dbQ') <= CacheQueue
    BY <1>3, <2>1, PlainCommands, QueuePush
  <2> QED BY <1>1, <2>1, <2>2, <2>3, CacheFrame, SmtpFrame, ActBounds DEF TypeOK
<1> QED BY <1>4, <1>5, <1>6

(* Every step of the cache actor, the SMTP actor and the clock keeps the types. *)
LEMMA ActorTypeStep ==
  ASSUME TypeOK, CacheActor \/ SmtpActor \/ Clock
  PROVE  TypeOK'
<1>1. /\ lastId \in Nat /\ lastRow \in Nat
      /\ MapInto(table, 1..lastRow, Queued) /\ MapInto(outboxRows, 1..lastId, 1..lastRow)
      /\ dbQ \in Seq(Command) /\ Len(dbQ) <= CacheQueue
      /\ \A i \in 1..Len(dbQ) : dbQ[i].op = "enqueue" /\ dbQ[i].reply => dbQ[i].id \in 1..lastId
      /\ dbEv \in Seq(Event)
      /\ \A i \in 1..Len(dbEv) :
           /\ RowsOf(dbEv[i].items) \subseteq 1..lastRow
           /\ dbEv[i].ev = "enqueued" => dbEv[i].id \in 1..lastId /\ dbEv[i].row \in 1..lastRow /\ dbEv[i].items = {}
      /\ smtpQ \in Seq(Mail) /\ Len(smtpQ) <= SmtpQueue /\ smtpEv \in Seq(Outcome)
      /\ \A i \in 1..Len(smtpQ) : smtpQ[i].id \in 1..lastId
      /\ \A i \in 1..Len(smtpEv) : smtpEv[i].id \in 1..lastId
  BY DEF TypeOK, UiTypeOK, CacheTypeOK, SmtpTypeOK
<1>2. lastId' = lastId /\ lastId' \in Nat /\ lastId <= lastId'
  BY <1>1 DEF CacheActor, SmtpActor, Clock, DbEnqueue, DbQuery, DbDelete, DbFailed, DbError, SmtpSent, SmtpError, Poll, BackoffEnds, ui
<1>3. CASE Poll
  <2>1. UiTypeOK' /\ BoundsTypeOK' /\ UNCHANGED <<dbEv, table, lastRow, smtpQ, smtpEv>> /\ dbQ' = Push(dbQ, <<Ask("due")>>)
    BY <1>3 DEF Poll, TypeOK, UiTypeOK, BoundsTypeOK, ui, account, smtp, history, bounds, RowsOf
  <2> QED BY <1>2, <2>1, PlainCommands, QueuePush, CacheFrame, SmtpFrame DEF TypeOK
<1>4. ASSUME NEW r \in DOMAIN table, BackoffEnds(r)
      PROVE  TypeOK'
  <2>1. /\ UiTypeOK' /\ BoundsTypeOK' /\ UNCHANGED <<dbQ, dbEv, lastRow, smtpQ, smtpEv>>
        /\ table' = [table EXCEPT ![r].due = TRUE]
    BY <1>4 DEF BackoffEnds, TypeOK, UiTypeOK, BoundsTypeOK, ui, account, smtp, history, bounds, RowsOf
  <2>2. MapInto(table', 1..lastRow', Queued)
    BY <1>1, <2>1 DEF MapInto, Queued
  <2>3. CacheTypeOK'
    BY <1>1, <1>2, <2>1, <2>2 DEF CacheTypeOK
  <2> QED BY <1>2, <2>1, <2>3, SmtpFrame DEF TypeOK
<1>5. CASE SmtpActor
  <2>1. /\ UNCHANGED <<ui, account, db>> /\ letters' = letters /\ clicks' = clicks /\ disruptions' = disruptions
        /\ failures' \in {failures, failures + 1}
        /\ smtpQ # <<>> /\ smtpQ' = Tail(smtpQ)
    BY <1>5 DEF SmtpActor, SmtpSent, SmtpError, bounds
  <2>2. UiTypeOK' /\ BoundsTypeOK' /\ CacheTypeOK'
    BY <2>1 DEF TypeOK, UiTypeOK, BoundsTypeOK, CacheTypeOK, ui, account, db, RowsOf
  <2>3. PICK ok \in BOOLEAN : smtpEv' = Append(smtpEv, [id |-> Head(smtpQ).id, ok |-> ok])
    BY <1>5 DEF SmtpActor, SmtpSent, SmtpError
  <2>4. Head(smtpQ) = smtpQ[1] /\ 1 \in 1..Len(smtpQ) /\ Head(smtpQ) \in Mail
    BY <1>1, <2>1
  <2>5. [id |-> Head(smtpQ).id, ok |-> ok] \in Outcome /\ Head(smtpQ).id \in 1..lastId
    BY <1>1, <2>4 DEF Outcome, Mail
  <2>6. smtpEv' \in Seq(Outcome) /\ \A i \in 1..Len(smtpEv') : smtpEv'[i].id \in 1..lastId
    BY <1>1, <2>3, <2>5
  <2>7. smtpQ' \in Seq(Mail) /\ Len(smtpQ') <= SmtpQueue /\ \A i \in 1..Len(smtpQ') : smtpQ'[i].id \in 1..lastId
    BY <1>1, <2>1, QueueAssumption
  <2> QED BY <1>2, <2>2, <2>6, <2>7 DEF TypeOK, SmtpTypeOK
<1>6. CASE CacheActor
  <2>1. /\ UNCHANGED <<ui, account, smtp, letters, clicks, failures>> /\ disruptions' \in {disruptions, disruptions + 1}
        /\ dbQ # <<>> /\ dbQ' = Tail(dbQ) /\ lastRow' \in {lastRow, lastRow + 1}
    BY <1>6 DEF CacheActor, DbEnqueue, DbQuery, DbDelete, DbFailed, DbError, Took, history, bounds, Disrupt
  <2>2. lastRow' \in Nat /\ lastRow <= lastRow' /\ 1..lastRow \subseteq 1..lastRow'
    BY <1>1, <2>1
  <2>3. UiTypeOK'
    <3>1. MapInto(outboxRows', 1..lastId', 1..lastRow')
      BY <1>1, <1>2, <2>1, <2>2, WidenType DEF ui
    <3> QED BY <2>1, <2>2, <3>1 DEF TypeOK, UiTypeOK, ui, account, RowsOf
  <2>4. BoundsTypeOK' /\ SmtpTypeOK'
    BY <1>2, <2>1, SmtpFrame DEF TypeOK, BoundsTypeOK, smtp
  <2>5. /\ dbQ' \in Seq(Command) /\ Len(dbQ') <= CacheQueue
        /\ \A i \in 1..Len(dbQ') : dbQ'[i].op = "enqueue" /\ dbQ'[i].reply => dbQ'[i].id \in 1..lastId
    BY <1>1, <2>1, QueueAssumption
  <2>6. /\ Cmd = dbQ[1] /\ Cmd \in Command /\ (Cmd.op = "enqueue" /\ Cmd.reply => Cmd.id \in 1..lastId)
        /\ Cmd.text \in Text /\ Cmd.id \in Nat
    <3>1. Cmd = dbQ[1] /\ Cmd \in Command /\ 1 \in 1..Len(dbQ)
      BY <1>1, <2>1 DEF Cmd
    <3>2. Cmd.op = "enqueue" /\ Cmd.reply => Cmd.id \in 1..lastId
      BY <1>1, <3>1
    <3>3. Cmd.text \in Text /\ Cmd.id \in Nat
      BY <3>1 DEF Command
    <3> QED BY <3>1, <3>2, <3>3
  <2>7. MapInto(table', 1..lastRow', Queued)
    <3>1. CASE DbEnqueue
      <4> DEFINE w == [text |-> Cmd.text, due |-> TRUE]
      <4>1. w \in Queued
        BY <2>6 DEF Queued
      <4>2. table' = Put(table, lastRow + 1, w) /\ lastRow' = lastRow + 1
        BY <3>1 DEF DbEnqueue
      <4> HIDE DEF w
      <4>3. MapInto(table, 1..lastRow', Queued) /\ lastRow + 1 \in 1..lastRow'
        BY <1>1, <2>2, <4>2, WidenType
      <4> QED BY <4>1, <4>2, <4>3 DEF MapInto, Put
    <3>2. CASE DbDelete
      <4>1. MapInto(Without(table, Cmd.row), 1..lastRow, Queued)
        BY <1>1, WithoutType
      <4> QED BY <3>2, <4>1 DEF DbDelete
    <3>3. CASE DbFailed
      BY <1>1, <3>3 DEF DbFailed, MapInto, Queued
    <3>4. CASE DbQuery \/ DbError
      BY <1>1, <3>4 DEF DbQuery, DbError
    <3> QED BY <1>6, <3>1, <3>2, <3>3, <3>4 DEF CacheActor
  <2>8. dbEv' = dbEv \/ \E e \in Event :
          /\ dbEv' = Append(dbEv, e) /\ RowsOf(e.items) \subseteq 1..lastRow'
          /\ (e.ev = "enqueued" => e.id \in 1..lastId /\ e.row \in 1..lastRow' /\ e.items = {})
    <3>1. CASE DbEnqueue /\ Cmd.reply
      <4> DEFINE e == Enqueued(Cmd.id, lastRow + 1)
      <4>1. dbEv' = Append(dbEv, e) /\ lastRow' = lastRow + 1 /\ Cmd.op = "enqueue"
        BY <3>1 DEF DbEnqueue, Answer
      <4>2. e \in Event /\ e.items = {} /\ e.id = Cmd.id /\ e.row = lastRow + 1 /\ RowsOf(e.items) = {}
        BY <1>1, <2>6 DEF Enqueued, Event, RowsOf
      <4>3. e.id \in 1..lastId /\ e.row \in 1..lastRow'
        BY <1>1, <2>6, <3>1, <4>1, <4>2
      <4> HIDE DEF e
      <4> QED BY <4>1, <4>2, <4>3
    <3>2. CASE DbQuery /\ Cmd.reply
      <4> DEFINE rows == {r \in DOMAIN table : Cmd.op = "list" \/ table[r].due}
                 list == {[row |-> r, text |-> table[r].text] : r \in rows}
                 e == Listing(Cmd.op, list)
      <4>1. dbEv' = Append(dbEv, e) /\ Cmd.op \in {"due", "list"}
        BY <3>2 DEF DbQuery, Answer
      <4>2. list \subseteq Item /\ RowsOf(list) \subseteq 1..lastRow'
        BY <1>1, <2>2 DEF Item, RowsOf, MapInto, Queued
      <4> HIDE DEF list
      <4>3. e \in Event /\ e.items = list /\ e.ev # "enqueued"
        BY <4>1, <4>2 DEF Listing, Event
      <4> HIDE DEF e
      <4> QED BY <4>1, <4>2, <4>3
    <3>3. CASE DbDelete \/ DbFailed \/ DbError \/ ((DbEnqueue \/ DbQuery) /\ ~Cmd.reply)
      BY <3>3 DEF DbDelete, DbFailed, DbError, DbEnqueue, DbQuery, Answer
    <3> QED BY <1>6, <3>1, <3>2, <3>3 DEF CacheActor
  <2>9. /\ dbEv' \in Seq(Event)
        /\ \A i \in 1..Len(dbEv') :
             /\ RowsOf(dbEv'[i].items) \subseteq 1..lastRow'
             /\ dbEv'[i].ev = "enqueued" => dbEv'[i].id \in 1..lastId /\ dbEv'[i].row \in 1..lastRow' /\ dbEv'[i].items = {}
    <3>1. CASE dbEv' = dbEv
      BY <1>1, <2>2, <3>1
    <3>2. ASSUME NEW e \in Event, dbEv' = Append(dbEv, e), RowsOf(e.items) \subseteq 1..lastRow',
                 e.ev = "enqueued" => e.id \in 1..lastId /\ e.row \in 1..lastRow' /\ e.items = {}
          PROVE  <2>9!2 /\ <2>9!1
      <4>1. /\ dbEv' \in Seq(Event) /\ Len(dbEv') = Len(dbEv) + 1
            /\ \A i \in 1..Len(dbEv') : (i \in 1..Len(dbEv) /\ dbEv'[i] = dbEv[i]) \/ dbEv'[i] = e
        BY <1>1, <3>2
      <4> QED BY <1>1, <2>2, <3>2, <4>1
    <3> QED BY <2>8, <3>1, <3>2
  <2>10. CacheTypeOK'
    BY <1>2, <2>2, <2>5, <2>7, <2>9 DEF CacheTypeOK
  <2> QED BY <2>3, <2>4, <2>10 DEF TypeOK
<1> QED BY <1>3, <1>4, <1>5, <1>6 DEF Clock

(* The events left when the first is applied. *)
LEMMA EventTail ==
  ASSUME TypeOK, dbEv # <<>>
  PROVE  /\ Head(dbEv) = dbEv[1] /\ Head(dbEv) \in Event /\ 1 \in 1..Len(dbEv)
         /\ Tail(dbEv) \in Seq(Event) /\ Len(Tail(dbEv)) = Len(dbEv) - 1
         /\ \A i \in 1..Len(Tail(dbEv)) : i + 1 \in 1..Len(dbEv) /\ Tail(dbEv)[i] = dbEv[i + 1]
<1>1. dbEv \in Seq(Event)
  BY DEF TypeOK, CacheTypeOK
<1> QED BY <1>1

(* Applying the first event keeps the cache actor's types. *)
LEMMA TailFrame ==
  ASSUME TypeOK, dbEv # <<>>, lastId' \in Nat, lastId <= lastId', dbEv' = Tail(dbEv), UNCHANGED <<table, lastRow>>,
         Commands(dbQ', lastId'), Len(dbQ') <= CacheQueue
  PROVE  CacheTypeOK'
<1>1. /\ lastRow \in Nat /\ lastId \in Nat /\ MapInto(table, 1..lastRow, Queued)
      /\ \A i \in 1..Len(dbEv) :
           /\ RowsOf(dbEv[i].items) \subseteq 1..lastRow
           /\ dbEv[i].ev = "enqueued" => dbEv[i].id \in 1..lastId /\ dbEv[i].row \in 1..lastRow /\ dbEv[i].items = {}
  BY DEF TypeOK, UiTypeOK, CacheTypeOK
<1>2. /\ dbEv' \in Seq(Event)
      /\ \A i \in 1..Len(dbEv') : i + 1 \in 1..Len(dbEv) /\ dbEv'[i] = dbEv[i + 1]
  BY EventTail
<1>3. \A i \in 1..Len(dbEv') :
        /\ RowsOf(dbEv'[i].items) \subseteq 1..lastRow'
        /\ dbEv'[i].ev = "enqueued" => dbEv'[i].id \in 1..lastId' /\ dbEv'[i].row \in 1..lastRow' /\ dbEv'[i].items = {}
  BY <1>1, <1>2
<1> QED BY <1>1, <1>2, <1>3 DEF CacheTypeOK, Commands

(* Every answer the UI thread applies keeps the types. *)
LEMMA DrainTypeStep ==
  ASSUME TypeOK, Drain
  PROVE  TypeOK'
<1>1. /\ lastId \in Nat /\ lastRow \in Nat /\ letters \in Nat
      /\ MapInto(open, 1..lastId, Window) /\ sending \subseteq DOMAIN open
      /\ MapInto(inFlight, 1..lastId, Text) /\ MapInto(outboxRows, 1..lastId, 1..lastRow)
      /\ items \subseteq Item /\ RowsOf(items) \subseteq 1..lastRow
      /\ \A i \in 1..Len(dbEv) :
           /\ RowsOf(dbEv[i].items) \subseteq 1..lastRow
           /\ dbEv[i].ev = "enqueued" => dbEv[i].id \in 1..lastId /\ dbEv[i].row \in 1..lastRow /\ dbEv[i].items = {}
      /\ smtpEv \in Seq(Outcome) /\ \A i \in 1..Len(smtpEv) : smtpEv[i].id \in 1..lastId
  BY DEF TypeOK, UiTypeOK, CacheTypeOK, SmtpTypeOK, BoundsTypeOK
<1>2. CASE HandleEnqueued
  <2>1. /\ dbEv # <<>> /\ dbEv' = Tail(dbEv) /\ Head(dbEv).ev = "enqueued"
        /\ outboxRows' = Put(outboxRows, Head(dbEv).id, Head(dbEv).row) /\ dbQ' = Push(dbQ, Refresh)
        /\ UNCHANGED <<lastId, open, sending, inFlight, queueOpen, items, configured, removing, table, lastRow, smtpQ, smtpEv, letters, clicks, failures, disruptions>>
    BY <1>2 DEF HandleEnqueued, account, smtp, history, bounds
  <2>2. lastId' \in Nat /\ lastId <= lastId'
    BY <1>1, <2>1
  <2>3. Head(dbEv).id \in 1..lastId /\ Head(dbEv).row \in 1..lastRow
    BY <1>1, <2>1, EventTail
  <2>4. MapInto(outboxRows', 1..lastId', 1..lastRow')
    BY <1>1, <2>1, <2>3 DEF MapInto, Put
  <2>5. UiTypeOK' /\ BoundsTypeOK'
    BY <1>1, <2>1, <2>4 DEF TypeOK, UiTypeOK, BoundsTypeOK, RowsOf
  <2>6. Commands(dbQ', lastId') /\ Len(dbQ') <= CacheQueue
    BY <2>1, <2>2, PlainCommands, QueuePush
  <2> QED BY <2>1, <2>2, <2>5, <2>6, TailFrame, SmtpFrame DEF TypeOK
<1>3. CASE HandleDue
  <2>1. PICK refused : OutboxDue(Head(dbEv).items, refused)
    BY <1>3 DEF HandleDue
  <2>2. /\ dbEv # <<>> /\ dbEv' = Tail(dbEv)
        /\ UNCHANGED <<open, sending, queueOpen, items, configured, removing, table, lastRow, smtpEv, letters, clicks, disruptions>>
    BY <1>3 DEF HandleDue, account
  <2>3. Head(dbEv).items \subseteq Item /\ RowsOf(Head(dbEv).items) \subseteq 1..lastRow
    BY <1>1, <2>2, EventTail DEF Event
  <2>4. /\ lastId' \in Nat /\ lastId <= lastId' /\ failures' \in Nat
        /\ MapInto(outboxRows', 1..lastId', 1..lastRow) /\ MapInto(inFlight', 1..lastId', Text)
        /\ Commands(dbQ', lastId') /\ Len(dbQ') <= CacheQueue
        /\ smtpQ' \in Seq(Mail) /\ Len(smtpQ') <= SmtpQueue
        /\ \A i \in 1..Len(smtpQ') : smtpQ'[i].id \in 1..lastId'
    BY <2>1, <2>3, OutboxDueFacts
  <2>5. MapInto(open', 1..lastId', Window)
    BY <1>1, <2>2, <2>4, WidenType
  <2>6. UiTypeOK'
    BY <1>1, <2>2, <2>4, <2>5 DEF TypeOK, UiTypeOK, RowsOf
  <2>7. CacheTypeOK'
    BY <2>2, <2>4, TailFrame
  <2>8. SmtpTypeOK'
    BY <1>1, <2>2, <2>4 DEF TypeOK, SmtpTypeOK
  <2>9. BoundsTypeOK'
    BY <2>2, <2>4 DEF TypeOK, BoundsTypeOK
  <2> QED BY <2>6, <2>7, <2>8, <2>9 DEF TypeOK
<1>4. CASE HandleList
  <2>1. /\ dbEv # <<>> /\ dbEv' = Tail(dbEv) /\ items' = Head(dbEv).items
        /\ UNCHANGED <<lastId, open, sending, inFlight, outboxRows, queueOpen, configured, removing, dbQ, table, lastRow, smtpQ, smtpEv, letters, clicks, failures, disruptions>>
    BY <1>4 DEF HandleList, account, smtp, history, bounds
  <2>2. lastId' \in Nat /\ lastId <= lastId'
    BY <1>1, <2>1
  <2>3. Head(dbEv).items \subseteq Item /\ RowsOf(Head(dbEv).items) \subseteq 1..lastRow
    BY <1>1, <2>1, EventTail DEF Event
  <2>4. UiTypeOK' /\ BoundsTypeOK'
    BY <1>1, <2>1, <2>3 DEF TypeOK, UiTypeOK, BoundsTypeOK, RowsOf
  <2> QED BY <2>1, <2>2, <2>4, QueueFrame, TailFrame, SmtpFrame DEF TypeOK
<1>5. CASE OutcomeSent \/ OutcomeFailed
  <2> DEFINE id == Head(smtpEv).id
  <2>1. /\ smtpEv # <<>> /\ smtpEv' = Tail(smtpEv) /\ inFlight' = Without(inFlight, id)
        /\ outboxRows' \in {outboxRows, Without(outboxRows, id)}
        /\ UNCHANGED <<lastId, queueOpen, items, configured, removing, dbEv, table, lastRow, smtpQ, letters, clicks, failures, disruptions>>
    BY <1>5 DEF OutcomeSent, OutcomeFailed, account, history, bounds
  <2>2. lastId' = lastId /\ lastId' \in Nat /\ lastId <= lastId'
    BY <1>1, <2>1
  <2>3. id \in 1..lastId /\ smtpEv' \in Seq(Outcome) /\ \A i \in 1..Len(smtpEv') : smtpEv'[i].id \in 1..lastId
    <3>1. Head(smtpEv) = smtpEv[1] /\ 1 \in 1..Len(smtpEv)
      BY <1>1, <2>1
    <3>2. smtpEv' \in Seq(Outcome) /\ \A i \in 1..Len(smtpEv') : i + 1 \in 1..Len(smtpEv) /\ smtpEv'[i] = smtpEv[i + 1]
      BY <1>1, <2>1
    <3> QED BY <1>1, <3>1, <3>2
  <2> HIDE DEF id
  <2>4. MapInto(inFlight', 1..lastId', Text) /\ MapInto(outboxRows', 1..lastId', 1..lastRow')
    <3>1. MapInto(Without(inFlight, id), 1..lastId, Text)
      BY <1>1, WithoutType
    <3>2. MapInto(Without(outboxRows, id), 1..lastId, 1..lastRow)
      BY <1>1, WithoutType
    <3> QED BY <1>1, <2>1, <2>2, <3>1, <3>2
  <2>5. MapInto(open', 1..lastId', Window) /\ sending' \subseteq DOMAIN open'
    <3>1. MapInto(Without(open, id), 1..lastId, Window) /\ DOMAIN Without(open, id) = DOMAIN open \ {id}
      BY <1>1, WithoutType
    <3>2. \/ open' = open /\ sending' \in {sending, sending \ {id}}
          \/ open' = Without(open, id) /\ sending' = sending \ {id}
      BY <1>5 DEF OutcomeSent, OutcomeFailed, id
    <3> QED BY <1>1, <2>2, <3>1, <3>2
  <2>6. UiTypeOK' /\ BoundsTypeOK'
    BY <1>1, <2>1, <2>2, <2>4, <2>5 DEF TypeOK, UiTypeOK, BoundsTypeOK, RowsOf
  <2>7. Commands(dbQ', lastId') /\ Len(dbQ') <= CacheQueue
    <3>1. ASSUME id \in DOMAIN outboxRows
          PROVE  \A op \in {"sent", "failed"} : Commands(<<OnRow(op, outboxRows[id])>> \o Refresh, lastId')
      <4>1. outboxRows[id] \in Nat
        BY <1>1, <3>1 DEF MapInto
      <4> QED BY <2>2, <4>1, PlainCommands
    <3>2. ASSUME id \in DOMAIN inFlight
          PROVE  Commands(<<Enqueue(id, inFlight[id])>> \o Refresh, lastId')
      <4>1. inFlight[id] \in Text /\ id \in Nat
        BY <1>1, <2>3, <3>2 DEF MapInto
      <4>2. Enqueue(id, inFlight[id]) \in Command /\ Enqueue(id, inFlight[id]).id = id
        BY <4>1 DEF Enqueue, Command
      <4>3. Commands(<<Enqueue(id, inFlight[id])>>, lastId')
        BY <2>2, <2>3, <4>2 DEF Commands
      <4>4. Ask("list") \in Command /\ Ask("list").op # "enqueue"
        BY DEF Ask, OnRow, Command, NoText, Text
      <4> QED BY <2>2, <2>3, <4>2, <4>4 DEF Commands, Refresh
    <3>3. Commands(<<>> \o Refresh, lastId')
      <4>1. <<>> \o Refresh = Refresh
        BY DEF Refresh
      <4> QED BY <2>2, <4>1, PlainCommands
    <3>4. \/ dbQ' = dbQ
          \/ id \in DOMAIN outboxRows /\ \E op \in {"sent", "failed"} : dbQ' = Push(dbQ, <<OnRow(op, outboxRows[id])>> \o Refresh)
          \/ id \in DOMAIN inFlight /\ dbQ' = Push(dbQ, <<Enqueue(id, inFlight[id])>> \o Refresh)
          \/ dbQ' = Push(dbQ, <<>> \o Refresh)
      BY <1>5 DEF OutcomeSent, OutcomeFailed, Failed, id
    <3> QED BY <2>2, <3>1, <3>2, <3>3, <3>4, QueueFrame, QueuePush
  <2>8. SmtpTypeOK'
    BY <1>1, <2>1, <2>2, <2>3 DEF TypeOK, SmtpTypeOK
  <2> QED BY <2>1, <2>2, <2>6, <2>7, <2>8, CacheFrame DEF TypeOK
<1> QED BY <1>2, <1>3, <1>4, <1>5 DEF Drain

(* Account changes and the end of the process keep the types. *)
LEMMA DisruptionTypeStep ==
  ASSUME TypeOK, Disruption
  PROVE  TypeOK'
<1>1. /\ lastId \in Nat /\ lastRow \in Nat /\ configured \in BOOLEAN /\ removing \in BOOLEAN
      /\ MapInto(table, 1..lastRow, Queued)
      /\ dbQ \in Seq(Command) /\ Len(dbQ) <= CacheQueue
  BY DEF TypeOK, UiTypeOK, CacheTypeOK
<1>2. CASE AccountSaved \/ AccountRemoved
  <2>1. /\ UNCHANGED <<ui, table, lastRow, letters, clicks, failures>> /\ disruptions' = disruptions + 1
        /\ smtpQ' = <<>> /\ smtpEv' = <<>> /\ dbEv' = <<>>
        /\ dbQ' = [i \in 1..Len(dbQ) |-> [dbQ[i] EXCEPT !.reply = FALSE]]
    BY <1>2 DEF AccountSaved, AccountRemoved, Reload, Disrupt, history
  <2>2. configured' \in BOOLEAN /\ removing' \in BOOLEAN
    <3>1. CASE AccountSaved
      BY <1>1, <3>1 DEF AccountSaved
    <3>2. CASE AccountRemoved
      BY <1>1, <3>2 DEF AccountRemoved
    <3> QED BY <1>2, <3>1, <3>2
  <2>3. UiTypeOK' /\ BoundsTypeOK' /\ SmtpTypeOK'
    BY <2>1, <2>2, QueueAssumption DEF TypeOK, UiTypeOK, BoundsTypeOK, SmtpTypeOK, ui, RowsOf
  <2>4. dbQ' \in Seq(Command) /\ Len(dbQ') = Len(dbQ) /\ \A i \in 1..Len(dbQ') : dbQ'[i].reply = FALSE
    <3>1. \A i \in 1..Len(dbQ) : dbQ[i] \in Command
      BY <1>1
    <3>2. \A i \in 1..Len(dbQ) : dbQ'[i] \in Command /\ dbQ'[i].reply = FALSE
      BY <2>1, <3>1 DEF Command
    <3>3. Len(dbQ) \in Nat /\ DOMAIN dbQ' = 1..Len(dbQ) /\ dbQ' = [i \in 1..Len(dbQ) |-> dbQ'[i]]
      BY <1>1, <2>1
    <3>4. dbQ' \in Seq(Command) /\ Len(dbQ') = Len(dbQ)
      BY <3>2, <3>3, SeqOfType
    <3> QED BY <3>2, <3>4
  <2>5. CacheTypeOK'
    BY <1>1, <2>1, <2>4 DEF CacheTypeOK
  <2> QED BY <2>3, <2>5 DEF TypeOK
<1>3. CASE Crash
  <2>1. UiTypeOK'
    BY <1>1, <1>3, EmptyType DEF Crash, UiTypeOK, RowsOf
  <2>2. CacheTypeOK'
    <3>1. dbQ' = <<Ask("due")>> /\ dbEv' = <<>> /\ UNCHANGED <<table, lastRow>>
      BY <1>3 DEF Crash
    <3>2. Ask("due") \in Command /\ Ask("due").op # "enqueue"
      BY DEF Ask, OnRow, Command, NoText, Text
    <3> QED BY <1>1, <3>1, <3>2, QueueAssumption DEF CacheTypeOK
  <2>3. SmtpTypeOK'
    BY <1>3, QueueAssumption DEF Crash, SmtpTypeOK
  <2>4. BoundsTypeOK'
    BY <1>3 DEF Crash, TypeOK, BoundsTypeOK, Disrupt, history
  <2> QED BY <2>1, <2>2, <2>3, <2>4 DEF TypeOK
<1> QED BY <1>2, <1>3 DEF Disruption

(* Every step keeps the types. *)
LEMMA TypeStep == TypeOK /\ [Next]_vars => TypeOK'
<1> SUFFICES ASSUME TypeOK, [Next]_vars PROVE TypeOK'
  OBVIOUS
<1>1. CASE UNCHANGED vars
  <2>1. UNCHANGED <<lastId, open, sending, inFlight, outboxRows, queueOpen, items, configured, removing,
                    dbQ, dbEv, table, lastRow, smtpQ, smtpEv, letters, clicks, failures, disruptions>>
    BY <1>1 DEF vars, ui, account, db, smtp, history, bounds
  <2> QED BY <2>1 DEF TypeOK, UiTypeOK, CacheTypeOK, SmtpTypeOK, BoundsTypeOK, RowsOf
<1>2. CASE User
  BY <1>2, ComposeTypeStep, QueueTypeStep DEF User
<1>3. CASE CacheActor \/ SmtpActor \/ Clock
  BY <1>3, ActorTypeStep
<1>4. CASE Drain
  BY <1>4, DrainTypeStep
<1>5. CASE Disruption
  BY <1>5, DisruptionTypeStep
<1> QED BY <1>1, <1>2, <1>3, <1>4, <1>5 DEF Next

(* Ids and rows are never ahead of the counters that hand them out, and no
   channel overflows, whatever the user, the server, a crash or an account
   reload does (Deliveries, Cache::command, Sender::send). *)
THEOREM OutboxTypes == Spec => []TypeOK
BY TypeInit, TypeStep, PTL DEF Spec

(***************************************************************************)
(* A row has one sender                                                    *)
(***************************************************************************)

(* No id comes to own a row by this step. *)
NoNewOwner ==
  \A i \in DOMAIN outboxRows' : i \in DOMAIN outboxRows /\ outboxRows'[i] = outboxRows[i]

(* Which steps leave the owners alone: all but the three that answer a cache
   event or a click on Retry. *)
LEMMA OwnersFrame ==
  ASSUME TypeOK, [Next]_vars
  PROVE  \/ NoNewOwner \/ HandleEnqueued \/ HandleDue \/ \E it \in items : RetryQueued(it)
<1>1. MapInto(outboxRows, 1..lastId, 1..lastRow)
  BY DEF TypeOK, UiTypeOK
<1>2. \A k : \A i \in DOMAIN Without(outboxRows, k) : i \in DOMAIN outboxRows /\ Without(outboxRows, k)[i] = outboxRows[i]
  BY DEF Without
<1>3. DOMAIN Empty = {}
  BY DEF Empty
<1>4. CASE outboxRows' = outboxRows \/ outboxRows' = Empty \/ \E k : outboxRows' = Without(outboxRows, k)
  BY <1>2, <1>3, <1>4 DEF NoNewOwner
<1>5. CASE User
  <2>1. ASSUME NEW id \in DOMAIN open, Edit(id) \/ Send(id) \/ SaveDraft(id) \/ Close(id) \/ Discard(id)
        PROVE  outboxRows' = outboxRows \/ outboxRows' = Without(outboxRows, id)
    BY <2>1 DEF Edit, Send, SaveDraft, Close, Discard
  <2>2. ASSUME NEW it \in items, EditQueued(it) \/ DeleteQueued(it)
        PROVE  outboxRows' = outboxRows
    BY <2>2 DEF EditQueued, DeleteQueued, ui
  <2>3. CASE OpenCompose \/ ShowQueue \/ CloseQueue \/ RemoveAccount
    BY <2>3, <1>4 DEF OpenCompose, ShowQueue, CloseQueue, RemoveAccount, ui
  <2> QED BY <1>4, <1>5, <2>1, <2>2, <2>3 DEF User
<1>6. CASE CacheActor \/ SmtpActor \/ Clock
  <2>1. outboxRows' = outboxRows
    BY <1>6 DEF CacheActor, SmtpActor, Clock, DbEnqueue, DbQuery, DbDelete, DbFailed, DbError, SmtpSent, SmtpError, Poll, BackoffEnds, ui
  <2> QED BY <1>4, <2>1
<1>7. CASE HandleList \/ OutcomeSent \/ OutcomeFailed
  <2>1. outboxRows' = outboxRows \/ outboxRows' = Without(outboxRows, Head(smtpEv).id)
    BY <1>7 DEF HandleList, OutcomeSent, OutcomeFailed
  <2> QED BY <1>4, <2>1
<1>8. CASE Disruption
  <2>1. outboxRows' = outboxRows \/ outboxRows' = Empty
    BY <1>8 DEF Disruption, AccountSaved, AccountRemoved, Reload, Crash, ui
  <2> QED BY <1>4, <2>1
<1>9. CASE UNCHANGED vars
  BY <1>4, <1>9 DEF vars, ui
<1> QED BY <1>5, <1>6, <1>7, <1>8, <1>9 DEF Next, Drain

(* Which steps leave the queue of answers and the shown rows alone. *)
LEMMA EventsFrame ==
  ASSUME TypeOK, [Next]_vars
  PROVE  \/ dbEv' = dbEv /\ RowsOf(items') \subseteq RowsOf(items)
         \/ dbEv' = <<>>
         \/ DbEnqueue \/ DbQuery \/ HandleEnqueued \/ HandleDue \/ HandleList
<1>1. CASE User
  <2>1. ASSUME NEW id \in DOMAIN open, Edit(id) \/ Send(id) \/ SaveDraft(id) \/ Close(id) \/ Discard(id)
        PROVE  dbEv' = dbEv /\ items' = items
    BY <2>1 DEF Edit, Send, SaveDraft, Close, Discard, db
  <2>2. ASSUME NEW it \in items, RetryQueued(it) \/ EditQueued(it) \/ DeleteQueued(it)
        PROVE  dbEv' = dbEv /\ items' \subseteq items
    BY <2>2 DEF RetryQueued, EditQueued, DeleteQueued, ui
  <2>3. CASE OpenCompose \/ ShowQueue \/ CloseQueue \/ RemoveAccount
    BY <2>3 DEF OpenCompose, ShowQueue, CloseQueue, RemoveAccount, ui, db, RowsOf
  <2> QED BY <1>1, <2>1, <2>2, <2>3 DEF User, RowsOf
<1>2. CASE DbDelete \/ DbFailed \/ DbError \/ SmtpActor \/ Clock
  BY <1>2 DEF SmtpActor, Clock, DbDelete, DbFailed, DbError, SmtpSent, SmtpError, Poll, BackoffEnds, ui, db
<1>3. CASE OutcomeSent \/ OutcomeFailed
  BY <1>3 DEF OutcomeSent, OutcomeFailed
<1>4. CASE Disruption
  BY <1>4 DEF Disruption, AccountSaved, AccountRemoved, Reload, Crash
<1>5. CASE UNCHANGED vars
  BY <1>5 DEF vars, ui, db
<1> QED BY <1>1, <1>2, <1>3, <1>4, <1>5 DEF Next, Drain, CacheActor

(* Every step keeps PendingRowIsUnclaimed. *)
LEMMA PendingStep == TypeOK /\ PendingRowIsUnclaimed /\ [Next]_vars => PendingRowIsUnclaimed'
<1> SUFFICES ASSUME TypeOK, PendingRowIsUnclaimed, [Next]_vars
             PROVE  PendingRowIsUnclaimed'
  OBVIOUS
<1>1. /\ lastId \in Nat /\ lastRow \in Nat
      /\ MapInto(outboxRows, 1..lastId, 1..lastRow) /\ MapInto(table, 1..lastRow, Queued)
      /\ items \subseteq Item /\ RowsOf(items) \subseteq 1..lastRow
      /\ dbEv \in Seq(Event)
      /\ \A i \in 1..Len(dbEv) :
           /\ RowsOf(dbEv[i].items) \subseteq 1..lastRow
           /\ dbEv[i].ev = "enqueued" => dbEv[i].id \in 1..lastId /\ dbEv[i].row \in 1..lastRow /\ dbEv[i].items = {}
  BY DEF TypeOK, UiTypeOK, CacheTypeOK
<1>2. CASE dbEv' = <<>>
  BY <1>2 DEF PendingRowIsUnclaimed
<1>3. CASE dbEv' = dbEv /\ RowsOf(items') \subseteq RowsOf(items)
  <2>1. CASE NoNewOwner
    BY <1>3, <2>1 DEF NoNewOwner, PendingRowIsUnclaimed
  <2>2. ASSUME NEW it \in items, RetryQueued(it)
        PROVE  PendingRowIsUnclaimed'
    <3>1. PICK refused : OutboxDue({it}, refused)
      BY <2>2 DEF RetryQueued
    <3>2. {it} \subseteq Item /\ RowsOf({it}) \subseteq RowsOf(items) /\ RowsOf({it}) \subseteq 1..lastRow
      BY <1>1 DEF RowsOf
    <3>3. \A i \in DOMAIN outboxRows' :
            \/ i \in DOMAIN outboxRows /\ outboxRows'[i] = outboxRows[i]
            \/ outboxRows'[i] \in RowsOf(items)
      BY <3>1, <3>2, OutboxDueFacts
    <3> QED BY <1>3, <3>3 DEF PendingRowIsUnclaimed
  <2>3. CASE HandleEnqueued \/ HandleDue
    <3>1. dbEv # <<>> /\ dbEv' = Tail(dbEv)
      BY <2>3 DEF HandleEnqueued, HandleDue
    <3>2. Len(dbEv') = Len(dbEv) - 1 /\ Len(dbEv) \in Nat
      BY <1>1, <3>1, EventTail
    <3> QED BY <1>3, <3>2
  <2> QED BY <2>1, <2>2, <2>3, OwnersFrame
<1>4. CASE DbEnqueue \/ DbQuery
  <2>1. outboxRows' = outboxRows /\ items' = items
    BY <1>4 DEF DbEnqueue, DbQuery, ui
  <2>2. CASE dbEv' = dbEv
    BY <2>1, <2>2 DEF PendingRowIsUnclaimed
  <2>3. ASSUME NEW e, dbEv' = Append(dbEv, e), e.ev = "enqueued" => e.row = lastRow + 1
        PROVE  PendingRowIsUnclaimed'
    <3>1. /\ Len(dbEv') = Len(dbEv) + 1 /\ Len(dbEv) \in Nat /\ dbEv'[Len(dbEv) + 1] = e
          /\ \A i \in 1..Len(dbEv) : dbEv'[i] = dbEv[i]
      BY <1>1, <2>3
    <3> SUFFICES ASSUME NEW k \in 1..Len(dbEv'), dbEv'[k].ev = "enqueued"
                 PROVE  /\ \A i \in DOMAIN outboxRows : outboxRows[i] # dbEv'[k].row
                        /\ dbEv'[k].row \notin RowsOf(items)
                        /\ \A j \in 1..(k - 1) : dbEv'[k].row \notin RowsOf(dbEv'[j].items)
                        /\ \A j \in 1..Len(dbEv') : j # k /\ dbEv'[j].ev = "enqueued" => dbEv'[j].row # dbEv'[k].row
      BY <2>1 DEF PendingRowIsUnclaimed
    <3>2. CASE k \in 1..Len(dbEv)
      <4>1. /\ \A i \in DOMAIN outboxRows : outboxRows[i] # dbEv[k].row
            /\ dbEv[k].row \notin RowsOf(items)
            /\ \A j \in 1..(k - 1) : dbEv[k].row \notin RowsOf(dbEv[j].items)
            /\ \A j \in 1..Len(dbEv) : j # k /\ dbEv[j].ev = "enqueued" => dbEv[j].row # dbEv[k].row
            /\ dbEv'[k] = dbEv[k] /\ dbEv[k].row \in 1..lastRow
        BY <1>1, <3>1, <3>2 DEF PendingRowIsUnclaimed
      <4>2. \A j \in 1..(k - 1) : j \in 1..Len(dbEv) /\ dbEv'[j] = dbEv[j]
        BY <3>1, <3>2
      <4>3. ASSUME NEW j \in 1..Len(dbEv'), j # k, dbEv'[j].ev = "enqueued"
            PROVE  dbEv'[j].row # dbEv'[k].row
        <5>1. CASE j \in 1..Len(dbEv)
          BY <3>1, <4>1, <4>3, <5>1
        <5>2. CASE j = Len(dbEv) + 1
          BY <1>1, <2>3, <3>1, <4>1, <4>3, <5>2
        <5> QED BY <3>1, <5>1, <5>2
      <4> QED BY <4>1, <4>2, <4>3
    <3>3. CASE k = Len(dbEv) + 1
      <4>1. dbEv'[k].row = lastRow + 1
        BY <2>3, <3>1, <3>3
      <4>2. \A i \in DOMAIN outboxRows : outboxRows[i] # lastRow + 1
        BY <1>1 DEF MapInto
      <4>3. \A j \in 1..(k - 1) : j \in 1..Len(dbEv) /\ dbEv'[j] = dbEv[j] /\ lastRow + 1 \notin RowsOf(dbEv[j].items)
        <5>1. \A j \in 1..(k - 1) : j \in 1..Len(dbEv) /\ dbEv'[j] = dbEv[j]
          BY <3>1, <3>3
        <5>2. lastRow + 1 \notin 1..lastRow
          BY <1>1
        <5>3. \A j \in 1..Len(dbEv) : RowsOf(dbEv[j].items) \subseteq 1..lastRow
          BY <1>1
        <5> QED BY <5>1, <5>2, <5>3
      <4>4. \A j \in 1..Len(dbEv') : j # k /\ dbEv'[j].ev = "enqueued" => dbEv'[j].row # lastRow + 1
        <5>1. \A j \in 1..Len(dbEv') : j # k => j \in 1..Len(dbEv) /\ dbEv'[j] = dbEv[j]
          BY <3>1, <3>3
        <5> QED BY <1>1, <5>1
      <4>5. lastRow + 1 \notin RowsOf(items)
        BY <1>1
      <4> QED BY <4>1, <4>2, <4>3, <4>4, <4>5
    <3> QED BY <3>1, <3>2, <3>3
  <2>4. ASSUME DbEnqueue, Cmd.reply
        PROVE  PendingRowIsUnclaimed'
    <3>1. dbEv' = Append(dbEv, Enqueued(Cmd.id, lastRow + 1))
      BY <2>4 DEF DbEnqueue, Answer
    <3>2. Enqueued(Cmd.id, lastRow + 1).row = lastRow + 1
      BY DEF Enqueued
    <3> QED BY <2>3, <3>1, <3>2
  <2>5. ASSUME DbQuery, Cmd.reply
        PROVE  PendingRowIsUnclaimed'
    <3>1. PICK list : dbEv' = Append(dbEv, Listing(Cmd.op, list)) /\ Cmd.op \in {"due", "list"}
      BY <2>5 DEF DbQuery, Answer
    <3>2. Listing(Cmd.op, list).ev # "enqueued"
      BY <3>1 DEF Listing
    <3> QED BY <2>3, <3>1, <3>2
  <2>6. (DbEnqueue \/ DbQuery) /\ ~Cmd.reply => dbEv' = dbEv
    BY DEF DbEnqueue, DbQuery, Answer
  <2> QED BY <1>4, <2>2, <2>4, <2>5, <2>6
<1>5. CASE HandleEnqueued \/ HandleDue \/ HandleList
  <2>1. dbEv # <<>> /\ dbEv' = Tail(dbEv)
    BY <1>5 DEF HandleEnqueued, HandleDue, HandleList
  <2>2. /\ Head(dbEv) = dbEv[1] /\ Head(dbEv) \in Event /\ 1 \in 1..Len(dbEv)
        /\ Len(dbEv') = Len(dbEv) - 1 /\ Len(dbEv) \in Nat
        /\ \A i \in 1..Len(dbEv') : i + 1 \in 1..Len(dbEv) /\ dbEv'[i] = dbEv[i + 1]
    BY <1>1, <2>1, EventTail
  <2> SUFFICES ASSUME NEW k \in 1..Len(dbEv'), dbEv'[k].ev = "enqueued"
               PROVE  /\ \A i \in DOMAIN outboxRows' : outboxRows'[i] # dbEv'[k].row
                      /\ dbEv'[k].row \notin RowsOf(items')
                      /\ \A j \in 1..(k - 1) : dbEv'[k].row \notin RowsOf(dbEv'[j].items)
                      /\ \A j \in 1..Len(dbEv') : j # k /\ dbEv'[j].ev = "enqueued" => dbEv'[j].row # dbEv'[k].row
    BY DEF PendingRowIsUnclaimed
  <2> DEFINE r == dbEv'[k].row
  <2>3. k + 1 \in 1..Len(dbEv) /\ dbEv'[k] = dbEv[k + 1] /\ 1 # k + 1 /\ 1 \in 1..((k + 1) - 1) /\ k \in Nat
    BY <2>2
  <2>4. /\ \A i \in DOMAIN outboxRows : outboxRows[i] # r
        /\ r \notin RowsOf(items)
        /\ \A j \in 1..((k + 1) - 1) : r \notin RowsOf(dbEv[j].items)
        /\ \A j \in 1..Len(dbEv) : j # k + 1 /\ dbEv[j].ev = "enqueued" => dbEv[j].row # r
    BY <2>3 DEF PendingRowIsUnclaimed
  <2>5. r \notin RowsOf(Head(dbEv).items) /\ (Head(dbEv).ev = "enqueued" => Head(dbEv).row # r)
    BY <2>2, <2>3, <2>4
  <2>6. \A j \in 1..(k - 1) : r \notin RowsOf(dbEv'[j].items)
    <3>1. \A j \in 1..(k - 1) : j \in 1..Len(dbEv') /\ j + 1 \in 1..((k + 1) - 1)
      BY <2>2, <2>3
    <3> QED BY <2>2, <2>4, <3>1
  <2>7. \A j \in 1..Len(dbEv') : j # k /\ dbEv'[j].ev = "enqueued" => dbEv'[j].row # r
    <3>1. \A j \in 1..Len(dbEv') : j # k => j + 1 # k + 1
      BY <2>2, <2>3
    <3> QED BY <2>2, <2>4, <3>1
  <2>8. \A i \in DOMAIN outboxRows' : outboxRows'[i] # r
    <3>1. CASE HandleEnqueued
      <4>1. outboxRows' = Put(outboxRows, Head(dbEv).id, Head(dbEv).row) /\ Head(dbEv).ev = "enqueued"
        BY <3>1 DEF HandleEnqueued
      <4> QED BY <2>4, <2>5, <4>1 DEF Put
    <3>2. CASE HandleDue
      <4>1. PICK refused : OutboxDue(Head(dbEv).items, refused)
        BY <3>2 DEF HandleDue
      <4>2. Head(dbEv).items \subseteq Item /\ RowsOf(Head(dbEv).items) \subseteq 1..lastRow
        BY <1>1, <2>2 DEF Event
      <4>3. \A i \in DOMAIN outboxRows' :
              \/ i \in DOMAIN outboxRows /\ outboxRows'[i] = outboxRows[i]
              \/ outboxRows'[i] \in RowsOf(Head(dbEv).items)
        BY <4>1, <4>2, OutboxDueFacts
      <4> QED BY <2>4, <2>5, <4>3
    <3>3. CASE HandleList
      BY <2>4, <3>3 DEF HandleList
    <3> QED BY <1>5, <3>1, <3>2, <3>3
  <2>9. r \notin RowsOf(items')
    <3>1. items' = items \/ items' = Head(dbEv).items
      BY <1>5 DEF HandleEnqueued, HandleDue, HandleList
    <3> QED BY <2>4, <2>5, <3>1
  <2> QED BY <2>6, <2>7, <2>8, <2>9
<1> QED BY <1>2, <1>3, <1>4, <1>5, EventsFrame

(* No id comes back to life: an id that may send after a step could send
   before it, or is fresh. *)
LEMMA LiveFrame ==
  ASSUME TypeOK, [Next]_vars
  PROVE  \A i \in 1..lastId : Live(i)' => Live(i)
<1>1. lastId \in Nat /\ MapInto(open, 1..lastId, Window) /\ MapInto(inFlight, 1..lastId, Text)
      /\ items \subseteq Item /\ RowsOf(items) \subseteq 1..lastRow
  BY DEF TypeOK, UiTypeOK
<1>4. DOMAIN Empty = {}
  BY DEF Empty
<1>5. lastId + 1 \notin 1..lastId
  BY <1>1
<1>6. CASE DOMAIN open' \subseteq DOMAIN open \cup {lastId + 1} /\ DOMAIN inFlight' \subseteq DOMAIN inFlight \cup DOMAIN open
  BY <1>5, <1>6 DEF Live
<1>7. CASE User
  <2>1. ASSUME NEW id \in DOMAIN open, Edit(id) \/ Send(id) \/ SaveDraft(id) \/ Close(id) \/ Discard(id)
        PROVE  DOMAIN open' \subseteq DOMAIN open /\ DOMAIN inFlight' \subseteq DOMAIN inFlight \cup DOMAIN open
    <3>1. CASE Edit(id) \/ SaveDraft(id)
      BY <3>1 DEF Edit, SaveDraft
    <3>2. CASE Send(id)
      BY <2>1, <3>2 DEF Send, Put
    <3>3. CASE Close(id) \/ Discard(id)
      BY <3>3 DEF Close, Discard, Without
    <3> QED BY <2>1, <3>1, <3>2, <3>3
  <2>2. ASSUME NEW it \in items, EditQueued(it) \/ DeleteQueued(it)
        PROVE  DOMAIN open' \subseteq DOMAIN open \cup {lastId + 1} /\ inFlight' = inFlight
    <3>1. CASE EditQueued(it)
      BY <3>1 DEF EditQueued, StartCompose, Put
    <3>2. CASE DeleteQueued(it)
      BY <3>2 DEF DeleteQueued, ui
    <3> QED BY <2>2, <3>1, <3>2
  <2>3. ASSUME NEW it \in items, RetryQueued(it)
        PROVE  \A i \in 1..lastId : Live(i)' => Live(i)
    <3>1. PICK refused : OutboxDue({it}, refused)
      BY <2>3 DEF RetryQueued
    <3>2. {it} \subseteq Item /\ RowsOf({it}) \subseteq 1..lastRow
      BY <1>1 DEF RowsOf
    <3>3. lastId' \in Nat /\ DOMAIN inFlight' \subseteq DOMAIN inFlight \cup (lastId + 1)..lastId' /\ open' = open
      BY <2>3, <3>1, <3>2, OutboxDueFacts DEF RetryQueued
    <3> QED BY <1>1, <3>3 DEF Live
  <2>4. CASE OpenCompose
    <3>1. DOMAIN open' = DOMAIN open \cup {lastId + 1} /\ inFlight' = inFlight
      BY <2>4 DEF OpenCompose, StartCompose, Put
    <3> QED BY <1>6, <3>1
  <2>5. CASE ShowQueue \/ CloseQueue \/ RemoveAccount
    BY <1>6, <2>5 DEF ShowQueue, CloseQueue, RemoveAccount, ui
  <2> QED BY <1>6, <1>7, <2>1, <2>2, <2>3, <2>4, <2>5 DEF User
<1>8. CASE CacheActor \/ SmtpActor \/ Clock
  <2>1. open' = open /\ inFlight' = inFlight
    BY <1>8 DEF CacheActor, SmtpActor, Clock, DbEnqueue, DbQuery, DbDelete, DbFailed, DbError, SmtpSent, SmtpError, Poll, BackoffEnds, ui
  <2> QED BY <1>6, <2>1
<1>9. CASE Drain
  <2>1. CASE HandleDue
    <3>1. PICK refused : OutboxDue(Head(dbEv).items, refused)
      BY <2>1 DEF HandleDue
    <3>2. Head(dbEv).items \subseteq Item /\ RowsOf(Head(dbEv).items) \subseteq 1..lastRow
      BY <2>1, EventTail DEF HandleDue, Event, TypeOK, CacheTypeOK
    <3>3. lastId' \in Nat /\ DOMAIN inFlight' \subseteq DOMAIN inFlight \cup (lastId + 1)..lastId' /\ open' = open
      BY <2>1, <3>1, <3>2, OutboxDueFacts DEF HandleDue
    <3> QED BY <1>1, <3>3 DEF Live
  <2>2. CASE HandleEnqueued \/ HandleList \/ OutcomeSent \/ OutcomeFailed
    <3>1. open' \in {open, Without(open, Head(smtpEv).id)} /\ inFlight' \in {inFlight, Without(inFlight, Head(smtpEv).id)}
      BY <2>2 DEF HandleEnqueued, HandleList, OutcomeSent, OutcomeFailed
    <3>2. DOMAIN open' \subseteq DOMAIN open /\ DOMAIN inFlight' \subseteq DOMAIN inFlight
      BY <3>1 DEF Without
    <3> QED BY <1>6, <3>2
  <2> QED BY <1>9, <2>1, <2>2 DEF Drain
<1>10. CASE Disruption
  BY <1>4, <1>6, <1>10 DEF Disruption, AccountSaved, AccountRemoved, Reload, Crash, ui
<1>11. CASE UNCHANGED vars
  BY <1>6, <1>11 DEF vars, ui
<1> QED BY <1>7, <1>8, <1>9, <1>10, <1>11 DEF Next

(* Every step keeps RowHasOneSender. *)
LEMMA OneSenderStep == TypeOK /\ PendingRowIsUnclaimed /\ RowHasOneSender /\ [Next]_vars => RowHasOneSender'
<1> SUFFICES ASSUME TypeOK, PendingRowIsUnclaimed, RowHasOneSender, [Next]_vars,
                    NEW i \in DOMAIN outboxRows', NEW j \in DOMAIN outboxRows',
                    i # j, outboxRows'[i] = outboxRows'[j], Live(i)', Live(j)'
             PROVE  FALSE
  BY DEF RowHasOneSender
<1>1. DOMAIN outboxRows \subseteq 1..lastId /\ lastId \in Nat /\ items \subseteq Item /\ RowsOf(items) \subseteq 1..lastRow
  BY DEF TypeOK, UiTypeOK, MapInto
<1>2. \A k \in 1..lastId : Live(k)' => Live(k)
  BY LiveFrame
<1>3. CASE NoNewOwner
  BY <1>1, <1>2, <1>3 DEF NoNewOwner, RowHasOneSender
<1>4. CASE HandleEnqueued
  <2>1. /\ outboxRows' = Put(outboxRows, Head(dbEv).id, Head(dbEv).row) /\ Head(dbEv).ev = "enqueued" /\ dbEv # <<>>
    BY <1>4 DEF HandleEnqueued
  <2>2. Head(dbEv) = dbEv[1] /\ 1 \in 1..Len(dbEv)
    BY <2>1, EventTail
  <2>3. \A k \in DOMAIN outboxRows : outboxRows[k] # Head(dbEv).row
    BY <2>1, <2>2 DEF PendingRowIsUnclaimed
  <2>4. i # Head(dbEv).id /\ j # Head(dbEv).id
    BY <2>1, <2>3 DEF Put
  <2>5. i \in DOMAIN outboxRows /\ j \in DOMAIN outboxRows /\ outboxRows[i] = outboxRows[j]
    BY <2>1, <2>4 DEF Put
  <2> QED BY <1>1, <1>2, <2>5 DEF RowHasOneSender
<1>5. ASSUME NEW due, due \subseteq Item, RowsOf(due) \subseteq 1..lastRow, NEW refused, OutboxDue(due, refused)
      PROVE  FALSE
  <2>1. \A k \in DOMAIN outboxRows' :
          \/ k \in DOMAIN outboxRows /\ outboxRows'[k] = outboxRows[k]
          \/ k > lastId /\ outboxRows'[k] \in RowsOf(due) \ Owned
    BY <1>5, OutboxDueFacts
  <2>2. ~(i > lastId /\ j > lastId)
    BY <1>5, OutboxDueFacts
  <2>3. \A k \in DOMAIN outboxRows : Live(k)' => outboxRows[k] \in Owned
    BY <1>1, <1>2 DEF Owned, Live
  <2>4. ~(i \in DOMAIN outboxRows /\ outboxRows'[i] = outboxRows[i] /\ j \in DOMAIN outboxRows /\ outboxRows'[j] = outboxRows[j])
    BY <1>1, <1>2 DEF RowHasOneSender
  <2> QED BY <2>1, <2>2, <2>3, <2>4
<1>6. CASE HandleDue
  <2>1. Head(dbEv).items \subseteq Item /\ RowsOf(Head(dbEv).items) \subseteq 1..lastRow
    BY <1>6, EventTail DEF HandleDue, Event, TypeOK, CacheTypeOK
  <2>2. PICK refused : OutboxDue(Head(dbEv).items, refused)
    BY <1>6 DEF HandleDue
  <2> QED BY <1>5, <2>1, <2>2
<1>7. ASSUME NEW it \in items, RetryQueued(it)
      PROVE  FALSE
  <2>1. {it} \subseteq Item /\ RowsOf({it}) \subseteq 1..lastRow
    BY <1>1 DEF RowsOf
  <2>2. PICK refused : OutboxDue({it}, refused)
    BY <1>7 DEF RetryQueued
  <2> QED BY <1>5, <2>1, <2>2
<1> QED BY <1>3, <1>4, <1>6, <1>7, OwnersFrame

(* The invariant of the proof holds at first ... *)
LEMMA OneSenderInit == Init => PendingRowIsUnclaimed /\ RowHasOneSender
BY DEF Init, PendingRowIsUnclaimed, RowHasOneSender, Empty

(* A row whose number is still on its way to the UI thread is claimed by no
   compose id and shown by no earlier listing (Composes::outbox_enqueued,
   DbActor::run answering in order). *)
THEOREM PendingRowsUnclaimed == Spec => []PendingRowIsUnclaimed
BY OneSenderInit, OutboxTypes, PendingStep, PTL DEF Spec

(* An outbox row is never at the disposal of two senders: neither the retry
   timer nor a click on Retry doubles an attempt of an open window or one
   under way (Deliveries::retries), over crashes, reloads, dropped commands
   and failed writes. *)
THEOREM OneSenderPerRow == Spec => []RowHasOneSender
BY OneSenderInit, OutboxTypes, PendingRowsUnclaimed, OneSenderStep, PTL DEF Spec

(***************************************************************************)
(* A row stays until its message is done                                   *)
(***************************************************************************)

Done == delivered \cup dropped \cup takenBack

(* Compose id `id` is about letter l: its window, its send, its mail with the
   SMTP actor, its enqueue command, or the row it owns or is about to own. *)
About(id, l) ==
  \/ id \in DOMAIN open /\ open[id].text.letter = l
  \/ id \in DOMAIN inFlight /\ inFlight[id].letter = l
  \/ \E i \in 1..Len(smtpQ) : smtpQ[i].id = id /\ smtpQ[i].text.letter = l
  \/ \E i \in 1..Len(dbQ) : dbQ[i].op = "enqueue" /\ dbQ[i].reply /\ dbQ[i].id = id /\ dbQ[i].text.letter = l
  \/ \E i \in 1..Len(dbEv) : /\ dbEv[i].ev = "enqueued" /\ dbEv[i].id = id
                             /\ dbEv[i].row \in DOMAIN table /\ table[dbEv[i].row].text.letter = l
  \/ id \in DOMAIN outboxRows /\ outboxRows[id] \in DOMAIN table /\ table[outboxRows[id]].text.letter = l

(* An id is about one letter for ever. *)
OneLetter == \A id, l, m \in Nat : About(id, l) /\ About(id, m) => l = m

(* The letter of a send that succeeded was delivered. *)
OutcomesAreTrue == \A i \in 1..Len(smtpEv) : smtpEv[i].ok => \A l \in Nat : About(smtpEv[i].id, l) => l \in delivered

(* What a listing shows of a row that still exists is what the row holds. *)
ListingsAgree ==
  /\ \A it \in items : it.row \in DOMAIN table => table[it.row].text = it.text
  /\ \A i \in 1..Len(dbEv) : \A it \in dbEv[i].items : it.row \in DOMAIN table => table[it.row].text = it.text

(* A row is only deleted for a letter that is done. *)
DeletesAreDone ==
  \A i \in 1..Len(dbQ) : dbQ[i].op \in {"sent", "delete"} =>
    dbQ[i].row <= lastRow /\ (dbQ[i].row \in DOMAIN table => table[dbQ[i].row].text.letter \in Done)

Faithful == OneLetter /\ OutcomesAreTrue /\ ListingsAgree /\ DeletesAreDone

(* What a row holds never changes, and a row that is gone does not return. *)
TableKeeps ==
  /\ lastRow <= lastRow'
  /\ \A r \in 1..lastRow : r \in DOMAIN table' => r \in DOMAIN table /\ table'[r].text = table[r].text

(* Every step keeps what the rows of the outbox hold. *)
LEMMA TableStep ==
  ASSUME TypeOK, [Next]_vars
  PROVE  TableKeeps
<1>1. lastRow \in Nat /\ MapInto(table, 1..lastRow, Queued)
  BY DEF TypeOK, CacheTypeOK
<1>2. CASE table' = table /\ lastRow' = lastRow
  BY <1>1, <1>2 DEF TableKeeps
<1>3. CASE User
  <2>1. ASSUME NEW id \in DOMAIN open, Edit(id) \/ Send(id) \/ SaveDraft(id) \/ Close(id) \/ Discard(id)
        PROVE  table' = table /\ lastRow' = lastRow
    BY <2>1 DEF Edit, Send, SaveDraft, Close, Discard, db
  <2>2. ASSUME NEW it \in items, RetryQueued(it) \/ EditQueued(it) \/ DeleteQueued(it)
        PROVE  table' = table /\ lastRow' = lastRow
    BY <2>2 DEF RetryQueued, EditQueued, DeleteQueued
  <2>3. CASE OpenCompose \/ ShowQueue \/ CloseQueue \/ RemoveAccount
    BY <1>2, <2>3 DEF OpenCompose, ShowQueue, CloseQueue, RemoveAccount, db
  <2> QED BY <1>2, <1>3, <2>1, <2>2, <2>3 DEF User
<1>4. CASE DbQuery \/ DbError \/ SmtpActor \/ Poll
  BY <1>2, <1>4 DEF DbQuery, DbError, SmtpActor, SmtpSent, SmtpError, Poll, db
<1>5. CASE DbEnqueue
  <2>1. lastRow' = lastRow + 1 /\ table' = Put(table, lastRow + 1, [text |-> Cmd.text, due |-> TRUE])
    BY <1>5 DEF DbEnqueue
  <2>2. \A r \in 1..lastRow : r # lastRow + 1
    BY <1>1
  <2>3. \A r \in 1..lastRow : r \in DOMAIN table' => r \in DOMAIN table /\ table'[r] = table[r]
    BY <2>1, <2>2 DEF Put
  <2>4. lastRow <= lastRow'
    BY <1>1, <2>1
  <2> QED BY <2>3, <2>4 DEF TableKeeps
<1>6. CASE DbDelete
  <2>1. lastRow' = lastRow /\ table' = Without(table, Cmd.row)
    BY <1>6 DEF DbDelete
  <2>2. \A r \in 1..lastRow : r \in DOMAIN table' => r \in DOMAIN table /\ table'[r] = table[r]
    BY <2>1 DEF Without
  <2> QED BY <1>1, <2>1, <2>2 DEF TableKeeps
<1>7. CASE DbFailed
  <2>1. lastRow' = lastRow /\ (table' = table \/ table' = [table EXCEPT ![Cmd.row].due = FALSE])
    BY <1>7 DEF DbFailed
  <2> QED BY <1>1, <2>1 DEF TableKeeps, MapInto, Queued
<1>8. ASSUME NEW r \in DOMAIN table, BackoffEnds(r)
      PROVE  TableKeeps
  <2>1. lastRow' = lastRow /\ table' = [table EXCEPT ![r].due = TRUE]
    BY <1>8 DEF BackoffEnds
  <2> QED BY <1>1, <2>1 DEF TableKeeps, MapInto, Queued
<1>9. CASE Drain \/ Disruption
  BY <1>2, <1>9 DEF Drain, HandleEnqueued, HandleDue, HandleList, OutcomeSent, OutcomeFailed,
     Disruption, AccountSaved, AccountRemoved, Reload, Crash
<1>10. CASE UNCHANGED vars
  BY <1>2, <1>10 DEF vars, db
<1> QED BY <1>3, <1>4, <1>5, <1>6, <1>7, <1>8, <1>9, <1>10 DEF Next, CacheActor, Clock

(* What outbox_due may be given: what the Outbox window shows of one row, or
   the answer to a poll. *)
Given(due) ==
  /\ due \subseteq Item /\ RowsOf(due) \subseteq 1..lastRow
  /\ due \subseteq items \/ \E i \in 1..Len(dbEv) : due = dbEv[i].items

(* A poll's answer or a click on Retry hands outbox_due rows it may have. *)
LEMMA DueIsGiven ==
  ASSUME TypeOK, HandleDue \/ \E it \in items : RetryQueued(it)
  PROVE  \E due : Given(due) /\ \E refused : OutboxDue(due, refused)
<1>1. /\ items \subseteq Item /\ RowsOf(items) \subseteq 1..lastRow
      /\ \A i \in 1..Len(dbEv) : RowsOf(dbEv[i].items) \subseteq 1..lastRow
  BY DEF TypeOK, UiTypeOK, CacheTypeOK
<1>2. CASE HandleDue
  <2>1. dbEv # <<>> /\ \E refused : OutboxDue(Head(dbEv).items, refused)
    BY <1>2 DEF HandleDue
  <2>2. Head(dbEv) = dbEv[1] /\ Head(dbEv) \in Event /\ 1 \in 1..Len(dbEv)
    BY <2>1, EventTail
  <2>3. Given(Head(dbEv).items)
    BY <1>1, <2>2 DEF Given, Event
  <2> QED BY <2>1, <2>3
<1>3. ASSUME NEW it \in items, RetryQueued(it)
      PROVE  \E due : Given(due) /\ \E refused : OutboxDue(due, refused)
  <2>1. \E refused : OutboxDue({it}, refused)
    BY <1>3 DEF RetryQueued
  <2>2. Given({it})
    BY <1>1 DEF Given, RowsOf
  <2> QED BY <2>1, <2>2
<1> QED BY <1>2, <1>3

(* The text a fresh send takes from a listing is the one its row holds. *)
LEMMA GivenIsTrue ==
  ASSUME ListingsAgree, NEW due, Given(due), NEW r \in RowsOf(due), r \in DOMAIN table
  PROVE  TextOf(due, r) = table[r].text
<1>1. (CHOOSE it \in due : it.row = r) \in due /\ (CHOOSE it \in due : it.row = r).row = r
  BY DEF RowsOf
<1>2. \A it \in due : it.row \in DOMAIN table => table[it.row].text = it.text
  BY DEF Given, ListingsAgree
<1> QED BY <1>1, <1>2 DEF TextOf

(* A window that stays open, or a send that stays under way, is about the
   letter it was about. *)
LEMMA WindowsStep ==
  ASSUME TypeOK, [Next]_vars
  PROVE  /\ \A id \in DOMAIN open' : \/ id > lastId
                                     \/ id \in DOMAIN open /\ open'[id].text.letter = open[id].text.letter
         /\ \A id \in DOMAIN inFlight' : \/ id > lastId
                                         \/ id \in DOMAIN inFlight /\ inFlight'[id] = inFlight[id]
                                         \/ id \in DOMAIN open /\ inFlight'[id] = open[id].text
<1> DEFINE Kept == \A id \in DOMAIN open' : id \in DOMAIN open /\ open'[id].text.letter = open[id].text.letter
           Same == \A id \in DOMAIN inFlight' : id \in DOMAIN inFlight /\ inFlight'[id] = inFlight[id]
<1>1. lastId \in Nat /\ MapInto(open, 1..lastId, Window) /\ MapInto(inFlight, 1..lastId, Text)
  BY DEF TypeOK, UiTypeOK
<1>2. DOMAIN Empty = {}
  BY DEF Empty
<1>3. \A k : \A id \in DOMAIN Without(open, k) : id \in DOMAIN open /\ Without(open, k)[id] = open[id]
  BY DEF Without
<1>4. \A k : \A id \in DOMAIN Without(inFlight, k) : id \in DOMAIN inFlight /\ Without(inFlight, k)[id] = inFlight[id]
  BY DEF Without
<1>5. CASE Kept /\ Same
  BY <1>5
<1>6. ASSUME NEW text, StartCompose(text), inFlight' = inFlight
      PROVE  /\ \A id \in DOMAIN open' : id > lastId \/ (id \in DOMAIN open /\ open'[id] = open[id])
             /\ Same
  BY <1>1, <1>6 DEF StartCompose, Put
<1>7. CASE User
  <2>1. ASSUME NEW id \in DOMAIN open, Edit(id) \/ SaveDraft(id) \/ Close(id) \/ Discard(id)
        PROVE  Kept /\ Same
    <3>1. CASE Edit(id)
      <4>1. open' = [open EXCEPT ![id].text.v = @ + 1] /\ inFlight' = inFlight
        BY <3>1 DEF Edit
      <4> QED BY <1>1, <4>1 DEF MapInto, Window, Text
    <3>2. CASE SaveDraft(id)
      <4>1. open' = [open EXCEPT ![id].saved = open[id].text.v] /\ inFlight' = inFlight
        BY <3>2 DEF SaveDraft
      <4> QED BY <1>1, <4>1 DEF MapInto, Window, Text
    <3>3. CASE Close(id) \/ Discard(id)
      <4>1. open' = Without(open, id) /\ (inFlight' = inFlight \/ inFlight' = Without(inFlight, id))
        BY <3>3 DEF Close, Discard
      <4> QED BY <1>3, <1>4, <4>1
    <3> QED BY <2>1, <3>1, <3>2, <3>3
  <2>2. ASSUME NEW id \in DOMAIN open, Send(id)
        PROVE  /\ Kept
               /\ \A i \in DOMAIN inFlight' : \/ i \in DOMAIN inFlight /\ inFlight'[i] = inFlight[i]
                                              \/ i \in DOMAIN open /\ inFlight'[i] = open[i].text
    BY <2>2 DEF Send, Put
  <2>3. ASSUME NEW it \in items, EditQueued(it)
        PROVE  StartCompose(it.text) /\ inFlight' = inFlight
    BY <2>3 DEF EditQueued
  <2>4. ASSUME NEW it \in items, DeleteQueued(it)
        PROVE  Kept /\ Same
    BY <2>4 DEF DeleteQueued, ui
  <2>5. ASSUME OpenCompose
        PROVE  inFlight' = inFlight /\ \E text : StartCompose(text)
    BY <2>5 DEF OpenCompose
  <2>6. ASSUME ShowQueue \/ CloseQueue \/ RemoveAccount
        PROVE  Kept /\ Same
    BY <2>6 DEF ShowQueue, CloseQueue, RemoveAccount, ui
  <2>7. ASSUME NEW it \in items, RetryQueued(it)
        PROVE  open' = open /\ \A id \in DOMAIN inFlight' : id > lastId \/ (id \in DOMAIN inFlight /\ inFlight'[id] = inFlight[id])
    <3>1. PICK due : Given(due) /\ \E refused : OutboxDue(due, refused)
      BY <2>7, DueIsGiven
    <3> QED BY <2>7, <3>1, OutboxDueFacts DEF RetryQueued, Given, Retried
  <2>a. CASE OpenCompose \/ ShowQueue \/ CloseQueue \/ RemoveAccount
    BY <1>6, <2>a, <2>5, <2>6
  <2>b. ASSUME NEW id \in DOMAIN open, Edit(id) \/ Send(id) \/ SaveDraft(id) \/ Close(id) \/ Discard(id)
        PROVE  /\ Kept
               /\ \A i \in DOMAIN inFlight' : \/ i \in DOMAIN inFlight /\ inFlight'[i] = inFlight[i]
                                              \/ i \in DOMAIN open /\ inFlight'[i] = open[i].text
    BY <2>b, <2>1, <2>2
  <2>c. ASSUME NEW it \in items, RetryQueued(it) \/ EditQueued(it) \/ DeleteQueued(it)
        PROVE  /\ \A id \in DOMAIN open' : \/ id > lastId
                                           \/ id \in DOMAIN open /\ open'[id].text.letter = open[id].text.letter
               /\ \A id \in DOMAIN inFlight' : id > lastId \/ (id \in DOMAIN inFlight /\ inFlight'[id] = inFlight[id])
    BY <2>c, <1>6, <2>3, <2>4, <2>7
  <2> QED BY <1>7, <2>a, <2>b, <2>c DEF User
<1>8. ASSUME CacheActor \/ SmtpActor \/ Clock
      PROVE  Kept /\ Same
  BY <1>8 DEF CacheActor, SmtpActor, Clock, DbEnqueue, DbQuery, DbDelete, DbFailed, DbError, SmtpSent, SmtpError, Poll, BackoffEnds, ui
<1>9. ASSUME HandleDue
      PROVE  open' = open /\ \A id \in DOMAIN inFlight' : id > lastId \/ (id \in DOMAIN inFlight /\ inFlight'[id] = inFlight[id])
  <2>1. PICK due : Given(due) /\ \E refused : OutboxDue(due, refused)
    BY <1>9, DueIsGiven
  <2> QED BY <1>9, <2>1, OutboxDueFacts DEF HandleDue, Given, Retried
<1>10. ASSUME HandleEnqueued \/ HandleList \/ OutcomeSent \/ OutcomeFailed
       PROVE  Kept /\ Same
  <2>1. open' \in {open, Without(open, Head(smtpEv).id)} /\ inFlight' \in {inFlight, Without(inFlight, Head(smtpEv).id)}
    BY <1>10 DEF HandleEnqueued, HandleList, OutcomeSent, OutcomeFailed
  <2> QED BY <1>3, <1>4, <2>1
<1>11. ASSUME Disruption
       PROVE  Kept /\ Same
  BY <1>2, <1>11 DEF Disruption, AccountSaved, AccountRemoved, Reload, Crash, ui
<1>12. ASSUME UNCHANGED vars
       PROVE  Kept /\ Same
  BY <1>12 DEF vars, ui
<1> HIDE DEF Kept, Same
<1>13. CASE HandleDue
  BY <1>9, <1>13
<1>14. CASE CacheActor \/ SmtpActor \/ Clock \/ Disruption \/ UNCHANGED vars \/ HandleEnqueued \/ HandleList \/ OutcomeSent \/ OutcomeFailed
  BY <1>5, <1>8, <1>10, <1>11, <1>12, <1>14
<1> QED BY <1>7, <1>13, <1>14 DEF Next, Drain

(* A mail with the SMTP actor was there before, is a retry under a fresh id,
   or is what a window just sent. *)
LEMMA MailsStep ==
  ASSUME TypeOK, [Next]_vars
  PROVE  \A k \in 1..Len(smtpQ') : \/ smtpQ'[k].id > lastId
                                   \/ \E j \in 1..Len(smtpQ) : smtpQ'[k] = smtpQ[j]
                                   \/ smtpQ'[k].id \in DOMAIN open /\ smtpQ'[k].text = open[smtpQ'[k].id].text
<1> DEFINE Old == \A k \in 1..Len(smtpQ') : \E j \in 1..Len(smtpQ) : smtpQ'[k] = smtpQ[j]
<1>1. smtpQ \in Seq(Mail)
  BY DEF TypeOK, SmtpTypeOK
<1>2. ASSUME smtpQ' = smtpQ
      PROVE  Old
  BY <1>2
<1>3. CASE Old
  BY <1>3
<1>4. CASE HandleDue \/ \E it \in items : RetryQueued(it)
  <2>1. PICK due : Given(due) /\ \E refused : OutboxDue(due, refused)
    BY <1>4, DueIsGiven
  <2> QED BY <2>1, OutboxDueFacts DEF Given, Retried
<1>5. ASSUME NEW id \in DOMAIN open, Send(id)
      PROVE  \A k \in 1..Len(smtpQ') : \/ \E j \in 1..Len(smtpQ) : smtpQ'[k] = smtpQ[j]
                                       \/ smtpQ'[k].id \in DOMAIN open /\ smtpQ'[k].text = open[smtpQ'[k].id].text
  <2>1. smtpQ' = Append(smtpQ, [id |-> id, text |-> open[id].text])
    BY <1>5 DEF Send
  <2>2. \A k \in 1..Len(smtpQ') : (k \in 1..Len(smtpQ) /\ smtpQ'[k] = smtpQ[k]) \/ smtpQ'[k] = [id |-> id, text |-> open[id].text]
    BY <1>1, <2>1
  <2> QED BY <2>2
<1>6. ASSUME SmtpActor
      PROVE  Old
  <2>1. smtpQ # <<>> /\ smtpQ' = Tail(smtpQ)
    BY <1>6 DEF SmtpActor, SmtpSent, SmtpError
  <2>2. \A k \in 1..Len(smtpQ') : k + 1 \in 1..Len(smtpQ) /\ smtpQ'[k] = smtpQ[k + 1]
    BY <1>1, <2>1
  <2> QED BY <2>2
<1>7. ASSUME Disruption
      PROVE  Old
  BY <1>7 DEF Disruption, AccountSaved, AccountRemoved, Reload, Crash
<1>8. ASSUME NEW id \in DOMAIN open, Edit(id) \/ SaveDraft(id) \/ Close(id) \/ Discard(id)
      PROVE  smtpQ' = smtpQ
  BY <1>8 DEF Edit, SaveDraft, Close, Discard, smtp
<1>9. ASSUME NEW it \in items, EditQueued(it) \/ DeleteQueued(it)
      PROVE  smtpQ' = smtpQ
  BY <1>9 DEF EditQueued, DeleteQueued, smtp
<1>10. ASSUME OpenCompose \/ ShowQueue \/ CloseQueue \/ RemoveAccount \/ CacheActor \/ Clock
       PROVE  smtpQ' = smtpQ
  BY <1>10 DEF OpenCompose, ShowQueue, CloseQueue, RemoveAccount, CacheActor, Clock,
     DbEnqueue, DbQuery, DbDelete, DbFailed, DbError, Poll, BackoffEnds, smtp
<1>11. ASSUME HandleEnqueued \/ HandleList \/ OutcomeSent \/ OutcomeFailed \/ UNCHANGED vars
       PROVE  smtpQ' = smtpQ
  BY <1>11 DEF HandleEnqueued, HandleList, OutcomeSent, OutcomeFailed, vars, smtp
<1> HIDE DEF Old
<1>12. CASE SmtpActor \/ Disruption \/ smtpQ' = smtpQ
  BY <1>2, <1>3, <1>6, <1>7, <1>12
<1>13. CASE User
  BY <1>4, <1>5, <1>8, <1>9, <1>10, <1>12, <1>13 DEF User
<1> QED BY <1>4, <1>10, <1>11, <1>12, <1>13 DEF Next, Drain

(* An answer that names a new row was waiting, or the cache actor just gave it
   for the command at the head of its queue; an id owns the row it owned, or
   the one an answer gave it, unless the id is fresh. *)
LEMMA AnswersStep ==
  ASSUME TypeOK, [Next]_vars
  PROVE  /\ \A k \in 1..Len(dbEv') : dbEv'[k].ev = "enqueued" =>
              \/ \E j \in 1..Len(dbEv) : dbEv'[k] = dbEv[j]
              \/ DbEnqueue /\ Cmd.reply /\ dbEv'[k] = Enqueued(Cmd.id, lastRow + 1)
         /\ \A id \in DOMAIN outboxRows' :
              \/ id > lastId
              \/ id \in DOMAIN outboxRows /\ outboxRows'[id] = outboxRows[id]
              \/ \E j \in 1..Len(dbEv) : dbEv[j].ev = "enqueued" /\ dbEv[j].id = id /\ outboxRows'[id] = dbEv[j].row
<1>1. dbEv \in Seq(Event)
  BY DEF TypeOK, CacheTypeOK
<1>2. \A k \in 1..Len(dbEv') : dbEv'[k].ev = "enqueued" =>
        \/ \E j \in 1..Len(dbEv) : dbEv'[k] = dbEv[j]
        \/ DbEnqueue /\ Cmd.reply /\ dbEv'[k] = Enqueued(Cmd.id, lastRow + 1)
  <2>1. CASE dbEv' = dbEv \/ dbEv' = <<>>
    BY <2>1
  <2>2. CASE HandleEnqueued \/ HandleDue \/ HandleList
    <3>1. dbEv # <<>> /\ dbEv' = Tail(dbEv)
      BY <2>2 DEF HandleEnqueued, HandleDue, HandleList
    <3> QED BY <3>1, EventTail
  <2>3. CASE DbEnqueue
    <3>1. dbEv' = dbEv \/ (Cmd.reply /\ dbEv' = Append(dbEv, Enqueued(Cmd.id, lastRow + 1)))
      BY <2>3 DEF DbEnqueue, Answer
    <3>2. CASE Cmd.reply /\ dbEv' = Append(dbEv, Enqueued(Cmd.id, lastRow + 1))
      <4>1. \A k \in 1..Len(dbEv') : (k \in 1..Len(dbEv) /\ dbEv'[k] = dbEv[k]) \/ dbEv'[k] = Enqueued(Cmd.id, lastRow + 1)
        BY <1>1, <3>2
      <4> QED BY <2>3, <3>2, <4>1
    <3> QED BY <2>1, <3>1, <3>2
  <2>4. CASE DbQuery
    <3>1. dbEv' = dbEv \/ \E list : dbEv' = Append(dbEv, Listing(Cmd.op, list))
      BY <2>4 DEF DbQuery, Answer
    <3>2. ASSUME NEW list, dbEv' = Append(dbEv, Listing(Cmd.op, list))
          PROVE  \A k \in 1..Len(dbEv') : (k \in 1..Len(dbEv) /\ dbEv'[k] = dbEv[k]) \/ dbEv'[k].ev = Cmd.op
      <4> DEFINE e == Listing(Cmd.op, list)
      <4>1. e.ev = Cmd.op
        BY DEF Listing
      <4> HIDE DEF e
      <4>2. dbEv' = Append(dbEv, e)
        BY <3>2 DEF e
      <4> QED BY <1>1, <4>1, <4>2
    <3>3. Cmd.op # "enqueued"
      BY <2>4 DEF DbQuery
    <3> QED BY <2>1, <3>1, <3>2, <3>3
  <2> QED BY <2>1, <2>2, <2>3, <2>4, EventsFrame
<1>3. ASSUME NEW id \in DOMAIN outboxRows'
      PROVE  \/ id > lastId
             \/ id \in DOMAIN outboxRows /\ outboxRows'[id] = outboxRows[id]
             \/ \E j \in 1..Len(dbEv) : dbEv[j].ev = "enqueued" /\ dbEv[j].id = id /\ outboxRows'[id] = dbEv[j].row
  <2>1. CASE NoNewOwner
    BY <1>3, <2>1 DEF NoNewOwner
  <2>2. CASE HandleEnqueued
    <3>1. dbEv # <<>> /\ Head(dbEv).ev = "enqueued" /\ outboxRows' = Put(outboxRows, Head(dbEv).id, Head(dbEv).row)
      BY <2>2 DEF HandleEnqueued
    <3>2. Head(dbEv) = dbEv[1] /\ 1 \in 1..Len(dbEv)
      BY <3>1, EventTail
    <3>3. (id \in DOMAIN outboxRows /\ outboxRows'[id] = outboxRows[id]) \/ (id = Head(dbEv).id /\ outboxRows'[id] = Head(dbEv).row)
      BY <1>3, <3>1 DEF Put
    <3> QED BY <3>1, <3>2, <3>3
  <2>3. CASE HandleDue \/ \E it \in items : RetryQueued(it)
    <3>1. PICK due : Given(due) /\ \E refused : OutboxDue(due, refused)
      BY <2>3, DueIsGiven
    <3> QED BY <1>3, <3>1, OutboxDueFacts DEF Given
  <2> QED BY <2>1, <2>2, <2>3, OwnersFrame
<1> QED BY <1>2, <1>3

(* A command the cache actor has: it had it before (heard or, after a reload,
   unheard), or it records a failed send, or it deletes a row whose letter is
   done, or it deletes nothing. *)
Justified(c) ==
  \/ \E j \in 1..Len(dbQ) : /\ c.op = dbQ[j].op /\ c.id = dbQ[j].id /\ c.row = dbQ[j].row /\ c.text = dbQ[j].text
                            /\ c.reply => dbQ[j].reply
  \/ c.op = "enqueue" /\ c.id \in DOMAIN inFlight /\ c.text = inFlight[c.id]
  \/ c.op \in {"due", "list", "failed"}
  \/ c.op \in {"sent", "delete"} /\ c.row \in 1..lastRow /\ (c.row \in DOMAIN table => table[c.row].text.letter \in Done')

(* Queueing justified commands leaves justified commands. *)
LEMMA PushJustified ==
  ASSUME TypeOK, NEW cmds \in Seq(Command), \A k \in 1..Len(cmds) : Justified(cmds[k]), dbQ' = Push(dbQ, cmds)
  PROVE  \A k \in 1..Len(dbQ') : Justified(dbQ'[k])
<1>1. dbQ \in Seq(Command)
  BY DEF TypeOK, CacheTypeOK
<1>2. \A k \in 1..Len(Push(dbQ, cmds)) : \/ \E j \in 1..Len(dbQ) : Push(dbQ, cmds)[k] = dbQ[j]
                                         \/ \E j \in 1..Len(cmds) : Push(dbQ, cmds)[k] = cmds[j]
  BY <1>1, PushElements
<1>3. \A j \in 1..Len(dbQ) : Justified(dbQ[j])
  BY DEF Justified
<1> QED BY <1>2, <1>3

(* The same for one command followed by a question for the rows. *)
LEMMA PushOneJustified ==
  ASSUME TypeOK, NEW c \in Command, Justified(c), dbQ' = Push(dbQ, <<c>>) \/ dbQ' = Push(dbQ, <<c>> \o Refresh)
  PROVE  \A k \in 1..Len(dbQ') : Justified(dbQ'[k])
<1>1. Ask("list") \in Command /\ Ask("list").op = "list"
  BY DEF Ask, OnRow, Command, NoText, Text
<1>2. Justified(Ask("list"))
  BY <1>1 DEF Justified
<1> DEFINE d == <<c>> \o Refresh
<1>3. /\ d \in Seq(Command) /\ <<c>> \in Seq(Command)
      /\ \A k \in 1..Len(d) : d[k] = c \/ d[k] = Ask("list")
      /\ \A k \in 1..Len(<<c>>) : <<c>>[k] = c
  BY <1>1 DEF Refresh
<1> HIDE DEF d
<1>4. (\A k \in 1..Len(d) : Justified(d[k])) /\ \A k \in 1..Len(<<c>>) : Justified(<<c>>[k])
  BY <1>2, <1>3
<1>5. dbQ' = Push(dbQ, <<c>>) \/ dbQ' = Push(dbQ, d)
  BY DEF d
<1> QED BY <1>3, <1>4, <1>5, PushJustified

(* A letter that is done stays done. *)
LEMMA DoneStep ==
  ASSUME [Next]_vars
  PROVE  delivered \subseteq delivered' /\ Done \subseteq Done'
<1> DEFINE Grow == delivered \subseteq delivered' /\ dropped \subseteq dropped' /\ takenBack \subseteq takenBack'
<1>1. ASSUME UNCHANGED vars PROVE Grow
  BY <1>1 DEF vars, history
<1>2. ASSUME NEW id \in DOMAIN open, Edit(id) \/ Send(id) \/ SaveDraft(id) \/ Close(id) \/ Discard(id) PROVE Grow
  BY <1>2 DEF Edit, Send, SaveDraft, Close, Discard, history
<1>3. ASSUME NEW it \in items, RetryQueued(it) \/ EditQueued(it) \/ DeleteQueued(it) PROVE Grow
  BY <1>3 DEF RetryQueued, EditQueued, DeleteQueued, history
<1>4. ASSUME OpenCompose \/ ShowQueue \/ CloseQueue \/ RemoveAccount \/ CacheActor \/ Clock PROVE Grow
  BY <1>4 DEF OpenCompose, ShowQueue, CloseQueue, RemoveAccount, CacheActor, Clock,
     DbEnqueue, DbQuery, DbDelete, DbFailed, DbError, Poll, BackoffEnds, history
<1>5. ASSUME Drain \/ SmtpActor \/ Disruption PROVE Grow
  BY <1>5 DEF Drain, HandleEnqueued, HandleDue, HandleList, OutcomeSent, OutcomeFailed, SmtpActor, SmtpSent, SmtpError,
     Disruption, AccountSaved, AccountRemoved, Reload, Crash, history
<1>6. Grow
  BY <1>1, <1>2, <1>3, <1>4, <1>5 DEF Next, User
<1> QED BY <1>6 DEF Done

(* Every step leaves the cache actor justified commands only. *)
LEMMA CommandsStep ==
  ASSUME TypeOK, Faithful, [Next]_vars
  PROVE  \A k \in 1..Len(dbQ') : Justified(dbQ'[k])
<1> DEFINE Goal == \A k \in 1..Len(dbQ') : Justified(dbQ'[k])
<1>1. /\ lastId \in Nat /\ lastRow \in Nat /\ dbQ \in Seq(Command) /\ MapInto(table, 1..lastRow, Queued)
      /\ MapInto(open, 1..lastId, Window) /\ MapInto(inFlight, 1..lastId, Text) /\ MapInto(outboxRows, 1..lastId, 1..lastRow)
      /\ items \subseteq Item /\ RowsOf(items) \subseteq 1..lastRow
      /\ smtpEv \in Seq(Outcome)
  BY DEF TypeOK, UiTypeOK, CacheTypeOK, SmtpTypeOK
<1>2. ASSUME dbQ' = dbQ
      PROVE  Goal
  BY <1>2 DEF Justified
<1>3. \A op \in {"sent", "delete", "failed", "due", "list"}, r \in Nat :
        OnRow(op, r) \in Command /\ OnRow(op, r).op = op /\ OnRow(op, r).row = r
  BY DEF OnRow, Command, NoText, Text
<1>4. \A op \in {"failed", "due", "list"}, r \in Nat : OnRow(op, r) \in Command /\ Justified(OnRow(op, r))
  BY <1>3 DEF Justified
<1>5. ASSUME NEW op \in {"sent", "delete"}, NEW r \in 1..lastRow, r \in DOMAIN table => table[r].text.letter \in Done'
      PROVE  OnRow(op, r) \in Command /\ Justified(OnRow(op, r))
  BY <1>1, <1>3, <1>5 DEF Justified
<1>6. Refresh \in Seq(Command) /\ \A k \in 1..Len(Refresh) : Justified(Refresh[k])
  BY <1>4 DEF Refresh, Ask
<1>7. ASSUME NEW id \in DOMAIN open, Discard(id)
      PROVE  Goal
  <2>1. CASE id \in DOMAIN outboxRows
    <3>1. dbQ' = Push(dbQ, <<OnRow("delete", outboxRows[id])>>) /\ dropped' = dropped \cup {open[id].text.letter}
      BY <1>7, <2>1 DEF Discard
    <3>2. outboxRows[id] \in 1..lastRow /\ id \in Nat /\ open[id].text.letter \in Nat
      BY <1>1, <2>1 DEF MapInto, Window, Text
    <3>3. ASSUME outboxRows[id] \in DOMAIN table
          PROVE  table[outboxRows[id]].text.letter \in Done'
      <4>1. table[outboxRows[id]].text.letter \in Nat
        BY <1>1, <3>3 DEF MapInto, Queued, Text
      <4>2. About(id, open[id].text.letter) /\ About(id, table[outboxRows[id]].text.letter)
        BY <2>1, <3>3 DEF About
      <4>3. table[outboxRows[id]].text.letter = open[id].text.letter
        BY <3>2, <4>1, <4>2 DEF Faithful, OneLetter
      <4> QED BY <3>1, <4>3 DEF Done
    <3>4. OnRow("delete", outboxRows[id]) \in Command /\ Justified(OnRow("delete", outboxRows[id]))
      BY <1>5, <3>2, <3>3
    <3> QED BY <3>1, <3>4, PushOneJustified
  <2>2. CASE id \notin DOMAIN outboxRows
    BY <1>2, <1>7, <2>2 DEF Discard
  <2> QED BY <2>1, <2>2
<1>8. ASSUME NEW it \in items, EditQueued(it) \/ DeleteQueued(it)
      PROVE  Goal
  <2>1. dbQ' = Push(dbQ, <<OnRow("delete", it.row)>> \o Refresh) /\ it.text.letter \in Done'
    BY <1>8 DEF EditQueued, DeleteQueued, Done
  <2>2. it.row \in 1..lastRow
    BY <1>1 DEF RowsOf
  <2>3. it.row \in DOMAIN table => table[it.row].text.letter \in Done'
    BY <2>1 DEF Faithful, ListingsAgree
  <2>4. OnRow("delete", it.row) \in Command /\ Justified(OnRow("delete", it.row))
    BY <1>5, <2>2, <2>3
  <2> QED BY <2>1, <2>4, PushOneJustified
<1>9. CASE HandleDue \/ \E it \in items : RetryQueued(it)
  <2>1. PICK due : Given(due) /\ \E refused : OutboxDue(due, refused)
    BY <1>9, DueIsGiven
  <2>2. \A k \in 1..Len(dbQ') : dbQ'[k].op \in {"failed", "list"} \/ \E j \in 1..Len(dbQ) : dbQ'[k] = dbQ[j]
    BY <2>1, OutboxDueFacts DEF Given
  <2> QED BY <2>2 DEF Justified
<1>10. CASE HandleEnqueued \/ ShowQueue \/ Poll
  <2>1. dbQ' = Push(dbQ, Refresh) \/ dbQ' = Push(dbQ, <<OnRow("list", 0)>>) \/ dbQ' = Push(dbQ, <<OnRow("due", 0)>>)
    BY <1>10 DEF HandleEnqueued, ShowQueue, Poll, Ask
  <2>2. ASSUME dbQ' = Push(dbQ, Refresh) PROVE Goal
    BY <1>6, <2>2, PushJustified
  <2>3. ASSUME NEW op \in {"list", "due"}, dbQ' = Push(dbQ, <<OnRow(op, 0)>>) PROVE Goal
    BY <1>4, <2>3, PushOneJustified
  <2> QED BY <2>1, <2>2, <2>3
<1>11. ASSUME CacheActor
       PROVE  Goal
  <2>1. dbQ # <<>> /\ dbQ' = Tail(dbQ)
    BY <1>11 DEF CacheActor, DbEnqueue, DbQuery, DbDelete, DbFailed, DbError, Took
  <2>2. \A k \in 1..Len(dbQ') : k + 1 \in 1..Len(dbQ) /\ dbQ'[k] = dbQ[k + 1]
    BY <1>1, <2>1
  <2> QED BY <2>2 DEF Justified
<1>12. ASSUME OutcomeSent \/ OutcomeFailed
       PROVE  Goal
  <2>1. PICK id : id = Head(smtpEv).id
    OBVIOUS
  <2>2. Head(smtpEv) = smtpEv[1] /\ 1 \in 1..Len(smtpEv) /\ id \in Nat
    <3>1. smtpEv # <<>>
      BY <1>12 DEF OutcomeSent, OutcomeFailed
    <3>2. Head(smtpEv) = smtpEv[1] /\ 1 \in 1..Len(smtpEv) /\ Head(smtpEv) \in Outcome
      BY <1>1, <3>1
    <3> QED BY <2>1, <3>2 DEF Outcome
  <2>3. CASE dbQ' = dbQ
    BY <1>2, <2>3
  <2>4. CASE dbQ' = Push(dbQ, <<>> \o Refresh)
    <3>1. <<>> \o Refresh = Refresh
      BY DEF Refresh
    <3> QED BY <1>6, <2>4, <3>1, PushJustified
  <2>5. ASSUME id \in DOMAIN outboxRows, dbQ' = Push(dbQ, <<OnRow("failed", outboxRows[id])>> \o Refresh)
        PROVE  Goal
    <3>1. outboxRows[id] \in Nat
      BY <1>1, <2>5 DEF MapInto
    <3> QED BY <1>4, <2>5, <3>1, PushOneJustified
  <2>6. ASSUME id \in DOMAIN inFlight, dbQ' = Push(dbQ, <<Enqueue(id, inFlight[id])>> \o Refresh)
        PROVE  Goal
    <3>1. inFlight[id] \in Text
      BY <1>1, <2>6 DEF MapInto
    <3>2. Enqueue(id, inFlight[id]) \in Command /\ Justified(Enqueue(id, inFlight[id]))
      BY <2>2, <2>6, <3>1 DEF Enqueue, Command, Justified
    <3> QED BY <2>6, <3>2, PushOneJustified
  <2>7. ASSUME OutcomeSent, id \in DOMAIN outboxRows, dbQ' = Push(dbQ, <<OnRow("sent", outboxRows[id])>> \o Refresh)
        PROVE  Goal
    <3>1. outboxRows[id] \in 1..lastRow
      BY <1>1, <2>7 DEF MapInto
    <3>2. ASSUME outboxRows[id] \in DOMAIN table
          PROVE  table[outboxRows[id]].text.letter \in Done'
      <4>1. table[outboxRows[id]].text.letter \in Nat
        BY <1>1, <3>2 DEF MapInto, Queued, Text
      <4>2. About(id, table[outboxRows[id]].text.letter)
        BY <2>7, <3>2 DEF About
      <4>3. smtpEv[1].ok /\ smtpEv[1].id = id
        BY <2>1, <2>2, <2>7 DEF OutcomeSent
      <4>4. table[outboxRows[id]].text.letter \in delivered
        BY <2>2, <4>1, <4>2, <4>3 DEF Faithful, OutcomesAreTrue
      <4> QED BY <4>4, DoneStep DEF Done
    <3>3. OnRow("sent", outboxRows[id]) \in Command /\ Justified(OnRow("sent", outboxRows[id]))
      BY <1>5, <3>1, <3>2
    <3> QED BY <2>7, <3>3, PushOneJustified
  <2>8. CASE OutcomeSent
    <3>1. \/ dbQ' = dbQ
          \/ id \in DOMAIN outboxRows /\ dbQ' = Push(dbQ, <<OnRow("sent", outboxRows[id])>> \o Refresh)
          \/ dbQ' = Push(dbQ, <<>> \o Refresh)
      BY <2>1, <2>8 DEF OutcomeSent
    <3> QED BY <2>3, <2>4, <2>7, <2>8, <3>1
  <2>9. CASE OutcomeFailed
    <3>1. \/ dbQ' = dbQ
          \/ id \in DOMAIN outboxRows /\ dbQ' = Push(dbQ, <<OnRow("failed", outboxRows[id])>> \o Refresh)
          \/ id \in DOMAIN inFlight /\ dbQ' = Push(dbQ, <<Enqueue(id, inFlight[id])>> \o Refresh)
          \/ dbQ' = Push(dbQ, <<>> \o Refresh)
      BY <2>1, <2>9 DEF OutcomeFailed, Failed
    <3> QED BY <2>3, <2>4, <2>5, <2>6, <3>1
  <2> QED BY <1>12, <2>8, <2>9
<1>13. ASSUME AccountSaved \/ AccountRemoved
       PROVE  Goal
  <2>1. dbQ' = [i \in 1..Len(dbQ) |-> [dbQ[i] EXCEPT !.reply = FALSE]]
    BY <1>13 DEF AccountSaved, AccountRemoved, Reload
  <2>2. Len(dbQ') = Len(dbQ)
    BY <1>1, <2>1
  <2>3. ASSUME NEW k \in 1..Len(dbQ)
        PROVE  Justified(dbQ'[k])
    <3>1. dbQ[k] \in Command /\ dbQ'[k] = [dbQ[k] EXCEPT !.reply = FALSE]
      BY <1>1, <2>1
    <3>2. dbQ'[k].op = dbQ[k].op /\ dbQ'[k].id = dbQ[k].id /\ dbQ'[k].row = dbQ[k].row /\ dbQ'[k].text = dbQ[k].text
      BY <3>1 DEF Command
    <3>3. ~dbQ'[k].reply
      BY <3>1 DEF Command
    <3> QED BY <3>2, <3>3 DEF Justified
  <2> QED BY <2>2, <2>3
<1>14. ASSUME Crash
       PROVE  Goal
  <2>1. dbQ' = <<OnRow("due", 0)>>
    BY <1>14 DEF Crash, Ask
  <2> QED BY <1>4, <2>1
<1>15. ASSUME NEW id \in DOMAIN open, Edit(id) \/ Send(id) \/ SaveDraft(id) \/ Close(id)
       PROVE  dbQ' = dbQ
  BY <1>15 DEF Edit, Send, SaveDraft, Close, db
<1>16. ASSUME OpenCompose \/ CloseQueue \/ RemoveAccount \/ SmtpActor \/ HandleList \/ UNCHANGED vars
       PROVE  dbQ' = dbQ
  BY <1>16 DEF OpenCompose, CloseQueue, RemoveAccount, SmtpActor, SmtpSent, SmtpError, HandleList, vars, db
<1>17. ASSUME NEW r \in DOMAIN table, BackoffEnds(r)
       PROVE  dbQ' = dbQ
  BY <1>17 DEF BackoffEnds
<1> HIDE DEF Goal
<1>18. CASE User
  BY <1>2, <1>7, <1>8, <1>9, <1>10, <1>15, <1>16, <1>18 DEF User, Goal
<1>19. CASE Drain
  BY <1>2, <1>9, <1>10, <1>12, <1>16, <1>19 DEF Drain, Goal
<1>20. CASE Clock
  BY <1>2, <1>10, <1>17, <1>20 DEF Clock, Goal
<1>21. CASE CacheActor \/ SmtpActor \/ Disruption \/ UNCHANGED vars
  BY <1>2, <1>11, <1>13, <1>14, <1>16, <1>21 DEF Disruption, Goal
<1> QED BY <1>18, <1>19, <1>20, <1>21 DEF Next

(* An id that is about a letter was handed out. *)
LEMMA AboutIsKnown ==
  ASSUME TypeOK, NEW id, NEW l, About(id, l)
  PROVE  id \in 1..lastId /\ l \in Nat
<1>1. /\ MapInto(open, 1..lastId, Window) /\ MapInto(inFlight, 1..lastId, Text) /\ MapInto(outboxRows, 1..lastId, 1..lastRow)
      /\ MapInto(table, 1..lastRow, Queued) /\ dbQ \in Seq(Command) /\ smtpQ \in Seq(Mail)
      /\ \A i \in 1..Len(dbQ) : dbQ[i].op = "enqueue" /\ dbQ[i].reply => dbQ[i].id \in 1..lastId
      /\ \A i \in 1..Len(dbEv) : dbEv[i].ev = "enqueued" => dbEv[i].id \in 1..lastId
      /\ \A i \in 1..Len(smtpQ) : smtpQ[i].id \in 1..lastId
  BY DEF TypeOK, UiTypeOK, CacheTypeOK, SmtpTypeOK
<1>2. (\A i \in 1..Len(dbQ) : dbQ[i] \in Command) /\ \A i \in 1..Len(smtpQ) : smtpQ[i] \in Mail
  BY <1>1
<1>3. CASE id \in DOMAIN open /\ open[id].text.letter = l
  BY <1>1, <1>3 DEF MapInto, Window, Text
<1>4. CASE id \in DOMAIN inFlight /\ inFlight[id].letter = l
  BY <1>1, <1>4 DEF MapInto, Text
<1>5. CASE \E i \in 1..Len(smtpQ) : smtpQ[i].id = id /\ smtpQ[i].text.letter = l
  BY <1>1, <1>2, <1>5 DEF Mail, Text
<1>6. CASE \E i \in 1..Len(dbQ) : dbQ[i].op = "enqueue" /\ dbQ[i].reply /\ dbQ[i].id = id /\ dbQ[i].text.letter = l
  <2>1. PICK i \in 1..Len(dbQ) : dbQ[i].op = "enqueue" /\ dbQ[i].reply /\ dbQ[i].id = id /\ dbQ[i].text.letter = l
    BY <1>6
  <2>2. id \in 1..lastId
    BY <1>1, <2>1
  <2>3. dbQ[i].text.letter \in Nat
    BY <1>2 DEF Command, Text
  <2> QED BY <2>1, <2>2, <2>3
<1>7. CASE \E i \in 1..Len(dbEv) : /\ dbEv[i].ev = "enqueued" /\ dbEv[i].id = id
                                   /\ dbEv[i].row \in DOMAIN table /\ table[dbEv[i].row].text.letter = l
  BY <1>1, <1>7 DEF MapInto, Queued, Text
<1>8. CASE id \in DOMAIN outboxRows /\ outboxRows[id] \in DOMAIN table /\ table[outboxRows[id]].text.letter = l
  BY <1>1, <1>8 DEF MapInto, Queued, Text
<1> QED BY <1>3, <1>4, <1>5, <1>6, <1>7, <1>8 DEF About

(* No step makes an id that was handed out be about another letter. *)
LEMMA AboutInherited ==
  ASSUME TypeOK, Faithful, [Next]_vars, NEW id \in 1..lastId, NEW l, About(id, l)'
  PROVE  About(id, l)
<1>1. /\ lastId \in Nat /\ lastRow \in Nat /\ ~(id > lastId) /\ MapInto(outboxRows, 1..lastId, 1..lastRow)
      /\ \A i \in 1..Len(dbEv) : dbEv[i].ev = "enqueued" => dbEv[i].row \in 1..lastRow
      /\ dbQ \in Seq(Command)
  BY DEF TypeOK, UiTypeOK, CacheTypeOK
<1>2. \A r \in 1..lastRow : r \in DOMAIN table' => r \in DOMAIN table /\ table'[r].text = table[r].text
  BY TableStep DEF TableKeeps
<1>3. CASE id \in DOMAIN open' /\ open'[id].text.letter = l
  BY <1>1, <1>3, WindowsStep DEF About
<1>4. CASE id \in DOMAIN inFlight' /\ inFlight'[id].letter = l
  BY <1>1, <1>4, WindowsStep DEF About
<1>5. CASE \E i \in 1..Len(smtpQ') : smtpQ'[i].id = id /\ smtpQ'[i].text.letter = l
  <2>1. PICK i \in 1..Len(smtpQ') : smtpQ'[i].id = id /\ smtpQ'[i].text.letter = l
    BY <1>5
  <2>2. \/ \E j \in 1..Len(smtpQ) : smtpQ'[i] = smtpQ[j]
        \/ id \in DOMAIN open /\ smtpQ'[i].text = open[id].text
    BY <1>1, <2>1, MailsStep
  <2> QED BY <2>1, <2>2 DEF About
<1>6. CASE \E i \in 1..Len(dbQ') : dbQ'[i].op = "enqueue" /\ dbQ'[i].reply /\ dbQ'[i].id = id /\ dbQ'[i].text.letter = l
  <2>1. PICK i \in 1..Len(dbQ') : dbQ'[i].op = "enqueue" /\ dbQ'[i].reply /\ dbQ'[i].id = id /\ dbQ'[i].text.letter = l
    BY <1>6
  <2>2. Justified(dbQ'[i])
    BY CommandsStep
  <2>3. \/ \E j \in 1..Len(dbQ) : dbQ[j].op = "enqueue" /\ dbQ[j].reply /\ dbQ[j].id = id /\ dbQ[j].text.letter = l
        \/ id \in DOMAIN inFlight /\ inFlight[id].letter = l
    <3>1. CASE \E j \in 1..Len(dbQ) : /\ dbQ'[i].op = dbQ[j].op /\ dbQ'[i].id = dbQ[j].id /\ dbQ'[i].row = dbQ[j].row /\ dbQ'[i].text = dbQ[j].text
                                      /\ dbQ'[i].reply => dbQ[j].reply
      BY <2>1, <3>1, Zenon
    <3>2. CASE dbQ'[i].op = "enqueue" /\ dbQ'[i].id \in DOMAIN inFlight /\ dbQ'[i].text = inFlight[dbQ'[i].id]
      BY <2>1, <3>2
    <3>3. CASE dbQ'[i].op \in {"due", "list", "failed"} \/ dbQ'[i].op \in {"sent", "delete"}
      BY <2>1, <3>3
    <3> QED BY <2>2, <3>1, <3>2, <3>3 DEF Justified
  <2> QED BY <2>3 DEF About
<1>7. CASE \E i \in 1..Len(dbEv') : /\ dbEv'[i].ev = "enqueued" /\ dbEv'[i].id = id
                                    /\ dbEv'[i].row \in DOMAIN table' /\ table'[dbEv'[i].row].text.letter = l
  <2>1. PICK i \in 1..Len(dbEv') : /\ dbEv'[i].ev = "enqueued" /\ dbEv'[i].id = id
                                   /\ dbEv'[i].row \in DOMAIN table' /\ table'[dbEv'[i].row].text.letter = l
    BY <1>7
  <2>2. CASE \E j \in 1..Len(dbEv) : dbEv'[i] = dbEv[j]
    <3>1. PICK j \in 1..Len(dbEv) : dbEv'[i] = dbEv[j]
      BY <2>2
    <3>2. dbEv[j].row \in 1..lastRow /\ dbEv[j].id = id /\ dbEv[j].ev = "enqueued"
      BY <1>1, <2>1, <3>1
    <3>3. dbEv[j].row \in DOMAIN table /\ table[dbEv[j].row].text.letter = l
      BY <1>2, <2>1, <3>1, <3>2
    <3> QED BY <3>2, <3>3 DEF About
  <2>3. CASE DbEnqueue /\ Cmd.reply /\ dbEv'[i] = Enqueued(Cmd.id, lastRow + 1)
    <3>1. dbQ # <<>> /\ Cmd.op = "enqueue" /\ table' = Put(table, lastRow + 1, [text |-> Cmd.text, due |-> TRUE])
      BY <2>3 DEF DbEnqueue, Took
    <3>2. Cmd = dbQ[1] /\ 1 \in 1..Len(dbQ)
      BY <1>1, <3>1 DEF Cmd
    <3>3. dbEv'[i].row = lastRow + 1 /\ Cmd.id = id
      BY <2>1, <2>3 DEF Enqueued
    <3>4. table'[lastRow + 1].text = Cmd.text
      BY <3>1 DEF Put
    <3>5. dbQ[1].op = "enqueue" /\ dbQ[1].id = id /\ dbQ[1].text.letter = l
      BY <2>1, <3>1, <3>2, <3>3, <3>4
    <3>6. dbQ[1].reply
      BY <2>3, <3>2, Zenon
    <3> QED BY <3>2, <3>5, <3>6 DEF About
  <2> QED BY <2>1, <2>2, <2>3, AnswersStep
<1>8. CASE id \in DOMAIN outboxRows' /\ outboxRows'[id] \in DOMAIN table' /\ table'[outboxRows'[id]].text.letter = l
  <2>1. \/ id \in DOMAIN outboxRows /\ outboxRows'[id] = outboxRows[id]
        \/ \E j \in 1..Len(dbEv) : dbEv[j].ev = "enqueued" /\ dbEv[j].id = id /\ outboxRows'[id] = dbEv[j].row
    BY <1>1, <1>8, AnswersStep
  <2>2. outboxRows'[id] \in 1..lastRow
    BY <1>1, <2>1 DEF MapInto
  <2>3. outboxRows'[id] \in DOMAIN table /\ table[outboxRows'[id]].text.letter = l
    BY <1>2, <1>8, <2>2
  <2> QED BY <2>1, <2>3 DEF About
<1> QED BY <1>3, <1>4, <1>5, <1>6, <1>7, <1>8 DEF About

(* Which steps hand out ids: a new window, a retry, and a restart, which
   begins again at 1. *)
LEMMA IdsFrame ==
  ASSUME TypeOK, [Next]_vars
  PROVE  \/ lastId' = lastId \/ Crash \/ HandleDue \/ \E it \in items : RetryQueued(it)
         \/ (\E text : StartCompose(text)) /\ UNCHANGED <<inFlight, outboxRows, smtpQ>>
<1>1. CASE User
  <2>1. ASSUME NEW id \in DOMAIN open, Edit(id) \/ Send(id) \/ SaveDraft(id) \/ Close(id) \/ Discard(id)
        PROVE  lastId' = lastId
    BY <2>1 DEF Edit, Send, SaveDraft, Close, Discard
  <2>2. ASSUME NEW it \in items, EditQueued(it)
        PROVE  (\E text : StartCompose(text)) /\ UNCHANGED <<inFlight, outboxRows, smtpQ>>
    BY <2>2 DEF EditQueued, smtp
  <2>3. ASSUME NEW it \in items, DeleteQueued(it)
        PROVE  lastId' = lastId
    BY <2>3 DEF DeleteQueued, ui
  <2>4. CASE OpenCompose
    BY <2>4 DEF OpenCompose, smtp
  <2>5. CASE ShowQueue \/ CloseQueue \/ RemoveAccount
    BY <2>5 DEF ShowQueue, CloseQueue, RemoveAccount, ui
  <2> QED BY <1>1, <2>1, <2>2, <2>3, <2>4, <2>5 DEF User
<1>2. CASE CacheActor \/ SmtpActor \/ Clock
  BY <1>2 DEF CacheActor, SmtpActor, Clock, DbEnqueue, DbQuery, DbDelete, DbFailed, DbError, SmtpSent, SmtpError, Poll, BackoffEnds, ui
<1>3. CASE HandleEnqueued \/ HandleList \/ OutcomeSent \/ OutcomeFailed
  BY <1>3 DEF HandleEnqueued, HandleList, OutcomeSent, OutcomeFailed
<1>4. CASE Disruption \/ UNCHANGED vars
  BY <1>4 DEF Disruption, AccountSaved, AccountRemoved, Reload, vars, ui
<1> QED BY <1>1, <1>2, <1>3, <1>4 DEF Next, Drain

(* What a fresh id is about is in its window, its send, its mail or its row:
   commands and answers name older ids. *)
FreshAbout(id, x) ==
  \/ id \in DOMAIN open /\ open[id].text.letter = x
  \/ id \in DOMAIN inFlight /\ inFlight[id].letter = x
  \/ \E i \in 1..Len(smtpQ) : smtpQ[i].id = id /\ smtpQ[i].text.letter = x
  \/ id \in DOMAIN outboxRows /\ outboxRows[id] \in DOMAIN table /\ table[outboxRows[id]].text.letter = x

(* No command and no answer names a fresh id. *)
LEMMA FreshIsAbout ==
  ASSUME TypeOK, Faithful, [Next]_vars, NEW id \in Nat, id > lastId, NEW x, About(id, x)'
  PROVE  FreshAbout(id, x)'
<1>0. ~(id \in 1..lastId)
  BY DEF TypeOK, UiTypeOK
<1>1. /\ lastId \in Nat /\ lastRow \in Nat /\ ~(id \in 1..lastId)
      /\ MapInto(open, 1..lastId, Window) /\ MapInto(inFlight, 1..lastId, Text) /\ MapInto(outboxRows, 1..lastId, 1..lastRow)
      /\ smtpQ \in Seq(Mail) /\ \A i \in 1..Len(smtpQ) : smtpQ[i].id \in 1..lastId
      /\ dbQ \in Seq(Command) /\ \A i \in 1..Len(dbQ) : dbQ[i].op = "enqueue" /\ dbQ[i].reply => dbQ[i].id \in 1..lastId
      /\ \A i \in 1..Len(dbEv) : dbEv[i].ev = "enqueued" => dbEv[i].id \in 1..lastId
  BY <1>0 DEF TypeOK, UiTypeOK, CacheTypeOK, SmtpTypeOK
<1>2. \A i \in 1..Len(dbQ') : ~(dbQ'[i].op = "enqueue" /\ dbQ'[i].reply /\ dbQ'[i].id = id)
  <2> SUFFICES ASSUME NEW i \in 1..Len(dbQ'), dbQ'[i].op = "enqueue", dbQ'[i].reply, dbQ'[i].id = id
               PROVE  FALSE
    BY Zenon
  <2>1. Justified(dbQ'[i])
    BY CommandsStep
  <2>2. CASE \E j \in 1..Len(dbQ) : /\ dbQ'[i].op = dbQ[j].op /\ dbQ'[i].id = dbQ[j].id /\ dbQ'[i].row = dbQ[j].row /\ dbQ'[i].text = dbQ[j].text
                                    /\ dbQ'[i].reply => dbQ[j].reply
    <3>1. PICK j \in 1..Len(dbQ) : dbQ'[i].op = dbQ[j].op /\ dbQ'[i].id = dbQ[j].id /\ (dbQ'[i].reply => dbQ[j].reply)
      BY <2>2, Zenon
    <3>2. dbQ[j].reply
      BY <3>1, Zenon
    <3> QED BY <1>1, <3>1, <3>2, Zenon
  <2>3. CASE dbQ'[i].op = "enqueue" /\ dbQ'[i].id \in DOMAIN inFlight /\ dbQ'[i].text = inFlight[dbQ'[i].id]
    BY <1>1, <2>3 DEF MapInto
  <2>4. CASE dbQ'[i].op \in {"due", "list", "failed"} \/ dbQ'[i].op \in {"sent", "delete"}
    BY <2>4
  <2> QED BY <2>1, <2>2, <2>3, <2>4 DEF Justified
<1>3. \A i \in 1..Len(dbEv') : ~(dbEv'[i].ev = "enqueued" /\ dbEv'[i].id = id)
  <2> SUFFICES ASSUME NEW i \in 1..Len(dbEv'), dbEv'[i].ev = "enqueued", dbEv'[i].id = id
               PROVE  FALSE
    OBVIOUS
  <2>1. CASE \E j \in 1..Len(dbEv) : dbEv'[i] = dbEv[j]
    BY <1>1, <2>1
  <2>2. CASE DbEnqueue /\ Cmd.reply /\ dbEv'[i] = Enqueued(Cmd.id, lastRow + 1)
    <3>1. dbQ # <<>> /\ Cmd.op = "enqueue"
      BY <2>2 DEF DbEnqueue, Took
    <3>2. Cmd = dbQ[1] /\ 1 \in 1..Len(dbQ)
      BY <1>1, <3>1 DEF Cmd
    <3>3. Cmd.id = id
      BY <2>2 DEF Enqueued
    <3>4. dbQ[1].reply
      BY <2>2, <3>2, Zenon
    <3>5. dbQ[1].id \in 1..lastId
      BY <1>1, <3>1, <3>2, <3>4, Zenon
    <3> QED BY <1>1, <3>2, <3>3, <3>5
  <2> QED BY <2>1, <2>2, AnswersStep
<1> QED BY <1>2, <1>3, Zenon DEF About, FreshAbout

(* What a retry's fresh id is about is the message its row was listed with. *)
LEMMA RetryIsAbout ==
  ASSUME TypeOK, Faithful, [Next]_vars, HandleDue \/ \E it \in items : RetryQueued(it),
         NEW due, Given(due), NEW refused, OutboxDue(due, refused),
         NEW id \in Nat, id > lastId, NEW x, About(id, x)'
  PROVE  x = TextOf(due, outboxRows'[id]).letter
<1>1. ~(id \in 1..lastId)
  BY DEF TypeOK, UiTypeOK
<1>2. /\ MapInto(open, 1..lastId, Window) /\ MapInto(inFlight, 1..lastId, Text) /\ MapInto(outboxRows, 1..lastId, 1..lastRow)
      /\ \A i \in 1..Len(smtpQ) : smtpQ[i].id \in 1..lastId
  BY DEF TypeOK, UiTypeOK, SmtpTypeOK
<1>3. open' = open /\ table' = table
  BY DEF HandleDue, RetryQueued
<1>4. /\ \A i \in DOMAIN inFlight' : \/ i \in DOMAIN inFlight /\ inFlight'[i] = inFlight[i]
                                     \/ Retried(due, i, inFlight'[i])
      /\ \A k \in 1..Len(smtpQ') : \/ k \in 1..Len(smtpQ) /\ smtpQ'[k] = smtpQ[k]
                                   \/ Retried(due, smtpQ'[k].id, smtpQ'[k].text)
      /\ \A i \in DOMAIN outboxRows' : \/ i \in DOMAIN outboxRows /\ outboxRows'[i] = outboxRows[i]
                                       \/ i > lastId /\ outboxRows'[i] \in RowsOf(due) \ Owned
  BY OutboxDueFacts DEF Given
<1>5. \A r \in RowsOf(due) : r \in DOMAIN table => TextOf(due, r) = table[r].text
  BY GivenIsTrue DEF Faithful
<1>6. ~(id \in DOMAIN open')
  BY <1>1, <1>2, <1>3 DEF MapInto
<1>7. CASE id \in DOMAIN inFlight' /\ inFlight'[id].letter = x
  BY <1>1, <1>2, <1>4, <1>7 DEF MapInto, Retried
<1>8. CASE \E i \in 1..Len(smtpQ') : smtpQ'[i].id = id /\ smtpQ'[i].text.letter = x
  <2>1. PICK i \in 1..Len(smtpQ') : smtpQ'[i].id = id /\ smtpQ'[i].text.letter = x
    BY <1>8
  <2>2. Retried(due, id, smtpQ'[i].text)
    BY <1>1, <1>2, <1>4, <2>1
  <2> QED BY <2>1, <2>2 DEF Retried
<1>9. CASE id \in DOMAIN outboxRows' /\ outboxRows'[id] \in DOMAIN table' /\ table'[outboxRows'[id]].text.letter = x
  <2>1. outboxRows'[id] \in RowsOf(due)
    BY <1>1, <1>2, <1>4, <1>9 DEF MapInto
  <2> QED BY <1>3, <1>5, <1>9, <2>1
<1> QED BY FreshIsAbout, <1>6, <1>7, <1>8, <1>9 DEF FreshAbout

(* A fresh id is about one letter. *)
LEMMA FreshIsOne ==
  ASSUME TypeOK, Faithful, [Next]_vars, NEW id \in Nat, id > lastId,
         NEW l, NEW m, About(id, l)', About(id, m)'
  PROVE  l = m
<1>1. ~(id \in 1..lastId)
  BY DEF TypeOK, UiTypeOK
<1>2. /\ MapInto(inFlight, 1..lastId, Text) /\ MapInto(outboxRows, 1..lastId, 1..lastRow)
      /\ \A i \in 1..Len(smtpQ) : smtpQ[i].id \in 1..lastId
  BY DEF TypeOK, UiTypeOK, SmtpTypeOK
<1>3. FreshAbout(id, l)' /\ FreshAbout(id, m)'
  BY FreshIsAbout
<1>4. CASE lastId' = lastId
  <2>1. TypeOK'
    BY TypeStep
  <2>2. /\ MapInto(open', 1..lastId', Window) /\ MapInto(inFlight', 1..lastId', Text) /\ MapInto(outboxRows', 1..lastId', 1..lastRow')
        /\ \A i \in 1..Len(smtpQ') : smtpQ'[i].id \in 1..lastId'
    BY <2>1 DEF TypeOK, UiTypeOK, SmtpTypeOK
  <2> QED BY <1>1, <1>3, <1>4, <2>2 DEF FreshAbout, MapInto
<1>5. CASE Crash
  <2>1. DOMAIN open' = {} /\ DOMAIN inFlight' = {} /\ DOMAIN outboxRows' = {} /\ smtpQ' = <<>>
    BY <1>5 DEF Crash, Empty
  <2> QED BY <1>3, <2>1 DEF FreshAbout
<1>6. CASE (\E text : StartCompose(text)) /\ UNCHANGED <<inFlight, outboxRows, smtpQ>>
  BY <1>1, <1>2, <1>3, <1>6 DEF FreshAbout, MapInto
<1>7. CASE HandleDue \/ \E it \in items : RetryQueued(it)
  <2>1. PICK due : Given(due) /\ \E refused : OutboxDue(due, refused)
    BY <1>7, DueIsGiven
  <2>2. PICK refused : OutboxDue(due, refused)
    BY <2>1
  <2> QED BY <1>7, <2>1, <2>2, RetryIsAbout
<1> QED BY <1>4, <1>5, <1>6, <1>7, IdsFrame

(* A listing was there before, or shows nothing, or is what the cache actor
   just read in the table. *)
LEMMA ListingsStep ==
  ASSUME TypeOK, [Next]_vars
  PROVE  /\ items' \subseteq items \/ \E j \in 1..Len(dbEv) : items' = dbEv[j].items
         /\ \A i \in 1..Len(dbEv') : \/ \E j \in 1..Len(dbEv) : dbEv'[i] = dbEv[j]
                                     \/ dbEv'[i].items = {}
                                     \/ /\ table' = table
                                        /\ \A it \in dbEv'[i].items : it.row \in DOMAIN table /\ it.text = table[it.row].text
<1>1. dbEv \in Seq(Event)
  BY DEF TypeOK, CacheTypeOK
<1>2. items' \subseteq items \/ \E j \in 1..Len(dbEv) : items' = dbEv[j].items
  <2>1. ASSUME NEW id \in DOMAIN open, Edit(id) \/ Send(id) \/ SaveDraft(id) \/ Close(id) \/ Discard(id)
        PROVE  items' \subseteq items
    BY <2>1 DEF Edit, Send, SaveDraft, Close, Discard
  <2>2. ASSUME NEW it \in items, RetryQueued(it) \/ EditQueued(it) \/ DeleteQueued(it)
        PROVE  items' \subseteq items
    BY <2>2 DEF RetryQueued, EditQueued, DeleteQueued, ui
  <2>3. CASE OpenCompose \/ ShowQueue \/ CloseQueue \/ RemoveAccount \/ CacheActor \/ SmtpActor \/ Clock
    BY <2>3 DEF OpenCompose, ShowQueue, CloseQueue, RemoveAccount, CacheActor, SmtpActor, Clock,
       DbEnqueue, DbQuery, DbDelete, DbFailed, DbError, SmtpSent, SmtpError, Poll, BackoffEnds, ui
  <2>4. CASE HandleEnqueued \/ HandleDue \/ OutcomeSent \/ OutcomeFailed
    BY <2>4 DEF HandleEnqueued, HandleDue, OutcomeSent, OutcomeFailed
  <2>5. CASE HandleList
    <3>1. dbEv # <<>> /\ items' = Head(dbEv).items
      BY <2>5 DEF HandleList
    <3> QED BY <3>1, EventTail
  <2>6. CASE Disruption \/ UNCHANGED vars
    BY <2>6 DEF Disruption, AccountSaved, AccountRemoved, Reload, Crash, vars, ui
  <2> QED BY <2>1, <2>2, <2>3, <2>4, <2>5, <2>6 DEF Next, User, Drain
<1> DEFINE True(e) == /\ table' = table
                      /\ \A it \in e.items : it.row \in DOMAIN table /\ it.text = table[it.row].text
<1>3. ASSUME NEW i \in 1..Len(dbEv')
      PROVE  (\E j \in 1..Len(dbEv) : dbEv'[i] = dbEv[j]) \/ dbEv'[i].items = {} \/ True(dbEv'[i])
  <2>1. CASE dbEv' = dbEv \/ dbEv' = <<>>
    BY <2>1
  <2>2. CASE HandleEnqueued \/ HandleDue \/ HandleList
    <3>1. dbEv # <<>> /\ dbEv' = Tail(dbEv)
      BY <2>2 DEF HandleEnqueued, HandleDue, HandleList
    <3> QED BY <3>1, EventTail
  <2>3. ASSUME NEW e, dbEv' = Append(dbEv, e)
        PROVE  (i \in 1..Len(dbEv) /\ dbEv'[i] = dbEv[i]) \/ dbEv'[i] = e
    BY <1>1, <2>3
  <2>4. CASE DbEnqueue
    <3> DEFINE e == Enqueued(Cmd.id, lastRow + 1)
    <3>1. dbEv' = dbEv \/ dbEv' = Append(dbEv, e)
      BY <2>4 DEF DbEnqueue, Answer
    <3>2. e.items = {}
      BY DEF Enqueued
    <3> HIDE DEF e
    <3> QED BY <2>1, <2>3, <3>1, <3>2
  <2>5. CASE DbQuery
    <3> DEFINE list == {[row |-> r, text |-> table[r].text] : r \in {q \in DOMAIN table : Cmd.op = "list" \/ table[q].due}}
               e == Listing(Cmd.op, list)
    <3>1. (dbEv' = dbEv \/ dbEv' = Append(dbEv, e)) /\ table' = table
      BY <2>5 DEF DbQuery, Answer
    <3>2. e.items = list
      BY DEF Listing
    <3>3. \A it \in list : it.row \in DOMAIN table /\ it.text = table[it.row].text
      OBVIOUS
    <3> HIDE DEF e, list
    <3>4. True(e)
      BY <3>1, <3>2, <3>3
    <3> HIDE DEF True
    <3> QED BY <2>1, <2>3, <3>1, <3>4
  <2> QED BY <2>1, <2>2, <2>4, <2>5, EventsFrame
<1> QED BY <1>2, <1>3

(* Every step keeps Faithful. *)
LEMMA FaithfulStep == TypeOK /\ Faithful /\ [Next]_vars => Faithful'
<1> SUFFICES ASSUME TypeOK, Faithful, [Next]_vars
             PROVE  Faithful'
  OBVIOUS
<1>1. /\ lastId \in Nat /\ lastRow \in Nat /\ items \subseteq Item /\ RowsOf(items) \subseteq 1..lastRow
      /\ dbQ \in Seq(Command) /\ dbEv \in Seq(Event) /\ \A i \in 1..Len(dbEv) : RowsOf(dbEv[i].items) \subseteq 1..lastRow
      /\ smtpQ \in Seq(Mail) /\ smtpEv \in Seq(Outcome)
      /\ \A i \in 1..Len(smtpQ) : smtpQ[i].id \in 1..lastId
      /\ \A i \in 1..Len(smtpEv) : smtpEv[i].id \in 1..lastId
  BY DEF TypeOK, UiTypeOK, CacheTypeOK, SmtpTypeOK
<1>2. lastRow <= lastRow' /\ \A r \in 1..lastRow : r \in DOMAIN table' => r \in DOMAIN table /\ table'[r].text = table[r].text
  BY TableStep DEF TableKeeps
<1>3. OneLetter'
  <2> SUFFICES ASSUME NEW id \in Nat, NEW l \in Nat, NEW m \in Nat, About(id, l)', About(id, m)'
               PROVE  l = m
    BY DEF OneLetter
  <2>1. CASE id \in 1..lastId
    BY <2>1, AboutInherited DEF Faithful, OneLetter
  <2>2. CASE id > lastId
    BY <2>2, FreshIsOne
  <2>3. CASE id = 0
    <3>1. TypeOK'
      BY TypeStep
    <3>2. /\ MapInto(open', 1..lastId', Window) /\ MapInto(inFlight', 1..lastId', Text) /\ MapInto(outboxRows', 1..lastId', 1..lastRow')
          /\ \A i \in 1..Len(smtpQ') : smtpQ'[i].id \in 1..lastId'
          /\ \A i \in 1..Len(dbQ') : dbQ'[i].op = "enqueue" /\ dbQ'[i].reply => dbQ'[i].id \in 1..lastId'
          /\ \A i \in 1..Len(dbEv') : dbEv'[i].ev = "enqueued" => dbEv'[i].id \in 1..lastId'
      BY <3>1 DEF TypeOK, UiTypeOK, CacheTypeOK, SmtpTypeOK
    <3>3. ~(id \in 1..lastId')
      BY <2>3
    <3> QED BY <3>2, <3>3, Zenon DEF About, MapInto
  <2> QED BY <1>1, <2>1, <2>2, <2>3
<1>4. OutcomesAreTrue'
  <2>1. delivered \subseteq delivered'
    BY DoneStep
  <2>2. ASSUME \A i \in 1..Len(smtpEv') : \E j \in 1..Len(smtpEv) : smtpEv'[i] = smtpEv[j]
        PROVE  OutcomesAreTrue'
    <3> SUFFICES ASSUME NEW i \in 1..Len(smtpEv'), smtpEv'[i].ok, NEW l \in Nat, About(smtpEv[i].id, l)'
                 PROVE  l \in delivered'
      BY DEF OutcomesAreTrue
    <3>1. PICK j \in 1..Len(smtpEv) : smtpEv'[i] = smtpEv[j]
      BY <2>2
    <3>2. PICK id : id = smtpEv[j].id
      OBVIOUS
    <3>3. id \in 1..lastId /\ id = smtpEv'[i].id
      BY <1>1, <3>1, <3>2
    <3>4. About(id, l)
      <4>1. About(id, l)'
        BY <3>3 DEF About
      <4> QED BY <3>3, <4>1, AboutInherited
    <3>5. smtpEv[j].ok
      BY <3>1, Zenon
    <3> QED BY <2>1, <3>2, <3>4, <3>5 DEF Faithful, OutcomesAreTrue
  <2>3. CASE SmtpActor
    <3>1. PICK ok : /\ smtpQ # <<>> /\ smtpEv' = Append(smtpEv, [id |-> Head(smtpQ).id, ok |-> ok])
                    /\ ok => Head(smtpQ).text.letter \in delivered'
      BY <2>3 DEF SmtpActor, SmtpSent, SmtpError
    <3>2. Head(smtpQ) = smtpQ[1] /\ 1 \in 1..Len(smtpQ)
      BY <1>1, <3>1
    <3>3. \A i \in 1..Len(smtpEv') : (i \in 1..Len(smtpEv) /\ smtpEv'[i] = smtpEv[i]) \/ smtpEv'[i] = [id |-> Head(smtpQ).id, ok |-> ok]
      BY <1>1, <3>1
    <3> SUFFICES ASSUME NEW i \in 1..Len(smtpEv'), smtpEv'[i].ok, NEW l \in Nat, About(smtpEv[i].id, l)'
                 PROVE  l \in delivered'
      BY DEF OutcomesAreTrue
    <3>4. PICK id : id = smtpEv'[i].id
      OBVIOUS
    <3>5. About(id, l)'
      BY <3>4 DEF About
    <3>6. CASE i \in 1..Len(smtpEv) /\ smtpEv'[i] = smtpEv[i]
      <4>1. id \in 1..lastId
        BY <1>1, <3>4, <3>6
      <4>2. About(id, l)
        BY <3>5, <4>1, AboutInherited
      <4>3. smtpEv[i].ok
        BY <3>6, Zenon
      <4> QED BY <2>1, <3>4, <3>6, <4>2, <4>3 DEF Faithful, OutcomesAreTrue
    <3>7. CASE smtpEv'[i] = [id |-> Head(smtpQ).id, ok |-> ok]
      <4>1. id = smtpQ[1].id /\ id \in 1..lastId
        BY <1>1, <3>2, <3>4, <3>7
      <4>2. About(id, l)
        BY <3>5, <4>1, AboutInherited
      <4>3. About(id, smtpQ[1].text.letter)
        BY <3>2, <4>1 DEF About
      <4>4. l = smtpQ[1].text.letter
        BY <4>1, <4>2, <4>3, AboutIsKnown DEF Faithful, OneLetter
      <4>5. smtpEv'[i].ok = ok
        BY <3>7
      <4>6. ok
        BY <4>5, Zenon
      <4> QED BY <3>1, <3>2, <4>4, <4>6
    <3> QED BY <3>3, <3>6, <3>7
  <2>4. CASE OutcomeSent \/ OutcomeFailed
    <3>1. smtpEv # <<>> /\ smtpEv' = Tail(smtpEv)
      BY <2>4 DEF OutcomeSent, OutcomeFailed
    <3>2. \A i \in 1..Len(smtpEv') : i + 1 \in 1..Len(smtpEv) /\ smtpEv'[i] = smtpEv[i + 1]
      BY <1>1, <3>1
    <3> QED BY <2>2, <3>2
  <2>5. CASE Disruption
    <3>1. smtpEv' = <<>>
      BY <2>5 DEF Disruption, AccountSaved, AccountRemoved, Reload, Crash
    <3> QED BY <2>2, <3>1
  <2>6. CASE smtpEv' = smtpEv
    BY <2>2, <2>6
  <2>7. ASSUME NEW id \in DOMAIN open, Edit(id) \/ Send(id) \/ SaveDraft(id) \/ Close(id) \/ Discard(id)
        PROVE  smtpEv' = smtpEv
    BY <2>7 DEF Edit, Send, SaveDraft, Close, Discard, smtp
  <2>8. ASSUME NEW it \in items, RetryQueued(it) \/ EditQueued(it) \/ DeleteQueued(it)
        PROVE  smtpEv' = smtpEv
    BY <2>8 DEF RetryQueued, EditQueued, DeleteQueued, smtp
  <2>9. CASE OpenCompose \/ ShowQueue \/ CloseQueue \/ RemoveAccount \/ CacheActor \/ Clock
    BY <2>6, <2>9 DEF OpenCompose, ShowQueue, CloseQueue, RemoveAccount, CacheActor, Clock,
       DbEnqueue, DbQuery, DbDelete, DbFailed, DbError, Poll, BackoffEnds, smtp
  <2>10. CASE HandleEnqueued \/ HandleDue \/ HandleList \/ UNCHANGED vars
    BY <2>6, <2>10 DEF HandleEnqueued, HandleDue, HandleList, vars, smtp
  <2>11. CASE User
    BY <2>6, <2>7, <2>8, <2>9, <2>11 DEF User
  <2> QED BY <2>3, <2>4, <2>5, <2>9, <2>10, <2>11 DEF Next, Drain
<1>5. ListingsAgree'
  <2> DEFINE Shows(list) == \A it \in list : it.row \in DOMAIN table' => table'[it.row].text = it.text
  <2>1. ASSUME NEW list, RowsOf(list) \subseteq 1..lastRow, \A it \in list : it.row \in DOMAIN table => table[it.row].text = it.text
        PROVE  Shows(list)
    <3>1. \A it \in list : it.row \in 1..lastRow
      BY <2>1 DEF RowsOf
    <3> QED BY <1>2, <2>1, <3>1
  <2>2. Shows(items) /\ \A i \in 1..Len(dbEv) : Shows(dbEv[i].items)
    BY <1>1, <2>1 DEF Faithful, ListingsAgree
  <2>3. Shows(items')
    BY <2>2, ListingsStep
  <2>4. ASSUME NEW i \in 1..Len(dbEv')
        PROVE  Shows(dbEv'[i].items)
    <3>1. CASE \E j \in 1..Len(dbEv) : dbEv'[i] = dbEv[j]
      <4> HIDE DEF Shows
      <4> QED BY <2>2, <3>1
    <3>2. CASE dbEv'[i].items = {} \/ (table' = table /\ \A it \in dbEv'[i].items : it.row \in DOMAIN table /\ it.text = table[it.row].text)
      BY <3>2
    <3> QED BY <3>1, <3>2, ListingsStep
  <2> QED BY <2>3, <2>4 DEF ListingsAgree
<1>6. DeletesAreDone'
  <2> SUFFICES ASSUME NEW i \in 1..Len(dbQ'), dbQ'[i].op \in {"sent", "delete"}
               PROVE  dbQ'[i].row <= lastRow' /\ (dbQ'[i].row \in DOMAIN table' => table'[dbQ'[i].row].text.letter \in Done')
    BY DEF DeletesAreDone
  <2>1. Justified(dbQ'[i])
    BY CommandsStep
  <2>2. Done \subseteq Done'
    BY DoneStep
  <2>3. PICK r : r = dbQ'[i].row
    OBVIOUS
  <2>4. r \in Nat /\ r <= lastRow /\ (r \in DOMAIN table => table[r].text.letter \in Done')
    <3>1. CASE \E j \in 1..Len(dbQ) : dbQ'[i].op = dbQ[j].op /\ dbQ'[i].row = dbQ[j].row
      <4>1. PICK j \in 1..Len(dbQ) : dbQ'[i].op = dbQ[j].op /\ dbQ'[i].row = dbQ[j].row
        BY <3>1
      <4>2. r <= lastRow /\ (r \in DOMAIN table => table[r].text.letter \in Done)
        BY <2>3, <4>1 DEF Faithful, DeletesAreDone
      <4>3. r \in Nat
        <5>1. dbQ[j] \in Command
          BY <1>1
        <5> QED BY <2>3, <4>1, <5>1 DEF Command
      <4> QED BY <2>2, <4>2, <4>3
    <3>2. CASE dbQ'[i].row \in 1..lastRow /\ (dbQ'[i].row \in DOMAIN table => table[dbQ'[i].row].text.letter \in Done')
      BY <1>1, <2>3, <3>2
    <3> QED BY <2>1, <3>1, <3>2 DEF Justified
  <2>5. r \in DOMAIN table' => r \in 1..lastRow'
    <3>1. TypeOK'
      BY TypeStep
    <3> QED BY <3>1 DEF TypeOK, CacheTypeOK, MapInto
  <2>6. r \in DOMAIN table' => r \in 1..lastRow
    BY <1>1, <2>4, <2>5
  <2>7. r <= lastRow'
    <3>1. lastRow' \in Nat
      BY TypeStep DEF TypeOK, CacheTypeOK
    <3> QED BY <1>1, <1>2, <2>4, <3>1
  <2> QED BY <1>2, <2>3, <2>4, <2>6, <2>7
<1> QED BY <1>3, <1>4, <1>5, <1>6 DEF Faithful

(* Faithful holds at first: one question and no answer. *)
LEMMA FaithfulInit == Init => Faithful
<1> SUFFICES ASSUME Init
             PROVE  Faithful
  OBVIOUS
<1>1. /\ DOMAIN open = {} /\ DOMAIN inFlight = {} /\ DOMAIN outboxRows = {} /\ items = {}
      /\ smtpQ = <<>> /\ smtpEv = <<>> /\ dbEv = <<>> /\ dbQ = <<Ask("due")>>
  BY DEF Init, Empty
<1>2. Ask("due").op = "due"
  BY DEF Ask, OnRow
<1>3. \A id, l : ~About(id, l)
  BY <1>1, <1>2 DEF About
<1> QED BY <1>1, <1>2, <1>3 DEF Faithful, OneLetter, OutcomesAreTrue, ListingsAgree, DeletesAreDone

(* A row that goes was deleted by a command for it. *)
LEMMA RowGoes ==
  ASSUME TypeOK, Faithful, [Next]_vars, NEW r \in DOMAIN table \ DOMAIN table'
  PROVE  table[r].text.letter \in delivered \cup dropped \cup takenBack
<1>1. dbQ \in Seq(Command)
  BY DEF TypeOK, CacheTypeOK
<1>2. DbDelete
  <2>1. CASE User
    <3>1. ASSUME NEW id \in DOMAIN open, Edit(id) \/ Send(id) \/ SaveDraft(id) \/ Close(id) \/ Discard(id)
          PROVE  FALSE
      BY <3>1 DEF Edit, Send, SaveDraft, Close, Discard, db
    <3>2. ASSUME NEW it \in items, RetryQueued(it) \/ EditQueued(it) \/ DeleteQueued(it)
          PROVE  FALSE
      BY <3>2 DEF RetryQueued, EditQueued, DeleteQueued
    <3>3. CASE OpenCompose \/ ShowQueue \/ CloseQueue \/ RemoveAccount
      BY <3>3 DEF OpenCompose, ShowQueue, CloseQueue, RemoveAccount, db
    <3> QED BY <2>1, <3>1, <3>2, <3>3 DEF User
  <2>2. CASE DbEnqueue \/ DbFailed \/ Clock
    BY <2>2 DEF DbEnqueue, DbFailed, Clock, Poll, BackoffEnds, Put
  <2>3. CASE DbQuery \/ DbError \/ SmtpActor \/ Drain
    BY <2>3 DEF DbQuery, DbError, SmtpActor, SmtpSent, SmtpError, db,
       Drain, HandleEnqueued, HandleDue, HandleList, OutcomeSent, OutcomeFailed
  <2>4. CASE Disruption \/ UNCHANGED vars
    BY <2>4 DEF Disruption, AccountSaved, AccountRemoved, Reload, Crash, vars, db
  <2> QED BY <2>1, <2>2, <2>3, <2>4 DEF Next, CacheActor
<1>3. dbQ # <<>> /\ Cmd.op \in {"sent", "delete"} /\ table' = Without(table, Cmd.row)
  BY <1>2 DEF DbDelete, Took
<1>4. Cmd = dbQ[1] /\ 1 \in 1..Len(dbQ) /\ r = Cmd.row
  BY <1>1, <1>3 DEF Cmd, Without
<1> QED BY <1>3, <1>4 DEF Faithful, DeletesAreDone, Done

(* What the compose ids, the answers and the outcomes say agrees. *)
LEMMA AnswersAreFaithful == Spec => []Faithful
BY FaithfulInit, OutboxTypes, FaithfulStep, PTL DEF Spec

(* A row of the outbox stays, over crashes, reloads, dropped commands and
   failed writes, until its message was delivered or the user gave it up:
   the row number a MarkOutboxSent or DeleteOutbox names, learnt late and
   through three queues, is never that of another message
   (Deliveries::sent, Deliveries::forget, DeleteOutbox). *)
THEOREM RowsStay == Spec => RowStaysUntilDone
<1>1. TypeOK /\ Faithful /\ [Next]_vars =>
        [\A r \in DOMAIN table \ DOMAIN table' : table[r].text.letter \in delivered \cup dropped \cup takenBack]_vars
  BY RowGoes
<1> QED BY <1>1, OutboxTypes, AnswersAreFaithful, PTL DEF Spec, RowStaysUntilDone

(***************************************************************************)
(* Nothing is lost                                                         *)
(***************************************************************************)

(* A row that is gone is remembered, by a listing or as an id's row, only for
   a letter that is done. *)
GoneIsDone ==
  /\ \A it \in items : it.row \notin DOMAIN table => it.text.letter \in Done
  /\ \A i \in 1..Len(dbEv) : \A it \in dbEv[i].items : it.row \notin DOMAIN table => it.text.letter \in Done
  /\ \A id \in DOMAIN outboxRows : outboxRows[id] \notin DOMAIN table => \A l \in Nat : About(id, l) => l \in Done
  /\ \A i \in 1..Len(dbEv) : dbEv[i].ev = "enqueued" /\ dbEv[i].row \notin DOMAIN table =>
       \A l \in Nat : About(dbEv[i].id, l) => l \in Done

(* The SMTP actor has a mail or an outcome for the id. *)
Pending(i) == (\E k \in 1..Len(smtpQ) : smtpQ[k].id = i) \/ \E k \in 1..Len(smtpEv) : smtpEv[k].id = i

(* A copy that no window can take with it when it closes: a send under way, a
   row, or a row about to be written. *)
SafeCopy(l) ==
  \/ \E i \in DOMAIN inFlight : inFlight[i].letter = l /\ Pending(i)
  \/ \E j \in 1..Len(dbQ) : dbQ[j].op = "enqueue" /\ dbQ[j].text.letter = l
  \/ \E r \in DOMAIN table : table[r].text.letter = l

(* Nothing an accepted Send was about is lost, whatever windows close. *)
AcceptedIsSafe == \A t \in accepted : t.letter \in Done \/ SafeCopy(t.letter)

(* Queueing commands leaves those queued before in their places, and the first
   new one is queued unless the channel is full. *)
LEMMA PushKeeps ==
  ASSUME NEW q \in Seq(Command), Len(q) <= CacheQueue, NEW cmds \in Seq(Command)
  PROVE  /\ \A j \in 1..Len(q) : j \in 1..Len(Push(q, cmds)) /\ Push(q, cmds)[j] = q[j]
         /\ cmds # <<>> /\ Len(q) < CacheQueue =>
              Len(q) + 1 \in 1..Len(Push(q, cmds)) /\ Push(q, cmds)[Len(q) + 1] = cmds[1]
<1> DEFINE all == q \o cmds
           l == IF Len(q) + Len(cmds) > CacheQueue THEN CacheQueue ELSE Len(q) + Len(cmds)
<1>1. all \in Seq(Command) /\ Len(all) = Len(q) + Len(cmds) /\ Len(q) \in Nat /\ Len(cmds) \in Nat
  OBVIOUS
<1>2. l \in Nat /\ l <= Len(all) /\ Len(q) <= l
  BY <1>1, QueueAssumption
<1>3. Push(q, cmds) = SubSeq(all, 1, l)
  BY DEF Push
<1>4. \A k \in 1..Len(q) : all[k] = q[k]
  BY <1>1
<1>5. cmds # <<>> => Len(cmds) >= 1 /\ all[Len(q) + 1] = cmds[1]
  BY <1>1
<1>6. cmds # <<>> /\ Len(q) < CacheQueue => Len(q) + 1 <= l
  BY <1>1, <1>5, QueueAssumption
<1> HIDE DEF all, l
<1>7. Len(SubSeq(all, 1, l)) = l /\ \A k \in 1..l : SubSeq(all, 1, l)[k] = all[k]
  BY <1>1, <1>2
<1>8. Len(Push(q, cmds)) = l /\ \A k \in 1..l : Push(q, cmds)[k] = all[k]
  BY <1>3, <1>7
<1>9. \A j \in 1..Len(q) : j \in 1..l
  BY <1>1, <1>2
<1>10. cmds # <<>> /\ Len(q) < CacheQueue => Len(q) + 1 \in 1..l
  BY <1>1, <1>2, <1>6
<1> QED BY <1>4, <1>5, <1>8, <1>9, <1>10

(* Sequences of Ascending(S) list every element of S. *)
LEMMA AscendingCovers ==
  ASSUME NEW S, S \subseteq Nat, IsFiniteSet(S), NEW s \in Ascending(S), NEW x \in S
  PROVE  \E i \in 1..Cardinality(S) : s[i] = x
<1> SUFFICES ASSUME \A i \in 1..Cardinality(S) : s[i] # x
             PROVE  FALSE
  OBVIOUS
<1> DEFINE n == Cardinality(S)
<1>1. n \in Nat
  BY FS_CardinalityType
<1>2. s \in [1..n -> S] /\ \A i, j \in 1..n : s[i] = s[j] => i = j
  BY AscendingType DEF Ascending
<1>3. IsFiniteSet(S \ {x}) /\ Cardinality(S \ {x}) = n - 1
  BY FS_RemoveElement
<1>4. IsFiniteSet(1..n) /\ Cardinality(1..n) = n
  BY <1>1, FS_Interval
<1>5. s \in [1..n -> S \ {x}]
  BY <1>2
<1>6. Cardinality(S \ {x}) < Cardinality(1..n)
  BY <1>1, <1>3, <1>4
<1> HIDE DEF n
<1>7. \E i, j \in 1..n : i # j /\ s[i] = s[j]
  <2> DEFINE D == 1..n
             T == S \ {x}
  <2>1. IsFiniteSet(D) /\ IsFiniteSet(T) /\ Cardinality(T) < Cardinality(D) /\ s \in [D -> T]
    BY <1>3, <1>4, <1>5, <1>6
  <2> HIDE DEF D, T
  <2>2. \E i, j \in D : i # j /\ s[i] = s[j]
    BY <2>1, FS_PigeonHole
  <2> QED BY <2>2 DEF D
<1> QED BY <1>2, <1>7

(* What outbox_due leaves alone, and that every text it accepts is under way. *)
LEMMA OutboxDueKeeps ==
  ASSUME TypeOK, NEW due, Given(due), NEW refused, OutboxDue(due, refused)
  PROVE  /\ \A i \in DOMAIN inFlight : i \in DOMAIN inFlight' /\ inFlight'[i] = inFlight[i]
         /\ \A k \in 1..Len(smtpQ) : k \in 1..Len(smtpQ') /\ smtpQ'[k] = smtpQ[k]
         /\ \A j \in 1..Len(dbQ) : j \in 1..Len(dbQ') /\ dbQ'[j] = dbQ[j]
         /\ \A t \in accepted' : \/ t \in accepted
                                 \/ \E k \in 1..Len(smtpQ') : smtpQ'[k].id \in DOMAIN inFlight' /\ inFlight'[smtpQ'[k].id] = t
<1> DEFINE free == RowsOf(due) \ Owned
           todo == IF configured THEN free ELSE {}
           n == Cardinality(todo)
           ids == (lastId + 1)..(lastId + n)
<1>1. /\ lastId \in Nat /\ lastRow \in Nat /\ queueOpen \in BOOLEAN
      /\ MapInto(inFlight, 1..lastId, Text) /\ dbQ \in Seq(Command) /\ Len(dbQ) <= CacheQueue /\ smtpQ \in Seq(Mail)
  BY DEF TypeOK, UiTypeOK, CacheTypeOK, SmtpTypeOK
<1>2. free \subseteq 1..lastRow /\ todo \subseteq free /\ due \subseteq Item
  BY DEF Given
<1>3. IsFiniteSet(free) /\ IsFiniteSet(todo) /\ n \in Nat
  BY <1>1, <1>2, Counted
<1>4. refused \subseteq todo /\ IsFiniteSet(refused)
  BY <1>3, FS_Subset DEF OutboxDue
<1>5. PICK order \in Ascending(todo) :
        LET rowOf(id) == order[id - lastId]
            sends == {id \in ids : rowOf(id) \notin refused}
        IN /\ inFlight' = [id \in DOMAIN inFlight \cup sends |-> IF id \in sends THEN TextOf(due, rowOf(id)) ELSE inFlight[id]]
           /\ accepted' = accepted \cup {TextOf(due, rowOf(id)) : id \in sends}
           /\ \E seq \in Ascending(sends) :
                smtpQ' = smtpQ \o [k \in 1..Len(seq) |-> [id |-> seq[k], text |-> TextOf(due, rowOf(seq[k]))]]
  BY DEF OutboxDue
<1> DEFINE rowOf(id) == order[id - lastId]
           sends == {id \in ids : rowOf(id) \notin refused}
<1>6. PICK seq \in Ascending(sends) :
        smtpQ' = smtpQ \o [k \in 1..Len(seq) |-> [id |-> seq[k], text |-> TextOf(due, rowOf(seq[k]))]]
  BY <1>5
<1>7. \A id \in ids : id \in Nat /\ id \in 1..(lastId + n) /\ ~(id \in 1..lastId)
  BY <1>1, <1>3
<1>8. sends \subseteq Nat /\ IsFiniteSet(sends)
  <2>1. sends \subseteq 1..(lastId + n) /\ lastId + n \in Nat
    BY <1>1, <1>3, <1>7
  <2> DEFINE top == lastId + n
  <2>2. sends \subseteq 1..top /\ top \in Nat /\ 1 \in Nat
    BY <2>1
  <2> HIDE DEF sends, n, top
  <2>3. IsFiniteSet(sends)
    BY <2>2, Counted
  <2> QED BY <2>2, <2>3
<1>9. \A i \in DOMAIN inFlight : i \in DOMAIN inFlight' /\ inFlight'[i] = inFlight[i]
  <2>1. \A i \in DOMAIN inFlight : ~(i \in sends)
    BY <1>1, <1>7 DEF MapInto
  <2> QED BY <1>5, <2>1
<1>10. seq \in Seq(Nat) /\ Len(seq) = Cardinality(sends) /\ \A i \in 1..Cardinality(sends) : seq[i] \in sends
  <2> HIDE DEF sends
  <2> QED BY <1>8, AscendingType
<1>11. \A x \in sends : \E i \in 1..Len(seq) : seq[i] = x
  <2> HIDE DEF sends
  <2>1. seq \in Ascending(sends)
    BY <1>6
  <2>2. \A x \in sends : \E i \in 1..Cardinality(sends) : seq[i] = x
    BY <1>8, <2>1, AscendingCovers
  <2> QED BY <1>10, <2>2
<1> DEFINE more == [k \in 1..Len(seq) |-> [id |-> seq[k], text |-> TextOf(due, rowOf(seq[k]))]]
<1>12. /\ more \in Seq([id : Nat, text : {TextOf(due, rowOf(x)) : x \in sends}]) /\ Len(more) = Len(seq)
       /\ \A k \in 1..Len(seq) : more[k].id = seq[k]
  <2>1. \A k \in 1..Len(seq) : more[k] \in [id : Nat, text : {TextOf(due, rowOf(x)) : x \in sends}] /\ more[k].id = seq[k]
    <3> HIDE DEF sends, rowOf
    <3> QED BY <1>8, <1>10
  <2>2. DOMAIN more = 1..Len(seq) /\ more = [k \in 1..Len(seq) |-> more[k]] /\ Len(seq) \in Nat
    BY <1>10
  <2> HIDE DEF more, sends, rowOf
  <2> QED BY <2>1, <2>2, SeqOfType
<1>13. smtpQ' = smtpQ \o more
  BY <1>6
<1>14. /\ \A k \in 1..Len(smtpQ) : k \in 1..Len(smtpQ') /\ smtpQ'[k] = smtpQ[k]
       /\ \A k \in 1..Len(seq) : Len(smtpQ) + k \in 1..Len(smtpQ') /\ smtpQ'[Len(smtpQ) + k] = more[k]
  <2> HIDE DEF more, sends, rowOf
  <2> QED BY <1>1, <1>12, <1>13
<1>15. \A j \in 1..Len(dbQ) : j \in 1..Len(dbQ') /\ dbQ'[j] = dbQ[j]
  <2>1. PICK rows \in Ascending(IF configured THEN refused ELSE free) :
          dbQ' = Push(dbQ, IF configured THEN BackOffEach(rows) ELSE [k \in 1..Len(rows) |-> OnRow("failed", rows[k])])
    BY DEF OutboxDue, free
  <2>2. (IF configured THEN refused ELSE free) \subseteq Nat /\ IsFiniteSet(IF configured THEN refused ELSE free)
    BY <1>1, <1>2, <1>3, <1>4
  <2>3. rows \in Seq(Nat)
    <3> HIDE DEF free, todo, n
    <3> QED BY <2>1, <2>2, AscendingType
  <2> DEFINE cmds == IF configured THEN BackOffEach(rows) ELSE [k \in 1..Len(rows) |-> OnRow("failed", rows[k])]
  <2>4. cmds \in Seq(Command)
    BY <1>1, <2>3, BackOffCommands DEF Commands
  <2>5. dbQ' = Push(dbQ, cmds)
    BY <2>1
  <2> HIDE DEF cmds
  <2>6. \A j \in 1..Len(dbQ) : j \in 1..Len(Push(dbQ, cmds)) /\ Push(dbQ, cmds)[j] = dbQ[j]
    BY <1>1, <2>4, PushKeeps
  <2> QED BY <2>5, <2>6
<1>16. ASSUME NEW x \in sends
       PROVE  \E k \in 1..Len(smtpQ') : smtpQ'[k].id \in DOMAIN inFlight' /\ inFlight'[smtpQ'[k].id] = TextOf(due, rowOf(x))
  <2>1. PICK i \in 1..Len(seq) : seq[i] = x
    BY <1>11, <1>16
  <2>2. x \in DOMAIN inFlight' /\ inFlight'[x] = TextOf(due, rowOf(x))
    BY <1>5, <1>16
  <2>3. Len(smtpQ) + i \in 1..Len(smtpQ') /\ smtpQ'[Len(smtpQ) + i].id = x
    <3> HIDE DEF more, sends, rowOf
    <3> QED BY <1>12, <1>14, <2>1
  <2> HIDE DEF sends, rowOf
  <2> QED BY <2>2, <2>3
<1>17. \A t \in accepted' : t \in accepted \/ \E x \in sends : t = TextOf(due, rowOf(x))
  BY <1>5
<1> HIDE DEF sends, rowOf
<1> QED BY <1>9, <1>14, <1>15, <1>16, <1>17

(* When the row an id has or had is gone, what the id is about is done. *)
LEMMA GoneRow ==
  ASSUME TypeOK, Faithful, [Next]_vars, NEW id \in 1..lastId, NEW r \in 1..lastRow, r \notin DOMAIN table',
         r \in DOMAIN table => About(id, table[r].text.letter),
         r \notin DOMAIN table => \A m \in Nat : About(id, m) => m \in Done,
         NEW l \in Nat, About(id, l)'
  PROVE  l \in Done'
<1>1. About(id, l) /\ Done \subseteq Done'
  BY AboutInherited, DoneStep
<1>2. CASE r \notin DOMAIN table
  BY <1>1, <1>2
<1>3. CASE r \in DOMAIN table
  <2>1. id \in Nat
    BY DEF TypeOK, UiTypeOK
  <2>2. table[r].text.letter \in Nat
    BY <1>3, AboutIsKnown
  <2>3. table[r].text.letter = l
    BY <1>1, <1>3, <2>1, <2>2 DEF Faithful, OneLetter
  <2>4. table[r].text.letter \in Done
    BY <1>3, RowGoes DEF Done
  <2> QED BY <1>1, <2>3, <2>4
<1> QED BY <1>2, <1>3

(* Every step keeps GoneIsDone. *)
LEMMA GoneStep == TypeOK /\ Faithful /\ GoneIsDone /\ [Next]_vars => GoneIsDone'
<1> SUFFICES ASSUME TypeOK, Faithful, GoneIsDone, [Next]_vars
             PROVE  GoneIsDone'
  OBVIOUS
<1>1. /\ lastId \in Nat /\ lastRow \in Nat /\ MapInto(outboxRows, 1..lastId, 1..lastRow)
      /\ items \subseteq Item /\ RowsOf(items) \subseteq 1..lastRow
      /\ \A i \in 1..Len(dbEv) : /\ RowsOf(dbEv[i].items) \subseteq 1..lastRow
                                 /\ dbEv[i].ev = "enqueued" => dbEv[i].id \in 1..lastId /\ dbEv[i].row \in 1..lastRow
  BY DEF TypeOK, UiTypeOK, CacheTypeOK
<1>2. Done \subseteq Done'
  BY DoneStep
<1>3. \A r \in DOMAIN table : r \notin DOMAIN table' => table[r].text.letter \in Done
  BY RowGoes DEF Done
<1> DEFINE Gone(list) == \A it \in list : it.row \notin DOMAIN table' => it.text.letter \in Done'
<1>4. ASSUME NEW list,
             \A it \in list : it.row \in DOMAIN table => table[it.row].text = it.text,
             \A it \in list : it.row \notin DOMAIN table => it.text.letter \in Done
      PROVE  Gone(list)
  BY <1>2, <1>3, <1>4
<1>5. Gone(items) /\ \A i \in 1..Len(dbEv) : Gone(dbEv[i].items)
  BY <1>4 DEF Faithful, ListingsAgree, GoneIsDone
<1>6. Gone(items')
  BY <1>5, ListingsStep
<1>7. ASSUME NEW i \in 1..Len(dbEv')
      PROVE  Gone(dbEv'[i].items)
  <2>1. CASE \E j \in 1..Len(dbEv) : dbEv'[i] = dbEv[j]
    <3> HIDE DEF Gone
    <3> QED BY <1>5, <2>1
  <2>2. CASE dbEv'[i].items = {} \/ (table' = table /\ \A it \in dbEv'[i].items : it.row \in DOMAIN table /\ it.text = table[it.row].text)
    BY <2>2
  <2> QED BY <2>1, <2>2, ListingsStep
<1>8. ASSUME NEW j \in 1..Len(dbEv), dbEv[j].ev = "enqueued", dbEv[j].row \notin DOMAIN table', NEW id, id = dbEv[j].id,
             NEW l \in Nat, About(id, l)'
      PROVE  l \in Done'
  <2>1. PICK r : r = dbEv[j].row
    OBVIOUS
  <2>2. id \in 1..lastId /\ r \in 1..lastRow
    BY <1>1, <1>8, <2>1
  <2>3. r \in DOMAIN table => About(id, table[r].text.letter)
    BY <1>8, <2>1 DEF About
  <2>4. r \notin DOMAIN table => \A m \in Nat : About(id, m) => m \in Done
    BY <1>8, <2>1 DEF GoneIsDone
  <2> QED BY <1>8, <2>1, <2>2, <2>3, <2>4, GoneRow
<1>9. ASSUME NEW id \in DOMAIN outboxRows', outboxRows'[id] \notin DOMAIN table', NEW l \in Nat, About(id, l)'
      PROVE  l \in Done'
  <2>1. CASE id > lastId
    <3>1. HandleDue \/ \E it \in items : RetryQueued(it)
      <4>1. CASE NoNewOwner
        BY <1>1, <1>9, <2>1, <4>1 DEF NoNewOwner, MapInto
      <4>2. CASE HandleEnqueued
        <5>1. dbEv # <<>> /\ Head(dbEv).ev = "enqueued" /\ DOMAIN outboxRows' = DOMAIN outboxRows \cup {Head(dbEv).id}
          BY <4>2 DEF HandleEnqueued, Put
        <5>2. Head(dbEv).id \in 1..lastId
          BY <1>1, <5>1, EventTail
        <5>3. id \in 1..lastId
          BY <1>1, <1>9, <5>1, <5>2 DEF MapInto
        <5> QED BY <1>1, <2>1, <5>3
      <4> QED BY <4>1, <4>2, OwnersFrame
    <3>2. PICK due : Given(due) /\ \E refused : OutboxDue(due, refused)
      BY <3>1, DueIsGiven
    <3>3. PICK refused : OutboxDue(due, refused)
      BY <3>2
    <3>4. PICK r : r = outboxRows'[id]
      OBVIOUS
    <3>5. r \in RowsOf(due)
      <4>1. \/ id \in DOMAIN outboxRows /\ outboxRows'[id] = outboxRows[id]
            \/ id > lastId /\ outboxRows'[id] \in RowsOf(due) \ Owned
        BY <1>9, <3>2, <3>3, OutboxDueFacts DEF Given
      <4> QED BY <1>1, <2>1, <3>4, <4>1 DEF MapInto
    <3>6. id \in Nat
      <4>1. lastId' \in Nat /\ MapInto(outboxRows', 1..lastId', 1..lastRow)
        BY <3>2, <3>3, OutboxDueFacts DEF Given
      <4> QED BY <1>9, <4>1 DEF MapInto
    <3>7. l = TextOf(due, r).letter
      BY <1>9, <2>1, <3>1, <3>2, <3>3, <3>4, <3>6, RetryIsAbout
    <3>8. Gone(due)
      BY <1>5, <3>2 DEF Given
    <3>9. PICK it : it = CHOOSE x \in due : x.row = r
      OBVIOUS
    <3>10. it \in due /\ it.row = r /\ it.text = TextOf(due, r)
      BY <3>5, <3>9 DEF RowsOf, TextOf
    <3> QED BY <1>9, <3>4, <3>7, <3>8, <3>10
  <2>2. CASE id \in DOMAIN outboxRows /\ outboxRows'[id] = outboxRows[id]
    <3>1. PICK r : r = outboxRows[id]
      OBVIOUS
    <3>2. id \in 1..lastId /\ r \in 1..lastRow
      BY <1>1, <2>2, <3>1 DEF MapInto
    <3>3. r \in DOMAIN table => About(id, table[r].text.letter)
      BY <2>2, <3>1 DEF About
    <3>4. r \notin DOMAIN table => \A m \in Nat : About(id, m) => m \in Done
      BY <2>2, <3>1 DEF GoneIsDone
    <3> QED BY <1>9, <2>2, <3>1, <3>2, <3>3, <3>4, GoneRow
  <2>3. CASE \E j \in 1..Len(dbEv) : dbEv[j].ev = "enqueued" /\ dbEv[j].id = id /\ outboxRows'[id] = dbEv[j].row
    BY <1>8, <1>9, <2>3
  <2> QED BY <1>9, <2>1, <2>2, <2>3, AnswersStep
<1>10. ASSUME NEW i \in 1..Len(dbEv'), dbEv'[i].ev = "enqueued", dbEv'[i].row \notin DOMAIN table', NEW l \in Nat,
              About(dbEv[i].id, l)'
       PROVE  l \in Done'
  <2>1. PICK id : id = dbEv'[i].id
    OBVIOUS
  <2>2. About(id, l)'
    BY <1>10, <2>1 DEF About
  <2>3. CASE \E j \in 1..Len(dbEv) : dbEv'[i] = dbEv[j]
    BY <1>8, <1>10, <2>1, <2>2, <2>3
  <2>4. CASE DbEnqueue /\ dbEv'[i] = Enqueued(Cmd.id, lastRow + 1)
    <3>1. dbEv'[i].row = lastRow + 1
      BY <2>4 DEF Enqueued
    <3>2. lastRow + 1 \in DOMAIN table'
      BY <2>4 DEF DbEnqueue, Put
    <3> QED BY <1>10, <3>1, <3>2
  <2> QED BY <1>10, <2>3, <2>4, AnswersStep
<1> QED BY <1>6, <1>7, <1>9, <1>10 DEF GoneIsDone

(* GoneIsDone holds at first: nothing is listed and no id has a row. *)
LEMMA GoneInit == Init => GoneIsDone
BY DEF Init, GoneIsDone, Empty

(* What is remembered of a row that is gone is done with. *)
LEMMA GoneRowsAreDone == Spec => []GoneIsDone
BY GoneInit, OutboxTypes, AnswersAreFaithful, GoneStep, PTL DEF Spec

(* A copy in the table stays there, or its letter is done. *)
LEMMA RowIsSafe ==
  ASSUME TypeOK, Faithful, [Next]_vars, NEW r \in DOMAIN table, NEW l, table[r].text.letter = l
  PROVE  l \in Done' \/ SafeCopy(l)'
<1>1. CASE r \notin DOMAIN table'
  BY <1>1, RowGoes, DoneStep DEF Done
<1>2. CASE r \in DOMAIN table'
  <2>1. r \in 1..lastRow
    BY DEF TypeOK, CacheTypeOK, MapInto
  <2>2. table'[r].text = table[r].text
    BY <1>2, <2>1, TableStep DEF TableKeeps
  <2> QED BY <1>2, <2>2 DEF SafeCopy
<1> QED BY <1>1, <1>2

(* Without failed writes, reloads or crashes, a command to record a message
   stays queued until it is carried out. *)
LEMMA CommandIsSafe ==
  ASSUME TypeOK, [Next]_vars, Disruptions = {},
         NEW j \in 1..Len(dbQ), dbQ[j].op = "enqueue", NEW l, dbQ[j].text.letter = l
  PROVE  SafeCopy(l)'
<1>1. /\ dbQ \in Seq(Command) /\ Len(dbQ) <= CacheQueue /\ lastId \in Nat
      /\ MapInto(inFlight, 1..lastId, Text) /\ MapInto(outboxRows, 1..lastId, 1..lastRow)
      /\ lastRow \in Nat /\ items \subseteq Item /\ smtpEv \in Seq(Outcome)
  BY DEF TypeOK, UiTypeOK, CacheTypeOK, SmtpTypeOK
<1>2. ASSUME \E k \in 1..Len(dbQ') : dbQ'[k] = dbQ[j]
      PROVE  SafeCopy(l)'
  BY <1>2 DEF SafeCopy
<1>3. ASSUME NEW cmds \in Seq(Command), dbQ' = Push(dbQ, cmds)
      PROVE  SafeCopy(l)'
  BY <1>1, <1>2, <1>3, PushKeeps
<1>4. CASE dbQ' = dbQ
  BY <1>2, <1>4
<1>5. \A op \in {"sent", "delete", "failed", "due", "list"}, r \in Nat : OnRow(op, r) \in Command
  BY DEF OnRow, Command, NoText, Text
<1>6. Refresh \in Seq(Command)
  BY <1>5 DEF Refresh, Ask
<1>7. \A c \in Command : <<c>> \in Seq(Command) /\ <<c>> \o Refresh \in Seq(Command)
  BY <1>6
<1>8. CASE CacheActor
  <2>1. dbQ # <<>> /\ dbQ' = Tail(dbQ)
    BY <1>8 DEF CacheActor, DbEnqueue, DbQuery, DbDelete, DbFailed, DbError, Took
  <2>2. CASE j > 1
    <3>1. j - 1 \in 1..Len(dbQ') /\ dbQ'[j - 1] = dbQ[j]
      BY <1>1, <2>1, <2>2
    <3> QED BY <1>2, <3>1
  <2>3. CASE j = 1
    <3>1. Cmd = dbQ[j]
      BY <1>1, <2>1, <2>3 DEF Cmd
    <3>2. DbEnqueue
      <4>1. ~DbError
        BY DEF DbError, Disrupt
      <4> QED BY <1>8, <3>1, <4>1 DEF CacheActor, DbQuery, DbDelete, DbFailed
    <3>3. lastRow + 1 \in DOMAIN table' /\ table'[lastRow + 1].text = Cmd.text
      BY <3>2 DEF DbEnqueue, Put
    <3> QED BY <3>1, <3>3 DEF SafeCopy
  <2> QED BY <2>2, <2>3
<1>9. CASE HandleDue \/ \E it \in items : RetryQueued(it)
  <2>1. PICK due : Given(due) /\ \E refused : OutboxDue(due, refused)
    BY <1>9, DueIsGiven
  <2> QED BY <1>2, <2>1, OutboxDueKeeps
<1>10. ASSUME NEW id \in DOMAIN open, Discard(id)
       PROVE  SafeCopy(l)'
  <2>1. CASE id \in DOMAIN outboxRows
    <3>1. dbQ' = Push(dbQ, <<OnRow("delete", outboxRows[id])>>) /\ outboxRows[id] \in Nat
      BY <1>1, <1>10, <2>1 DEF Discard, MapInto
    <3> QED BY <1>3, <1>5, <1>7, <3>1
  <2>2. CASE id \notin DOMAIN outboxRows
    BY <1>4, <1>10, <2>2 DEF Discard
  <2> QED BY <2>1, <2>2
<1>11. ASSUME NEW it \in items, EditQueued(it) \/ DeleteQueued(it)
       PROVE  SafeCopy(l)'
  <2>1. dbQ' = Push(dbQ, <<OnRow("delete", it.row)>> \o Refresh) /\ it.row \in Nat
    BY <1>1, <1>11 DEF EditQueued, DeleteQueued, Item
  <2> QED BY <1>3, <1>5, <1>7, <2>1
<1>12. CASE HandleEnqueued \/ ShowQueue \/ Poll
  <2>1. dbQ' = Push(dbQ, Refresh) \/ dbQ' = Push(dbQ, <<OnRow("list", 0)>>) \/ dbQ' = Push(dbQ, <<OnRow("due", 0)>>)
    BY <1>12 DEF HandleEnqueued, ShowQueue, Poll, Ask
  <2> QED BY <1>3, <1>5, <1>6, <1>7, <2>1
<1>13. CASE OutcomeSent \/ OutcomeFailed
  <2>1. PICK id : id = Head(smtpEv).id
    OBVIOUS
  <2>2. id \in Nat
    <3>1. smtpEv # <<>>
      BY <1>13 DEF OutcomeSent, OutcomeFailed
    <3>2. Head(smtpEv) \in Outcome
      BY <1>1, <3>1
    <3> QED BY <2>1, <3>2 DEF Outcome
  <2>3. \/ dbQ' = dbQ
        \/ id \in DOMAIN outboxRows /\ \E op \in {"sent", "failed"} : dbQ' = Push(dbQ, <<OnRow(op, outboxRows[id])>> \o Refresh)
        \/ id \in DOMAIN inFlight /\ dbQ' = Push(dbQ, <<Enqueue(id, inFlight[id])>> \o Refresh)
        \/ dbQ' = Push(dbQ, <<>> \o Refresh)
    BY <1>13, <2>1 DEF OutcomeSent, OutcomeFailed, Failed
  <2>4. id \in DOMAIN outboxRows => outboxRows[id] \in Nat
    BY <1>1 DEF MapInto
  <2>5. id \in DOMAIN inFlight => Enqueue(id, inFlight[id]) \in Command
    <3>1. id \in DOMAIN inFlight => inFlight[id] \in Text
      BY <1>1 DEF MapInto
    <3> QED BY <2>2, <3>1 DEF Enqueue, Command
  <2>6. <<>> \o Refresh = Refresh
    BY DEF Refresh
  <2> QED BY <1>3, <1>4, <1>5, <1>6, <1>7, <2>3, <2>4, <2>5, <2>6
<1>14. ~Disruption
  BY DEF Disruption, AccountSaved, AccountRemoved, Reload, Crash, Disrupt
<1>15. ASSUME NEW id \in DOMAIN open, Edit(id) \/ Send(id) \/ SaveDraft(id) \/ Close(id)
       PROVE  dbQ' = dbQ
  BY <1>15 DEF Edit, Send, SaveDraft, Close, db
<1>16. ASSUME OpenCompose \/ CloseQueue \/ RemoveAccount \/ SmtpActor \/ HandleList \/ UNCHANGED vars
       PROVE  dbQ' = dbQ
  BY <1>16 DEF OpenCompose, CloseQueue, RemoveAccount, SmtpActor, SmtpSent, SmtpError, HandleList, vars, db
<1>17. ASSUME NEW r \in DOMAIN table, BackoffEnds(r)
       PROVE  dbQ' = dbQ
  BY <1>17 DEF BackoffEnds
<1>18. CASE User
  BY <1>4, <1>9, <1>10, <1>11, <1>12, <1>15, <1>16, <1>18 DEF User
<1>19. CASE Drain \/ Clock
  BY <1>4, <1>9, <1>12, <1>13, <1>16, <1>17, <1>19 DEF Drain, Clock
<1> QED BY <1>4, <1>8, <1>14, <1>16, <1>18, <1>19 DEF Next

(* A send under way stays under way until its window discards it, its outcome
   is applied, or the runtime it runs in is gone. *)
LEMMA FlightKept ==
  ASSUME TypeOK, [Next]_vars, ~Disruption, NEW i \in DOMAIN inFlight, Pending(i)
  PROVE  \/ i \in DOMAIN inFlight' /\ Pending(i)'
         \/ i \in DOMAIN open /\ Discard(i)
         \/ (OutcomeSent \/ OutcomeFailed) /\ i = Head(smtpEv).id
<1>1. smtpQ \in Seq(Mail) /\ smtpEv \in Seq(Outcome)
  BY DEF TypeOK, SmtpTypeOK
<1>2. ASSUME \A k \in 1..Len(smtpQ) : k \in 1..Len(smtpQ') /\ smtpQ'[k] = smtpQ[k], smtpEv' = smtpEv
      PROVE  Pending(i)'
  <2>1. CASE \E k \in 1..Len(smtpQ) : smtpQ[k].id = i
    BY <1>2, <2>1 DEF Pending
  <2>2. CASE \E k \in 1..Len(smtpEv) : smtpEv[k].id = i
    BY <1>2, <2>2 DEF Pending
  <2> QED BY <2>1, <2>2 DEF Pending
<1>3. CASE inFlight' = inFlight /\ smtpQ' = smtpQ /\ smtpEv' = smtpEv
  BY <1>2, <1>3
<1>4. ASSUME NEW id \in DOMAIN open, Send(id)
      PROVE  i \in DOMAIN inFlight' /\ Pending(i)'
  <2>1. /\ smtpQ' = Append(smtpQ, [id |-> id, text |-> open[id].text]) /\ smtpEv' = smtpEv
        /\ DOMAIN inFlight' = DOMAIN inFlight \cup {id}
    BY <1>4 DEF Send, Put
  <2>2. \A k \in 1..Len(smtpQ) : k \in 1..Len(smtpQ') /\ smtpQ'[k] = smtpQ[k]
    BY <1>1, <2>1
  <2> QED BY <1>2, <2>1, <2>2
<1>5. ASSUME NEW id \in DOMAIN open, Discard(id)
      PROVE  id = i \/ (i \in DOMAIN inFlight' /\ Pending(i)')
  <2>1. DOMAIN inFlight' = DOMAIN inFlight \ {id} /\ smtpQ' = smtpQ /\ smtpEv' = smtpEv
    BY <1>5 DEF Discard, Without, smtp
  <2> QED BY <1>2, <2>1
<1>6. CASE HandleDue \/ \E it \in items : RetryQueued(it)
  <2>1. PICK due : Given(due) /\ \E refused : OutboxDue(due, refused)
    BY <1>6, DueIsGiven
  <2>2. /\ i \in DOMAIN inFlight' /\ inFlight'[i] = inFlight[i]
        /\ \A k \in 1..Len(smtpQ) : k \in 1..Len(smtpQ') /\ smtpQ'[k] = smtpQ[k]
    BY <2>1, OutboxDueKeeps
  <2>3. smtpEv' = smtpEv
    BY <1>6 DEF HandleDue, RetryQueued
  <2> QED BY <1>2, <2>2, <2>3
<1>7. CASE SmtpActor
  <2>1. PICK ok : smtpQ # <<>> /\ smtpQ' = Tail(smtpQ) /\ smtpEv' = Append(smtpEv, [id |-> Head(smtpQ).id, ok |-> ok])
    BY <1>7 DEF SmtpActor, SmtpSent, SmtpError
  <2>2. inFlight' = inFlight
    BY <1>7 DEF SmtpActor, SmtpSent, SmtpError, ui
  <2>3. /\ Head(smtpQ) = smtpQ[1]
        /\ \A k \in 1..Len(smtpQ) : k = 1 \/ (k - 1 \in 1..Len(smtpQ') /\ smtpQ'[k - 1] = smtpQ[k])
        /\ \A k \in 1..Len(smtpEv) : k \in 1..Len(smtpEv') /\ smtpEv'[k] = smtpEv[k]
        /\ Len(smtpEv) + 1 \in 1..Len(smtpEv') /\ smtpEv'[Len(smtpEv) + 1] = [id |-> Head(smtpQ).id, ok |-> ok]
    BY <1>1, <2>1
  <2>4. Pending(i)'
    <3>1. CASE \E k \in 1..Len(smtpQ) : smtpQ[k].id = i
      <4>1. PICK k \in 1..Len(smtpQ) : smtpQ[k].id = i
        BY <3>1
      <4>2. CASE k = 1
        <5>1. smtpEv'[Len(smtpEv) + 1].id = i
          BY <2>3, <4>1, <4>2
        <5> QED BY <2>3, <5>1 DEF Pending
      <4>3. CASE k - 1 \in 1..Len(smtpQ') /\ smtpQ'[k - 1] = smtpQ[k]
        BY <4>1, <4>3 DEF Pending
      <4> QED BY <2>3, <4>2, <4>3
    <3>2. CASE \E k \in 1..Len(smtpEv) : smtpEv[k].id = i
      BY <2>3, <3>2 DEF Pending
    <3> QED BY <3>1, <3>2 DEF Pending
  <2> QED BY <2>2, <2>4
<1>8. ASSUME OutcomeSent \/ OutcomeFailed, i # Head(smtpEv).id
      PROVE  i \in DOMAIN inFlight' /\ Pending(i)'
  <2>1. smtpEv # <<>> /\ smtpEv' = Tail(smtpEv) /\ smtpQ' = smtpQ /\ DOMAIN inFlight' = DOMAIN inFlight \ {Head(smtpEv).id}
    BY <1>8 DEF OutcomeSent, OutcomeFailed, Without
  <2>2. /\ Head(smtpEv) = smtpEv[1] /\ 1 \in 1..Len(smtpEv)
        /\ \A k \in 1..Len(smtpEv) : k = 1 \/ (k - 1 \in 1..Len(smtpEv') /\ smtpEv'[k - 1] = smtpEv[k])
    BY <1>1, <2>1
  <2>3. CASE \E k \in 1..Len(smtpQ) : smtpQ[k].id = i
    BY <1>8, <2>1, <2>3 DEF Pending
  <2>4. CASE \E k \in 1..Len(smtpEv) : smtpEv[k].id = i
    <3>1. PICK k \in 1..Len(smtpEv) : smtpEv[k].id = i
      BY <2>4
    <3>2. k # 1
      BY <1>8, <2>2, <3>1
    <3> QED BY <1>8, <2>1, <2>2, <3>1, <3>2 DEF Pending
  <2> QED BY <2>3, <2>4 DEF Pending
<1>9. ASSUME NEW id \in DOMAIN open, Edit(id) \/ SaveDraft(id) \/ Close(id)
      PROVE  inFlight' = inFlight /\ smtpQ' = smtpQ /\ smtpEv' = smtpEv
  BY <1>9 DEF Edit, SaveDraft, Close, smtp
<1>10. ASSUME NEW it \in items, EditQueued(it) \/ DeleteQueued(it)
       PROVE  inFlight' = inFlight /\ smtpQ' = smtpQ /\ smtpEv' = smtpEv
  BY <1>10 DEF EditQueued, DeleteQueued, ui, smtp
<1>11. CASE OpenCompose \/ ShowQueue \/ CloseQueue \/ RemoveAccount \/ CacheActor \/ Clock
  BY <1>3, <1>11 DEF OpenCompose, ShowQueue, CloseQueue, RemoveAccount, CacheActor, Clock,
     DbEnqueue, DbQuery, DbDelete, DbFailed, DbError, Poll, BackoffEnds, ui, smtp
<1>12. CASE HandleEnqueued \/ HandleList \/ UNCHANGED vars
  BY <1>3, <1>12 DEF HandleEnqueued, HandleList, vars, ui, smtp
<1>13. CASE User
  <2>1. ASSUME NEW id \in DOMAIN open, Edit(id) \/ Send(id) \/ SaveDraft(id) \/ Close(id) \/ Discard(id)
        PROVE  (i \in DOMAIN inFlight' /\ Pending(i)') \/ (i \in DOMAIN open /\ Discard(i))
    BY <1>2, <1>4, <1>5, <1>9, <2>1
  <2>2. ASSUME NEW it \in items, EditQueued(it) \/ DeleteQueued(it)
        PROVE  i \in DOMAIN inFlight' /\ Pending(i)'
    BY <1>2, <1>10, <2>2
  <2> QED BY <1>6, <1>11, <1>13, <2>1, <2>2 DEF User
<1> QED BY <1>6, <1>7, <1>8, <1>11, <1>12, <1>13 DEF Next, Drain

(* A send under way stays under way, or its message is recorded, or its
   letter is done. *)
LEMMA SendIsSafe ==
  ASSUME TypeOK, Faithful, GoneIsDone, [Next]_vars, Disruptions = {}, configured, Len(dbQ) < CacheQueue,
         NEW i \in DOMAIN inFlight, Pending(i), NEW l, inFlight[i].letter = l
  PROVE  l \in Done' \/ SafeCopy(l)'
<1>1. /\ dbQ \in Seq(Command) /\ Len(dbQ) <= CacheQueue /\ MapInto(inFlight, 1..lastId, Text) /\ smtpEv \in Seq(Outcome)
  BY DEF TypeOK, UiTypeOK, CacheTypeOK, SmtpTypeOK
<1>2. i \in Nat /\ i \in 1..lastId /\ l \in Nat /\ About(i, l)
  <2>1. About(i, l)
    BY DEF About
  <2>2. i \in 1..lastId /\ l \in Nat
    BY <2>1, AboutIsKnown
  <2>3. i \in Nat
    BY <2>2 DEF TypeOK, UiTypeOK
  <2> QED BY <2>1, <2>2, <2>3
<1>3. \A m : About(i, m) => m = l
  <2> SUFFICES ASSUME NEW m, About(i, m) PROVE m = l
    OBVIOUS
  <2>1. m \in Nat
    BY AboutIsKnown
  <2> QED BY <1>2, <2>1 DEF Faithful, OneLetter
<1>4. ~Disruption
  BY DEF Disruption, AccountSaved, AccountRemoved, Reload, Crash, Disrupt
<1>5. CASE i \in DOMAIN inFlight' /\ Pending(i)'
  <2>1. About(i, inFlight'[i].letter)
    <3>1. About(i, inFlight[i].letter)'
      BY <1>5 DEF About
    <3>2. PICK m : m = inFlight'[i].letter
      OBVIOUS
    <3>3. About(i, m)'
      BY <3>1, <3>2 DEF About
    <3> QED BY <1>2, <3>2, <3>3, AboutInherited
  <2>2. inFlight'[i].letter = l
    BY <1>3, <2>1
  <2> QED BY <1>5, <2>2 DEF SafeCopy
<1>6. CASE i \in DOMAIN open /\ Discard(i)
  <2>1. About(i, open[i].text.letter) /\ open[i].text.letter \in dropped'
    BY <1>6 DEF About, Discard
  <2> QED BY <1>3, <2>1 DEF Done
<1>7. CASE OutcomeSent /\ i = Head(smtpEv).id
  <2>1. Head(smtpEv) = smtpEv[1] /\ 1 \in 1..Len(smtpEv) /\ Head(smtpEv).ok
    BY <1>1, <1>7 DEF OutcomeSent
  <2>2. smtpEv[1].ok /\ smtpEv[1].id = i
    BY <1>7, <2>1
  <2>3. l \in delivered
    BY <1>2, <2>1, <2>2 DEF Faithful, OutcomesAreTrue
  <2> QED BY <2>3, DoneStep DEF Done
<1>8. CASE OutcomeFailed /\ i = Head(smtpEv).id
  <2>1. dbQ' = Push(dbQ, Failed(i) \o Refresh) /\ table' = table
    BY <1>8 DEF OutcomeFailed
  <2>2. CASE i \in DOMAIN outboxRows /\ outboxRows[i] \notin DOMAIN table
    BY <1>2, <2>2, DoneStep DEF GoneIsDone
  <2>3. CASE i \in DOMAIN outboxRows /\ outboxRows[i] \in DOMAIN table
    <3>1. About(i, table[outboxRows[i]].text.letter)
      BY <2>3 DEF About
    <3>2. table[outboxRows[i]].text.letter = l
      BY <1>3, <3>1
    <3> QED BY <2>1, <2>3, <3>2 DEF SafeCopy
  <2>4. CASE i \notin DOMAIN outboxRows
    <3> DEFINE c == Enqueue(i, inFlight[i])
               cmds == <<c>> \o Refresh
    <3>1. dbQ' = Push(dbQ, cmds)
      BY <2>1, <2>4 DEF Failed
    <3>2. c \in Command /\ c.op = "enqueue" /\ c.text = inFlight[i]
      <4>1. inFlight[i] \in Text
        BY <1>1 DEF MapInto
      <4> QED BY <1>2, <4>1 DEF Enqueue, Command
    <3>3. Ask("list") \in Command
      BY DEF Ask, OnRow, Command, NoText, Text
    <3> HIDE DEF c
    <3>4. cmds \in Seq(Command) /\ cmds # <<>> /\ cmds[1] = c
      BY <3>2, <3>3 DEF Refresh
    <3> HIDE DEF cmds
    <3>5. Len(dbQ) + 1 \in 1..Len(dbQ') /\ dbQ'[Len(dbQ) + 1] = c
      BY <1>1, <3>1, <3>4, PushKeeps
    <3> QED BY <3>2, <3>5 DEF SafeCopy
  <2> QED BY <2>2, <2>3, <2>4
<1> QED BY <1>4, <1>5, <1>6, <1>7, <1>8, FlightKept

(* Every step keeps what was accepted, while the cache actor's channel has
   room. *)
LEMMA AcceptedStep ==
  ASSUME Disruptions = {}
  PROVE  TypeOK /\ Faithful /\ GoneIsDone /\ Len(dbQ) < CacheQueue /\ configured /\ AcceptedIsSafe /\ [Next]_vars
           => configured' /\ AcceptedIsSafe'
<1> SUFFICES ASSUME TypeOK, Faithful, GoneIsDone, Len(dbQ) < CacheQueue, configured, AcceptedIsSafe, [Next]_vars
             PROVE  configured' /\ AcceptedIsSafe'
  OBVIOUS
<1>1. ~Disruption
  BY DEF Disruption, AccountSaved, AccountRemoved, Reload, Crash, Disrupt
<1>2. ASSUME NEW id \in DOMAIN open, Edit(id) \/ SaveDraft(id) \/ Close(id) \/ Discard(id)
      PROVE  configured' = configured /\ accepted' = accepted
  BY <1>2 DEF Edit, SaveDraft, Close, Discard, account, history
<1>3. ASSUME NEW it \in items, EditQueued(it) \/ DeleteQueued(it)
      PROVE  configured' = configured /\ accepted' = accepted
  BY <1>3 DEF EditQueued, DeleteQueued, account
<1>4. ASSUME OpenCompose \/ ShowQueue \/ CloseQueue \/ RemoveAccount \/ CacheActor \/ Clock
      PROVE  configured' = configured /\ accepted' = accepted
  BY <1>4 DEF OpenCompose, ShowQueue, CloseQueue, RemoveAccount, CacheActor, Clock,
     DbEnqueue, DbQuery, DbDelete, DbFailed, DbError, Poll, BackoffEnds, account, history
<1>5. ASSUME HandleEnqueued \/ HandleList \/ OutcomeSent \/ OutcomeFailed \/ SmtpActor \/ UNCHANGED vars
      PROVE  configured' = configured /\ accepted' = accepted
  BY <1>5 DEF HandleEnqueued, HandleList, OutcomeSent, OutcomeFailed, SmtpActor, SmtpSent, SmtpError, vars, account, history
<1>6. ASSUME NEW id \in DOMAIN open, Send(id)
      PROVE  configured' = configured /\ \A t \in accepted' : t \in accepted \/ SafeCopy(t.letter)'
  <2>1. /\ configured' = configured /\ accepted' = accepted \cup {open[id].text}
        /\ smtpQ' = Append(smtpQ, [id |-> id, text |-> open[id].text]) /\ inFlight' = Put(inFlight, id, open[id].text)
    BY <1>6 DEF Send, account
  <2>2. smtpQ \in Seq(Mail)
    BY DEF TypeOK, SmtpTypeOK
  <2>3. Len(smtpQ) + 1 \in 1..Len(smtpQ') /\ smtpQ'[Len(smtpQ) + 1] = [id |-> id, text |-> open[id].text]
    BY <2>1, <2>2
  <2>4. Pending(id)'
    <3>1. smtpQ'[Len(smtpQ) + 1].id = id
      BY <2>3
    <3> QED BY <2>3, <3>1 DEF Pending
  <2>5. id \in DOMAIN inFlight' /\ inFlight'[id] = open[id].text
    BY <2>1 DEF Put
  <2>6. PICK l : l = open[id].text.letter
    OBVIOUS
  <2>7. SafeCopy(l)'
    BY <2>4, <2>5, <2>6 DEF SafeCopy
  <2> QED BY <2>1, <2>6, <2>7
<1>7. ASSUME HandleDue \/ \E it \in items : RetryQueued(it)
      PROVE  configured' = configured /\ \A t \in accepted' : t \in accepted \/ SafeCopy(t.letter)'
  <2>1. PICK due : Given(due) /\ \E refused : OutboxDue(due, refused)
    BY <1>7, DueIsGiven
  <2>2. configured' = configured
    BY <1>7 DEF HandleDue, RetryQueued, account
  <2>3. \A t \in accepted' : \/ t \in accepted
                             \/ \E k \in 1..Len(smtpQ') : smtpQ'[k].id \in DOMAIN inFlight' /\ inFlight'[smtpQ'[k].id] = t
    BY <2>1, OutboxDueKeeps
  <2>4. ASSUME NEW t, NEW k \in 1..Len(smtpQ'), smtpQ'[k].id \in DOMAIN inFlight', inFlight'[smtpQ'[k].id] = t
        PROVE  SafeCopy(t.letter)'
    <3>1. PICK id : id = smtpQ'[k].id
      OBVIOUS
    <3>2. Pending(id)' /\ id \in DOMAIN inFlight' /\ inFlight'[id].letter = t.letter
      BY <2>4, <3>1 DEF Pending
    <3> QED BY <3>2 DEF SafeCopy
  <2> QED BY <2>2, <2>3, <2>4
<1>8. configured' = configured /\ \A t \in accepted' : t \in accepted \/ SafeCopy(t.letter)'
  <2>1. CASE User
    BY <1>2, <1>3, <1>4, <1>6, <1>7, <2>1 DEF User
  <2> QED BY <1>1, <1>4, <1>5, <1>7, <2>1 DEF Next, Drain
<1>9. ASSUME NEW t \in accepted
      PROVE  t.letter \in Done' \/ SafeCopy(t.letter)'
  <2>1. PICK l : l = t.letter
    OBVIOUS
  <2>2. CASE l \in Done
    BY <2>1, <2>2, DoneStep
  <2>3. CASE \E i \in DOMAIN inFlight : inFlight[i].letter = l /\ Pending(i)
    BY <2>1, <2>3, SendIsSafe
  <2>4. CASE \E j \in 1..Len(dbQ) : dbQ[j].op = "enqueue" /\ dbQ[j].text.letter = l
    BY <2>1, <2>4, CommandIsSafe
  <2>5. CASE \E r \in DOMAIN table : table[r].text.letter = l
    BY <2>1, <2>5, RowIsSafe
  <2> QED BY <2>1, <2>2, <2>3, <2>4, <2>5 DEF AcceptedIsSafe, SafeCopy
<1>10. AcceptedIsSafe'
  BY <1>8, <1>9 DEF AcceptedIsSafe
<1>11. configured'
  BY <1>8, Zenon
<1> QED BY <1>10, <1>11

(* Each old row is a copy of its letter. *)
LEMMA AcceptedInit == Init => configured /\ AcceptedIsSafe
<1> SUFFICES ASSUME Init
             PROVE  configured /\ AcceptedIsSafe
  OBVIOUS
<1>1. configured
  BY DEF Init
<1>2. ASSUME NEW t \in accepted
      PROVE  SafeCopy(t.letter)
  <2>1. PICK r \in 1..OldRows : t = [letter |-> r, v |-> 1]
    BY DEF Init
  <2>2. r \in DOMAIN table /\ table[r].text.letter = r
    BY DEF Init
  <2> QED BY <2>1, <2>2 DEF SafeCopy
<1> QED BY <1>1, <1>2 DEF AcceptedIsSafe

(* A safe copy is a copy. *)
LEMMA SafeIsKept == AcceptedIsSafe => NothingLost
<1> SUFFICES ASSUME AcceptedIsSafe, NEW t \in accepted
             PROVE  t.letter \in Done \/ HasCopy(t.letter)
  BY DEF NothingLost, Done
<1>1. CASE \E i \in DOMAIN inFlight : inFlight[i].letter = t.letter /\ Pending(i)
  BY <1>1 DEF HasCopy, Pending, Elements
<1>2. CASE \E j \in 1..Len(dbQ) : dbQ[j].op = "enqueue" /\ dbQ[j].text.letter = t.letter
  BY <1>2 DEF HasCopy, Elements
<1>3. CASE \E r \in DOMAIN table : table[r].text.letter = t.letter
  BY <1>3 DEF HasCopy
<1> QED BY <1>1, <1>2, <1>3 DEF AcceptedIsSafe, SafeCopy

(* No message whose Send was accepted is lost, as long as the process runs on,
   no write fails and the cache actor's channel never fills up: whatever
   windows are closed, discarded or edited, however often sends fail and
   listings come late (Deliveries::failed, Deliveries::outbox_due). *)
THEOREM NothingIsLost ==
  ASSUME Disruptions = {}
  PROVE  Spec /\ [](Len(dbQ) < CacheQueue) => []NothingLost
<1>1. Init => configured /\ AcceptedIsSafe
  BY AcceptedInit
<1>2. TypeOK /\ Faithful /\ GoneIsDone /\ Len(dbQ) < CacheQueue /\ configured /\ AcceptedIsSafe /\ [Next]_vars
        => configured' /\ AcceptedIsSafe'
  BY AcceptedStep
<1>3. AcceptedIsSafe => NothingLost
  BY SafeIsKept
<1> QED BY <1>1, <1>2, <1>3, OutboxTypes, AnswersAreFaithful, GoneRowsAreDone, PTL DEF Spec

(***************************************************************************)
(* A locked window has an outcome                                          *)
(***************************************************************************)

(* Every step but a reload keeps the outcome of a locked window to come. *)
LEMMA LockedStep ==
  ASSUME "reload" \notin Disruptions
  PROVE  TypeOK /\ LockedWindowHasOutcome /\ [Next]_vars => LockedWindowHasOutcome'
<1> SUFFICES ASSUME TypeOK, LockedWindowHasOutcome, [Next]_vars, NEW id \in sending'
             PROVE  id \in DOMAIN inFlight' /\ Pending(id)'
  BY DEF LockedWindowHasOutcome, Pending, Elements
<1>1. sending \subseteq DOMAIN open /\ smtpQ \in Seq(Mail)
  BY DEF TypeOK, UiTypeOK, SmtpTypeOK
<1>2. ~Crash
  BY DEF Crash
<1>3. ~Disruption
  BY <1>2 DEF Disruption, AccountSaved, AccountRemoved, Reload, Disrupt
<1>4. ASSUME id \in sending
      PROVE  id \in DOMAIN inFlight /\ Pending(id)
  BY <1>4 DEF LockedWindowHasOutcome, Pending, Elements
<1>5. CASE id \notin sending
  <2>1. PICK w \in DOMAIN open : Send(w)
    <3>1. ASSUME NEW w \in DOMAIN open, Edit(w) \/ SaveDraft(w) \/ Close(w) \/ Discard(w)
          PROVE  sending' \subseteq sending
      BY <3>1 DEF Edit, SaveDraft, Close, Discard
    <3>2. ASSUME NEW it \in items, RetryQueued(it) \/ EditQueued(it) \/ DeleteQueued(it)
          PROVE  sending' \subseteq sending
      BY <3>2 DEF RetryQueued, EditQueued, DeleteQueued, ui
    <3>3. ASSUME OpenCompose \/ ShowQueue \/ CloseQueue \/ RemoveAccount \/ CacheActor \/ SmtpActor \/ Clock
          PROVE  sending' \subseteq sending
      BY <3>3 DEF OpenCompose, ShowQueue, CloseQueue, RemoveAccount, CacheActor, SmtpActor, Clock,
         DbEnqueue, DbQuery, DbDelete, DbFailed, DbError, SmtpSent, SmtpError, Poll, BackoffEnds, ui
    <3>4. ASSUME Drain \/ UNCHANGED vars
          PROVE  sending' \subseteq sending
      BY <3>4 DEF Drain, HandleEnqueued, HandleDue, HandleList, OutcomeSent, OutcomeFailed, vars, ui
    <3> QED BY <1>3, <1>5, <3>1, <3>2, <3>3, <3>4 DEF Next, User
  <2>2. /\ smtpQ' = Append(smtpQ, [id |-> w, text |-> open[w].text]) /\ DOMAIN inFlight' = DOMAIN inFlight \cup {w}
        /\ sending' = sending \cup {w}
    BY <2>1 DEF Send, Put
  <2>3. id = w
    BY <1>5, <2>2
  <2>4. Len(smtpQ) + 1 \in 1..Len(smtpQ') /\ smtpQ'[Len(smtpQ) + 1] = [id |-> w, text |-> open[w].text]
    BY <1>1, <2>2
  <2>5. smtpQ'[Len(smtpQ) + 1].id = id
    BY <2>3, <2>4
  <2> QED BY <2>2, <2>3, <2>4, <2>5 DEF Pending
<1>6. CASE id \in sending
  <2>1. ~(id \in DOMAIN open /\ Discard(id))
    BY DEF Discard
  <2>2. ~((OutcomeSent \/ OutcomeFailed) /\ id = Head(smtpEv).id)
    BY <1>4, <1>6 DEF OutcomeSent, OutcomeFailed
  <2> QED BY <1>3, <1>4, <1>6, <2>1, <2>2, FlightKept
<1> QED BY <1>5, <1>6

(* A window locked by "Sending..." has its send or its outcome on the way, over
   crashes, failed writes and dropped commands: only a reload of the accounts
   can leave it locked (ComposeApp::send, Deliveries::sent, Deliveries::failed,
   Deliveries::forget). *)
THEOREM LockedWindowsUnlock ==
  ASSUME "reload" \notin Disruptions
  PROVE  Spec => []LockedWindowHasOutcome
<1>1. Init => LockedWindowHasOutcome
  BY DEF Init, LockedWindowHasOutcome
<1>2. TypeOK /\ LockedWindowHasOutcome /\ [Next]_vars => LockedWindowHasOutcome'
  BY LockedStep
<1> QED BY <1>1, <1>2, OutboxTypes, PTL DEF Spec

=============================================================================
