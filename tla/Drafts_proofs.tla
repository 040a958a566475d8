---------------------------- MODULE Drafts_proofs ----------------------------
(***************************************************************************)
(* Proofs about Drafts, for every length of the command queue, every       *)
(* number of old drafts and every bound: types, that an entry's draft row  *)
(* is its own, and that a saved text is kept.                              *)
(*                                                                         *)
(* A row number exists in three places at once: in the entry of the window *)
(* that saved it, in save commands under way to the cache actor, and in    *)
(* answers under way back.  Each is a claim on the row.  The inductive     *)
(* invariant says that all claims on a row are of one compose id and one   *)
(* message, which the row, if it still exists, holds; and that versions    *)
(* only grow from the row through the queue to the window.                 *)
(***************************************************************************)
EXTENDS Drafts, FiniteSetTheorems, TLAPS

(***************************************************************************)
(* Counting what a queue holds                                             *)
(***************************************************************************)

(* Taking the first position from a set of positions and moving the others up
   leaves as many as there were others. *)
LEMMA ShiftCount ==
  ASSUME NEW n \in Nat, NEW P, P \subseteq 1..(n + 1)
  PROVE  Cardinality({i \in 1..n : i + 1 \in P}) = Cardinality(P \ {1})
<1> DEFINE Q == {i \in 1..n : i + 1 \in P}
           f == [i \in Q |-> i + 1]
<1>1. IsFiniteSet(Q)
  <2>1. IsFiniteSet(1..n)
    BY FS_Interval
  <2>2. Q \in SUBSET (1..n)
    OBVIOUS
  <2> HIDE DEF Q
  <2> QED BY <2>1, <2>2, FS_Subset
<1>2. f \in [Q -> P \ {1}]
  OBVIOUS
<1>3. \A i, j \in Q : f[i] = f[j] => i = j
  OBVIOUS
<1>4. \A p \in P \ {1} : \E i \in Q : f[i] = p
  <2> SUFFICES ASSUME NEW p \in P \ {1}
               PROVE  \E i \in Q : f[i] = p
    OBVIOUS
  <2>1. p - 1 \in Q /\ f[p - 1] = p
    OBVIOUS
  <2> QED BY <2>1
<1> HIDE DEF Q, f
<1>5. f \in Bijection(Q, P \ {1})
  BY <1>2, <1>3, <1>4 DEF Bijection, Injection, Surjection, IsInjective
<1>6. ExistsBijection(Q, P \ {1})
  BY <1>5 DEF ExistsBijection
<1>7. Cardinality(P \ {1}) = Cardinality(Q)
  BY <1>1, <1>6, FS_Bijection
<1> QED BY <1>7 DEF Q

(* The drafts being loaded: the commands not yet taken, the answers not yet
   drained. *)
LoadsIn(q) == {i \in 1..Len(q) : q[i].op = "load"}
LoadedIn(e) == {i \in 1..Len(e) : e[i].ev = "loaded"}

(* How many of them there are when a command is queued or taken. *)
LEMMA LoadCount ==
  ASSUME NEW q \in Seq(Command)
  PROVE  /\ IsFiniteSet(LoadsIn(q)) /\ Cardinality(LoadsIn(q)) \in Nat
         /\ \A c \in Command :
              Cardinality(LoadsIn(Append(q, c))) = Cardinality(LoadsIn(q)) + (IF c.op = "load" THEN 1 ELSE 0)
         /\ q # <<>> =>
              Cardinality(LoadsIn(Tail(q))) = Cardinality(LoadsIn(q)) - (IF Head(q).op = "load" THEN 1 ELSE 0)
<1>1. IsFiniteSet(LoadsIn(q)) /\ Cardinality(LoadsIn(q)) \in Nat
  <2>1. IsFiniteSet(1..Len(q)) /\ LoadsIn(q) \subseteq 1..Len(q)
    BY FS_Interval DEF LoadsIn
  <2> QED BY <2>1, FS_Subset, FS_CardinalityType
<1>2. ASSUME NEW c \in Command
      PROVE  Cardinality(LoadsIn(Append(q, c))) = Cardinality(LoadsIn(q)) + (IF c.op = "load" THEN 1 ELSE 0)
  <2>1. LoadsIn(Append(q, c)) = LoadsIn(q) \cup (IF c.op = "load" THEN {Len(q) + 1} ELSE {})
    BY DEF LoadsIn
  <2>2. Len(q) + 1 \notin LoadsIn(q)
    BY DEF LoadsIn
  <2>3. CASE c.op = "load"
    BY <1>1, <2>1, <2>2, <2>3, FS_AddElement
  <2>4. CASE c.op # "load"
    BY <1>1, <2>1, <2>4
  <2> QED BY <2>3, <2>4
<1>3. ASSUME q # <<>>
      PROVE  Cardinality(LoadsIn(Tail(q))) = Cardinality(LoadsIn(q)) - (IF Head(q).op = "load" THEN 1 ELSE 0)
  <2>1. Len(q) - 1 \in Nat /\ LoadsIn(q) \subseteq 1..((Len(q) - 1) + 1)
    BY <1>3 DEF LoadsIn
  <2>2. LoadsIn(Tail(q)) = {i \in 1..(Len(q) - 1) : i + 1 \in LoadsIn(q)}
    BY <1>3 DEF LoadsIn
  <2>3. Cardinality(LoadsIn(Tail(q))) = Cardinality(LoadsIn(q) \ {1})
    BY <2>1, <2>2, ShiftCount
  <2>4. 1 \in LoadsIn(q) <=> Head(q).op = "load"
    BY <1>3 DEF LoadsIn
  <2>5. Cardinality(LoadsIn(q) \ {1}) = IF 1 \in LoadsIn(q) THEN Cardinality(LoadsIn(q)) - 1 ELSE Cardinality(LoadsIn(q))
    BY <1>1, FS_RemoveElement
  <2> QED BY <1>1, <2>3, <2>4, <2>5
<1> QED BY <1>1, <1>2, <1>3

(* The same for the answers. *)
LEMMA LoadedCount ==
  ASSUME NEW e \in Seq(Event)
  PROVE  /\ IsFiniteSet(LoadedIn(e)) /\ Cardinality(LoadedIn(e)) \in Nat
         /\ \A a \in Event :
              Cardinality(LoadedIn(Append(e, a))) = Cardinality(LoadedIn(e)) + (IF a.ev = "loaded" THEN 1 ELSE 0)
         /\ e # <<>> =>
              Cardinality(LoadedIn(Tail(e))) = Cardinality(LoadedIn(e)) - (IF Head(e).ev = "loaded" THEN 1 ELSE 0)
<1>1. IsFiniteSet(LoadedIn(e)) /\ Cardinality(LoadedIn(e)) \in Nat
  <2>1. IsFiniteSet(1..Len(e)) /\ LoadedIn(e) \subseteq 1..Len(e)
    BY FS_Interval DEF LoadedIn
  <2> QED BY <2>1, FS_Subset, FS_CardinalityType
<1>2. ASSUME NEW a \in Event
      PROVE  Cardinality(LoadedIn(Append(e, a))) = Cardinality(LoadedIn(e)) + (IF a.ev = "loaded" THEN 1 ELSE 0)
  <2>1. LoadedIn(Append(e, a)) = LoadedIn(e) \cup (IF a.ev = "loaded" THEN {Len(e) + 1} ELSE {})
    BY DEF LoadedIn
  <2>2. Len(e) + 1 \notin LoadedIn(e)
    BY DEF LoadedIn
  <2>3. CASE a.ev = "loaded"
    BY <1>1, <2>1, <2>2, <2>3, FS_AddElement
  <2>4. CASE a.ev # "loaded"
    BY <1>1, <2>1, <2>4
  <2> QED BY <2>3, <2>4
<1>3. ASSUME e # <<>>
      PROVE  Cardinality(LoadedIn(Tail(e))) = Cardinality(LoadedIn(e)) - (IF Head(e).ev = "loaded" THEN 1 ELSE 0)
  <2>1. Len(e) - 1 \in Nat /\ LoadedIn(e) \subseteq 1..((Len(e) - 1) + 1)
    BY <1>3 DEF LoadedIn
  <2>2. LoadedIn(Tail(e)) = {i \in 1..(Len(e) - 1) : i + 1 \in LoadedIn(e)}
    BY <1>3 DEF LoadedIn
  <2>3. Cardinality(LoadedIn(Tail(e))) = Cardinality(LoadedIn(e) \ {1})
    BY <2>1, <2>2, ShiftCount
  <2>4. 1 \in LoadedIn(e) <=> Head(e).ev = "loaded"
    BY <1>3 DEF LoadedIn
  <2>5. Cardinality(LoadedIn(e) \ {1}) = IF 1 \in LoadedIn(e) THEN Cardinality(LoadedIn(e)) - 1 ELSE Cardinality(LoadedIn(e))
    BY <1>1, FS_RemoveElement
  <2> QED BY <1>1, <2>3, <2>4, <2>5
<1> QED BY <1>1, <1>2, <1>3

(***************************************************************************)
(* Types                                                                   *)
(***************************************************************************)

(* The entries name compose ids up to n and rows up to r. *)
EntriesOK(es, n, r) ==
  /\ DOMAIN es \subseteq 1..n /\ es \in [DOMAIN es -> Entry]
  /\ \A id \in DOMAIN es : es[id].draft <= r

(* The queue fits its channel and names rows up to r. *)
CommandsOK(q, r) ==
  /\ q \in Seq(Command) /\ Len(q) <= CacheQueue
  /\ \A i \in 1..Len(q) : q[i].row <= r

(* The answers name rows up to r, and an answer to a save names one. *)
AnswersOK(e, r) ==
  /\ e \in Seq(Event)
  /\ \A i \in 1..Len(e) : /\ e[i].rows \subseteq 1..r
                          /\ e[i].ev = "saved" => \E n \in 1..r : e[i].rows = {n}

(* The types, with what keeps them: the rows that are on their way, and that
   every draft being loaded has an id left for its window. *)
Typed ==
  /\ TypeOK /\ msgs \in Nat
  /\ CommandsOK(dbQ, lastRow) /\ AnswersOK(dbEv, lastRow)
  /\ lastId + Cardinality(LoadsIn(dbQ)) + Cardinality(LoadedIn(dbEv)) <= MaxIds

(* The parts of Typed that the proofs below use. *)
LEMMA TypedParts ==
  ASSUME Typed
  PROVE  /\ lastId \in Nat /\ lastRow \in Nat /\ msgs \in Nat /\ EntriesOK(entries, lastId, lastRow)
         /\ CommandsOK(dbQ, lastRow) /\ AnswersOK(dbEv, lastRow)
         /\ DOMAIN sends \subseteq 1..lastId /\ sends \in [DOMAIN sends -> [msg : Nat, live : BOOLEAN]]
         /\ DOMAIN table \subseteq 1..lastRow /\ table \in [DOMAIN table -> Text]
         /\ draftsOpen \in BOOLEAN /\ listed \subseteq 1..lastRow
         /\ Cardinality(LoadsIn(dbQ)) \in Nat /\ Cardinality(LoadedIn(dbEv)) \in Nat
<1>1. dbQ \in Seq(Command) /\ dbEv \in Seq(Event) /\ MaxIds \in Nat
  BY BoundAssumption DEF Typed, TypeOK
<1>2. Cardinality(LoadsIn(dbQ)) \in Nat /\ Cardinality(LoadedIn(dbEv)) \in Nat
  BY <1>1, LoadCount, LoadedCount
<1> QED BY <1>1, <1>2 DEF Typed, TypeOK, EntriesOK

(* The ways an entry changes. *)
Saving(e, p, n) == [e EXCEPT !.asked = p, !.pending = n]
WithRow(e, n, r) == [e EXCEPT !.pending = n, !.draft = r]

(* A save leaves the row, the text and the mark as they are. *)
LEMMA EntrySaves ==
  ASSUME NEW e \in Entry, NEW p \in Nat, NEW n \in Nat
  PROVE  /\ Saving(e, p, n) \in Entry /\ Saving(e, p, n).draft = e.draft
         /\ Saving(e, p, n).text = e.text /\ Saving(e, p, n).settled = e.settled
BY DEF Entry, Saving

(* An answer to a save changes the row and the number of pending saves. *)
LEMMA EntryGetsRow ==
  ASSUME NEW e \in Entry, NEW n \in Nat, NEW r \in Nat
  PROVE  /\ WithRow(e, n, r) \in Entry /\ WithRow(e, n, r).draft = r
         /\ WithRow(e, n, r).text = e.text /\ WithRow(e, n, r).settled = e.settled
BY DEF Entry, WithRow

(* settle marks the entry and takes its row. *)
LEMMA EntrySettles ==
  ASSUME NEW e \in Entry
  PROVE  LET f == [e EXCEPT !.settled = TRUE, !.draft = NoRow, !.open = FALSE]
         IN  f \in Entry /\ f.draft = NoRow /\ f.text = e.text /\ f.settled
BY DEF Entry, NoRow

(* An edit makes a new version of the same message. *)
LEMMA EntryEdited ==
  ASSUME NEW e \in Entry
  PROVE  LET f == [e EXCEPT !.text.v = @ + 1]
         IN  f \in Entry /\ f.draft = e.draft /\ f.text.msg = e.text.msg /\ f.text.v = e.text.v + 1 /\ f.settled = e.settled
BY DEF Entry, Text

(* A closed window's entry differs in nothing else. *)
LEMMA EntryCloses ==
  ASSUME NEW e \in Entry
  PROVE  LET f == [e EXCEPT !.open = FALSE]
         IN  f \in Entry /\ f.draft = e.draft /\ f.text = e.text /\ f.settled = e.settled
BY DEF Entry

(* Changing one entry keeps them all typed. *)
LEMMA EntryChanged ==
  ASSUME NEW es, NEW n \in Nat, NEW r \in Nat, EntriesOK(es, n, r),
         NEW id \in DOMAIN es, NEW e \in Entry, e.draft <= r
  PROVE  EntriesOK([es EXCEPT ![id] = e], n, r)
BY DEF EntriesOK

(* So does adding one (start_compose). *)
LEMMA EntryAdded ==
  ASSUME NEW es, NEW n \in Nat, NEW r \in Nat, EntriesOK(es, n, r), NEW e \in Entry, e.draft <= r
  PROVE  EntriesOK(Put(es, n + 1, e), n + 1, r)
<1>1. DOMAIN Put(es, n + 1, e) = DOMAIN es \cup {n + 1}
  BY DEF Put
<1>2. \A x \in DOMAIN Put(es, n + 1, e) : Put(es, n + 1, e)[x] \in Entry /\ Put(es, n + 1, e)[x].draft <= r
  BY DEF Put, EntriesOK
<1>3. Put(es, n + 1, e) = [x \in DOMAIN Put(es, n + 1, e) |-> Put(es, n + 1, e)[x]]
  BY DEF Put
<1> QED BY <1>1, <1>2, <1>3 DEF EntriesOK

(* So does forgetting one (forget_if_done). *)
LEMMA EntryForgotten ==
  ASSUME NEW es, NEW n \in Nat, NEW r \in Nat, EntriesOK(es, n, r), NEW id
  PROVE  EntriesOK(ForgetIfDone(es, id), n, r)
<1>1. EntriesOK(Without(es, id), n, r)
  BY DEF EntriesOK, Without
<1> QED BY <1>1 DEF ForgetIfDone

(* A command put on a queue that has room for it. *)
PushOn(q, c) == IF Len(q) < CacheQueue THEN Append(q, c) ELSE q

(* The queue stays within its channel, and has at most one load more. *)
LEMMA CommandPushed ==
  ASSUME NEW q, NEW r \in Nat, CommandsOK(q, r), NEW c \in Command, c.row <= r
  PROVE  /\ CommandsOK(PushOn(q, c), r)
         /\ Cardinality(LoadsIn(PushOn(q, c))) \in Nat
         /\ Cardinality(LoadsIn(PushOn(q, c))) <= Cardinality(LoadsIn(q)) + (IF c.op = "load" THEN 1 ELSE 0)
<1>1. q \in Seq(Command) /\ Len(q) \in Nat /\ CacheQueue \in Nat
  BY QueueAssumption DEF CommandsOK
<1>2. Append(q, c) \in Seq(Command) /\ Len(Append(q, c)) = Len(q) + 1
  BY <1>1
<1>3. \A i \in 1..Len(Append(q, c)) : Append(q, c)[i].row <= r
  BY <1>1 DEF CommandsOK
<1>4. /\ Cardinality(LoadsIn(Append(q, c))) = Cardinality(LoadsIn(q)) + (IF c.op = "load" THEN 1 ELSE 0)
      /\ Cardinality(LoadsIn(q)) \in Nat /\ Cardinality(LoadsIn(Append(q, c))) \in Nat
  BY <1>1, <1>2, LoadCount
<1>5. CASE Len(q) < CacheQueue
  BY <1>1, <1>2, <1>3, <1>4, <1>5 DEF PushOn, CommandsOK
<1>6. CASE ~(Len(q) < CacheQueue)
  BY <1>1, <1>4, <1>6 DEF PushOn
<1> QED BY <1>5, <1>6

(* The commands of the UI thread. *)
LEMMA CommandTypes ==
  /\ \A id \in Nat, r \in Nat, t \in Text :
       SaveCmd(id, r, t) \in Command /\ SaveCmd(id, r, t).op = "save" /\ SaveCmd(id, r, t).row = r
  /\ \A op \in {"load", "list", "delete"}, r \in Nat :
       RowCmd(op, r) \in Command /\ RowCmd(op, r).op = op /\ RowCmd(op, r).row = r
<1>1. [msg |-> 0, v |-> 0] \in Text
  BY DEF Text
<1> QED BY <1>1 DEF SaveCmd, RowCmd, Command

(* Push is PushOn of the queue there is. *)
LEMMA PushIsOn == \A c : Push(c) = PushOn(dbQ, c)
BY DEF Push, PushOn

(* How the entry of id may become e in one step: it keeps its message, and a
   row it gets is one an answer names. *)
Evolved(id, e) ==
  /\ e.text.msg = entries[id].text.msg /\ e.text.v >= entries[id].text.v
  /\ \/ e.draft \in {entries[id].draft, NoRow}
     \/ \E i \in 1..Len(dbEv) : dbEv[i].ev = "saved" /\ dbEv[i].id = id /\ dbEv[i].rows = {e.draft}

Entered(id, e) ==
  \/ id \in DOMAIN entries /\ Evolved(id, e)
  \/ id = lastId + 1 /\ lastId' = lastId + 1 /\ e.draft = NoRow /\ ~e.settled

EntriesMove ==
  /\ lastId' \in Nat /\ EntriesOK(entries', lastId', lastRow')
  /\ \A id \in DOMAIN entries' : Entered(id, entries'[id])

(* Every step keeps the entries typed, and every entry evolves. *)
LEMMA EntriesStep ==
  ASSUME Typed, Next
  PROVE  lastRow' \in Nat /\ lastRow <= lastRow' /\ EntriesMove
<1>1. lastId \in Nat /\ lastRow \in Nat /\ msgs \in Nat /\ EntriesOK(entries, lastId, lastRow) /\ AnswersOK(dbEv, lastRow)
  BY TypedParts
<1>2. lastRow' \in Nat /\ lastRow <= lastRow'
  <2>1. lastRow' \in {lastRow, lastRow + 1}
    BY DEF Next, User, Outcomes, CacheActor, Drain, NewCompose, Edit, Send, Close, Discard, SaveDraft, ShowDrafts, CloseDrafts,
           OpenDraft, DeleteDraft, OutcomeSent, OutcomeFailed, DbSave, DbDelete, DbRead, DbError, DraftSaved, DraftLoaded,
           DraftsListed, Reload, Crash, db
  <2> QED BY <1>1, <2>1
<1>0. \A id \in DOMAIN entries : Evolved(id, entries[id])
  BY <1>1 DEF Evolved, EntriesOK, Entry, Text
<1>3. ASSUME NEW text \in Text, StartCompose(text), lastRow' = lastRow
      PROVE  EntriesMove
  <2> DEFINE e == [open |-> TRUE, text |-> text, asked |-> text.v, draft |-> NoRow, pending |-> 0, settled |-> FALSE]
  <2>1. e \in Entry /\ e.draft <= lastRow
    BY <1>1 DEF Entry, Text, NoRow
  <2>2. entries' = Put(entries, lastId + 1, e) /\ lastId' = lastId + 1
    BY <1>3 DEF StartCompose
  <2> HIDE DEF e
  <2>3. EntriesOK(entries', lastId', lastRow')
    BY <1>1, <1>3, <2>1, <2>2, EntryAdded
  <2>4. ASSUME NEW id \in DOMAIN entries'
        PROVE  Entered(id, entries'[id])
    <3>1. CASE id = lastId + 1
      <4>1. entries'[id] = e
        BY <2>2, <3>1 DEF Put
      <4> QED BY <2>2, <3>1, <4>1 DEF Entered, e
    <3>2. CASE id # lastId + 1
      <4>1. id \in DOMAIN entries /\ entries'[id] = entries[id]
        BY <2>2, <3>2 DEF Put
      <4> QED BY <1>0, <4>1 DEF Entered
    <3> QED BY <3>1, <3>2
  <2> QED BY <1>1, <2>2, <2>3, <2>4 DEF EntriesMove
<1>4. ASSUME NEW id \in DOMAIN entries, NEW e \in Entry, e.draft <= lastRow, Evolved(id, e),
             entries' \in {[entries EXCEPT ![id] = e], ForgetIfDone([entries EXCEPT ![id] = e], id)},
             lastId' = lastId, lastRow' = lastRow
      PROVE  EntriesMove
  <2> DEFINE es == [entries EXCEPT ![id] = e]
  <2>1. EntriesOK(es, lastId, lastRow) /\ EntriesOK(ForgetIfDone(es, id), lastId, lastRow)
    BY <1>1, <1>4, EntryChanged, EntryForgotten
  <2>2. \A i \in DOMAIN es : i \in DOMAIN entries /\ Evolved(i, es[i])
    BY <1>0, <1>4
  <2>3. \A i \in DOMAIN ForgetIfDone(es, id) : i \in DOMAIN es /\ ForgetIfDone(es, id)[i] = es[i]
    BY DEF ForgetIfDone, Without
  <2>4. entries' = es \/ entries' = ForgetIfDone(es, id)
    BY <1>4
  <2> HIDE DEF es
  <2> QED BY <1>1, <1>4, <2>1, <2>2, <2>3, <2>4 DEF EntriesMove, Entered
<1>5. CASE UNCHANGED <<entries, lastId>>
  <2>1. EntriesOK(entries', lastId', lastRow')
    BY <1>1, <1>2, <1>5 DEF EntriesOK, Entry
  <2>2. entries' = entries /\ lastId' = lastId
    BY <1>5
  <2>3. \A id \in DOMAIN entries : Entered(id, entries[id])
    BY <1>0 DEF Entered
  <2>4. \A id \in DOMAIN entries' : Entered(id, entries'[id])
    BY <2>2, <2>3
  <2> QED BY <1>1, <1>2, <2>1, <2>2, <2>4 DEF EntriesMove
<1>6. CASE NewCompose
  <2>1. [msg |-> msgs + 1, v |-> 1] \in Text
    BY <1>1 DEF Text
  <2> QED BY <1>2, <1>3, <1>6, <2>1 DEF NewCompose, db
<1>7. CASE DraftLoaded
  <2>1. Ev.text \in Text
    <3>1. dbEv \in Seq(Event) /\ dbEv # <<>>
      BY <1>1, <1>7 DEF DraftLoaded, AnswersOK
    <3>2. Head(dbEv) \in Event
      BY <3>1
    <3> QED BY <3>2 DEF Ev, Event
  <2> QED BY <1>2, <1>3, <1>7, <2>1 DEF DraftLoaded
<1>8. ASSUME NEW id \in DOMAIN entries, Edit(id) \/ SaveDraft(id) \/ Close(id) \/ Discard(id) \/ OutcomeSent(id)
      PROVE  EntriesMove
  <2>1. entries[id] \in Entry /\ entries[id].text \in Text /\ entries[id].draft <= lastRow
    BY <1>1 DEF EntriesOK, Entry
  <2>2. lastId' = lastId /\ lastRow' = lastRow
    BY <1>8 DEF Edit, SaveDraft, Close, Discard, OutcomeSent, db
  <2>3. CASE Edit(id)
    <3> DEFINE e == [entries[id] EXCEPT !.text.v = @ + 1]
    <3>1. e \in Entry /\ e.draft = entries[id].draft /\ e.text.msg = entries[id].text.msg /\ e.text.v = entries[id].text.v + 1
      BY <2>1, EntryEdited
    <3>2. entries' = [entries EXCEPT ![id] = e]
      BY <2>3 DEF Edit
    <3> HIDE DEF e
    <3>3. Evolved(id, e) /\ e.draft <= lastRow
      BY <1>1, <2>1, <3>1 DEF Evolved, NoRow, Text
    <3> QED BY <1>4, <2>2, <3>1, <3>2, <3>3
  <2>4. CASE SaveDraft(id)
    <3> DEFINE e == [entries[id] EXCEPT !.asked = entries[id].text.v, !.pending = @ + 1]
    <3>1. e \in Entry /\ e.draft = entries[id].draft /\ e.text = entries[id].text
      <4>1. entries[id].text.v \in Nat /\ entries[id].pending + 1 \in Nat
        BY <2>1 DEF Entry, Text
      <4>2. e = Saving(entries[id], entries[id].text.v, entries[id].pending + 1)
        BY DEF Saving
      <4> HIDE DEF e
      <4> QED BY <2>1, <4>1, <4>2, EntrySaves
    <3>2. entries' = [entries EXCEPT ![id] = e]
      BY <2>4 DEF SaveDraft
    <3> HIDE DEF e
    <3>3. Evolved(id, e) /\ e.draft <= lastRow
      BY <1>1, <2>1, <3>1 DEF Evolved, NoRow, Text
    <3> QED BY <1>4, <2>2, <3>1, <3>2, <3>3
  <2>5. CASE Close(id)
    <3> DEFINE e == [entries[id] EXCEPT !.open = FALSE]
    <3>1. e \in Entry /\ e.draft = entries[id].draft /\ e.text = entries[id].text
      BY <2>1, EntryCloses
    <3>2. entries' = ForgetIfDone([entries EXCEPT ![id] = e], id)
      BY <2>5 DEF Close
    <3> HIDE DEF e
    <3>3. Evolved(id, e) /\ e.draft <= lastRow
      BY <1>1, <2>1, <3>1 DEF Evolved, NoRow, Text
    <3> QED BY <1>4, <2>2, <3>1, <3>2, <3>3
  <2>6. CASE Discard(id) \/ OutcomeSent(id)
    <3> DEFINE e == [entries[id] EXCEPT !.settled = TRUE, !.draft = NoRow, !.open = FALSE]
    <3>1. e \in Entry /\ e.draft = NoRow /\ e.text = entries[id].text
      BY <2>1, EntrySettles
    <3>2. entries' = ForgetIfDone([entries EXCEPT ![id] = e], id)
      BY <2>6 DEF Discard, OutcomeSent, Settled
    <3> HIDE DEF e
    <3>3. Evolved(id, e) /\ e.draft <= lastRow
      BY <1>1, <2>1, <3>1 DEF Evolved, NoRow, Text
    <3> QED BY <1>4, <2>2, <3>1, <3>2, <3>3
  <2> QED BY <1>8, <2>3, <2>4, <2>5, <2>6
<1>9. CASE DraftSaved /\ Ev.id \in DOMAIN entries
  <2>0. PICK id \in DOMAIN entries : id = Ev.id
    BY <1>9
  <2> DEFINE e == [entries[id] EXCEPT !.pending = IF @ = 0 THEN 0 ELSE @ - 1,
                                      !.draft = IF entries[id].settled THEN @ ELSE TheRow]
  <2>1. PICK n \in 1..lastRow : Ev.rows = {n}
    BY <1>1, <1>9 DEF DraftSaved, Ev, AnswersOK
  <2>2. TheRow \in 1..lastRow
    BY <2>1 DEF TheRow
  <2>3. entries[id] \in Entry /\ entries[id].draft <= lastRow
    BY <1>1, <1>9 DEF EntriesOK
  <2>4. e \in Entry /\ e.text = entries[id].text /\ e.draft \in {entries[id].draft, n}
    <3> DEFINE p == IF entries[id].pending = 0 THEN 0 ELSE entries[id].pending - 1
               r == IF entries[id].settled THEN entries[id].draft ELSE TheRow
    <3>1. p \in Nat /\ r \in Nat /\ r \in {entries[id].draft, n}
      BY <2>1, <2>2, <2>3 DEF Entry, TheRow
    <3>2. e = WithRow(entries[id], p, r)
      BY DEF WithRow
    <3> HIDE DEF p, r, e
    <3> QED BY <2>3, <3>1, <3>2, EntryGetsRow
  <2>6. Evolved(id, e) /\ e.draft <= lastRow
    <3>1. 1 \in 1..Len(dbEv) /\ dbEv[1].ev = "saved" /\ dbEv[1].id = id /\ dbEv[1].rows = {n}
      BY <1>1, <1>9, <2>0, <2>1 DEF DraftSaved, Ev, AnswersOK
    <3>2. entries[id].text.v \in Nat
      BY <2>3 DEF Entry, Text
    <3> HIDE DEF e
    <3> QED BY <1>1, <2>3, <2>4, <3>1, <3>2 DEF Evolved
  <2>5. entries' = ForgetIfDone([entries EXCEPT ![id] = e], id) /\ lastId' = lastId /\ lastRow' = lastRow
    BY <1>9, <2>0 DEF DraftSaved, SaveCame, KeepRow
  <2> HIDE DEF e
  <2> QED BY <1>2, <1>4, <2>4, <2>5, <2>6
<1>10. CASE Crash
  <2>1. lastId' = 0 /\ entries' = Empty
    BY <1>10 DEF Crash
  <2>2. DOMAIN Empty = {} /\ Empty \in [DOMAIN Empty -> Entry]
    BY DEF Empty
  <2>3. EntriesOK(Empty, 0, lastRow')
    <3> HIDE DEF Empty
    <3> QED BY <2>2 DEF EntriesOK
  <2> QED BY <1>2, <2>1, <2>2, <2>3 DEF EntriesMove
<1> QED
  BY <1>2, <1>5, <1>6, <1>7, <1>8, <1>9, <1>10
  DEF Next, User, Outcomes, CacheActor, Drain, Windows, Send, ShowDrafts, CloseDrafts, OpenDraft, DeleteDraft, OutcomeSent,
      OutcomeFailed, DbSave, DbDelete, DbRead, DbError, DraftSaved, DraftsListed, Reload, ui

(* What a step may do to the queue, as far as types go: the drafts being
   loaded never need more ids than there are. *)
QueueTyped ==
  /\ CommandsOK(dbQ', lastRow') /\ Cardinality(LoadsIn(dbQ')) \in Nat
  /\ AnswersOK(dbEv', lastRow') /\ Cardinality(LoadedIn(dbEv')) \in Nat
  /\ lastId' + Cardinality(LoadsIn(dbQ')) + Cardinality(LoadedIn(dbEv')) <= MaxIds

(* The queue and the answers after the actor took a command. *)
LEMMA TakenTyped ==
  ASSUME Typed, Took, lastId' = lastId, lastRow' \in Nat, lastRow <= lastRow'
  PROVE  /\ Cmd \in Command /\ Cmd.row <= lastRow
         /\ CommandsOK(dbQ', lastRow') /\ Cardinality(LoadsIn(dbQ')) \in Nat
         /\ Cardinality(LoadsIn(dbQ')) = Cardinality(LoadsIn(dbQ)) - (IF Cmd.op = "load" THEN 1 ELSE 0)
<1>1. /\ dbQ \in Seq(Command) /\ dbQ # <<>> /\ dbQ' = Tail(dbQ) /\ lastRow \in Nat /\ Len(dbQ) <= CacheQueue /\ CacheQueue \in Nat
      /\ \A i \in 1..Len(dbQ) : dbQ[i].row <= lastRow
  BY TypedParts, QueueAssumption DEF Took, CommandsOK
<1>2. Cmd \in Command /\ Cmd = dbQ[1] /\ 1 \in 1..Len(dbQ)
  BY <1>1 DEF Cmd
<1>3. /\ Tail(dbQ) \in Seq(Command) /\ Len(Tail(dbQ)) = Len(dbQ) - 1
      /\ \A i \in 1..Len(Tail(dbQ)) : i + 1 \in 1..Len(dbQ) /\ Tail(dbQ)[i] = dbQ[i + 1]
  BY <1>1
<1>4. \A i \in 1..Len(dbQ) : dbQ[i] \in Command /\ dbQ[i].row \in Nat
  <2>1. \A i \in 1..Len(dbQ) : dbQ[i] \in Command
    BY <1>1
  <2> QED BY <2>1 DEF Command
<1>5. CommandsOK(dbQ', lastRow')
  <2>1. \A i \in 1..Len(dbQ') : dbQ'[i].row <= lastRow'
    BY <1>1, <1>3, <1>4
  <2>2. Len(dbQ') <= CacheQueue
    BY <1>1, <1>3
  <2> QED BY <1>1, <1>3, <2>1, <2>2 DEF CommandsOK
<1>6. /\ Cardinality(LoadsIn(Tail(dbQ))) = Cardinality(LoadsIn(dbQ)) - (IF Head(dbQ).op = "load" THEN 1 ELSE 0)
      /\ Cardinality(LoadsIn(Tail(dbQ))) \in Nat
  BY <1>1, <1>3, LoadCount
<1> QED BY <1>1, <1>2, <1>5, <1>6 DEF Cmd

(* The answers after the actor gave one, or none. *)
LEMMA AnsweredTyped ==
  ASSUME Typed, lastRow' \in Nat, lastRow <= lastRow', NEW a \in Event, a.rows \subseteq 1..lastRow',
         a.ev = "saved" => \E n \in 1..lastRow' : a.rows = {n},
         dbEv' \in {dbEv, Append(dbEv, a)}
  PROVE  /\ AnswersOK(dbEv', lastRow') /\ Cardinality(LoadedIn(dbEv')) \in Nat
         /\ Cardinality(LoadedIn(dbEv')) <= Cardinality(LoadedIn(dbEv)) + (IF a.ev = "loaded" THEN 1 ELSE 0)
<1>1. dbEv \in Seq(Event) /\ lastRow \in Nat /\ AnswersOK(dbEv, lastRow)
  BY TypedParts DEF AnswersOK
<1>2. AnswersOK(dbEv, lastRow')
  BY <1>1 DEF AnswersOK
<1>3. AnswersOK(Append(dbEv, a), lastRow')
  <2>1. /\ Append(dbEv, a) \in Seq(Event) /\ Len(Append(dbEv, a)) = Len(dbEv) + 1 /\ Append(dbEv, a)[Len(dbEv) + 1] = a
        /\ \A i \in 1..Len(dbEv) : Append(dbEv, a)[i] = dbEv[i]
    BY <1>1
  <2>2. \A i \in 1..(Len(dbEv) + 1) : i \in 1..Len(dbEv) \/ i = Len(dbEv) + 1
    BY <1>1
  <2> QED BY <1>2, <2>1, <2>2 DEF AnswersOK
<1>4. /\ Cardinality(LoadedIn(Append(dbEv, a))) = Cardinality(LoadedIn(dbEv)) + (IF a.ev = "loaded" THEN 1 ELSE 0)
      /\ Cardinality(LoadedIn(Append(dbEv, a))) \in Nat /\ Cardinality(LoadedIn(dbEv)) \in Nat
  BY <1>1, LoadedCount
<1>5. CASE dbEv' = dbEv
  BY <1>2, <1>4, <1>5
<1>6. CASE dbEv' = Append(dbEv, a)
  BY <1>3, <1>4, <1>6
<1> QED BY <1>5, <1>6

(* The answers after the UI thread drained one. *)
LEMMA DrainedTyped ==
  ASSUME Typed, dbEv # <<>>, dbEv' = Tail(dbEv), lastRow' = lastRow
  PROVE  /\ Ev \in Event /\ Ev = dbEv[1] /\ 1 \in 1..Len(dbEv)
         /\ AnswersOK(dbEv', lastRow') /\ Cardinality(LoadedIn(dbEv')) \in Nat
         /\ Cardinality(LoadedIn(dbEv')) = Cardinality(LoadedIn(dbEv)) - (IF Ev.ev = "loaded" THEN 1 ELSE 0)
<1>1. dbEv \in Seq(Event) /\ lastRow \in Nat /\ AnswersOK(dbEv, lastRow)
  BY TypedParts DEF AnswersOK
<1>2. Ev \in Event /\ Ev = dbEv[1] /\ 1 \in 1..Len(dbEv)
  BY <1>1 DEF Ev
<1>3. /\ Tail(dbEv) \in Seq(Event)
      /\ \A i \in 1..Len(Tail(dbEv)) : i + 1 \in 1..Len(dbEv) /\ Tail(dbEv)[i] = dbEv[i + 1]
  BY <1>1
<1>4. AnswersOK(Tail(dbEv), lastRow)
  BY <1>1, <1>3 DEF AnswersOK
<1>5. /\ Cardinality(LoadedIn(Tail(dbEv))) = Cardinality(LoadedIn(dbEv)) - (IF Head(dbEv).ev = "loaded" THEN 1 ELSE 0)
      /\ Cardinality(LoadedIn(Tail(dbEv))) \in Nat
  BY <1>1, <1>3, LoadedCount
<1> QED BY <1>2, <1>4, <1>5 DEF Ev

(* The queue after the UI thread sent c. *)
LEMMA PushedTyped ==
  ASSUME Typed, NEW c \in Command, c.row <= lastRow, c.op # "load", dbQ' \in {dbQ, Push(c)}, lastRow' = lastRow
  PROVE  /\ CommandsOK(dbQ', lastRow') /\ Cardinality(LoadsIn(dbQ')) \in Nat
         /\ Cardinality(LoadsIn(dbQ')) <= Cardinality(LoadsIn(dbQ))
<1>1. lastRow \in Nat /\ CommandsOK(dbQ, lastRow) /\ Cardinality(LoadsIn(dbQ)) \in Nat
  BY TypedParts
<1>2. /\ CommandsOK(PushOn(dbQ, c), lastRow) /\ Cardinality(LoadsIn(PushOn(dbQ, c))) \in Nat
      /\ Cardinality(LoadsIn(PushOn(dbQ, c))) <= Cardinality(LoadsIn(dbQ))
  BY <1>1, CommandPushed
<1> QED BY <1>1, <1>2, PushIsOn

(* What is left of a command nobody waits for any more. *)
LEMMA ReplyDropped ==
  ASSUME NEW c \in Command
  PROVE  /\ [c EXCEPT !.reply = FALSE] \in Command
         /\ [c EXCEPT !.reply = FALSE].op = c.op /\ [c EXCEPT !.reply = FALSE].id = c.id
         /\ [c EXCEPT !.reply = FALSE].row = c.row /\ [c EXCEPT !.reply = FALSE].text = c.text
BY DEF Command

(* Every step keeps the two queues typed. *)
LEMMA QueueStep ==
  ASSUME Typed, Next
  PROVE  QueueTyped
<1>1. /\ lastId \in Nat /\ lastRow \in Nat /\ EntriesOK(entries, lastId, lastRow) /\ MaxIds \in Nat
      /\ CommandsOK(dbQ, lastRow) /\ AnswersOK(dbEv, lastRow) /\ listed \subseteq 1..lastRow
      /\ table \in [DOMAIN table -> Text] /\ DOMAIN table \subseteq 1..lastRow
      /\ Cardinality(LoadsIn(dbQ)) \in Nat /\ Cardinality(LoadedIn(dbEv)) \in Nat
      /\ lastId + Cardinality(LoadsIn(dbQ)) + Cardinality(LoadedIn(dbEv)) <= MaxIds
  BY TypedParts, BoundAssumption DEF Typed
<1>2. lastId' \in Nat /\ lastRow' \in Nat /\ lastRow <= lastRow'
  BY EntriesStep DEF EntriesMove
<1>3. NoRow <= lastRow /\ NoRow \in Nat
  BY <1>1 DEF NoRow
<1>4. ASSUME lastId' = lastId, lastRow' = lastRow, dbEv' = dbEv, NEW c \in Command, c.row <= lastRow, c.op # "load",
             dbQ' \in {dbQ, Push(c)}
      PROVE  QueueTyped
  <2>1. /\ CommandsOK(dbQ', lastRow') /\ Cardinality(LoadsIn(dbQ')) \in Nat
        /\ Cardinality(LoadsIn(dbQ')) <= Cardinality(LoadsIn(dbQ))
    BY <1>4, PushedTyped
  <2> QED BY <1>1, <1>4, <2>1 DEF QueueTyped
<1>5. CASE UNCHANGED <<lastId, lastRow, dbQ, dbEv>>
  <2>1. RowCmd("list", NoRow) \in Command /\ RowCmd("list", NoRow).row <= lastRow /\ RowCmd("list", NoRow).op # "load"
    BY <1>3, CommandTypes
  <2>2. lastId' = lastId /\ lastRow' = lastRow /\ dbEv' = dbEv /\ dbQ' = dbQ
    BY <1>5
  <2> QED BY <1>4, <2>1, <2>2
<1>6. CASE NewCompose
  <2>1. /\ lastId + Cardinality(LoadsIn(dbQ)) + Cardinality(LoadedIn(dbEv)) < MaxIds
        /\ lastId' = lastId + 1 /\ lastRow' = lastRow /\ dbQ' = dbQ /\ dbEv' = dbEv
    BY <1>6 DEF NewCompose, RoomForWindow, StartCompose, LoadsIn, LoadedIn, db
  <2>2. /\ CommandsOK(dbQ', lastRow') /\ AnswersOK(dbEv', lastRow')
        /\ Cardinality(LoadsIn(dbQ')) = Cardinality(LoadsIn(dbQ)) /\ Cardinality(LoadedIn(dbEv')) = Cardinality(LoadedIn(dbEv))
    BY <1>1, <2>1
  <2> QED BY <1>1, <2>1, <2>2 DEF QueueTyped
<1>7. ASSUME NEW id \in DOMAIN entries, SaveDraft(id)
      PROVE  QueueTyped
  <2> DEFINE c == SaveCmd(id, entries[id].draft, entries[id].text)
  <2>1. id \in Nat /\ entries[id].draft \in Nat /\ entries[id].text \in Text /\ entries[id].draft <= lastRow
    BY <1>1 DEF EntriesOK, Entry
  <2>2. c \in Command /\ c.row <= lastRow /\ c.op # "load"
    BY <2>1, CommandTypes
  <2>3. lastId' = lastId /\ lastRow' = lastRow /\ dbEv' = dbEv /\ dbQ' = Push(c)
    BY <1>7 DEF SaveDraft
  <2> HIDE DEF c
  <2> QED BY <1>4, <2>2, <2>3
<1>8. ASSUME NEW id \in DOMAIN sends \cup DOMAIN entries, (Discard(id) /\ id \in DOMAIN entries) \/ OutcomeSent(id)
      PROVE  QueueTyped
  <2>1. lastId' = lastId /\ lastRow' = lastRow /\ dbEv' = dbEv
    BY <1>8 DEF Discard, OutcomeSent
  <2>2. CASE id \in DOMAIN entries
    <3> DEFINE c == RowCmd("delete", entries[id].draft)
    <3>1. entries[id].draft \in Nat /\ entries[id].draft <= lastRow
      BY <1>1, <2>2 DEF EntriesOK, Entry
    <3>2. c \in Command /\ c.row <= lastRow /\ c.op # "load"
      BY <3>1, CommandTypes
    <3>3. dbQ' \in {dbQ, Push(c)}
      BY <1>8, <2>2 DEF Discard, OutcomeSent, SettleCmd
    <3> HIDE DEF c
    <3> QED BY <1>4, <2>1, <3>2, <3>3
  <2>3. CASE id \notin DOMAIN entries
    <3>1. dbQ' = dbQ
      BY <1>8, <2>3 DEF OutcomeSent
    <3> QED BY <1>5, <2>1, <3>1
  <2> QED BY <2>2, <2>3
<1>9. CASE ShowDrafts
  <2> DEFINE c == RowCmd("list", NoRow)
  <2>1. c \in Command /\ c.row <= lastRow /\ c.op # "load"
    BY <1>3, CommandTypes
  <2>2. lastId' = lastId /\ lastRow' = lastRow /\ dbEv' = dbEv /\ dbQ' = Push(c)
    BY <1>9 DEF ShowDrafts
  <2> HIDE DEF c
  <2> QED BY <1>4, <2>1, <2>2
<1>10. ASSUME NEW r \in listed, OpenDraft(r)
       PROVE  QueueTyped
  <2> DEFINE c == RowCmd("load", r)
  <2>1. c \in Command /\ c.row <= lastRow
    BY <1>1, CommandTypes
  <2>2. lastId' = lastId /\ lastRow' = lastRow /\ dbEv' = dbEv /\ dbQ' = PushOn(dbQ, c)
    BY <1>10, PushIsOn DEF OpenDraft, ui
  <2> HIDE DEF c
  <2>3. /\ CommandsOK(PushOn(dbQ, c), lastRow) /\ Cardinality(LoadsIn(PushOn(dbQ, c))) \in Nat
        /\ Cardinality(LoadsIn(PushOn(dbQ, c))) <= Cardinality(LoadsIn(dbQ)) + 1
    BY <1>1, <2>1, CommandPushed
  <2>4. lastId + Cardinality(LoadsIn(dbQ)) + Cardinality(LoadedIn(dbEv)) < MaxIds
    BY <1>10 DEF OpenDraft, RoomForWindow, LoadsIn, LoadedIn
  <2>5. AnswersOK(dbEv', lastRow') /\ Cardinality(LoadedIn(dbEv')) = Cardinality(LoadedIn(dbEv))
    BY <1>1, <2>2
  <2> QED BY <1>1, <2>2, <2>3, <2>4, <2>5 DEF QueueTyped
<1>11. ASSUME NEW r \in listed, DeleteDraft(r)
       PROVE  QueueTyped
  <2> DEFINE c == RowCmd("delete", r)
             d == RowCmd("list", NoRow)
  <2>1. c \in Command /\ c.row <= lastRow /\ d \in Command /\ d.row <= lastRow /\ c.op # "load" /\ d.op # "load"
    BY <1>1, <1>3, CommandTypes
  <2>2. lastId' = lastId /\ lastRow' = lastRow /\ dbEv' = dbEv /\ dbQ' = PushOn(PushOn(dbQ, c), d)
    BY <1>11, PushIsOn DEF DeleteDraft, PushOn, ui
  <2> HIDE DEF c, d
  <2>3. /\ CommandsOK(PushOn(dbQ, c), lastRow) /\ Cardinality(LoadsIn(PushOn(dbQ, c))) \in Nat
        /\ Cardinality(LoadsIn(PushOn(dbQ, c))) <= Cardinality(LoadsIn(dbQ))
    BY <1>1, <2>1, CommandPushed
  <2>4. /\ CommandsOK(dbQ', lastRow') /\ Cardinality(LoadsIn(dbQ')) \in Nat
        /\ Cardinality(LoadsIn(dbQ')) <= Cardinality(LoadsIn(PushOn(dbQ, c)))
    BY <1>1, <2>1, <2>2, <2>3, CommandPushed
  <2>5. AnswersOK(dbEv', lastRow') /\ Cardinality(LoadedIn(dbEv')) = Cardinality(LoadedIn(dbEv))
    BY <1>1, <2>2
  <2> QED BY <1>1, <2>2, <2>3, <2>4, <2>5 DEF QueueTyped
<1>12. ASSUME Took, lastId' = lastId, NEW a \in Event, a.rows \subseteq 1..lastRow',
              a.ev = "saved" => \E n \in 1..lastRow' : a.rows = {n},
              a.ev = "loaded" => Cmd.op = "load",
              dbEv' \in {dbEv, Append(dbEv, a)}
       PROVE  QueueTyped
  <2>1. /\ CommandsOK(dbQ', lastRow') /\ Cardinality(LoadsIn(dbQ')) \in Nat
        /\ Cardinality(LoadsIn(dbQ')) = Cardinality(LoadsIn(dbQ)) - (IF Cmd.op = "load" THEN 1 ELSE 0)
    BY <1>2, <1>12, TakenTyped
  <2>2. /\ AnswersOK(dbEv', lastRow') /\ Cardinality(LoadedIn(dbEv')) \in Nat
        /\ Cardinality(LoadedIn(dbEv')) <= Cardinality(LoadedIn(dbEv)) + (IF a.ev = "loaded" THEN 1 ELSE 0)
    BY <1>2, <1>12, AnsweredTyped
  <2> QED BY <1>1, <1>12, <2>1, <2>2 DEF QueueTyped
<1>13. ASSUME Took, lastId' = lastId, NEW ev \in {"saved", "loaded", "listed"}, NEW rows, rows \subseteq 1..lastRow', NEW text \in Text,
              ev = "saved" => \E n \in 1..lastRow' : rows = {n}, ev = "loaded" => Cmd.op = "load",
              Answer(ev, rows, text) \/ dbEv' = dbEv
       PROVE  QueueTyped
  <2> DEFINE a == [ev |-> ev, id |-> Cmd.id, rows |-> rows, text |-> text]
  <2>1. Cmd \in Command /\ rows \subseteq Nat
    BY <1>2, <1>13, TakenTyped
  <2>2. a \in Event /\ a.ev = ev /\ a.rows = rows
    BY <2>1 DEF Event, Command
  <2>3. dbEv' \in {dbEv, Append(dbEv, a)}
    BY <1>13 DEF Answer
  <2> HIDE DEF a
  <2> QED BY <1>12, <1>13, <2>2, <2>3
<1>14. CASE CacheActor
  <2>1. lastId' = lastId /\ Took
    BY <1>14 DEF CacheActor, DbSave, DbDelete, DbRead, DbError, ui
  <2>2. Cmd \in Command /\ Cmd.row <= lastRow /\ Cmd.row \in Nat /\ Cmd.text \in Text
    BY <1>2, <2>1, TakenTyped DEF Command
  <2>3. CASE DbSave
    <3>1. SavedRow \in 1..lastRow' /\ Answer("saved", {SavedRow}, Cmd.text)
      BY <1>1, <2>2, <2>3 DEF DbSave, SavedRow, NoRow
    <3> QED BY <1>13, <2>1, <2>2, <3>1
  <2>4. CASE DbDelete \/ DbError
    <3>1. dbEv' = dbEv /\ {} \subseteq 1..lastRow'
      BY <2>4 DEF DbDelete, DbError
    <3> QED BY <1>13, <2>1, <2>2, <3>1
  <2>5. CASE DbRead
    <3>1. lastRow' = lastRow
      BY <2>5 DEF DbRead
    <3>2. CASE Cmd.op = "list"
      <4>1. Answer("listed", DOMAIN table, Cmd.text) /\ DOMAIN table \subseteq 1..lastRow'
        BY <1>1, <2>5, <3>1, <3>2 DEF DbRead
      <4> QED BY <1>13, <2>1, <2>2, <4>1
    <3>3. CASE Cmd.op = "load" /\ Cmd.row \in DOMAIN table
      <4>1. Answer("loaded", {Cmd.row}, table[Cmd.row]) /\ {Cmd.row} \subseteq 1..lastRow' /\ table[Cmd.row] \in Text
        BY <1>1, <2>5, <3>1, <3>3 DEF DbRead
      <4> QED BY <1>13, <2>1, <3>3, <4>1
    <3>4. CASE Cmd.op = "load" /\ Cmd.row \notin DOMAIN table
      <4>1. dbEv' = dbEv /\ {} \subseteq 1..lastRow'
        BY <2>5, <3>4 DEF DbRead
      <4> QED BY <1>13, <2>1, <2>2, <4>1
    <3> QED BY <2>5, <3>2, <3>3, <3>4 DEF DbRead
  <2> QED BY <1>14, <2>3, <2>4, <2>5 DEF CacheActor
<1>15. CASE Drain
  <2>1. dbEv # <<>> /\ dbEv' = Tail(dbEv) /\ lastRow' = lastRow
    BY <1>15 DEF Drain, DraftSaved, DraftLoaded, DraftsListed
  <2>2. /\ Ev \in Event /\ Ev = dbEv[1] /\ 1 \in 1..Len(dbEv)
        /\ AnswersOK(dbEv', lastRow') /\ Cardinality(LoadedIn(dbEv')) \in Nat
        /\ Cardinality(LoadedIn(dbEv')) = Cardinality(LoadedIn(dbEv)) - (IF Ev.ev = "loaded" THEN 1 ELSE 0)
    BY <2>1, DrainedTyped
  <2>3. CASE DraftLoaded \/ DraftsListed
    <3>1. dbQ' = dbQ /\ lastId' = lastId + (IF Ev.ev = "loaded" THEN 1 ELSE 0)
      BY <1>1, <2>3 DEF DraftLoaded, DraftsListed, StartCompose
    <3>2. CommandsOK(dbQ', lastRow') /\ Cardinality(LoadsIn(dbQ')) = Cardinality(LoadsIn(dbQ))
      BY <1>1, <2>1, <3>1
    <3> QED BY <1>1, <2>2, <3>1, <3>2 DEF QueueTyped
  <2>4. CASE DraftSaved
    <3> DEFINE c == RowCmd("delete", TheRow)
    <3>1. PICK n \in 1..lastRow : Ev.rows = {n}
      BY <1>1, <2>2, <2>4 DEF DraftSaved, AnswersOK
    <3>2. TheRow \in Nat /\ TheRow <= lastRow
      BY <1>1, <3>1 DEF TheRow
    <3>3. c \in Command /\ c.row <= lastRow /\ c.op # "load"
      BY <3>2, CommandTypes
    <3>4. dbQ' \in {dbQ, Push(c)} /\ lastId' = lastId
      BY <2>4 DEF DraftSaved, SaveCame, KeepRow
    <3> HIDE DEF c
    <3>5. /\ CommandsOK(dbQ', lastRow') /\ Cardinality(LoadsIn(dbQ')) \in Nat
          /\ Cardinality(LoadsIn(dbQ')) <= Cardinality(LoadsIn(dbQ))
      BY <2>1, <3>3, <3>4, PushedTyped
    <3>6. Cardinality(LoadedIn(dbEv')) <= Cardinality(LoadedIn(dbEv))
      BY <1>1, <2>2
    <3> QED BY <1>1, <2>2, <3>4, <3>5, <3>6 DEF QueueTyped
  <2> QED BY <1>15, <2>3, <2>4 DEF Drain
<1>16. Cardinality(LoadsIn(<<>>)) = 0 /\ Cardinality(LoadedIn(<<>>)) = 0 /\ AnswersOK(<<>>, lastRow')
  <2>1. LoadsIn(<<>>) = {} /\ LoadedIn(<<>>) = {}
    BY DEF LoadsIn, LoadedIn
  <2> QED BY <2>1, FS_EmptySet DEF AnswersOK
<1>17. CASE Reload
  <2>1. /\ dbQ' = [i \in 1..Len(dbQ) |-> [dbQ[i] EXCEPT !.reply = FALSE]] /\ dbEv' = <<>>
        /\ lastId' = lastId /\ lastRow' = lastRow /\ dbQ \in Seq(Command)
    BY <1>1, <1>17 DEF Reload, CommandsOK
  <2>2. \A i \in 1..Len(dbQ) : [dbQ[i] EXCEPT !.reply = FALSE] \in Command
    BY <2>1, ReplyDropped
  <2>3. \A i \in 1..Len(dbQ) : [dbQ[i] EXCEPT !.reply = FALSE].op = dbQ[i].op /\ [dbQ[i] EXCEPT !.reply = FALSE].row = dbQ[i].row
    BY <2>1, ReplyDropped
  <2>4. dbQ' \in Seq(Command) /\ Len(dbQ') = Len(dbQ)
    BY <2>1, <2>2
  <2>5. \A i \in 1..Len(dbQ) : dbQ'[i].op = dbQ[i].op /\ dbQ'[i].row = dbQ[i].row
    BY <2>1, <2>3
  <2>6. CommandsOK(dbQ', lastRow') /\ LoadsIn(dbQ') = LoadsIn(dbQ)
    BY <1>1, <2>1, <2>4, <2>5 DEF CommandsOK, LoadsIn
  <2> QED BY <1>1, <1>16, <2>1, <2>6 DEF QueueTyped
<1>18. CASE Crash
  <2>1. dbQ' = <<>> /\ dbEv' = <<>> /\ lastId' = 0
    BY <1>18 DEF Crash
  <2>2. CommandsOK(<<>>, lastRow')
    BY QueueAssumption DEF CommandsOK
  <2> QED BY <1>1, <1>16, <2>1, <2>2 DEF QueueTyped
<1> QED
  BY <1>5, <1>6, <1>7, <1>8, <1>9, <1>10, <1>11, <1>14, <1>15, <1>17, <1>18
  DEF Next, User, Outcomes, Windows, Edit, Send, Close, CloseDrafts, OutcomeFailed, db

(* Every step keeps the table, the sends under way and the Drafts window typed. *)
LEMMA RestStep ==
  ASSUME Typed, Next
  PROVE  /\ DOMAIN table' \subseteq 1..lastRow' /\ table' \in [DOMAIN table' -> Text]
         /\ DOMAIN sends' \subseteq 1..lastId' /\ sends' \in [DOMAIN sends' -> [msg : Nat, live : BOOLEAN]]
         /\ draftsOpen' \in BOOLEAN /\ listed' \subseteq 1..lastRow' /\ msgs' \in Nat
<1>1. /\ lastId \in Nat /\ lastRow \in Nat /\ msgs \in Nat /\ EntriesOK(entries, lastId, lastRow)
      /\ CommandsOK(dbQ, lastRow) /\ AnswersOK(dbEv, lastRow)
      /\ DOMAIN sends \subseteq 1..lastId /\ sends \in [DOMAIN sends -> [msg : Nat, live : BOOLEAN]]
      /\ DOMAIN table \subseteq 1..lastRow /\ table \in [DOMAIN table -> Text]
      /\ draftsOpen \in BOOLEAN /\ listed \subseteq 1..lastRow
  BY TypedParts
<1>2. lastId' \in Nat /\ lastRow' \in Nat /\ lastRow <= lastRow'
  BY EntriesStep DEF EntriesMove
<1>3. DOMAIN table' \subseteq 1..lastRow' /\ table' \in [DOMAIN table' -> Text]
  <2>1. CASE DbSave
    <3>1. Cmd.row \in Nat /\ Cmd.row <= lastRow /\ Cmd.text \in Text
      BY <1>2, <2>1, TakenTyped DEF DbSave, Command, ui
    <3>2. PICK r \in 1..lastRow' : table' \in {table, Put(table, r, Cmd.text)}
      <4>1. CASE Cmd.row = NoRow
        BY <1>1, <2>1, <4>1 DEF DbSave
      <4>2. CASE Cmd.row # NoRow /\ Cmd.row \in DOMAIN table
        BY <1>1, <2>1, <3>1, <4>2 DEF DbSave
      <4>3. CASE Cmd.row # NoRow /\ Cmd.row \notin DOMAIN table
        <5>1. table' = table /\ lastRow' = lastRow /\ Cmd.row \in 1..lastRow'
          BY <1>1, <2>1, <3>1, <4>3 DEF DbSave, NoRow
        <5> QED BY <5>1
      <4> QED BY <4>1, <4>2, <4>3
    <3>3. DOMAIN Put(table, r, Cmd.text) \subseteq 1..lastRow' /\ Put(table, r, Cmd.text) \in [DOMAIN Put(table, r, Cmd.text) -> Text]
      BY <1>1, <1>2, <3>1 DEF Put
    <3> QED BY <1>1, <1>2, <3>2, <3>3
  <2>2. CASE DbDelete
    BY <1>1, <2>2 DEF DbDelete, Without
  <2>3. CASE UNCHANGED table
    BY <1>1, <1>2, <2>3
  <2> QED
    BY <2>1, <2>2, <2>3
    DEF Next, User, Outcomes, CacheActor, Drain, NewCompose, Edit, Send, Close, Discard, SaveDraft, ShowDrafts, CloseDrafts,
        OpenDraft, DeleteDraft, OutcomeSent, OutcomeFailed, DbRead, DbError, DraftSaved, DraftLoaded, DraftsListed, Reload, Crash, db
<1>4. DOMAIN sends' \subseteq 1..lastId' /\ sends' \in [DOMAIN sends' -> [msg : Nat, live : BOOLEAN]]
  <2>1. ASSUME NEW id \in DOMAIN entries, Send(id)
        PROVE  DOMAIN sends' \subseteq 1..lastId' /\ sends' \in [DOMAIN sends' -> [msg : Nat, live : BOOLEAN]]
    <3> DEFINE s == [msg |-> entries[id].text.msg, live |-> TRUE]
    <3>1. id \in 1..lastId /\ s \in [msg : Nat, live : BOOLEAN]
      BY <1>1 DEF EntriesOK, Entry, Text
    <3>2. sends' = Put(sends, id, s) /\ lastId' = lastId
      BY <2>1 DEF Send
    <3> HIDE DEF s
    <3> QED BY <1>1, <3>1, <3>2 DEF Put
  <2>2. ASSUME NEW id, Discard(id) \/ OutcomeSent(id) \/ OutcomeFailed(id)
        PROVE  DOMAIN sends' \subseteq 1..lastId' /\ sends' \in [DOMAIN sends' -> [msg : Nat, live : BOOLEAN]]
    BY <1>1, <2>2 DEF Discard, OutcomeSent, OutcomeFailed, Without
  <2>3. CASE Reload
    <3>1. \A s \in [msg : Nat, live : BOOLEAN] : [s EXCEPT !.live = FALSE] \in [msg : Nat, live : BOOLEAN]
      OBVIOUS
    <3> QED BY <1>1, <2>3, <3>1 DEF Reload
  <2>4. CASE Crash
    BY <2>4 DEF Crash, Empty
  <2>5. CASE UNCHANGED sends
    <3>1. lastId' \in {lastId, lastId + 1} \/ Crash
      BY DEF Next, User, Outcomes, CacheActor, Drain, NewCompose, StartCompose, Edit, Send, Close, Discard, SaveDraft, ShowDrafts,
             CloseDrafts, OpenDraft, DeleteDraft, OutcomeSent, OutcomeFailed, DbSave, DbDelete, DbRead, DbError, DraftSaved,
             DraftLoaded, DraftsListed, Reload, ui
    <3> QED BY <1>1, <2>4, <2>5, <3>1
  <2> QED
    BY <2>1, <2>2, <2>3, <2>4, <2>5
    DEF Next, User, Outcomes, CacheActor, Drain, Windows, NewCompose, Edit, Close, SaveDraft, ShowDrafts, CloseDrafts,
        OpenDraft, DeleteDraft, DbSave, DbDelete, DbRead, DbError, DraftSaved, DraftLoaded, DraftsListed, ui
<1>5. draftsOpen' \in BOOLEAN /\ listed' \subseteq 1..lastRow'
  <2>1. CASE DraftsListed
    <3>1. Ev.rows \subseteq 1..lastRow
      BY <1>1, <2>1, DrainedTyped DEF DraftsListed, AnswersOK
    <3> QED BY <1>1, <1>2, <2>1, <3>1 DEF DraftsListed
  <2>2. CASE draftsOpen' \in {draftsOpen, TRUE, FALSE} /\ listed' \in {listed, {}}
    <3>1. draftsOpen' \in BOOLEAN
      BY <1>1, <2>2, Zenon
    <3>2. listed' \subseteq 1..lastRow'
      BY <1>1, <1>2, <2>2
    <3> QED BY <3>1, <3>2
  <2> QED
    BY <2>1, <2>2
    DEF Next, User, Outcomes, CacheActor, Drain, NewCompose, Edit, Send, Close, Discard, SaveDraft, ShowDrafts, CloseDrafts,
        OpenDraft, DeleteDraft, OutcomeSent, OutcomeFailed, DbSave, DbDelete, DbRead, DbError, DraftSaved, DraftLoaded, Reload,
        Crash, ui, window
<1>6. msgs' \in Nat
  <2>1. msgs' \in {msgs, msgs + 1}
    BY DEF Next, User, Outcomes, CacheActor, Drain, NewCompose, Edit, Send, Close, Discard, SaveDraft, ShowDrafts, CloseDrafts,
           OpenDraft, DeleteDraft, OutcomeSent, OutcomeFailed, DbSave, DbDelete, DbRead, DbError, DraftSaved, DraftLoaded,
           DraftsListed, Reload, Crash, history
  <2> QED BY <1>1, <2>1
<1> QED BY <1>3, <1>4, <1>5, <1>6

(* Every step keeps the types. *)
LEMMA TypedStep == Typed /\ [Next]_vars => Typed'
<1>1. ASSUME Typed, Next
      PROVE  Typed'
  <2>1. lastRow' \in Nat /\ lastId' \in Nat /\ EntriesOK(entries', lastId', lastRow')
    BY <1>1, EntriesStep DEF EntriesMove
  <2>2. /\ CommandsOK(dbQ', lastRow') /\ Cardinality(LoadsIn(dbQ')) \in Nat
        /\ AnswersOK(dbEv', lastRow') /\ Cardinality(LoadedIn(dbEv')) \in Nat
        /\ lastId' + Cardinality(LoadsIn(dbQ')) + Cardinality(LoadedIn(dbEv')) <= MaxIds
    BY <1>1, QueueStep DEF QueueTyped
  <2>3. /\ DOMAIN table' \subseteq 1..lastRow' /\ table' \in [DOMAIN table' -> Text]
        /\ DOMAIN sends' \subseteq 1..lastId' /\ sends' \in [DOMAIN sends' -> [msg : Nat, live : BOOLEAN]]
        /\ draftsOpen' \in BOOLEAN /\ listed' \subseteq 1..lastRow' /\ msgs' \in Nat
    BY <1>1, RestStep
  <2>4. lastId' \in 0..MaxIds
    BY <2>1, <2>2, BoundAssumption
  <2>5. TypeOK'
    BY <2>1, <2>2, <2>3, <2>4 DEF TypeOK, EntriesOK, CommandsOK, AnswersOK
  <2> QED BY <2>2, <2>3, <2>5 DEF Typed, LoadsIn, LoadedIn, CommandsOK, AnswersOK
<1>2. ASSUME Typed, UNCHANGED vars
      PROVE  Typed'
  BY <1>2 DEF Typed, TypeOK, CommandsOK, AnswersOK, LoadsIn, LoadedIn, vars, ui, window, db, history
<1> QED BY <1>1, <1>2

(* The types hold at the start. *)
LEMMA TypedInit == Init => Typed
<1> SUFFICES ASSUME Init
             PROVE  Typed
  OBVIOUS
<1>1. /\ lastId = 0 /\ entries = Empty /\ sends = Empty /\ dbQ = <<>> /\ dbEv = <<>> /\ lastRow = OldDrafts
      /\ OldDrafts \in Nat /\ MaxIds \in Nat /\ draftsOpen = FALSE /\ listed = {} /\ msgs = OldDrafts
      /\ table = [r \in 1..OldDrafts |-> [msg |-> r, v |-> 1]]
  BY BoundAssumption DEF Init
<1>2. LoadsIn(dbQ) = {} /\ LoadedIn(dbEv) = {}
  BY <1>1 DEF LoadsIn, LoadedIn
<1>3. Cardinality(LoadsIn(dbQ)) = 0 /\ Cardinality(LoadedIn(dbEv)) = 0
  BY <1>2, FS_EmptySet
<1>4. CommandsOK(dbQ, lastRow) /\ AnswersOK(dbEv, lastRow)
  BY <1>1, QueueAssumption DEF CommandsOK, AnswersOK
<1>5. table \in [DOMAIN table -> Text] /\ DOMAIN table \subseteq 1..lastRow
  BY <1>1 DEF Text
<1>6. DOMAIN Empty = {} /\ Empty \in [DOMAIN Empty -> Entry] /\ Empty \in [DOMAIN Empty -> [msg : Nat, live : BOOLEAN]]
  BY DEF Empty
<1>7. TypeOK
  <2>1. dbQ \in Seq(Command) /\ Len(dbQ) <= CacheQueue /\ dbEv \in Seq(Event)
    BY <1>4 DEF CommandsOK, AnswersOK
  <2>3. lastId \in 0..MaxIds /\ lastRow \in Nat /\ listed \subseteq 1..lastRow
    BY <1>1
  <2>4. draftsOpen \in BOOLEAN
    BY DEF Init
  <2>2. /\ DOMAIN entries = {} /\ entries \in [DOMAIN entries -> Entry]
        /\ DOMAIN sends = {} /\ sends \in [DOMAIN sends -> [msg : Nat, live : BOOLEAN]]
    BY <1>1, <1>6
  <2> QED BY <1>5, <2>1, <2>2, <2>3, <2>4 DEF TypeOK
<1> QED BY <1>1, <1>3, <1>4, <1>7 DEF Typed

(* Types: for every queue length and every bound, ids and rows stay within what
   was handed out, and the queue within its channel (composes.rs, cache.rs). *)
THEOREM DraftTypes == Spec => []TypeOK
<1>1. Spec => []Typed
  BY TypedInit, TypedStep, PTL DEF Spec
<1>2. Typed => TypeOK
  BY DEF Typed
<1> QED BY <1>1, <1>2, PTL

(***************************************************************************)
(* Claims on rows                                                          *)
(***************************************************************************)

(* Somebody holds row r for compose id `id` and message m: the entry, a save
   command or an answer to one. *)
Claim(id, r, m) ==
  \/ id \in DOMAIN entries /\ entries[id].draft = r /\ entries[id].text.msg = m
  \/ \E i \in 1..Len(dbQ) : dbQ[i].op = "save" /\ dbQ[i].id = id /\ dbQ[i].row = r /\ dbQ[i].text.msg = m
  \/ \E i \in 1..Len(dbEv) : dbEv[i].ev = "saved" /\ dbEv[i].id = id /\ dbEv[i].rows = {r} /\ dbEv[i].text.msg = m

(* What is under way for an id is of an id handed out, of the message its entry
   has, and in no newer version. *)
SaverIsKnown ==
  /\ \A i \in 1..Len(dbQ) : dbQ[i].op = "save" =>
       /\ dbQ[i].id \in 1..lastId
       /\ dbQ[i].id \in DOMAIN entries =>
            dbQ[i].text.msg = entries[dbQ[i].id].text.msg /\ dbQ[i].text.v <= entries[dbQ[i].id].text.v
  /\ \A i \in 1..Len(dbEv) : dbEv[i].ev = "saved" =>
       /\ dbEv[i].id \in 1..lastId
       /\ dbEv[i].id \in DOMAIN entries => dbEv[i].text.msg = entries[dbEv[i].id].text.msg

(* All claims on a row are of one id and one message; the row holds that
   message, or is gone because the message is finished. *)
ClaimsAreSound ==
  \A r \in 1..lastRow : \A i, m \in Nat : Claim(i, r, m) =>
    /\ \A j, n \in Nat : Claim(j, r, n) => i = j /\ m = n
    /\ r \in DOMAIN table => table[r].msg = m
    /\ r \notin DOMAIN table => m \in Finished

(* A row is only deleted for a message that is finished. *)
DeletesAreFinished ==
  \A i \in 1..Len(dbQ) : dbQ[i].op = "delete" /\ dbQ[i].row \in DOMAIN table => table[dbQ[i].row].msg \in Finished

(* A settled entry's message is finished, and a send is of its entry's message. *)
SettledIsFinished ==
  \A i \in DOMAIN entries : /\ entries[i].settled => entries[i].text.msg \in Finished
                            /\ i \in DOMAIN sends => sends[i].msg = entries[i].text.msg

(* Versions grow from the row through the queue to the entry. *)
VersionsGrow ==
  /\ \A i, j \in 1..Len(dbQ) :
       i < j /\ dbQ[i].op = "save" /\ dbQ[j].op = "save" /\ dbQ[i].id = dbQ[j].id => dbQ[i].text.v <= dbQ[j].text.v
  /\ \A i \in 1..Len(dbQ) : dbQ[i].op = "save" /\ dbQ[i].row \in DOMAIN table => table[dbQ[i].row].v <= dbQ[i].text.v
  /\ \A r \in DOMAIN table, id \in DOMAIN entries, m \in Nat : Claim(id, r, m) => table[r].v <= entries[id].text.v

Linked == SaverIsKnown /\ ClaimsAreSound /\ DeletesAreFinished /\ SettledIsFinished /\ VersionsGrow

(* A new command: a save of what an entry has, or the deletion of a row that is
   done with. *)
NewCommand(c) ==
  \/ c.op \in {"load", "list"}
  \/ c.op = "save" /\ c.id \in DOMAIN entries /\ c.row = entries[c.id].draft /\ c.text = entries[c.id].text
  \/ c.op = "delete" /\ (c.row \in DOMAIN table => table[c.row].msg \in Finished')

(* A command that was in the queue, k places behind. *)
OldCommand(c, d) == c.op = d.op /\ c.id = d.id /\ c.row = d.row /\ c.text = d.text

(* The queue loses k commands at its head and gains new ones at its end. *)
QueueMove(k) ==
  \A i \in 1..Len(dbQ') :
    \/ i + k \in 1..Len(dbQ) /\ OldCommand(dbQ'[i], dbQ[i + k])
    \/ i + k > Len(dbQ) /\ NewCommand(dbQ'[i])

(* What every step but a save in the database and a crash does to the links. *)
Move ==
  /\ EntriesMove /\ lastId <= lastId' /\ lastRow' = lastRow
  /\ \E k \in Nat : QueueMove(k)
  /\ \A i \in 1..Len(dbEv') : dbEv'[i].ev = "saved" => \E j \in 1..Len(dbEv) : dbEv'[i] = dbEv[j]
  /\ DOMAIN table' \subseteq DOMAIN table
  /\ \A r \in DOMAIN table : IF r \in DOMAIN table' THEN table'[r] = table[r] ELSE table[r].msg \in Finished'
  /\ Finished \subseteq Finished'

(* The types of what claims are made of. *)
LEMMA LinkTypes ==
  ASSUME Typed
  PROVE  /\ lastId \in Nat /\ lastRow \in Nat /\ Len(dbQ) \in Nat /\ Len(dbEv) \in Nat
         /\ \A id \in DOMAIN entries : /\ id \in 1..lastId /\ entries[id].draft \in Nat /\ entries[id].draft <= lastRow
                                       /\ entries[id].text.msg \in Nat /\ entries[id].text.v \in Nat
                                       /\ entries[id].text \in Text
         /\ \A i \in 1..Len(dbQ) : /\ dbQ[i].op \in {"save", "load", "list", "delete"} /\ dbQ[i].id \in Nat
                                   /\ dbQ[i].row \in Nat /\ dbQ[i].row <= lastRow
                                   /\ dbQ[i].text.msg \in Nat /\ dbQ[i].text.v \in Nat /\ dbQ[i].text \in Text
         /\ \A i \in 1..Len(dbEv) : /\ dbEv[i].id \in Nat /\ dbEv[i].rows \subseteq 1..lastRow /\ dbEv[i].text.msg \in Nat
                                    /\ dbEv[i].ev = "saved" => \E n \in 1..lastRow : dbEv[i].rows = {n}
         /\ \A r \in DOMAIN table : r \in 1..lastRow /\ table[r].msg \in Nat /\ table[r].v \in Nat
<1>1. /\ lastId \in Nat /\ lastRow \in Nat /\ EntriesOK(entries, lastId, lastRow)
      /\ CommandsOK(dbQ, lastRow) /\ AnswersOK(dbEv, lastRow)
      /\ DOMAIN table \subseteq 1..lastRow /\ table \in [DOMAIN table -> Text]
  BY TypedParts
<1>2. /\ \A id \in DOMAIN entries : entries[id] \in Entry /\ id \in 1..lastId /\ entries[id].draft <= lastRow
      /\ \A i \in 1..Len(dbQ) : dbQ[i] \in Command /\ dbQ[i].row <= lastRow
      /\ \A i \in 1..Len(dbEv) : /\ dbEv[i] \in Event /\ dbEv[i].rows \subseteq 1..lastRow
                                 /\ dbEv[i].ev = "saved" => \E n \in 1..lastRow : dbEv[i].rows = {n}
      /\ \A r \in DOMAIN table : table[r] \in Text /\ r \in 1..lastRow
      /\ Len(dbQ) \in Nat /\ Len(dbEv) \in Nat
  BY <1>1 DEF EntriesOK, CommandsOK, AnswersOK
<1>3. /\ \A t \in Text : t.msg \in Nat /\ t.v \in Nat
      /\ \A e \in Entry : e.text \in Text /\ e.draft \in Nat
      /\ \A c \in Command : c.text \in Text /\ c.row \in Nat /\ c.id \in Nat /\ c.op \in {"save", "load", "list", "delete"}
      /\ \A a \in Event : a.text \in Text /\ a.id \in Nat
  BY DEF Text, Entry, Command, Event
<1> QED BY <1>1, <1>2, <1>3

(* A claim names an id and a row that were handed out. *)
LEMMA ClaimTypes ==
  ASSUME Typed, SaverIsKnown, NEW id, NEW r, NEW m, Claim(id, r, m)
  PROVE  id \in 1..lastId /\ id \in Nat /\ r \in Nat /\ r <= lastRow /\ m \in Nat
<1>1. lastId \in Nat /\ lastRow \in Nat
  BY LinkTypes
<1>2. CASE id \in DOMAIN entries /\ entries[id].draft = r /\ entries[id].text.msg = m
  BY <1>1, <1>2, LinkTypes
<1>3. CASE \E i \in 1..Len(dbQ) : dbQ[i].op = "save" /\ dbQ[i].id = id /\ dbQ[i].row = r /\ dbQ[i].text.msg = m
  BY <1>1, <1>3, LinkTypes DEF SaverIsKnown
<1>4. CASE \E i \in 1..Len(dbEv) : dbEv[i].ev = "saved" /\ dbEv[i].id = id /\ dbEv[i].rows = {r} /\ dbEv[i].text.msg = m
  <2>1. PICK i \in 1..Len(dbEv) : dbEv[i].ev = "saved" /\ dbEv[i].id = id /\ dbEv[i].rows = {r} /\ dbEv[i].text.msg = m
    BY <1>4
  <2>2. r \in dbEv[i].rows /\ dbEv[i].rows \subseteq 1..lastRow /\ dbEv[i].text.msg \in Nat /\ id \in 1..lastId
    BY <2>1, LinkTypes DEF SaverIsKnown
  <2> QED BY <1>1, <2>1, <2>2
<1> QED BY <1>2, <1>3, <1>4 DEF Claim
(* Nobody comes to hold a row in a move who did not hold it before: a row goes
   from an answer to the entry, and from the entry to the next save. *)
LEMMA ClaimsInherited ==
  ASSUME Typed, Linked, Move, NEW id, NEW r, NEW m, r # NoRow, Claim(id, r, m)'
  PROVE  Claim(id, r, m)
<1>1. CASE id \in DOMAIN entries' /\ entries'[id].draft = r /\ entries'[id].text.msg = m
  <2>1. Entered(id, entries'[id])
    BY <1>1 DEF Move, EntriesMove
  <2>2. id \in DOMAIN entries /\ Evolved(id, entries'[id])
    BY <1>1, <2>1 DEF Entered
  <2>3. CASE entries'[id].draft \in {entries[id].draft, NoRow}
    BY <1>1, <2>2, <2>3 DEF Evolved, Claim
  <2>4. CASE \E i \in 1..Len(dbEv) : dbEv[i].ev = "saved" /\ dbEv[i].id = id /\ dbEv[i].rows = {entries'[id].draft}
    BY <1>1, <2>2, <2>4 DEF Evolved, Claim, Linked, SaverIsKnown
  <2> QED BY <2>2, <2>3, <2>4 DEF Evolved
<1>2. CASE \E i \in 1..Len(dbQ') : dbQ'[i].op = "save" /\ dbQ'[i].id = id /\ dbQ'[i].row = r /\ dbQ'[i].text.msg = m
  <2>1. PICK k \in Nat : QueueMove(k)
    BY DEF Move
  <2>2. PICK i \in 1..Len(dbQ') : dbQ'[i].op = "save" /\ dbQ'[i].id = id /\ dbQ'[i].row = r /\ dbQ'[i].text.msg = m
    BY <1>2
  <2>3. CASE i + k \in 1..Len(dbQ) /\ OldCommand(dbQ'[i], dbQ[i + k])
    BY <2>2, <2>3 DEF OldCommand, Claim
  <2>4. CASE NewCommand(dbQ'[i])
    BY <2>2, <2>4 DEF NewCommand, Claim
  <2> QED BY <2>1, <2>3, <2>4 DEF QueueMove
<1>3. CASE \E i \in 1..Len(dbEv') : dbEv'[i].ev = "saved" /\ dbEv'[i].id = id /\ dbEv'[i].rows = {r} /\ dbEv'[i].text.msg = m
  BY <1>3 DEF Move, Claim
<1> QED BY <1>1, <1>2, <1>3 DEF Claim

(* An entry that was there before keeps its message and its version only grows;
   any other is new. *)
LEMMA EntryInherited ==
  ASSUME Typed, EntriesMove, NEW id \in DOMAIN entries', id \in 1..lastId
  PROVE  /\ id \in DOMAIN entries /\ entries'[id].text.msg = entries[id].text.msg
         /\ entries'[id].text.v \in Nat /\ entries[id].text.v <= entries'[id].text.v
<1>1. lastId \in Nat
  BY LinkTypes
<1>2. Entered(id, entries'[id])
  BY DEF EntriesMove
<1>3. id \in DOMAIN entries /\ Evolved(id, entries'[id])
  BY <1>1, <1>2 DEF Entered
<1>4. entries[id].text.v \in Nat /\ entries'[id] \in Entry
  BY <1>3, LinkTypes DEF EntriesMove, EntriesOK
<1>5. entries'[id].text.v \in Nat
  BY <1>4 DEF Entry, Text
<1> QED BY <1>3, <1>4, <1>5 DEF Evolved

(* A move keeps the links between entries, queue, answers and table. *)
LEMMA MoveKeepsLinks ==
  ASSUME Typed, Linked, Move
  PROVE  SaverIsKnown' /\ ClaimsAreSound' /\ DeletesAreFinished' /\ VersionsGrow'
<1>1. PICK k \in Nat : QueueMove(k)
  BY DEF Move
<1>2. lastId \in Nat /\ lastId' \in Nat /\ lastId <= lastId' /\ lastRow' = lastRow /\ lastRow \in Nat /\ Len(dbQ) \in Nat
  BY LinkTypes DEF Move, EntriesMove
<1>3. ASSUME NEW i \in 1..Len(dbQ'), dbQ'[i].op = "save"
      PROVE  /\ dbQ'[i].id \in 1..lastId
             /\ dbQ'[i].id \in DOMAIN entries => /\ dbQ'[i].text.msg = entries[dbQ'[i].id].text.msg
                                                 /\ dbQ'[i].text.v <= entries[dbQ'[i].id].text.v
             /\ dbQ'[i].text.v \in Nat
             /\ dbQ'[i].row \in DOMAIN table => table[dbQ'[i].row].v <= dbQ'[i].text.v
  <2>1. CASE i + k \in 1..Len(dbQ) /\ OldCommand(dbQ'[i], dbQ[i + k])
    <3>1. dbQ[i + k].op = "save" /\ dbQ[i + k].text.v \in Nat
      BY <1>3, <2>1, LinkTypes DEF OldCommand
    <3> QED BY <2>1, <3>1 DEF OldCommand, Linked, SaverIsKnown, VersionsGrow
  <2>2. CASE NewCommand(dbQ'[i])
    <3>1. PICK id \in DOMAIN entries : dbQ'[i].id = id /\ dbQ'[i].row = entries[id].draft /\ dbQ'[i].text = entries[id].text
      BY <1>3, <2>2 DEF NewCommand
    <3>2. id \in 1..lastId /\ entries[id].text.v \in Nat /\ entries[id].text.msg \in Nat
      BY LinkTypes
    <3>3. Claim(id, entries[id].draft, entries[id].text.msg)
      BY DEF Claim
    <3> QED BY <3>1, <3>2, <3>3 DEF Linked, VersionsGrow
  <2> QED BY <1>1, <2>1, <2>2 DEF QueueMove
<1>4. SaverIsKnown'
  <2>1. ASSUME NEW i \in 1..Len(dbQ'), dbQ'[i].op = "save"
        PROVE  /\ dbQ'[i].id \in 1..lastId'
               /\ dbQ'[i].id \in DOMAIN entries' => /\ dbQ'[i].text.msg = entries'[dbQ'[i].id].text.msg
                                                    /\ dbQ'[i].text.v <= entries'[dbQ'[i].id].text.v
    <3>1. PICK id \in 1..lastId : dbQ'[i].id = id
      BY <1>3, <2>1
    <3>2. /\ dbQ'[i].text.v \in Nat
          /\ id \in DOMAIN entries => /\ dbQ'[i].text.msg = entries[id].text.msg /\ dbQ'[i].text.v <= entries[id].text.v
                                      /\ entries[id].text.v \in Nat
      BY <1>3, <2>1, <3>1, LinkTypes
    <3>3. id \in DOMAIN entries' => /\ id \in DOMAIN entries /\ entries'[id].text.msg = entries[id].text.msg
                                    /\ entries'[id].text.v \in Nat /\ entries[id].text.v <= entries'[id].text.v
      BY EntryInherited DEF Move
    <3> QED BY <1>2, <3>1, <3>2, <3>3
  <2>2. ASSUME NEW i \in 1..Len(dbEv'), dbEv'[i].ev = "saved"
        PROVE  /\ dbEv'[i].id \in 1..lastId'
               /\ dbEv'[i].id \in DOMAIN entries' => dbEv'[i].text.msg = entries'[dbEv'[i].id].text.msg
    <3>1. PICK j \in 1..Len(dbEv) : dbEv'[i] = dbEv[j]
      BY <2>2 DEF Move
    <3>2. PICK id \in 1..lastId : dbEv[j].id = id
      BY <2>2, <3>1 DEF Linked, SaverIsKnown
    <3>3. id \in DOMAIN entries => dbEv[j].text.msg = entries[id].text.msg
      BY <2>2, <3>1, <3>2 DEF Linked, SaverIsKnown
    <3>4. id \in DOMAIN entries' => id \in DOMAIN entries /\ entries'[id].text.msg = entries[id].text.msg
      BY EntryInherited DEF Move
    <3> QED BY <1>2, <3>1, <3>2, <3>3, <3>4
  <2> QED BY <2>1, <2>2 DEF SaverIsKnown
<1>5. ClaimsAreSound'
  <2> SUFFICES ASSUME NEW r \in 1..lastRow, NEW i \in Nat, NEW m \in Nat, Claim(i, r, m)'
               PROVE  /\ \A j, n \in Nat : Claim(j, r, n)' => i = j /\ m = n
                      /\ r \in DOMAIN table' => table'[r].msg = m
                      /\ r \notin DOMAIN table' => m \in Finished'
    BY <1>2 DEF ClaimsAreSound
  <2>1. r # NoRow
    BY <1>2 DEF NoRow
  <2>2. Claim(i, r, m)
    BY <2>1, ClaimsInherited
  <2>3. \A j, n \in Nat : Claim(j, r, n)' => Claim(j, r, n)
    BY <2>1, ClaimsInherited
  <2>4. \A j, n \in Nat : Claim(j, r, n) => i = j /\ m = n
    BY <2>2 DEF Linked, ClaimsAreSound
  <2>5. (r \in DOMAIN table => table[r].msg = m) /\ (r \notin DOMAIN table => m \in Finished)
    BY <2>2 DEF Linked, ClaimsAreSound
  <2>6. \A s \in DOMAIN table : IF s \in DOMAIN table' THEN table'[s] = table[s] ELSE table[s].msg \in Finished'
    BY DEF Move
  <2>7. DOMAIN table' \subseteq DOMAIN table /\ Finished \subseteq Finished'
    BY DEF Move
  <2> QED BY <2>3, <2>4, <2>5, <2>6, <2>7
<1>6. DeletesAreFinished'
  <2> SUFFICES ASSUME NEW i \in 1..Len(dbQ'), dbQ'[i].op = "delete", dbQ'[i].row \in DOMAIN table'
               PROVE  table'[dbQ'[i].row].msg \in Finished'
    BY DEF DeletesAreFinished
  <2>1. dbQ'[i].row \in DOMAIN table /\ table'[dbQ'[i].row] = table[dbQ'[i].row] /\ Finished \subseteq Finished'
    BY DEF Move
  <2>2. CASE i + k \in 1..Len(dbQ) /\ OldCommand(dbQ'[i], dbQ[i + k])
    BY <2>1, <2>2 DEF OldCommand, Linked, DeletesAreFinished
  <2>3. CASE NewCommand(dbQ'[i])
    BY <2>1, <2>3 DEF NewCommand
  <2> QED BY <1>1, <2>2, <2>3 DEF QueueMove
<1>7. VersionsGrow'
  <2>1. ASSUME NEW i \in 1..Len(dbQ'), NEW j \in 1..Len(dbQ'), i < j,
               dbQ'[i].op = "save", dbQ'[j].op = "save", dbQ'[i].id = dbQ'[j].id
        PROVE  dbQ'[i].text.v <= dbQ'[j].text.v
    <3>1. CASE i + k \in 1..Len(dbQ) /\ OldCommand(dbQ'[i], dbQ[i + k]) /\ j + k \in 1..Len(dbQ) /\ OldCommand(dbQ'[j], dbQ[j + k])
      <4>1. i + k < j + k
        BY <2>1
      <4> QED BY <2>1, <3>1, <4>1 DEF OldCommand, Linked, VersionsGrow
    <3>2. CASE NewCommand(dbQ'[j])
      <4>1. dbQ'[j].id \in DOMAIN entries /\ dbQ'[j].text = entries[dbQ'[j].id].text
        BY <2>1, <3>2 DEF NewCommand
      <4> QED BY <1>3, <2>1, <4>1
    <3>3. CASE i + k > Len(dbQ) /\ j + k \in 1..Len(dbQ)
      BY <1>2, <2>1, <3>3
    <3> QED BY <1>1, <3>1, <3>2, <3>3 DEF QueueMove
  <2>2. ASSUME NEW i \in 1..Len(dbQ'), dbQ'[i].op = "save", dbQ'[i].row \in DOMAIN table'
        PROVE  table'[dbQ'[i].row].v <= dbQ'[i].text.v
    BY <1>3, <2>2 DEF Move
  <2>3. ASSUME NEW r \in DOMAIN table', NEW id \in DOMAIN entries', NEW m \in Nat, Claim(id, r, m)'
        PROVE  table'[r].v <= entries'[id].text.v
    <3>1. r \in DOMAIN table /\ table'[r] = table[r]
      BY DEF Move
    <3>2. r # NoRow /\ table[r].v \in Nat
      BY <1>2, <3>1, LinkTypes DEF NoRow
    <3>3. Claim(id, r, m)
      BY <2>3, <3>2, ClaimsInherited
    <3>4. id \in 1..lastId
      BY <3>3, ClaimTypes DEF Linked
    <3>5. id \in DOMAIN entries /\ entries'[id].text.v \in Nat /\ entries[id].text.v <= entries'[id].text.v
      BY <3>4, EntryInherited DEF Move
    <3>6. entries[id].text.v \in Nat /\ table[r].v <= entries[id].text.v
      BY <3>1, <3>3, <3>5, LinkTypes DEF Linked, VersionsGrow
    <3> QED BY <3>1, <3>2, <3>5, <3>6
  <2> QED BY <2>1, <2>2, <2>3 DEF VersionsGrow
<1> QED BY <1>4, <1>5, <1>6, <1>7

(* A save in the database keeps the links: a new row is nobody's but the
   saver's, and an old one holds the saver's message in no newer version. *)
LEMMA SaveKeepsLinks ==
  ASSUME Typed, Linked, DbSave
  PROVE  SaverIsKnown' /\ ClaimsAreSound' /\ DeletesAreFinished' /\ VersionsGrow'
<1>1. lastId \in Nat /\ lastRow \in Nat /\ Len(dbQ) \in Nat /\ dbQ \in Seq(Command) /\ dbEv \in Seq(Event)
  BY LinkTypes, TypedParts DEF CommandsOK, AnswersOK
<1>2. Cmd = dbQ[1] /\ 1 \in 1..Len(dbQ) /\ dbQ[1].op = "save"
  BY <1>1 DEF DbSave, Took, Cmd
<1>3. Len(dbQ') \in Nat /\ \A i \in 1..Len(dbQ') : i + 1 \in 1..Len(dbQ) /\ dbQ'[i] = dbQ[i + 1] /\ 1 < i + 1
  BY <1>1 DEF DbSave, Took
<1>4. PICK c : c = Cmd
  OBVIOUS
<1>5. /\ c.op = "save" /\ c.id \in 1..lastId /\ c.id \in Nat /\ c.row \in Nat /\ c.row <= lastRow
      /\ c.text.msg \in Nat /\ c.text.v \in Nat
      /\ c.id \in DOMAIN entries => c.text.msg = entries[c.id].text.msg /\ c.text.v <= entries[c.id].text.v
  BY <1>2, <1>4, LinkTypes DEF Linked, SaverIsKnown
<1>6. PICK s \in Nat : s = IF c.row = NoRow THEN lastRow + 1 ELSE c.row
  BY <1>1, <1>5
<1>7. /\ lastId' = lastId /\ entries' = entries /\ Finished' = Finished
      /\ lastRow' = (IF c.row = NoRow THEN lastRow + 1 ELSE lastRow)
      /\ table' = IF c.row = NoRow \/ c.row \in DOMAIN table THEN Put(table, s, c.text) ELSE table
  BY <1>4, <1>6 DEF DbSave, ui, history, Finished
<1>8. ASSUME NEW i \in 1..Len(dbEv'), dbEv'[i].ev = "saved"
      PROVE  \/ i \in 1..Len(dbEv) /\ dbEv'[i] = dbEv[i]
             \/ dbEv'[i].id = c.id /\ dbEv'[i].rows = {s} /\ dbEv'[i].text = c.text
  <2> DEFINE a == [ev |-> "saved", id |-> c.id, rows |-> {s}, text |-> c.text]
  <2>1. a.id = c.id /\ a.rows = {s} /\ a.text = c.text
    OBVIOUS
  <2>2. dbEv' \in {dbEv, Append(dbEv, a)}
    BY <1>4, <1>6 DEF DbSave, Answer, SavedRow
  <2> HIDE DEF a
  <2> QED BY <1>1, <2>1, <2>2
<1>9. \A id, r, m : Claim(id, r, m)' => Claim(id, r, m) \/ (id = c.id /\ r = s /\ m = c.text.msg)
  <2> SUFFICES ASSUME NEW id, NEW r, NEW m, Claim(id, r, m)'
               PROVE  Claim(id, r, m) \/ (id = c.id /\ r = s /\ m = c.text.msg)
    OBVIOUS
  <2>1. CASE id \in DOMAIN entries' /\ entries'[id].draft = r /\ entries'[id].text.msg = m
    BY <1>7, <2>1 DEF Claim
  <2>2. CASE \E i \in 1..Len(dbQ') : dbQ'[i].op = "save" /\ dbQ'[i].id = id /\ dbQ'[i].row = r /\ dbQ'[i].text.msg = m
    BY <1>3, <2>2 DEF Claim
  <2>3. CASE \E i \in 1..Len(dbEv') : dbEv'[i].ev = "saved" /\ dbEv'[i].id = id /\ dbEv'[i].rows = {r} /\ dbEv'[i].text.msg = m
    <3>1. PICK i \in 1..Len(dbEv') : dbEv'[i].ev = "saved" /\ dbEv'[i].id = id /\ dbEv'[i].rows = {r} /\ dbEv'[i].text.msg = m
      BY <2>3
    <3>2. CASE i \in 1..Len(dbEv) /\ dbEv'[i] = dbEv[i]
      BY <3>1, <3>2 DEF Claim
    <3>3. CASE dbEv'[i].id = c.id /\ dbEv'[i].rows = {s} /\ dbEv'[i].text = c.text
      BY <3>1, <3>3
    <3> QED BY <1>8, <3>1, <3>2, <3>3
  <2> QED BY <2>1, <2>2, <2>3 DEF Claim
<1>10. SaverIsKnown'
  <2>1. ASSUME NEW i \in 1..Len(dbQ'), dbQ'[i].op = "save"
        PROVE  /\ dbQ'[i].id \in 1..lastId'
               /\ dbQ'[i].id \in DOMAIN entries' => /\ dbQ'[i].text.msg = entries'[dbQ'[i].id].text.msg
                                                    /\ dbQ'[i].text.v <= entries'[dbQ'[i].id].text.v
    BY <1>3, <1>7, <2>1 DEF Linked, SaverIsKnown
  <2>2. ASSUME NEW i \in 1..Len(dbEv'), dbEv'[i].ev = "saved"
        PROVE  /\ dbEv'[i].id \in 1..lastId'
               /\ dbEv'[i].id \in DOMAIN entries' => dbEv'[i].text.msg = entries'[dbEv'[i].id].text.msg
    BY <1>5, <1>7, <1>8, <2>2 DEF Linked, SaverIsKnown
  <2> QED BY <2>1, <2>2 DEF SaverIsKnown
<1>11. \A i, j \in 1..Len(dbQ') :
         i < j /\ dbQ'[i].op = "save" /\ dbQ'[j].op = "save" /\ dbQ'[i].id = dbQ'[j].id => dbQ'[i].text.v <= dbQ'[j].text.v
  <2> SUFFICES ASSUME NEW i \in 1..Len(dbQ'), NEW j \in 1..Len(dbQ'), i < j,
                      dbQ'[i].op = "save", dbQ'[j].op = "save", dbQ'[i].id = dbQ'[j].id
               PROVE  dbQ'[i].text.v <= dbQ'[j].text.v
    OBVIOUS
  <2>1. i + 1 < j + 1
    OBVIOUS
  <2> QED BY <1>3, <2>1 DEF Linked, VersionsGrow
<1>12. CASE c.row = NoRow
  <2>1. s = lastRow + 1 /\ lastRow' = lastRow + 1 /\ table' = Put(table, s, c.text)
    BY <1>6, <1>7, <1>12
  <2>2. /\ DOMAIN table' = DOMAIN table \cup {s} /\ table'[s] = c.text /\ s \notin DOMAIN table
        /\ \A r \in DOMAIN table : table'[r] = table[r]
    BY <1>1, <2>1, LinkTypes DEF Put
  <2>3. \A id, m : ~Claim(id, s, m)
    BY <1>1, <2>1, ClaimTypes DEF Linked
  <2>4. \A i \in 1..Len(dbQ') : dbQ'[i].row \in Nat /\ dbQ'[i].row <= lastRow
    BY <1>3, LinkTypes
  <2>5. ClaimsAreSound'
    <3> SUFFICES ASSUME NEW r \in 1..(lastRow + 1), NEW i \in Nat, NEW m \in Nat, Claim(i, r, m)'
                 PROVE  /\ \A j, n \in Nat : Claim(j, r, n)' => i = j /\ m = n
                        /\ r \in DOMAIN table' => table'[r].msg = m
                        /\ r \notin DOMAIN table' => m \in Finished'
      BY <2>1 DEF ClaimsAreSound
    <3>1. CASE r = s
      BY <1>9, <2>2, <2>3, <3>1
    <3>2. CASE r # s
      <4>1. r \in 1..lastRow /\ Claim(i, r, m) /\ \A j, n \in Nat : Claim(j, r, n)' => Claim(j, r, n)
        BY <1>1, <1>9, <2>1, <3>2
      <4>2. /\ \A j, n \in Nat : Claim(j, r, n) => i = j /\ m = n
            /\ (r \in DOMAIN table => table[r].msg = m) /\ (r \notin DOMAIN table => m \in Finished)
        BY <4>1 DEF Linked, ClaimsAreSound
      <4> QED BY <1>7, <2>2, <3>2, <4>1, <4>2
    <3> QED BY <3>1, <3>2
  <2>6. DeletesAreFinished'
    <3> SUFFICES ASSUME NEW i \in 1..Len(dbQ'), dbQ'[i].op = "delete", dbQ'[i].row \in DOMAIN table'
                 PROVE  table'[dbQ'[i].row].msg \in Finished'
      BY DEF DeletesAreFinished
    <3>1. dbQ'[i].row \in DOMAIN table /\ table'[dbQ'[i].row] = table[dbQ'[i].row]
      BY <1>1, <2>1, <2>2, <2>4
    <3> QED BY <1>3, <1>7, <3>1 DEF Linked, DeletesAreFinished
  <2>7. \A i \in 1..Len(dbQ') : dbQ'[i].op = "save" /\ dbQ'[i].row \in DOMAIN table' => table'[dbQ'[i].row].v <= dbQ'[i].text.v
    <3> SUFFICES ASSUME NEW i \in 1..Len(dbQ'), dbQ'[i].op = "save", dbQ'[i].row \in DOMAIN table'
                 PROVE  table'[dbQ'[i].row].v <= dbQ'[i].text.v
      OBVIOUS
    <3>1. dbQ'[i].row \in DOMAIN table /\ table'[dbQ'[i].row] = table[dbQ'[i].row]
      BY <1>1, <2>1, <2>2, <2>4
    <3> QED BY <1>3, <3>1 DEF Linked, VersionsGrow
  <2>8. \A r \in DOMAIN table', id \in DOMAIN entries', m \in Nat : Claim(id, r, m)' => table'[r].v <= entries'[id].text.v
    <3> SUFFICES ASSUME NEW r \in DOMAIN table', NEW id \in DOMAIN entries', NEW m \in Nat, Claim(id, r, m)'
                 PROVE  table'[r].v <= entries'[id].text.v
      OBVIOUS
    <3>1. CASE r = s
      BY <1>5, <1>7, <1>9, <2>2, <2>3, <3>1
    <3>2. CASE r # s
      <4>1. r \in DOMAIN table /\ Claim(id, r, m) /\ table'[r] = table[r] /\ id \in DOMAIN entries
        BY <1>7, <1>9, <2>2, <3>2
      <4> QED BY <1>7, <4>1 DEF Linked, VersionsGrow
    <3> QED BY <3>1, <3>2
  <2> QED BY <1>10, <1>11, <2>5, <2>6, <2>7, <2>8 DEF VersionsGrow
<1>13. CASE c.row # NoRow
  <2>1. s = c.row /\ s \in 1..lastRow /\ lastRow' = lastRow /\ table' = IF s \in DOMAIN table THEN Put(table, s, c.text) ELSE table
    BY <1>1, <1>5, <1>6, <1>7, <1>13 DEF NoRow
  <2>2. Claim(c.id, s, c.text.msg)
    BY <1>2, <1>4, <2>1 DEF Claim
  <2>3. \A id, r, m : Claim(id, r, m)' => Claim(id, r, m)
    BY <1>9, <2>2
  <2>4. /\ s \in DOMAIN table => table[s].msg = c.text.msg
        /\ \A j, n \in Nat : Claim(j, s, n) => c.id = j /\ c.text.msg = n
    BY <1>5, <2>1, <2>2 DEF Linked, ClaimsAreSound
  <2>5. /\ DOMAIN table' = DOMAIN table
        /\ \A r \in DOMAIN table : r # s => table'[r] = table[r]
        /\ s \in DOMAIN table => table'[s] = c.text
        /\ \A r \in DOMAIN table : table'[r].msg = table[r].msg
    <3>1. CASE s \in DOMAIN table
      BY <2>1, <2>4, <3>1 DEF Put
    <3>2. CASE s \notin DOMAIN table
      BY <2>1, <3>2
    <3> QED BY <3>1, <3>2
  <2>6. ClaimsAreSound'
    <3> SUFFICES ASSUME NEW r \in 1..lastRow, NEW i \in Nat, NEW m \in Nat, Claim(i, r, m)'
                 PROVE  /\ \A j, n \in Nat : Claim(j, r, n)' => i = j /\ m = n
                        /\ r \in DOMAIN table' => table'[r].msg = m
                        /\ r \notin DOMAIN table' => m \in Finished'
      BY <2>1 DEF ClaimsAreSound
    <3>1. Claim(i, r, m) /\ \A j, n \in Nat : Claim(j, r, n)' => Claim(j, r, n)
      BY <2>3
    <3>2. /\ \A j, n \in Nat : Claim(j, r, n) => i = j /\ m = n
          /\ (r \in DOMAIN table => table[r].msg = m) /\ (r \notin DOMAIN table => m \in Finished)
      BY <3>1 DEF Linked, ClaimsAreSound
    <3> QED BY <1>7, <2>5, <3>1, <3>2
  <2>7. DeletesAreFinished'
    BY <1>3, <1>7, <2>5 DEF Linked, DeletesAreFinished
  <2>8. \A i \in 1..Len(dbQ') : dbQ'[i].op = "save" /\ dbQ'[i].row \in DOMAIN table' => table'[dbQ'[i].row].v <= dbQ'[i].text.v
    <3> SUFFICES ASSUME NEW i \in 1..Len(dbQ'), dbQ'[i].op = "save", dbQ'[i].row \in DOMAIN table'
                 PROVE  table'[dbQ'[i].row].v <= dbQ'[i].text.v
      OBVIOUS
    <3>1. CASE dbQ'[i].row # s
      <4>1. dbQ[i + 1].op = "save" /\ dbQ[i + 1].row \in DOMAIN table /\ table'[dbQ[i + 1].row] = table[dbQ[i + 1].row]
        BY <1>3, <2>5, <3>1
      <4>2. table[dbQ[i + 1].row].v <= dbQ[i + 1].text.v
        BY <1>3, <4>1 DEF Linked, VersionsGrow
      <4> QED BY <1>3, <4>1, <4>2
    <3>2. CASE dbQ'[i].row = s
      <4>1. Claim(dbQ[i + 1].id, s, dbQ[i + 1].text.msg)
        BY <1>3, <3>2 DEF Claim
      <4>2. dbQ[i + 1].id = c.id
        BY <1>3, <2>4, <4>1, LinkTypes
      <4>3. dbQ[1].text.v <= dbQ[i + 1].text.v
        BY <1>2, <1>3, <1>4, <4>2 DEF Linked, VersionsGrow
      <4> QED BY <1>2, <1>3, <1>4, <2>5, <3>2, <4>3
    <3> QED BY <3>1, <3>2
  <2>9. \A r \in DOMAIN table', id \in DOMAIN entries', m \in Nat : Claim(id, r, m)' => table'[r].v <= entries'[id].text.v
    <3> SUFFICES ASSUME NEW r \in DOMAIN table', NEW id \in DOMAIN entries', NEW m \in Nat, Claim(id, r, m)'
                 PROVE  table'[r].v <= entries'[id].text.v
      OBVIOUS
    <3>1. r \in DOMAIN table /\ Claim(id, r, m) /\ id \in DOMAIN entries /\ id \in Nat
      BY <1>7, <2>3, <2>5, LinkTypes
    <3>2. CASE r = s
      BY <1>5, <1>7, <2>4, <2>5, <3>1, <3>2
    <3>3. CASE r # s
      BY <1>7, <2>5, <3>1, <3>3 DEF Linked, VersionsGrow
    <3> QED BY <3>2, <3>3
  <2> QED BY <1>10, <1>11, <2>6, <2>7, <2>8, <2>9 DEF VersionsGrow
<1> QED BY <1>12, <1>13

(* After a crash there is nothing left to link. *)
LEMMA CrashKeepsLinks ==
  ASSUME Typed, Linked, Crash
  PROVE  SaverIsKnown' /\ ClaimsAreSound' /\ DeletesAreFinished' /\ SettledIsFinished' /\ VersionsGrow'
<1>1. DOMAIN entries' = {} /\ 1..Len(dbQ') = {} /\ 1..Len(dbEv') = {}
  BY DEF Crash, Empty
<1>2. \A id, r, m : ~Claim(id, r, m)'
  BY <1>1 DEF Claim
<1> QED BY <1>1, <1>2 DEF SaverIsKnown, ClaimsAreSound, DeletesAreFinished, SettledIsFinished, VersionsGrow

(* What the UI thread sends goes to the end of the queue, if there is room. *)
LEMMA Queued ==
  ASSUME Typed, NEW c \in Command, NewCommand(c), NEW d \in Command, NewCommand(d),
         dbQ' \in {dbQ, PushOn(dbQ, c), PushOn(PushOn(dbQ, c), d)}
  PROVE  QueueMove(0)
<1>1. dbQ \in Seq(Command) /\ Len(dbQ) \in Nat
  BY TypedParts DEF CommandsOK
<1>2. /\ \A i \in 1..Len(dbQ) : i + 0 \in 1..Len(dbQ) /\ OldCommand(dbQ[i], dbQ[i + 0])
      /\ Append(dbQ, c) \in Seq(Command) /\ Append(dbQ, d) \in Seq(Command) /\ Append(Append(dbQ, c), d) \in Seq(Command)
  BY <1>1 DEF OldCommand
<1>3. dbQ' \in {dbQ, Append(dbQ, c), Append(dbQ, d), Append(Append(dbQ, c), d)}
  BY DEF PushOn
<1>4. CASE dbQ' = dbQ
  BY <1>2, <1>4 DEF QueueMove
<1>5. ASSUME NEW e \in {c, d}, dbQ' = Append(dbQ, e)
      PROVE  QueueMove(0)
  BY <1>1, <1>2, <1>5 DEF QueueMove
<1>6. CASE dbQ' = Append(Append(dbQ, c), d)
  <2>1. /\ Len(dbQ') = Len(dbQ) + 2 /\ dbQ'[Len(dbQ) + 1] = c /\ dbQ'[Len(dbQ) + 2] = d
        /\ \A i \in 1..Len(dbQ) : dbQ'[i] = dbQ[i]
    BY <1>1, <1>6
  <2> QED BY <1>1, <1>2, <2>1 DEF QueueMove
<1> QED BY <1>3, <1>4, <1>5, <1>6

(* The actor takes the command at the head. *)
LEMMA Dequeued ==
  ASSUME Typed, Took
  PROVE  QueueMove(1) /\ Cmd = dbQ[1] /\ 1 \in 1..Len(dbQ)
<1>1. dbQ \in Seq(Command) /\ dbQ # <<>> /\ dbQ' = Tail(dbQ)
  BY TypedParts DEF CommandsOK, Took
<1> QED BY <1>1 DEF QueueMove, OldCommand, Cmd

(* Every step does a move to the queue, or the application crashes: a row that
   is to be deleted is one whose message is finished. *)
LEMMA QueueMoves ==
  ASSUME Typed, Linked, Next
  PROVE  Crash \/ \E k \in Nat : QueueMove(k)
<1>1. /\ lastRow \in Nat /\ lastId \in Nat /\ listed \subseteq 1..lastRow /\ NoRow \in Nat /\ Finished' = sent' \cup discarded' \cup deleted'
  BY TypedParts DEF NoRow, Finished
<1>2. RowCmd("list", NoRow) \in Command /\ NewCommand(RowCmd("list", NoRow))
  BY <1>1, CommandTypes DEF NewCommand
<1>3. ASSUME NEW c \in Command, NewCommand(c), dbQ' \in {dbQ, Push(c), PushOn(Push(c), RowCmd("list", NoRow))}
      PROVE  \E k \in Nat : QueueMove(k)
  <2>1. QueueMove(0)
    BY <1>2, <1>3, Queued, PushIsOn
  <2> QED BY <2>1
<1>4. ASSUME dbQ' = dbQ
      PROVE  \E k \in Nat : QueueMove(k)
  BY <1>2, <1>3, <1>4
<1>5. ASSUME NEW id \in DOMAIN entries, SaveDraft(id)
      PROVE  \E k \in Nat : QueueMove(k)
  <2> DEFINE c == SaveCmd(id, entries[id].draft, entries[id].text)
  <2>1. id \in Nat /\ entries[id].draft \in Nat /\ entries[id].text \in Text
    BY LinkTypes
  <2>2. c \in Command
    BY <2>1, CommandTypes
  <2>3. c.op = "save" /\ c.id = id /\ c.row = entries[id].draft /\ c.text = entries[id].text
    BY DEF SaveCmd
  <2>4. dbQ' = Push(c)
    BY <1>5 DEF SaveDraft
  <2> HIDE DEF c
  <2> QED BY <1>3, <2>2, <2>3, <2>4 DEF NewCommand
<1>6. ASSUME NEW id \in DOMAIN entries, dbQ' = SettleCmd(id), entries[id].text.msg \in Finished'
      PROVE  \E k \in Nat : QueueMove(k)
  <2>1. PICK r \in Nat : r = entries[id].draft
    BY LinkTypes
  <2>2. RowCmd("delete", r) \in Command /\ RowCmd("delete", r).op = "delete" /\ RowCmd("delete", r).row = r
    BY CommandTypes
  <2>3. r \in DOMAIN table => table[r].msg = entries[id].text.msg
    <3>1. Claim(id, r, entries[id].text.msg)
      BY <2>1 DEF Claim
    <3>2. id \in Nat /\ entries[id].text.msg \in Nat /\ (r \in DOMAIN table => r \in 1..lastRow)
      BY LinkTypes
    <3> QED BY <3>1, <3>2 DEF Linked, ClaimsAreSound
  <2>4. NewCommand(RowCmd("delete", r))
    BY <1>6, <2>2, <2>3 DEF NewCommand
  <2>5. dbQ' \in {dbQ, Push(RowCmd("delete", r))}
    BY <1>6, <2>1 DEF SettleCmd
  <2> QED BY <1>3, <2>2, <2>4, <2>5
<1>7. ASSUME NEW id \in DOMAIN entries, Discard(id)
      PROVE  \E k \in Nat : QueueMove(k)
  BY <1>1, <1>6, <1>7 DEF Discard
<1>8. ASSUME NEW id \in DOMAIN sends, OutcomeSent(id)
      PROVE  \E k \in Nat : QueueMove(k)
  <2>1. CASE id \in DOMAIN entries
    BY <1>1, <1>6, <1>8, <2>1 DEF OutcomeSent, Linked, SettledIsFinished
  <2>2. CASE id \notin DOMAIN entries
    <3>1. dbQ' = dbQ
      BY <1>8, <2>2 DEF OutcomeSent
    <3> QED BY <1>4, <3>1
  <2> QED BY <2>1, <2>2
<1>9. CASE ShowDrafts
  BY <1>2, <1>3, <1>9 DEF ShowDrafts
<1>10. ASSUME NEW r \in listed, OpenDraft(r)
       PROVE  \E k \in Nat : QueueMove(k)
  <2>1. RowCmd("load", r) \in Command /\ NewCommand(RowCmd("load", r))
    BY <1>1, CommandTypes DEF NewCommand
  <2> QED BY <1>3, <1>10, <2>1 DEF OpenDraft
<1>11. ASSUME NEW r \in listed, DeleteDraft(r)
       PROVE  \E k \in Nat : QueueMove(k)
  <2>1. RowCmd("delete", r) \in Command /\ RowCmd("delete", r).op = "delete" /\ RowCmd("delete", r).row = r
    BY <1>1, CommandTypes
  <2>2. r \in DOMAIN table => table[r].msg \in deleted'
    BY <1>11 DEF DeleteDraft
  <2>3. NewCommand(RowCmd("delete", r))
    BY <1>1, <2>1, <2>2 DEF NewCommand
  <2>4. dbQ' = PushOn(Push(RowCmd("delete", r)), RowCmd("list", NoRow))
    BY <1>11 DEF DeleteDraft, PushOn
  <2> QED BY <1>3, <2>1, <2>3, <2>4
<1>12. CASE CacheActor
  BY <1>12, Dequeued DEF CacheActor, DbSave, DbDelete, DbRead, DbError
<1>13. CASE DraftSaved
  <2>1. CASE Ev.id \notin DOMAIN entries
    BY <1>4, <1>13, <2>1 DEF DraftSaved
  <2>2. CASE Ev.id \in DOMAIN entries
    <3>1. PICK id \in DOMAIN entries : id = Ev.id
      BY <2>2
    <3>2. Ev = dbEv[1] /\ 1 \in 1..Len(dbEv) /\ Ev.ev = "saved" /\ dbQ' = IF entries[id].settled THEN Push(RowCmd("delete", TheRow)) ELSE dbQ
      BY <1>13, <3>1, DrainedTyped DEF DraftSaved, SaveCame, KeepRow
    <3>3. PICK n \in 1..lastRow : dbEv[1].rows = {n}
      BY <3>2, LinkTypes
    <3>4. TheRow = n
      BY <3>2, <3>3 DEF TheRow
    <3>5. CASE entries[id].settled
      <4>1. RowCmd("delete", n) \in Command /\ RowCmd("delete", n).op = "delete" /\ RowCmd("delete", n).row = n
        BY <1>1, CommandTypes
      <4>2. Claim(id, n, entries[id].text.msg)
        BY <3>1, <3>2, <3>3 DEF Claim, Linked, SaverIsKnown
      <4>3. id \in Nat /\ entries[id].text.msg \in Nat
        BY LinkTypes
      <4>4. n \in DOMAIN table => table[n].msg = entries[id].text.msg
        BY <4>2, <4>3 DEF Linked, ClaimsAreSound
      <4>5. entries[id].text.msg \in Finished
        BY <3>5 DEF Linked, SettledIsFinished
      <4>6. Finished' = Finished
        BY <1>13 DEF DraftSaved, history, Finished
      <4>7. NewCommand(RowCmd("delete", n))
        BY <4>1, <4>4, <4>5, <4>6 DEF NewCommand
      <4> QED BY <1>3, <3>2, <3>4, <3>5, <4>1, <4>7
    <3>6. CASE ~entries[id].settled
      BY <1>4, <3>2, <3>6
    <3> QED BY <3>5, <3>6
  <2> QED BY <2>1, <2>2
<1>14. CASE Reload
  <2>1. dbQ' = [i \in 1..Len(dbQ) |-> [dbQ[i] EXCEPT !.reply = FALSE]] /\ dbQ \in Seq(Command) /\ Len(dbQ) \in Nat
    BY <1>14, TypedParts DEF Reload, CommandsOK
  <2>2. Len(dbQ') = Len(dbQ) /\ \A i \in 1..Len(dbQ) : dbQ'[i] = [dbQ[i] EXCEPT !.reply = FALSE] /\ dbQ[i] \in Command
    BY <2>1
  <2>3. \A i \in 1..Len(dbQ) : OldCommand(dbQ'[i], dbQ[i])
    BY <2>2, ReplyDropped DEF OldCommand
  <2>4. QueueMove(0)
    BY <2>1, <2>2, <2>3 DEF QueueMove
  <2> QED BY <2>4
<1> QED
  BY <1>4, <1>5, <1>7, <1>8, <1>9, <1>10, <1>11, <1>12, <1>13, <1>14
  DEF Next, User, Outcomes, Drain, Windows, NewCompose, Edit, Send, Close, CloseDrafts, OutcomeFailed, DraftLoaded, DraftsListed, db

(* A finished message stays finished. *)
LEMMA FinishedGrows ==
  ASSUME Next
  PROVE  Finished \subseteq Finished'
BY DEF Finished, Next, User, Outcomes, CacheActor, Drain, NewCompose, Edit, Send, Close, Discard, SaveDraft, ShowDrafts,
       CloseDrafts, OpenDraft, DeleteDraft, OutcomeSent, OutcomeFailed, DbSave, DbDelete, DbRead, DbError, DraftSaved,
       DraftLoaded, DraftsListed, Reload, Crash, history

(* Every step is a move, a save in the database or a crash. *)
LEMMA NextMoves ==
  ASSUME Typed, Linked, Next
  PROVE  Move \/ DbSave \/ Crash
<1> SUFFICES ASSUME ~DbSave, ~Crash
             PROVE  Move
  OBVIOUS
<1>1. lastId \in Nat /\ dbEv \in Seq(Event)
  BY TypedParts DEF AnswersOK
<1>2. EntriesMove /\ \E k \in Nat : QueueMove(k)
  BY EntriesStep, QueueMoves
<1>3. lastId' \in {lastId, lastId + 1}
  BY DEF Next, User, Outcomes, CacheActor, Drain, NewCompose, StartCompose, Edit, Send, Close, Discard, SaveDraft, ShowDrafts,
         CloseDrafts, OpenDraft, DeleteDraft, OutcomeSent, OutcomeFailed, DbDelete, DbRead, DbError, DraftSaved,
         DraftLoaded, DraftsListed, Reload, ui
<1>4. lastRow' = lastRow /\ (table' = table \/ DbDelete)
  BY DEF Next, User, Outcomes, CacheActor, Drain, NewCompose, Edit, Send, Close, Discard, SaveDraft, ShowDrafts,
         CloseDrafts, OpenDraft, DeleteDraft, OutcomeSent, OutcomeFailed, DbDelete, DbRead, DbError, DraftSaved,
         DraftLoaded, DraftsListed, Reload, db
<1>5. Finished \subseteq Finished'
  BY FinishedGrows
<1>6. /\ DOMAIN table' \subseteq DOMAIN table
      /\ \A r \in DOMAIN table : IF r \in DOMAIN table' THEN table'[r] = table[r] ELSE table[r].msg \in Finished'
  <2>1. CASE table' = table
    BY <2>1
  <2>2. CASE DbDelete
    <3>1. Cmd = dbQ[1] /\ 1 \in 1..Len(dbQ) /\ Cmd.op = "delete" /\ table' = Without(table, Cmd.row)
      BY <2>2, Dequeued DEF DbDelete
    <3>2. Cmd.row \in DOMAIN table => table[Cmd.row].msg \in Finished
      BY <3>1 DEF Linked, DeletesAreFinished
    <3> QED BY <1>5, <3>1, <3>2 DEF Without
  <2> QED BY <1>4, <2>1, <2>2
<1>7. \A i \in 1..Len(dbEv') : dbEv'[i].ev = "saved" => \E j \in 1..Len(dbEv) : dbEv'[i] = dbEv[j]
  <2>1. CASE dbEv' = dbEv
    BY <2>1
  <2>2. CASE dbEv' = <<>>
    BY <2>2
  <2>3. CASE dbEv # <<>> /\ dbEv' = Tail(dbEv)
    <3>1. \A i \in 1..Len(dbEv') : i + 1 \in 1..Len(dbEv) /\ dbEv'[i] = dbEv[i + 1]
      BY <1>1, <2>3
    <3> QED BY <3>1
  <2>4. ASSUME NEW ev, NEW rows, NEW text, Answer(ev, rows, text), ev # "saved"
        PROVE  \A i \in 1..Len(dbEv') : dbEv'[i].ev = "saved" => \E j \in 1..Len(dbEv) : dbEv'[i] = dbEv[j]
    <3> DEFINE a == [ev |-> ev, id |-> Cmd.id, rows |-> rows, text |-> text]
    <3>1. a.ev # "saved" /\ dbEv' \in {dbEv, Append(dbEv, a)}
      BY <2>4 DEF Answer
    <3> HIDE DEF a
    <3> QED BY <1>1, <3>1
  <2>5. CASE DbRead
    BY <2>1, <2>4, <2>5 DEF DbRead
  <2> QED
    BY <2>1, <2>2, <2>3, <2>5
    DEF Next, User, Outcomes, CacheActor, Drain, NewCompose, Edit, Send, Close, Discard, SaveDraft, ShowDrafts,
         CloseDrafts, OpenDraft, DeleteDraft, OutcomeSent, OutcomeFailed, DbDelete, DbError, DraftSaved,
         DraftLoaded, DraftsListed, Reload, db
<1> QED BY <1>1, <1>2, <1>3, <1>4, <1>5, <1>6, <1>7 DEF Move

(* A settled entry's message is finished, and sends keep their message. *)
LEMMA SettledStep ==
  ASSUME Typed, Linked, Next
  PROVE  SettledIsFinished'
<1>1. /\ Finished \subseteq Finished' /\ lastId \in Nat /\ DOMAIN sends \subseteq 1..lastId /\ EntriesOK(entries, lastId, lastRow)
      /\ \A i \in DOMAIN entries : /\ entries[i].settled => entries[i].text.msg \in Finished
                                   /\ i \in DOMAIN sends => sends[i].msg = entries[i].text.msg
  BY FinishedGrows, TypedParts DEF Linked, SettledIsFinished
<1>2. ASSUME DOMAIN sends' \subseteq DOMAIN sends, \A i \in DOMAIN sends' : sends'[i].msg = sends[i].msg,
             NEW x \in DOMAIN entries, NEW e, e.text.msg = entries[x].text.msg,
             e.settled => entries[x].settled \/ entries[x].text.msg \in Finished',
             entries' \in {[entries EXCEPT ![x] = e], ForgetIfDone([entries EXCEPT ![x] = e], x)}
      PROVE  SettledIsFinished'
  <2> DEFINE es == [entries EXCEPT ![x] = e]
  <2>1. \A i \in DOMAIN es : i \in DOMAIN entries /\ es[i] = IF i = x THEN e ELSE entries[i]
    OBVIOUS
  <2>2. \A i \in DOMAIN ForgetIfDone(es, x) : i \in DOMAIN es /\ ForgetIfDone(es, x)[i] = es[i]
    BY DEF ForgetIfDone, Without
  <2>3. entries' = es \/ entries' = ForgetIfDone(es, x)
    BY <1>2
  <2> HIDE DEF es
  <2>4. \A i \in DOMAIN entries' : i \in DOMAIN entries /\ entries'[i] = IF i = x THEN e ELSE entries[i]
    BY <2>1, <2>2, <2>3
  <2> QED BY <1>1, <1>2, <2>4 DEF SettledIsFinished
<1>3. ASSUME entries' = entries, \A i \in DOMAIN sends' : \/ i \in DOMAIN sends /\ sends'[i].msg = sends[i].msg
                                                          \/ sends'[i].msg = entries[i].text.msg
      PROVE  SettledIsFinished'
  BY <1>1, <1>3 DEF SettledIsFinished
<1>4. ASSUME NEW text, StartCompose(text), sends' = sends
      PROVE  SettledIsFinished'
  <2> DEFINE e == [open |-> TRUE, text |-> text, asked |-> text.v, draft |-> NoRow, pending |-> 0, settled |-> FALSE]
  <2>1. entries' = Put(entries, lastId + 1, e) /\ ~e.settled /\ lastId + 1 \notin DOMAIN sends
    BY <1>1, <1>4 DEF StartCompose
  <2> HIDE DEF e
  <2>2. \A i \in DOMAIN entries' : IF i = lastId + 1 THEN entries'[i] = e ELSE i \in DOMAIN entries /\ entries'[i] = entries[i]
    BY <2>1 DEF Put
  <2> QED BY <1>1, <1>4, <2>1, <2>2 DEF SettledIsFinished
<1>5. ASSUME NEW id \in DOMAIN entries, Edit(id) \/ SaveDraft(id) \/ Close(id)
      PROVE  SettledIsFinished'
  <2>1. entries[id] \in Entry /\ sends' = sends
    BY <1>1, <1>5 DEF EntriesOK, Edit, SaveDraft, Close
  <2>2. CASE Edit(id)
    <3> DEFINE e == [entries[id] EXCEPT !.text.v = @ + 1]
    <3>1. e.text.msg = entries[id].text.msg /\ e.settled = entries[id].settled
      BY <2>1, EntryEdited
    <3>2. entries' = [entries EXCEPT ![id] = e]
      BY <2>2 DEF Edit
    <3> HIDE DEF e
    <3> QED BY <1>2, <2>1, <3>1, <3>2
  <2>3. CASE SaveDraft(id)
    <3> DEFINE e == [entries[id] EXCEPT !.asked = entries[id].text.v, !.pending = @ + 1]
    <3>1. e.text = entries[id].text /\ e.settled = entries[id].settled
      <4>1. entries[id].text.v \in Nat /\ entries[id].pending + 1 \in Nat
        BY <2>1 DEF Entry, Text
      <4>2. e = Saving(entries[id], entries[id].text.v, entries[id].pending + 1)
        BY DEF Saving
      <4> HIDE DEF e
      <4> QED BY <2>1, <4>1, <4>2, EntrySaves
    <3>2. entries' = [entries EXCEPT ![id] = e]
      BY <2>3 DEF SaveDraft
    <3> HIDE DEF e
    <3> QED BY <1>2, <2>1, <3>1, <3>2
  <2>4. CASE Close(id)
    <3> DEFINE e == [entries[id] EXCEPT !.open = FALSE]
    <3>1. e.text = entries[id].text /\ e.settled = entries[id].settled
      BY <2>1, EntryCloses
    <3>2. entries' = ForgetIfDone([entries EXCEPT ![id] = e], id)
      BY <2>4 DEF Close
    <3> HIDE DEF e
    <3> QED BY <1>2, <2>1, <3>1, <3>2
  <2> QED BY <1>5, <2>2, <2>3, <2>4
<1>6. ASSUME NEW id \in DOMAIN entries, sends' = Without(sends, id), entries' = ForgetIfDone(Settled(id), id),
             entries[id].text.msg \in Finished'
      PROVE  SettledIsFinished'
  <2> DEFINE e == [entries[id] EXCEPT !.settled = TRUE, !.draft = NoRow, !.open = FALSE]
  <2>1. entries[id] \in Entry
    BY <1>1 DEF EntriesOK
  <2>2. e.text = entries[id].text
    BY <2>1, EntrySettles
  <2>3. entries' = ForgetIfDone([entries EXCEPT ![id] = e], id)
    BY <1>6 DEF Settled
  <2>4. DOMAIN sends' \subseteq DOMAIN sends /\ \A i \in DOMAIN sends' : sends'[i].msg = sends[i].msg
    BY <1>6 DEF Without
  <2> HIDE DEF e
  <2> QED BY <1>2, <1>6, <2>2, <2>3, <2>4
<1>7. ASSUME NEW id \in DOMAIN entries, Discard(id)
      PROVE  SettledIsFinished'
  <2>1. sends' = Without(sends, id) /\ entries' = ForgetIfDone(Settled(id), id) /\ entries[id].text.msg \in discarded'
    BY <1>7 DEF Discard
  <2> QED BY <1>6, <2>1 DEF Finished
<1>8. ASSUME NEW id \in DOMAIN sends, OutcomeSent(id)
      PROVE  SettledIsFinished'
  <2>1. sends' = Without(sends, id) /\ sends[id].msg \in sent'
    BY <1>8 DEF OutcomeSent
  <2>2. CASE id \in DOMAIN entries
    <3>1. entries' = ForgetIfDone(Settled(id), id) /\ entries[id].text.msg \in Finished'
      BY <1>1, <1>8, <2>1, <2>2 DEF OutcomeSent, Finished
    <3> QED BY <1>6, <2>1, <2>2, <3>1
  <2>3. CASE id \notin DOMAIN entries
    <3>1. entries' = entries
      BY <1>8, <2>3 DEF OutcomeSent
    <3>2. \A i \in DOMAIN sends' : i \in DOMAIN sends /\ sends'[i].msg = sends[i].msg
      BY <2>1 DEF Without
    <3> QED BY <1>3, <3>1, <3>2
  <2> QED BY <2>2, <2>3
<1>9. CASE DraftSaved /\ Ev.id \in DOMAIN entries
  <2>1. PICK id \in DOMAIN entries : id = Ev.id
    BY <1>9
  <2> DEFINE p == IF entries[id].pending = 0 THEN 0 ELSE entries[id].pending - 1
             r == IF entries[id].settled THEN entries[id].draft ELSE TheRow
             e == [entries[id] EXCEPT !.pending = IF @ = 0 THEN 0 ELSE @ - 1,
                                      !.draft = IF entries[id].settled THEN @ ELSE TheRow]
  <2>2. entries[id] \in Entry /\ sends' = sends
    BY <1>1, <1>9 DEF EntriesOK, DraftSaved
  <2>3. Ev = dbEv[1] /\ 1 \in 1..Len(dbEv) /\ Ev.ev = "saved"
    BY <1>9, DrainedTyped DEF DraftSaved
  <2>4. PICK n \in 1..lastRow : dbEv[1].rows = {n}
    BY <2>3, LinkTypes
  <2>5. p \in Nat /\ r \in Nat
    BY <2>2, <2>3, <2>4, LinkTypes DEF TheRow, Entry
  <2>6. e = WithRow(entries[id], p, r)
    BY DEF WithRow
  <2>7. entries' = ForgetIfDone([entries EXCEPT ![id] = e], id)
    BY <1>9, <2>1 DEF DraftSaved, SaveCame, KeepRow
  <2> HIDE DEF p, r, e
  <2>8. e.text = entries[id].text /\ e.settled = entries[id].settled
    BY <2>2, <2>5, <2>6, EntryGetsRow
  <2> QED BY <1>2, <2>2, <2>7, <2>8
<1>10. ASSUME NEW id \in DOMAIN entries, Send(id)
       PROVE  SettledIsFinished'
  <2> DEFINE s == [msg |-> entries[id].text.msg, live |-> TRUE]
  <2>1. entries' = entries /\ sends' = Put(sends, id, s) /\ s.msg = entries[id].text.msg
    BY <1>10 DEF Send
  <2> HIDE DEF s
  <2>2. \A i \in DOMAIN sends' : IF i = id THEN sends'[i] = s ELSE i \in DOMAIN sends /\ sends'[i] = sends[i]
    BY <2>1 DEF Put
  <2> QED BY <1>3, <2>1, <2>2
<1>11. ASSUME NEW id, OutcomeFailed(id)
       PROVE  SettledIsFinished'
  BY <1>3, <1>11 DEF OutcomeFailed, Without
<1>12. CASE Reload
  <2>1. sends \in [DOMAIN sends -> [msg : Nat, live : BOOLEAN]]
    BY TypedParts
  <2>2. \A s \in [msg : Nat, live : BOOLEAN] : [s EXCEPT !.live = FALSE].msg = s.msg
    OBVIOUS
  <2> QED BY <1>3, <1>12, <2>1, <2>2 DEF Reload
<1>13. CASE Crash
  BY <1>13, CrashKeepsLinks
<1>14. ASSUME entries' = entries, sends' = sends
       PROVE  SettledIsFinished'
  BY <1>3, <1>14
<1>15. CASE CacheActor \/ ShowDrafts \/ CloseDrafts \/ (\E r \in listed : OpenDraft(r) \/ DeleteDraft(r)) \/ DraftsListed
  BY <1>14, <1>15 DEF CacheActor, DbSave, DbDelete, DbRead, DbError, ShowDrafts, CloseDrafts, OpenDraft, DeleteDraft, DraftsListed, ui
<1>16. CASE DraftSaved /\ Ev.id \notin DOMAIN entries
  BY <1>14, <1>16 DEF DraftSaved
<1>17. CASE NewCompose \/ DraftLoaded
  BY <1>4, <1>17 DEF NewCompose, DraftLoaded
<1> QED
  BY <1>5, <1>7, <1>8, <1>9, <1>10, <1>11, <1>12, <1>13, <1>15, <1>16, <1>17 DEF Next, User, Outcomes, Drain, Windows

(* Every step keeps the links. *)
LEMMA LinkedStep == Typed /\ Linked /\ [Next]_vars => Linked'
<1>1. ASSUME Typed, Linked, Next
      PROVE  Linked'
  <2>1. SettledIsFinished'
    BY <1>1, SettledStep
  <2>2. SaverIsKnown' /\ ClaimsAreSound' /\ DeletesAreFinished' /\ VersionsGrow'
    BY <1>1, NextMoves, MoveKeepsLinks, SaveKeepsLinks, CrashKeepsLinks
  <2> QED BY <2>1, <2>2 DEF Linked
<1>2. ASSUME Typed, Linked, UNCHANGED vars
      PROVE  Linked'
  <2>1. /\ lastId' = lastId /\ entries' = entries /\ sends' = sends /\ dbQ' = dbQ /\ dbEv' = dbEv /\ table' = table
        /\ lastRow' = lastRow /\ sent' = sent /\ discarded' = discarded /\ deleted' = deleted
    BY <1>2 DEF vars, ui, window, db, history
  <2>2. Finished' = Finished /\ \A id, r, m : Claim(id, r, m)' <=> Claim(id, r, m)
    BY <2>1 DEF Finished, Claim
  <2>3. SaverIsKnown' /\ DeletesAreFinished' /\ SettledIsFinished'
    BY <1>2, <2>1, <2>2 DEF Linked, SaverIsKnown, DeletesAreFinished, SettledIsFinished
  <2>4. ClaimsAreSound'
    BY <1>2, <2>1, <2>2 DEF Linked, ClaimsAreSound
  <2>5. VersionsGrow'
    BY <1>2, <2>1, <2>2 DEF Linked, VersionsGrow
  <2> QED BY <2>3, <2>4, <2>5 DEF Linked
<1> QED BY <1>1, <1>2

(* At the start nothing is under way. *)
LEMMA LinkedInit == Init => Linked
<1> SUFFICES ASSUME Init
             PROVE  Linked
  OBVIOUS
<1>1. DOMAIN entries = {} /\ 1..Len(dbQ) = {} /\ 1..Len(dbEv) = {}
  BY DEF Init, Empty
<1>2. \A id, r, m : ~Claim(id, r, m)
  BY <1>1 DEF Claim
<1> QED BY <1>1, <1>2 DEF Linked, SaverIsKnown, ClaimsAreSound, DeletesAreFinished, SettledIsFinished, VersionsGrow

(* An entry holds a row of its own: for every queue length and every number of
   windows and old drafts, settling a message (Composes::settle) deletes no
   other draft, however late a row number comes back. *)
THEOREM OwnRows == Spec => []DraftRowIsOwn
<1>1. Spec => [](Typed /\ Linked)
  BY TypedInit, LinkedInit, TypedStep, LinkedStep, PTL DEF Spec
<1>2. Typed /\ Linked => DraftRowIsOwn
  <2> SUFFICES ASSUME Typed, Linked, NEW i \in DOMAIN entries, entries[i].draft # NoRow
               PROVE  /\ entries[i].draft \in DOMAIN table => table[entries[i].draft].msg = entries[i].text.msg
                      /\ \A j \in DOMAIN entries : entries[j].draft = entries[i].draft => i = j
    BY DEF DraftRowIsOwn
  <2>1. lastRow \in Nat /\ lastId \in Nat
    BY LinkTypes
  <2>2. PICK r \in 1..lastRow : r = entries[i].draft
    BY <2>1, LinkTypes DEF NoRow
  <2>3. Claim(i, r, entries[i].text.msg) /\ \A j \in DOMAIN entries : entries[j].draft = r => Claim(j, r, entries[j].text.msg)
    BY <2>2 DEF Claim
  <2>4. \A j \in DOMAIN entries : j \in Nat /\ entries[j].text.msg \in Nat
    BY LinkTypes
  <2> QED BY <2>2, <2>3, <2>4 DEF Linked, ClaimsAreSound
<1> QED BY <1>1, <1>2, PTL

(***************************************************************************)
(* What was saved                                                          *)
(***************************************************************************)

(* The text t, or a later version of its message, is in the table or queued. *)
InTable(t) == \E r \in DOMAIN table : table[r].msg = t.msg /\ table[r].v >= t.v
OnItsWay(t) == \E i \in 1..Len(dbQ) : dbQ[i].op = "save" /\ dbQ[i].text.msg = t.msg /\ dbQ[i].text.v >= t.v

(* What SavedTextKept needs besides the links: a queue that has not been full
   has room for the next command. *)
Kept ==
  /\ saved \subseteq Text /\ disruptions \in Nat
  /\ ~full => Len(dbQ) < CacheQueue
  /\ (disruptions = 0 /\ ~full) => \A t \in saved : t.msg \notin Finished => InTable(t) \/ OnItsWay(t)

(* A row stays in the table in the same or a later version, unless its message
   is finished. *)
LEMMA TableKept ==
  ASSUME Typed, Linked, Next, ~Crash, NEW t \in Text, t.msg \notin Finished', InTable(t)
  PROVE  InTable(t)'
<1>1. PICK r \in DOMAIN table : table[r].msg = t.msg /\ table[r].v >= t.v
  BY DEF InTable
<1>2. t.v \in Nat /\ table[r].v \in Nat /\ r \in 1..lastRow /\ lastRow \in Nat
  BY LinkTypes DEF Text
<1>3. CASE Move
  <2>1. r \in DOMAIN table' /\ table'[r] = table[r]
    BY <1>1, <1>3 DEF Move
  <2> QED BY <1>1, <2>1 DEF InTable
<1>4. CASE DbSave
  <2>1. PICK c : c = Cmd
    OBVIOUS
  <2>2. c = dbQ[1] /\ 1 \in 1..Len(dbQ) /\ c.op = "save" /\ c.text.v \in Nat /\ c.id \in Nat /\ c.text.msg \in Nat
    BY <1>4, <2>1, Dequeued, LinkTypes DEF DbSave
  <2>3. table' = IF c.row = NoRow \/ c.row \in DOMAIN table THEN Put(table, IF c.row = NoRow THEN lastRow + 1 ELSE c.row, c.text)
                                                            ELSE table
    BY <1>4, <2>1 DEF DbSave
  <2>4. CASE c.row = r
    <3>1. r # NoRow /\ table'[r] = c.text /\ r \in DOMAIN table'
      BY <1>2, <2>3, <2>4 DEF Put, NoRow
    <3>2. table[r].v <= c.text.v
      BY <2>2, <2>4 DEF Linked, VersionsGrow
    <3>3. Claim(c.id, r, c.text.msg)
      BY <2>2, <2>4 DEF Claim
    <3>4. c.text.msg = t.msg
      BY <1>1, <1>2, <2>2, <3>3 DEF Linked, ClaimsAreSound
    <3> QED BY <1>1, <1>2, <2>2, <3>1, <3>2, <3>4 DEF InTable
  <2>5. CASE c.row # r
    <3>1. r \in DOMAIN table' /\ table'[r] = table[r]
      BY <1>2, <2>3, <2>5 DEF Put
    <3> QED BY <1>1, <3>1 DEF InTable
  <2> QED BY <2>4, <2>5
<1> QED BY <1>3, <1>4, NextMoves

(* A queued save stays queued until the actor writes it, unless the application
   is disrupted; a save into a row that is gone is of a finished message. *)
LEMMA QueueKept ==
  ASSUME Typed, Linked, Next, UNCHANGED disruptions, disruptions \in Nat,
         NEW t \in Text, t.msg \notin Finished', OnItsWay(t)
  PROVE  InTable(t)' \/ OnItsWay(t)'
<1>1. PICK i \in 1..Len(dbQ) : dbQ[i].op = "save" /\ dbQ[i].text.msg = t.msg /\ dbQ[i].text.v >= t.v
  BY DEF OnItsWay
<1>2. dbQ \in Seq(Command) /\ Len(dbQ) \in Nat /\ lastRow \in Nat
  BY TypedParts DEF CommandsOK
<1>3. ~Crash /\ ~Reload /\ ~DbError
  BY DEF Crash, Reload, DbError, Disrupt
<1>4. CASE ~Took
  <2>1. ASSUME NEW c, dbQ' = dbQ \/ dbQ' = Push(c)
        PROVE  OnItsWay(t)'
    <3>1. i \in 1..Len(dbQ') /\ dbQ'[i] = dbQ[i]
      BY <1>2, <2>1 DEF Push
    <3> QED BY <1>1, <3>1 DEF OnItsWay
  <2>2. ASSUME NEW r, DeleteDraft(r)
        PROVE  OnItsWay(t)'
    <3>1. dbQ' = PushOn(PushOn(dbQ, RowCmd("delete", r)), RowCmd("list", NoRow))
      BY <2>2, PushIsOn DEF DeleteDraft, PushOn
    <3>2. i \in 1..Len(dbQ') /\ dbQ'[i] = dbQ[i]
      BY <1>2, <3>1 DEF PushOn
    <3> QED BY <1>1, <3>2 DEF OnItsWay
  <2> QED
    BY <1>3, <1>4, <2>1, <2>2
    DEF Next, User, Outcomes, CacheActor, Drain, NewCompose, Edit, Send, Close, Discard, SaveDraft, ShowDrafts, CloseDrafts,
        OpenDraft, OutcomeSent, OutcomeFailed, SettleCmd, DbSave, DbDelete, DbRead, DraftSaved, SaveCame, KeepRow,
        DraftLoaded, DraftsListed, db
<1>5. CASE Took
  <2>1. Cmd = dbQ[1] /\ dbQ' = Tail(dbQ) /\ dbQ # <<>>
    BY <1>2, <1>5 DEF Took, Cmd
  <2>2. CASE i # 1
    <3>1. i - 1 \in 1..Len(dbQ') /\ dbQ'[i - 1] = dbQ[i]
      BY <1>2, <2>1, <2>2
    <3> QED BY <1>1, <3>1 DEF OnItsWay
  <2>3. CASE i = 1
    <3>1. Cmd.op = "save" /\ 1 \in 1..Len(dbQ)
      BY <1>1, <2>1, <2>3
    <3>2. PICK c : c = Cmd
      OBVIOUS
    <3>3. CASE DbSave
      <4>1. table' = IF c.row = NoRow \/ c.row \in DOMAIN table THEN Put(table, IF c.row = NoRow THEN lastRow + 1 ELSE c.row, c.text)
                                                                ELSE table
        BY <3>2, <3>3 DEF DbSave
      <4>2. c.text.msg = t.msg /\ c.text.v >= t.v /\ c.id \in Nat /\ c.row \in Nat /\ c.row <= lastRow /\ c.text.msg \in Nat
        BY <1>1, <2>1, <2>3, <3>2, LinkTypes
      <4>3. CASE c.row = NoRow \/ c.row \in DOMAIN table
        <5>1. PICK s : table' = Put(table, s, c.text)
          BY <4>1, <4>3
        <5>2. s \in DOMAIN table' /\ table'[s] = c.text
          BY <5>1 DEF Put
        <5> QED BY <4>2, <5>2 DEF InTable
      <4>4. CASE c.row # NoRow /\ c.row \notin DOMAIN table
        <5>1. Claim(c.id, c.row, c.text.msg)
          BY <2>1, <3>1, <3>2 DEF Claim
        <5>2. c.row \in 1..lastRow
          BY <1>2, <4>2, <4>4 DEF NoRow
        <5>3. c.text.msg \in Finished
          BY <4>2, <4>4, <5>1, <5>2 DEF Linked, ClaimsAreSound
        <5> QED BY <4>2, <5>3, FinishedGrows
      <4> QED BY <4>3, <4>4
    <3>4. DbSave
      <4>1. Len(dbQ') # Len(dbQ) /\ dbQ' # dbQ /\ \A x : dbQ' # Push(x)
        BY <1>2, <2>1 DEF Push
      <4>2. \A r : ~DeleteDraft(r)
        <5>1. \A x, y : Len(PushOn(PushOn(dbQ, x), y)) >= Len(dbQ)
          BY <1>2 DEF PushOn
        <5>2. ASSUME NEW r, DeleteDraft(r)
              PROVE  FALSE
          <6>1. dbQ' = PushOn(PushOn(dbQ, RowCmd("delete", r)), RowCmd("list", NoRow))
            BY <5>2, PushIsOn DEF DeleteDraft, PushOn
          <6> QED BY <1>2, <2>1, <5>1, <6>1
        <5> QED BY <5>2
      <4> QED
        BY <1>3, <3>1, <4>1, <4>2
        DEF Next, User, Outcomes, CacheActor, Drain, NewCompose, Edit, Send, Close, Discard, SaveDraft, ShowDrafts, CloseDrafts,
            OpenDraft, OutcomeSent, OutcomeFailed, SettleCmd, DbDelete, DbRead, DraftSaved, SaveCame, KeepRow,
            DraftLoaded, DraftsListed, db
    <3> QED BY <3>3, <3>4
  <2> QED BY <2>2, <2>3
<1> QED BY <1>4, <1>5

(* Every step keeps what was saved. *)
LEMMA KeptStep == Typed /\ Linked /\ Kept /\ [Next]_vars => Kept'
<1>1. ASSUME Typed, Linked, Kept, Next
      PROVE  Kept'
  <2>1. Typed' /\ CacheQueue \in Nat
    BY <1>1, TypedStep, QueueAssumption
  <2>2. disruptions' \in Nat /\ (disruptions' = 0 => disruptions = 0 /\ UNCHANGED disruptions)
    <3>1. disruptions' = disruptions \/ disruptions' = disruptions + 1
      BY <1>1 DEF Next, User, Outcomes, CacheActor, Drain, NewCompose, Edit, Send, Close, Discard, SaveDraft, ShowDrafts,
             CloseDrafts, OpenDraft, DeleteDraft, OutcomeSent, OutcomeFailed, DbSave, DbDelete, DbRead, DbError, DraftSaved,
             DraftLoaded, DraftsListed, Reload, Crash, Act, Disrupt, NoClick
    <3> QED BY <1>1, <3>1 DEF Kept
  <2>3. ~full' => ~full /\ Len(dbQ') < CacheQueue /\ Len(dbQ) < CacheQueue
    <3>1. Len(dbQ') \in Nat /\ Len(dbQ') <= CacheQueue
      BY <2>1 DEF Typed, TypeOK
    <3>2. ~full' => ~full /\ Len(dbQ') # CacheQueue
      BY <1>1 DEF Next
    <3> QED BY <1>1, <2>1, <3>1, <3>2 DEF Kept
  <2>4. saved' = saved \/ \E id \in DOMAIN entries : SaveDraft(id) /\ saved' = saved \cup {entries[id].text}
    BY <1>1 DEF Next, User, Outcomes, CacheActor, Drain, Windows, NewCompose, Edit, Send, Close, Discard, SaveDraft, ShowDrafts,
           CloseDrafts, OpenDraft, DeleteDraft, OutcomeSent, OutcomeFailed, DbSave, DbDelete, DbRead, DbError, DraftSaved,
           DraftLoaded, DraftsListed, Reload, Crash, history
  <2>5. saved' \subseteq Text
    BY <1>1, <2>4, LinkTypes DEF Kept
  <2>6. ASSUME disruptions' = 0, ~full', NEW t \in saved', t.msg \notin Finished'
        PROVE  InTable(t)' \/ OnItsWay(t)'
    <3>1. CASE t \in saved
      <4>1. t \in Text /\ t.msg \notin Finished /\ disruptions = 0 /\ ~full /\ disruptions' = disruptions /\ disruptions \in Nat
        BY <1>1, <2>2, <2>3, <2>6, <3>1, FinishedGrows DEF Kept
      <4>2. ~Crash
        BY <4>1 DEF Crash, Disrupt
      <4>3. InTable(t) \/ OnItsWay(t)
        BY <1>1, <3>1, <4>1 DEF Kept
      <4> QED BY <1>1, <2>6, <4>1, <4>2, <4>3, TableKept, QueueKept
    <3>2. CASE t \notin saved
      <4>1. PICK id \in DOMAIN entries : SaveDraft(id) /\ t = entries[id].text
        BY <2>4, <3>2
      <4> DEFINE c == SaveCmd(id, entries[id].draft, entries[id].text)
      <4>2. c.op = "save" /\ c.text = t
        BY <4>1 DEF SaveCmd
      <4>3. dbQ' = Push(c) /\ Len(dbQ) < CacheQueue /\ dbQ \in Seq(Command) /\ t.v \in Nat
        BY <1>1, <2>3, <2>6, <4>1, TypedParts, LinkTypes DEF SaveDraft, CommandsOK
      <4> HIDE DEF c
      <4>4. Len(dbQ') = Len(dbQ) + 1 /\ dbQ'[Len(dbQ) + 1] = c /\ Len(dbQ) + 1 \in 1..Len(dbQ')
        BY <4>3 DEF Push
      <4> QED BY <4>2, <4>3, <4>4 DEF OnItsWay
    <3> QED BY <3>1, <3>2
  <2> QED BY <2>2, <2>3, <2>5, <2>6 DEF Kept
<1>2. ASSUME Typed, Linked, Kept, UNCHANGED vars
      PROVE  Kept'
  <2>1. /\ saved' = saved /\ disruptions' = disruptions /\ full' = full /\ dbQ' = dbQ /\ table' = table
        /\ sent' = sent /\ discarded' = discarded /\ deleted' = deleted
    BY <1>2 DEF vars, db, history
  <2>2. Finished' = Finished /\ \A t : (InTable(t)' <=> InTable(t)) /\ (OnItsWay(t)' <=> OnItsWay(t))
    BY <2>1 DEF Finished, InTable, OnItsWay
  <2> QED BY <1>2, <2>1, <2>2 DEF Kept
<1> QED BY <1>1, <1>2

(* The drafts of the earlier run are in the table. *)
LEMMA KeptInit == Init => Kept
<1> SUFFICES ASSUME Init
             PROVE  Kept
  OBVIOUS
<1>1. /\ saved = {[msg |-> r, v |-> 1] : r \in 1..OldDrafts} /\ OldDrafts \in Nat /\ disruptions = 0 /\ dbQ = <<>>
      /\ table = [r \in 1..OldDrafts |-> [msg |-> r, v |-> 1]] /\ CacheQueue \in Nat \ {0}
  BY BoundAssumption, QueueAssumption DEF Init
<1>2. saved \subseteq Text
  BY <1>1 DEF Text
<1>3. \A t \in saved : InTable(t)
  <2> SUFFICES ASSUME NEW t \in saved
               PROVE  InTable(t)
    OBVIOUS
  <2>1. PICK r \in 1..OldDrafts : t = [msg |-> r, v |-> 1]
    BY <1>1
  <2>2. r \in DOMAIN table /\ table[r] = t /\ t.v >= t.v
    BY <1>1, <2>1
  <2> QED BY <2>2 DEF InTable
<1>4. Len(dbQ) < CacheQueue
  BY <1>1
<1> QED BY <1>1, <1>2, <1>3, <1>4 DEF Kept

(* What a window asked to save is kept, in that version or a later one, until
   its message is sent or given up, as long as nothing is disrupted and the
   command queue has not been full (Composes, Cache::command, save_draft). *)
THEOREM SavedIsKept == Spec => []SavedTextKept
<1>1. Spec => [](Typed /\ Linked /\ Kept)
  BY TypedInit, LinkedInit, KeptInit, TypedStep, LinkedStep, KeptStep, PTL DEF Spec
<1>2. Kept => SavedTextKept
  BY DEF Kept, SavedTextKept, InTable, OnItsWay
<1> QED BY <1>1, <1>2, PTL
=============================================================================
