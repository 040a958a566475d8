--------------------------- MODULE Watcher_proofs ---------------------------
(***************************************************************************)
(* Proofs about Watcher over Session, for every capacity of the channels   *)
(* and every bound: types and capacities, what "watching" means, and that  *)
(* old mail is not announced.                                              *)
(*                                                                         *)
(* WatchingIsBaselined is not inductive: the watcher says "watching" when  *)
(* it takes a poll from its channel, long after the forwarder made it the  *)
(* watermark.  Baselined follows each poll through the channel: either its *)
(* watermark is there still, or a Connected comes behind it.               *)
(*                                                                         *)
(* OldMailIsNotNew is not inductive either: between a poll and a toast are *)
(* a fetch in the command channel and headers in the event channel.  Above *)
(* puts the watermark, each fetch, each poll, each answer and each toast   *)
(* at or above the first baseline.                                         *)
(***************************************************************************)
EXTENDS Watcher, FiniteSetTheorems, TLAPS

(***************************************************************************)
(* Types                                                                   *)
(***************************************************************************)

(* An event of the actor, a command to it, and an event passed on. *)
Event == [ev : {"Connected", "Disconnected", "Error", "MailboxPolled", "PollFailed", "NewHeaders", "UnreadCounts"},
          validity : Nat, next : Nat, uids : SUBSET Nat, counted : BOOLEAN, count : Nat]
Command == [op : {"Connect", "Poll", "FetchNewHeaders", "FetchUnreadCounts"}, first : Nat]
Passed == [gen : Nat, e : Event]

(* The mailbox: uids are handed out once, and there are as many as changes. *)
ServerTyped ==
  /\ changes \in 0..MaxChanges /\ shrunk \in BOOLEAN
  /\ uidNext \in 1..(changes + 2) /\ validity \in Nat \ {0}
  /\ mail \subseteq 1..(uidNext - 1) /\ unseen \subseteq mail

(* The actor, the forwarder and the IDLE watch. *)
SessionTyped ==
  /\ cmds \in Seq(Command) /\ Len(cmds) <= CmdQueue
  /\ link \in {"none", "up", "broken"} /\ creds \in BOOLEAN
  /\ evs \in Seq(Event) /\ Len(evs) <= EventQueue
  /\ connected \in BOOLEAN /\ mark \in [validity : Nat, next : Nat] /\ wakes \in 0..WakeQueue
  /\ idle \in {"off", "down", "idling", "between", "stopped"} /\ push \in BOOLEAN
  /\ toasted \subseteq Nat \X Nat /\ floor \subseteq Nat \X Nat

(* The watcher, and the channel it reads. *)
WatcherTyped ==
  /\ ui \in Seq(Passed) /\ Len(ui) <= UiQueue /\ gen \in Nat
  /\ state \in {"absent", "connecting", "connected", "watching", "failed"} /\ unread \in Nat

(* All of them. *)
Typed == ServerTyped /\ SessionTyped /\ WatcherTyped

(***************************************************************************)
(* The watermark behind "watching"                                         *)
(***************************************************************************)

(* Before the first session there is nobody who could say anything. *)
Unborn ==
  gen = 0 => /\ cmds = <<>> /\ evs = <<>> /\ ui = <<>> /\ state = "absent"
             /\ ~connected /\ wakes = 0 /\ idle = "off"

(* What is in the frontend's channel was said by this session or an earlier
   one. *)
SaidBySessions == \A i \in 1..Len(ui) : ui[i].gen \in 1..gen

(* A poll names a mailbox that there is. *)
PollsAreReal == \A i \in 1..Len(evs) : evs[i].ev = "MailboxPolled" => evs[i].validity # 0

(* A Connected of this session comes after the i-th event of the channel. *)
ConnectedAfter(i) == \E j \in 1..Len(ui) : j > i /\ ui[j].gen = gen /\ ui[j].e.ev = "Connected"

(* What a poll of this session told the forwarder is its watermark still,
   unless the session reconnected after it. *)
PollLeavesMark ==
  state # "absent" =>
    \A i \in 1..Len(ui) : ui[i].gen = gen /\ ui[i].e.ev = "MailboxPolled" => mark # NoMark \/ ConnectedAfter(i)

(* The watcher of a first session is right to say "watching". *)
WatchingHasMark == state = "watching" /\ gen = 1 => mark # NoMark \/ ConnectedAfter(0)

(* The inductive invariant behind "watching". *)
Baselined == Unborn /\ SaidBySessions /\ PollsAreReal /\ PollLeavesMark /\ WatchingHasMark

(***************************************************************************)
(* The first baseline                                                      *)
(***************************************************************************)

(* uid u is at or above the first baseline, which has been taken. *)
AboveFloor(u) == floor # {} /\ \A p \in floor : p[2] <= u

(* The mailbox has only grown. *)
MailboxGrows == validity = 1 /\ mail = 1..(uidNext - 1)
(* The first baseline is of it. *)
FloorIsFirst == \A p \in floor : p[1] = 1 /\ p[2] <= uidNext
(* The watermark is not below the first baseline. *)
MarkAbove == mark # NoMark => mark.validity = 1 /\ AboveFloor(mark.next)
(* Nor is where a queued fetch starts, and the mailbox reaches that far. *)
FetchesAbove ==
  \A i \in 1..Len(cmds) : cmds[i].op = "FetchNewHeaders" => AboveFloor(cmds[i].first) /\ cmds[i].first < uidNext
(* Nor is what a poll on its way says. *)
PollsAbove ==
  \A i \in 1..Len(evs) : evs[i].ev = "MailboxPolled" =>
    /\ evs[i].validity = 1 /\ evs[i].next <= uidNext
    /\ \A p \in floor : p[2] <= evs[i].next
(* Later polls say no less than earlier ones. *)
PollsGrow ==
  \A i, j \in 1..Len(evs) :
    i < j /\ evs[i].ev = "MailboxPolled" /\ evs[j].ev = "MailboxPolled" => evs[i].next <= evs[j].next
(* Headers on their way are not below it. *)
HeadersAbove ==
  \A i \in 1..Len(evs) : evs[i].ev = "NewHeaders" => evs[i].validity = 1 /\ \A u \in evs[i].uids : AboveFloor(u)
(* Nor are the messages announced. *)
ToastsAbove == \A m \in toasted : m[1] = 1 /\ AboveFloor(m[2])

(* The inductive invariant behind OldMailIsNotNew. *)
Above == MailboxGrows /\ FloorIsFirst /\ MarkAbove /\ FetchesAbove /\ PollsAbove /\ PollsGrow /\ HeadersAbove /\ ToastsAbove
(* It holds as long as nothing was removed. *)
NewIsAbove == ~shrunk => Above

(***************************************************************************)
(* Channels                                                                *)
(***************************************************************************)

(* What taking the first of a channel leaves. *)
LEMMA TailAt ==
  ASSUME NEW S, NEW s \in Seq(S), s # <<>>
  PROVE  /\ Head(s) \in S /\ Head(s) = s[1] /\ Len(s) >= 1
         /\ Tail(s) \in Seq(S) /\ Len(Tail(s)) = Len(s) - 1
         /\ \A i \in 1..Len(Tail(s)) : i + 1 \in 1..Len(s) /\ Tail(s)[i] = s[i + 1]
OBVIOUS

(* What adding to the end of a channel gives. *)
LEMMA AppendAt ==
  ASSUME NEW S, NEW s \in Seq(S), NEW x \in S
  PROVE  /\ Append(s, x) \in Seq(S) /\ Len(Append(s, x)) = Len(s) + 1
         /\ \A i \in 1..Len(s) : Append(s, x)[i] = s[i]
         /\ Append(s, x)[Len(s) + 1] = x
OBVIOUS

(* The same, of several at once. *)
LEMMA ConcatAt ==
  ASSUME NEW S, NEW s \in Seq(S), NEW t \in Seq(S)
  PROVE  /\ s \o t \in Seq(S) /\ Len(s \o t) = Len(s) + Len(t)
         /\ \A i \in 1..Len(s) : (s \o t)[i] = s[i]
         /\ \A i \in 1..Len(t) : (s \o t)[Len(s) + i] = t[i]
         /\ \A i \in 1..Len(s \o t) : i \in 1..Len(s) \/ (i - Len(s) \in 1..Len(t) /\ (s \o t)[i] = t[i - Len(s)])
OBVIOUS

(* A command sent is queued at the end, or dropped when the queue is full. *)
LEMMA TrySendAt ==
  ASSUME NEW s \in Seq(Command), Len(s) <= CmdQueue, NEW c \in Command
  PROVE  /\ TrySend(s, c) \in Seq(Command) /\ Len(TrySend(s, c)) <= CmdQueue
         /\ \A i \in 1..Len(TrySend(s, c)) :
              TrySend(s, c)[i] = c \/ (i \in 1..Len(s) /\ TrySend(s, c)[i] = s[i])
<1>1. CmdQueue \in Nat
  BY ChannelAssumption
<1>2. CASE Len(s) < CmdQueue
  <2>1. TrySend(s, c) = Append(s, c)
    BY <1>2 DEF TrySend
  <2> QED BY <1>1, <1>2, <2>1, AppendAt
<1>3. CASE ~(Len(s) < CmdQueue)
  BY <1>3 DEF TrySend
<1> QED BY <1>2, <1>3

(* The events the actor makes are events, and its commands commands. *)
LEMMA EvType ==
  ASSUME NEW n \in {"Connected", "Disconnected", "Error", "MailboxPolled", "PollFailed", "NewHeaders", "UnreadCounts"}
  PROVE  Ev(n) \in Event /\ Ev(n).ev = n
BY DEF Ev, Event

(* So is a poll. *)
LEMMA PolledType ==
  ASSUME NEW v \in Nat, NEW n \in Nat
  PROVE  LET x == [Ev("MailboxPolled") EXCEPT !.validity = v, !.next = n]
         IN  x \in Event /\ x.ev = "MailboxPolled" /\ x.validity = v /\ x.next = n
BY DEF Ev, Event

(* New headers are an event. *)
LEMMA HeadersType ==
  ASSUME NEW v \in Nat, NEW us \in SUBSET Nat
  PROVE  LET x == [Ev("NewHeaders") EXCEPT !.validity = v, !.uids = us]
         IN  x \in Event /\ x.ev = "NewHeaders" /\ x.validity = v /\ x.uids = us
BY DEF Ev, Event

(* So are the unread counts. *)
LEMMA CountsType ==
  ASSUME NEW n \in Nat
  PROVE  LET x == [Ev("UnreadCounts") EXCEPT !.counted = TRUE, !.count = n]
         IN  x \in Event /\ x.ev = "UnreadCounts"
BY DEF Ev, Event

(* A command by its name is a command. *)
LEMMA CmdType ==
  \A o \in {"Connect", "Poll", "FetchNewHeaders", "FetchUnreadCounts"} : Cmd(o) \in Command /\ Cmd(o).op = o
BY DEF Cmd, Command

(***************************************************************************)
(* What the actor says                                                     *)
(***************************************************************************)

(* The number of unread messages is a number. *)
LEMMA UnseenCounted == ServerTyped => Cardinality(unseen) \in Nat
<1> SUFFICES ASSUME ServerTyped PROVE Cardinality(unseen) \in Nat
  OBVIOUS
<1>1. IsFiniteSet(1..(uidNext - 1))
  BY FS_Interval DEF ServerTyped
<1>2. unseen \subseteq 1..(uidNext - 1)
  BY DEF ServerTyped
<1> QED BY <1>1, <1>2, FS_Subset, FS_CardinalityType

(* One event the actor says now, having taken command c: a poll shows the
   mailbox as it is, new headers are of the messages c asks for. *)
Saying(e, c) ==
  /\ e.ev = "MailboxPolled" => e.validity = validity /\ e.next = uidNext
  /\ e.ev = "NewHeaders" => c.op = "FetchNewHeaders" /\ e.validity = validity /\ e.uids = FromUid(c.first)

(* A step of the actor takes one command, and says something that fits into
   its channel. *)
Answers ==
  /\ cmds # <<>> /\ cmds' = Tail(cmds)
  /\ link' \in {"none", "up", "broken"} /\ creds' \in BOOLEAN
  /\ \E es \in Seq(Event) :
       /\ evs' = evs \o es /\ Len(evs) + Len(es) <= EventQueue
       /\ \A i \in 1..Len(es) : Saying(es[i], Head(cmds))
  /\ ActorOnly

(* Every arm of ImapActor::run is such a step. *)
LEMMA ActorAnswers == ServerTyped /\ SessionTyped /\ ActorStep => Answers
<1> SUFFICES ASSUME ServerTyped, SessionTyped, ActorStep PROVE Answers
  OBVIOUS
<1> DEFINE Says(es) == /\ evs' = evs \o es /\ Len(evs) + Len(es) <= EventQueue
                       /\ \A i \in 1..Len(es) : Saying(es[i], Head(cmds))
<1>c. cmds # <<>> /\ cmds' = Tail(cmds) /\ ActorOnly /\ Head(cmds) \in Command /\ Head(cmds).first \in Nat
  <2>1. cmds # <<>> /\ cmds' = Tail(cmds) /\ ActorOnly
    BY DEF ActorStep, ConnectOk, ConnectFails, PollMailbox, FetchNewHeaders, FetchUnreadCounts, ReconnectGivesUp, Take
  <2>2. Head(cmds) \in Command
    BY <2>1, TailAt DEF SessionTyped
  <2> QED BY <2>1, <2>2 DEF Command
<1>s. SUFFICES \E es \in Seq(Event) : Says(es) /\ link' \in {"none", "up", "broken"} /\ creds' \in BOOLEAN
  BY <1>c DEF Answers
<1>n. validity \in Nat /\ uidNext \in Nat /\ evs \in Seq(Event) /\ Len(evs) <= EventQueue
      /\ link \in {"none", "up", "broken"} /\ creds \in BOOLEAN
  BY DEF ServerTyped, SessionTyped
<1>u. FromUid(Head(cmds).first) \in SUBSET Nat
  <2>1. mail \subseteq Nat
    BY <1>n DEF ServerTyped
  <2> QED BY <2>1 DEF FromUid
<1>0. ASSUME evs' = evs PROVE Says(<<>>) /\ <<>> \in Seq(Event)
  BY <1>0, <1>n
<1>1. ASSUME NEW x \in Event, Saying(x, Head(cmds)), Tell(<<x>>) PROVE Says(<<x>>) /\ <<x>> \in Seq(Event)
  <2>1. <<x>> \in Seq(Event) /\ Len(<<x>>) = 1 /\ <<x>>[1] = x
    OBVIOUS
  <2> QED BY <1>1, <2>1 DEF Tell, Room
<1>p. \A e \in {"Connected", "Disconnected", "Error", "PollFailed", "UnreadCounts"} :
        Ev(e) \in Event /\ Saying(Ev(e), Head(cmds))
  BY EvType DEF Saying
<1>k. Counts \in Seq(Event) /\ Len(Counts) = 1 /\ Counts[1].ev = "UnreadCounts"
  <2>1. [Ev("UnreadCounts") EXCEPT !.counted = TRUE, !.count = Cardinality(unseen)] \in Event
        /\ [Ev("UnreadCounts") EXCEPT !.counted = TRUE, !.count = Cardinality(unseen)].ev = "UnreadCounts"
    BY CountsType, UnseenCounted
  <2>2. Ev("UnreadCounts") \in Event /\ Ev("UnreadCounts").ev = "UnreadCounts"
    BY EvType
  <2> HIDE DEF Ev
  <2> QED BY <2>1, <2>2 DEF Counts
<1>2. CASE ConnectOk
  BY <1>2, <1>1, <1>p DEF ConnectOk
<1>3. CASE ConnectFails
  BY <1>3, <1>1, <1>p, <1>n DEF ConnectFails
<1>4. CASE PollMailbox
  <2>1. CASE link = "none" /\ UNCHANGED <<link, evs>>
    BY <1>4, <2>1, <1>0, <1>n DEF PollMailbox
  <2>2. CASE link = "up" /\ UNCHANGED link
             /\ Tell(<<[Ev("MailboxPolled") EXCEPT !.validity = validity, !.next = uidNext]>>)
    <3> DEFINE x == [Ev("MailboxPolled") EXCEPT !.validity = validity, !.next = uidNext]
    <3>1. x \in Event /\ Saying(x, Head(cmds))
      BY PolledType, <1>n DEF Saying
    <3> HIDE DEF x
    <3>2. Tell(<<x>>)
      BY <2>2 DEF x
    <3> QED BY <1>4, <2>2, <3>1, <3>2, <1>1, <1>n DEF PollMailbox
  <2>3. CASE link = "broken" /\ link' = "none" /\ Tell(<<Ev("PollFailed")>>)
    BY <1>4, <2>3, <1>1, <1>p, <1>n DEF PollMailbox
  <2> QED BY <1>4, <2>1, <2>2, <2>3 DEF PollMailbox
<1>5. CASE FetchNewHeaders
  <2>0. Head(cmds).op = "FetchNewHeaders"
    BY <1>5 DEF FetchNewHeaders, Take
  <2>1. CASE link = "none" /\ UNCHANGED <<link, evs>>
    BY <1>5, <2>1, <1>0, <1>n DEF FetchNewHeaders
  <2>2. CASE link = "up" /\ UNCHANGED link
             /\ Tell(<<[Ev("NewHeaders") EXCEPT !.validity = validity, !.uids = FromUid(Head(cmds).first)]>>)
    <3> DEFINE x == [Ev("NewHeaders") EXCEPT !.validity = validity, !.uids = FromUid(Head(cmds).first)]
    <3>1. x \in Event /\ Saying(x, Head(cmds))
      BY <2>0, HeadersType, <1>n, <1>u DEF Saying
    <3> HIDE DEF x
    <3>2. Tell(<<x>>)
      BY <2>2 DEF x
    <3> QED BY <1>5, <2>2, <3>1, <3>2, <1>1, <1>n DEF FetchNewHeaders
  <2>3. CASE link = "broken" /\ link' = "none" /\ Tell(<<Ev("PollFailed")>>)
    BY <1>5, <2>3, <1>1, <1>p, <1>n DEF FetchNewHeaders
  <2> QED BY <1>5, <2>1, <2>2, <2>3 DEF FetchNewHeaders
<1>6. CASE FetchUnreadCounts
  <2>1. CASE link # "none" /\ UNCHANGED link /\ Tell(Counts)
    <3> HIDE DEF Counts
    <3>1. Says(Counts)
      BY <2>1, <1>k DEF Tell, Room, Saying
    <3> QED BY <1>6, <2>1, <3>1, <1>k, <1>n DEF FetchUnreadCounts
  <2>2. CASE link = "none" /\ ~creds /\ UNCHANGED <<link, evs>>
    BY <1>6, <2>2, <1>0, <1>n DEF FetchUnreadCounts
  <2>3. CASE link = "none" /\ creds /\ link' = "up" /\ Tell(<<Ev("Disconnected"), Ev("Connected")>> \o Counts)
    <3> DEFINE two == <<Ev("Disconnected"), Ev("Connected")>>
    <3>1. two \in Seq(Event) /\ Len(two) = 2 /\ two[1].ev = "Disconnected" /\ two[2].ev = "Connected"
      <4>1. Ev("Disconnected") \in Event /\ Ev("Connected") \in Event
            /\ Ev("Disconnected").ev = "Disconnected" /\ Ev("Connected").ev = "Connected"
        BY EvType
      <4> HIDE DEF Ev
      <4> QED BY <4>1
    <3> HIDE DEF two
    <3>2. /\ two \o Counts \in Seq(Event)
          /\ \A i \in 1..Len(two \o Counts) :
               (two \o Counts)[i].ev \in {"Disconnected", "Connected", "UnreadCounts"}
      BY <1>k, <3>1, ConcatAt
    <3>3. Tell(two \o Counts)
      BY <2>3 DEF two
    <3>4. Says(two \o Counts)
      BY <3>2, <3>3 DEF Tell, Room, Saying
    <3> QED BY <1>6, <2>3, <3>2, <3>4, <1>n DEF FetchUnreadCounts
  <2> QED BY <1>6, <2>1, <2>2, <2>3 DEF FetchUnreadCounts
<1>7. CASE ReconnectGivesUp
  BY <1>7, <1>1, <1>p, <1>n DEF ReconnectGivesUp
<1> QED BY <1>2, <1>3, <1>4, <1>5, <1>6, <1>7 DEF ActorStep

(***************************************************************************)
(* Type correctness                                                        *)
(***************************************************************************)

(* A session that has done nothing. *)
LEMMA EmptyTyped ==
  /\ <<>> \in Seq(Command) /\ <<>> \in Seq(Event) /\ Len(<<>>) = 0
  /\ NoMark \in [validity : Nat, next : Nat] /\ 0 \in 0..WakeQueue
BY ChannelAssumption DEF NoMark

(* The account is absent at first and nothing is queued. *)
LEMMA TypedInit == Init => Typed
<1> SUFFICES ASSUME Init PROVE Typed
  OBVIOUS
<1>1. ServerTyped
  <2>1. 1..(uidNext - 1) = {1} /\ changes = 0 /\ uidNext = 2
    BY DEF Init, SessionInit
  <2>2. shrunk \in BOOLEAN
    BY DEF Init, SessionInit
  <2>3. changes \in 0..MaxChanges /\ uidNext \in 1..(changes + 2) /\ validity \in Nat \ {0}
    BY <2>1, WatchBoundAssumption DEF Init, SessionInit
  <2>4. mail \subseteq 1..(uidNext - 1) /\ unseen \subseteq mail
    BY <2>1 DEF Init, SessionInit
  <2> QED BY <2>2, <2>3, <2>4 DEF ServerTyped
<1>2. SessionTyped
  <2>1. creds \in BOOLEAN /\ connected \in BOOLEAN /\ push \in BOOLEAN
    BY DEF Init, SessionInit
  <2>2. cmds = <<>> /\ evs = <<>> /\ mark = NoMark /\ wakes = 0 /\ link = "none" /\ idle = "off"
        /\ toasted = {} /\ floor = {}
    BY DEF Init, SessionInit
  <2> QED BY <2>1, <2>2, EmptyTyped, ChannelAssumption DEF SessionTyped
<1>3. WatcherTyped
  BY ChannelAssumption DEF Init, SessionInit, WatcherTyped
<1> QED BY <1>1, <1>2, <1>3 DEF Typed

(* The mailbox keeps its type under every step. *)
LEMMA ServerTypedStep == ServerTyped /\ [Next]_vars => ServerTyped'
<1> SUFFICES ASSUME ServerTyped, [Next]_vars PROVE ServerTyped'
  OBVIOUS
<1> USE WatchBoundAssumption
<1>1. CASE UNCHANGED server
  BY <1>1 DEF server, ServerTyped
<1>2. CASE Arrive
  BY <1>2 DEF Arrive, Change, ServerTyped
<1>3. CASE ReadElsewhere
  BY <1>3 DEF ReadElsewhere, Change, ServerTyped
<1>4. CASE ExpungeElsewhere
  BY <1>4 DEF ExpungeElsewhere, Change, ServerTyped
<1>5. CASE RecreateElsewhere
  BY <1>5 DEF RecreateElsewhere, Change, ServerTyped
<1>6. CASE ~(Arrive \/ ReadElsewhere \/ ExpungeElsewhere \/ RecreateElsewhere)
  <2>1. UNCHANGED server
    BY <1>6 DEF Next, SessionNext, ServerStep, LinkBreaks, IdleBreaks, ActorStep, ActorOnly, ConnectOk, ConnectFails,
       PollMailbox, FetchNewHeaders, FetchUnreadCounts, ReconnectGivesUp, IdleStep, IdleOnly, IdleConnects,
       IdleRevoked, IdleNewData, IdleAgain, ForwarderStep, Forward, PollTick, IdleWake, ApplyAdds, RestartAccount,
       ApplyRemoves, Handle, vars, sessionVars, server
  <2> QED BY <2>1, <1>1
<1> QED BY <1>2, <1>3, <1>4, <1>5, <1>6

(* The session keeps its types. *)
LEMMA SessionTypedStep == ServerTyped /\ SessionTyped /\ [Next]_vars => SessionTyped'
<1> SUFFICES ASSUME ServerTyped, SessionTyped, [Next]_vars PROVE SessionTyped'
  OBVIOUS
<1> USE ChannelAssumption
<1>a. CASE UNCHANGED <<actor, forwarder, idleVars, toasted, floor>>
  BY <1>a DEF actor, forwarder, idleVars, SessionTyped
<1>1. CASE ServerStep
  <2>1. CASE LinkBreaks
    BY <2>1 DEF LinkBreaks, SessionTyped, forwarder, idleVars
  <2>2. CASE IdleBreaks
    BY <2>2 DEF IdleBreaks, SessionTyped, actor, forwarder
  <2>3. CASE Arrive \/ ReadElsewhere \/ ExpungeElsewhere \/ RecreateElsewhere
    <3>1. UNCHANGED <<actor, forwarder, idle, toasted, floor>> /\ Pushed
      BY <2>3 DEF Arrive, ReadElsewhere, ExpungeElsewhere, RecreateElsewhere
    <3> QED BY <3>1 DEF Pushed, SessionTyped, actor, forwarder
  <2> QED BY <1>1, <2>1, <2>2, <2>3 DEF ServerStep
<1>2. CASE ActorStep
  <2>1. Answers
    BY <1>2, ActorAnswers
  <2>2. cmds' \in Seq(Command) /\ Len(cmds') <= CmdQueue
    BY <2>1, TailAt DEF Answers, SessionTyped
  <2>3. evs' \in Seq(Event) /\ Len(evs') <= EventQueue
    BY <2>1, ConcatAt DEF Answers, SessionTyped
  <2> QED BY <2>1, <2>2, <2>3 DEF Answers, ActorOnly, SessionTyped, forwarder, idleVars
<1>3. CASE IdleStep
  <2>1. UNCHANGED <<actor, connected, mark, toasted, floor>>
    BY <1>3 DEF IdleStep, IdleConnects, IdleRevoked, IdleNewData, IdleAgain, IdleOnly
  <2>2. idle' \in {"down", "idling", "between", "stopped"} /\ (push' = push \/ push' = FALSE)
    BY <1>3 DEF IdleStep, IdleConnects, IdleRevoked, IdleNewData, IdleAgain
  <2>3. wakes' \in 0..WakeQueue
    BY <1>3 DEF IdleStep, IdleConnects, IdleRevoked, IdleNewData, IdleAgain, SessionTyped
  <2> QED BY <2>1, <2>2, <2>3 DEF SessionTyped, actor
<1>4. CASE Forward
  <2> DEFINE e == Head(evs)
  <2>1. e \in Event /\ evs' \in Seq(Event) /\ Len(evs') <= EventQueue
    BY <1>4, TailAt DEF Forward, SessionTyped
  <2>2. e.validity \in Nat /\ e.next \in Nat /\ e.uids \in SUBSET Nat
    BY <2>1 DEF Event
  <2>r. UNCHANGED <<link, creds, wakes, push>>
    BY <1>4 DEF Forward
  <2> HIDE DEF e
  <2>3. CASE e.ev = "Connected" /\ OnConnected /\ UNCHANGED <<cmds, toasted, floor>>
    BY <2>1, <2>r, <2>3 DEF OnConnected, NoMark, SessionTyped
  <2>4. CASE connected' = FALSE /\ UNCHANGED <<mark, idle, cmds, toasted, floor>>
    BY <2>1, <2>r, <2>4 DEF SessionTyped
  <2>5. CASE WatermarkFold([validity |-> e.validity, next |-> e.next]) /\ UNCHANGED <<connected, idle, toasted>>
    <3> DEFINE c == [op |-> "FetchNewHeaders", first |-> mark.next]
    <3>1. c \in Command
      BY DEF Command, SessionTyped
    <3>2. cmds' = cmds \/ cmds' = TrySend(cmds, c)
      BY <2>5 DEF WatermarkFold
    <3> HIDE DEF c
    <3>3. cmds' \in Seq(Command) /\ Len(cmds') <= CmdQueue
      BY <3>1, <3>2, TrySendAt DEF SessionTyped
    <3>4. mark' \in [validity : Nat, next : Nat] /\ floor' \subseteq Nat \X Nat
      BY <2>2, <2>5 DEF WatermarkFold, SessionTyped
    <3> QED BY <2>1, <2>r, <2>5, <3>3, <3>4 DEF SessionTyped
  <2>6. CASE Notify(e) /\ UNCHANGED <<connected, mark, idle, cmds, floor>>
    <3>1. toasted' \subseteq Nat \X Nat
      BY <2>2, <2>6 DEF Notify, SessionTyped
    <3> QED BY <2>1, <2>r, <2>6, <3>1 DEF SessionTyped
  <2>7. CASE UNCHANGED <<connected, mark, idle, cmds, toasted, floor>>
    BY <2>1, <2>r, <2>7 DEF SessionTyped
  <2> QED BY <1>4, <2>3, <2>4, <2>5, <2>6, <2>7 DEF Forward, e
<1>5. CASE PollTick \/ IdleWake
  <2>1. cmds' = cmds \/ cmds' = TrySend(cmds, Cmd("Poll"))
    BY <1>5 DEF PollTick, IdleWake
  <2>2. cmds' \in Seq(Command) /\ Len(cmds') <= CmdQueue
    BY <2>1, TrySendAt, CmdType DEF SessionTyped
  <2> QED BY <1>5, <2>2 DEF PollTick, IdleWake, SessionTyped, forwarder, idleVars
<1>6. CASE ApplyAdds
  <2>1. <<Cmd("Connect")>> \in Seq(Command) /\ Len(<<Cmd("Connect")>>) = 1
    BY CmdType
  <2>2. creds' \in BOOLEAN /\ connected' \in BOOLEAN /\ push' \in BOOLEAN
    BY <1>6 DEF ApplyAdds, RestartAccount, FreshSession
  <2>3. cmds' = <<Cmd("Connect")>> /\ evs' = <<>> /\ mark' = NoMark /\ wakes' = 0 /\ link' = "none" /\ idle' = "off"
        /\ UNCHANGED <<toasted, floor>>
    BY <1>6 DEF ApplyAdds, RestartAccount, FreshSession
  <2> QED BY <2>1, <2>2, <2>3, EmptyTyped DEF SessionTyped
<1>7. CASE ApplyRemoves
  <2>2. creds' \in BOOLEAN /\ connected' \in BOOLEAN /\ push' \in BOOLEAN
    BY <1>7 DEF ApplyRemoves, DropSession
  <2>3. cmds' = <<>> /\ evs' = <<>> /\ mark' = NoMark /\ wakes' = 0 /\ link' = "none" /\ idle' = "off"
        /\ UNCHANGED <<toasted, floor>>
    BY <1>7 DEF ApplyRemoves, DropSession
  <2> QED BY <2>2, <2>3, EmptyTyped DEF SessionTyped
<1>8. CASE Handle
  <2>1. cmds' = cmds \/ cmds' = TrySend(cmds, Cmd("FetchUnreadCounts"))
    BY <1>8 DEF Handle, HandleConnected, HandlePolled, RequestUnread
  <2>2. cmds' \in Seq(Command) /\ Len(cmds') <= CmdQueue
    BY <2>1, TrySendAt, CmdType DEF SessionTyped
  <2> QED BY <1>8, <2>2 DEF Handle, SessionTyped, forwarder, idleVars
<1>9. CASE UNCHANGED vars
  BY <1>9, <1>a DEF vars, sessionVars
<1> QED BY <1>1, <1>2, <1>3, <1>4, <1>5, <1>6, <1>7, <1>8, <1>9 DEF Next, SessionNext, ForwarderStep

(* Only the forwarder passes events on, moves the watermark and announces. *)
LEMMA Quiet == SessionNext /\ ~Forward => UNCHANGED <<ui, gen, mark, toasted, floor>>
BY DEF SessionNext, ServerStep, Arrive, ReadElsewhere, ExpungeElsewhere, RecreateElsewhere, LinkBreaks,
   IdleBreaks, ActorStep, ActorOnly, ConnectOk, ConnectFails, PollMailbox, FetchNewHeaders, FetchUnreadCounts,
   ReconnectGivesUp, IdleStep, IdleOnly, IdleConnects, IdleRevoked, IdleNewData, IdleAgain, ForwarderStep,
   PollTick, IdleWake, forwarder

(* The watcher keeps its types. *)
LEMMA WatcherTypedStep == SessionTyped /\ WatcherTyped /\ [Next]_vars => WatcherTyped'
<1> SUFFICES ASSUME SessionTyped, WatcherTyped, [Next]_vars PROVE WatcherTyped'
  OBVIOUS
<1> USE ChannelAssumption
<1>1. CASE Forward /\ UNCHANGED <<state, unread>>
  <2>1. Head(evs) \in Event
    BY <1>1, TailAt DEF Forward, SessionTyped
  <2>2. [gen |-> gen, e |-> Head(evs)] \in Passed
    BY <2>1 DEF Passed, WatcherTyped
  <2>3. ui' \in Seq(Passed) /\ Len(ui') <= UiQueue
    BY <1>1, <2>2, AppendAt DEF Forward, WatcherTyped
  <2> QED BY <1>1, <2>3 DEF Forward, WatcherTyped
<1>2. CASE Handle
  <2>1. Head(ui) \in Passed /\ ui' \in Seq(Passed) /\ Len(ui') <= UiQueue
    BY <1>2, TailAt DEF Handle, WatcherTyped
  <2>2. Head(ui).e.count \in Nat
    BY <2>1 DEF Passed, Event
  <2>3. state' \in {"absent", "connecting", "connected", "watching", "failed"} /\ unread' \in Nat /\ gen' = gen
    BY <1>2, <2>2 DEF Handle, HandleConnected, HandlePolled, WatcherTyped
  <2> QED BY <2>1, <2>3, <1>2 DEF WatcherTyped
<1>3. CASE ApplyAdds \/ ApplyRemoves
  BY <1>3 DEF ApplyAdds, RestartAccount, FreshSession, ApplyRemoves, DropSession, WatcherTyped
<1>4. CASE UNCHANGED <<ui, gen, state, unread>>
  BY <1>4 DEF WatcherTyped
<1>5. CASE SessionNext /\ ~Forward /\ UNCHANGED <<state, unread>>
  <2>1. UNCHANGED <<ui, gen>>
    BY <1>5, Quiet
  <2> QED BY <1>4, <1>5, <2>1
<1>6. CASE UNCHANGED vars
  BY <1>4, <1>6 DEF vars, sessionVars
<1> QED BY <1>1, <1>2, <1>3, <1>5, <1>6 DEF Next

(* Every step keeps the types. *)
LEMMA TypedStep == Typed /\ [Next]_vars => Typed'
BY ServerTypedStep, SessionTypedStep, WatcherTypedStep DEF Typed

(* These types imply the type invariant. *)
LEMMA TypedIsOK == Typed => TypeOK
<1> SUFFICES ASSUME Typed PROVE TypeOK
  OBVIOUS
<1>1. /\ mail \subseteq 1..(MaxChanges + 1) /\ unseen \subseteq mail
      /\ uidNext \in 1..(MaxChanges + 2) /\ validity \in Nat
  BY WatchBoundAssumption DEF Typed, ServerTyped
<1> QED BY <1>1 DEF Typed, SessionTyped, WatcherTyped, TypeOK

(* The session and its watcher stay within their types, and every channel
   within its capacity: try_send drops what a full command channel has no room
   for, and the actor, the forwarder and the IDLE watch wait for room in
   theirs (spawn_session, forward_and_watch, idle_watch::run). *)
THEOREM WatcherTypes == Spec => []TypeOK
<1>1. Init => Typed
  BY TypedInit
<1>2. Typed /\ [Next]_vars => Typed'
  BY TypedStep
<1>3. Typed => TypeOK
  BY TypedIsOK
<1> QED BY <1>1, <1>2, <1>3, PTL DEF Spec

(***************************************************************************)
(* An account shown as watching is baselined                               *)
(***************************************************************************)

(* Only adding the account starts a session. *)
LEMMA UnbornStep == Typed /\ Unborn /\ [Next]_vars => Unborn'
<1> SUFFICES ASSUME Typed, Unborn, [Next]_vars, gen' = 0
             PROVE  /\ cmds' = <<>> /\ evs' = <<>> /\ ui' = <<>> /\ state' = "absent"
                    /\ ~connected' /\ wakes' = 0 /\ idle' = "off"
  BY DEF Unborn
<1>1. gen \in Nat
  BY DEF Typed, WatcherTyped
<1>2. ~ApplyAdds
  BY <1>1 DEF ApplyAdds, RestartAccount, FreshSession
<1>3. gen = 0
  <2>1. CASE SessionNext
    BY <2>1, Quiet DEF Forward
  <2>2. CASE ~SessionNext
    BY <1>2, <2>2 DEF Next, ApplyRemoves, DropSession, Handle, vars, sessionVars
  <2> QED BY <2>1, <2>2
<1>4. cmds = <<>> /\ evs = <<>> /\ ui = <<>> /\ state = "absent" /\ ~connected /\ wakes = 0 /\ idle = "off"
  BY <1>3 DEF Unborn
<1>5. CASE ServerStep /\ UNCHANGED <<state, unread>>
  BY <1>4, <1>5 DEF ServerStep, Arrive, ReadElsewhere, ExpungeElsewhere, RecreateElsewhere, LinkBreaks, IdleBreaks,
     actor, forwarder, idleVars
<1>6. CASE UNCHANGED vars
  BY <1>4, <1>6 DEF vars, sessionVars, actor, forwarder, idleVars
<1>7. ~ActorStep /\ ~IdleStep /\ ~ForwarderStep /\ ~ApplyRemoves /\ ~Handle
  BY <1>4 DEF ActorStep, ConnectOk, ConnectFails, PollMailbox, FetchNewHeaders, FetchUnreadCounts, ReconnectGivesUp,
     Take, IdleStep, IdleConnects, IdleRevoked, IdleNewData, IdleAgain, ForwarderStep, Forward, PollTick, IdleWake,
     ApplyRemoves, Handle
<1> QED BY <1>2, <1>5, <1>6, <1>7 DEF Next, SessionNext

(* How the four kinds of step that the watermark depends on leave the rest. *)
LEMMA MarkFrame ==
  [Next]_vars => \/ UNCHANGED <<ui, gen, mark, state>>
                 \/ Forward /\ UNCHANGED <<gen, state>>
                 \/ Handle /\ UNCHANGED <<gen, mark>>
                 \/ ApplyAdds /\ UNCHANGED ui /\ gen' = gen + 1 /\ state' = "connecting"
                 \/ ApplyRemoves /\ UNCHANGED <<ui, gen>> /\ state' = "absent"
<1> SUFFICES ASSUME [Next]_vars
             PROVE  \/ UNCHANGED <<ui, gen, mark, state>>
                    \/ Forward /\ UNCHANGED <<gen, state>>
                    \/ Handle /\ UNCHANGED <<gen, mark>>
                    \/ ApplyAdds /\ UNCHANGED ui /\ gen' = gen + 1 /\ state' = "connecting"
                    \/ ApplyRemoves /\ UNCHANGED <<ui, gen>> /\ state' = "absent"
  OBVIOUS
<1>1. CASE SessionNext /\ UNCHANGED <<state, unread>>
  BY <1>1, Quiet DEF Forward
<1>2. CASE Handle
  BY <1>2 DEF Handle, forwarder
<1>3. CASE ApplyAdds
  BY <1>3 DEF ApplyAdds, RestartAccount, FreshSession
<1>4. CASE ApplyRemoves
  BY <1>4 DEF ApplyRemoves, DropSession
<1>5. CASE UNCHANGED vars
  BY <1>5 DEF vars, sessionVars, forwarder
<1> QED BY <1>1, <1>2, <1>3, <1>4, <1>5 DEF Next

(* The channel after a Forward. *)
LEMMA ForwardAt ==
  ASSUME Typed, Forward
  PROVE  /\ evs # <<>> /\ evs' = Tail(evs) /\ Head(evs) = evs[1] /\ evs[1] \in Event
         /\ ui' \in Seq(Passed) /\ Len(ui') = Len(ui) + 1
         /\ \A i \in 1..Len(ui) : ui'[i] = ui[i]
         /\ ui'[Len(ui) + 1].gen = gen /\ ui'[Len(ui) + 1].e = evs[1]
<1>1. evs # <<>> /\ evs' = Tail(evs) /\ ui' = Append(ui, [gen |-> gen, e |-> Head(evs)])
  BY DEF Forward
<1>2. Head(evs) \in Event /\ Head(evs) = evs[1]
  BY <1>1, TailAt DEF Typed, SessionTyped
<1>3. [gen |-> gen, e |-> Head(evs)] \in Passed
  BY <1>2 DEF Passed, Typed, WatcherTyped
<1>4. ui \in Seq(Passed)
  BY DEF Typed, WatcherTyped
<1> QED BY <1>1, <1>2, <1>3, <1>4, AppendAt

(* The channel after a Handle. *)
LEMMA HandleAt ==
  ASSUME Typed, Handle
  PROVE  /\ ui # <<>> /\ Head(ui) = ui[1] /\ ui[1] \in Passed /\ Len(ui) >= 1
         /\ ui' \in Seq(Passed) /\ Len(ui') = Len(ui) - 1
         /\ \A i \in 1..Len(ui') : i + 1 \in 1..Len(ui) /\ ui'[i] = ui[i + 1]
BY TailAt DEF Typed, WatcherTyped, Handle

(* A session speaks only while it is the newest. *)
LEMMA SaidStep == Typed /\ Unborn /\ SaidBySessions /\ [Next]_vars => SaidBySessions'
<1> SUFFICES ASSUME Typed, Unborn, SaidBySessions, [Next]_vars, NEW i \in 1..Len(ui') PROVE ui'[i].gen \in 1..gen'
  BY DEF SaidBySessions
<1>1. gen \in Nat /\ ui \in Seq(Passed)
  BY DEF Typed, WatcherTyped
<1>2. CASE UNCHANGED <<ui, gen, mark, state>>
  BY <1>2 DEF SaidBySessions
<1>3. CASE Forward /\ UNCHANGED <<gen, state>>
  <2>1. gen # 0
    BY <1>3 DEF Forward, Unborn
  <2> QED BY <1>1, <1>3, <2>1, ForwardAt DEF SaidBySessions
<1>4. CASE Handle /\ UNCHANGED <<gen, mark>>
  BY <1>4, HandleAt DEF SaidBySessions
<1>5. CASE ApplyAdds /\ UNCHANGED ui /\ gen' = gen + 1
  BY <1>1, <1>5 DEF SaidBySessions
<1>6. CASE ApplyRemoves /\ UNCHANGED <<ui, gen>>
  BY <1>6 DEF SaidBySessions
<1> QED BY <1>2, <1>3, <1>4, <1>5, <1>6, MarkFrame

(* Where the events in the actor's channel come from. *)
LEMMA EvsFrame ==
  ASSUME Typed, [Next]_vars, NEW i \in 1..Len(evs')
  PROVE  \/ i \in 1..Len(evs) /\ evs'[i] = evs[i]
         \/ Forward /\ i + 1 \in 1..Len(evs) /\ evs'[i] = evs[i + 1]
         \/ ActorStep /\ cmds # <<>> /\ ActorOnly /\ evs'[i] \in Event /\ Saying(evs'[i], Head(cmds)) /\ i > Len(evs)
<1>0. evs \in Seq(Event)
  BY DEF Typed, SessionTyped
<1>1. CASE ActorStep
  <2>1. Answers
    BY <1>1, ActorAnswers DEF Typed
  <2>2. PICK es \in Seq(Event) : evs' = evs \o es /\ \A k \in 1..Len(es) : Saying(es[k], Head(cmds))
    BY <2>1 DEF Answers
  <2> QED BY <1>0, <1>1, <2>1, <2>2, ConcatAt DEF Answers
<1>2. CASE Forward
  BY <1>0, <1>2, TailAt DEF Forward
<1>3. CASE ApplyAdds \/ ApplyRemoves
  BY <1>3 DEF ApplyAdds, RestartAccount, FreshSession, ApplyRemoves, DropSession
<1>4. CASE UNCHANGED evs
  BY <1>4
<1>5. CASE ServerStep \/ IdleStep \/ PollTick \/ IdleWake \/ Handle \/ UNCHANGED vars
  <2>1. UNCHANGED evs
    BY <1>5 DEF ServerStep, Arrive, ReadElsewhere, ExpungeElsewhere, RecreateElsewhere, LinkBreaks, IdleBreaks,
       IdleStep, IdleOnly, IdleConnects, IdleRevoked, IdleNewData, IdleAgain, PollTick, IdleWake, Handle, vars,
       sessionVars, actor
  <2> QED BY <1>4, <2>1
<1> QED BY <1>1, <1>2, <1>3, <1>5 DEF Next, SessionNext, ForwarderStep

(* The actor polls a mailbox that exists. *)
LEMMA PollsRealStep == Typed /\ PollsAreReal /\ [Next]_vars => PollsAreReal'
<1> SUFFICES ASSUME Typed, PollsAreReal, [Next]_vars, NEW i \in 1..Len(evs'), evs'[i].ev = "MailboxPolled"
             PROVE  evs'[i].validity # 0
  BY DEF PollsAreReal
<1>1. validity # 0
  BY DEF Typed, ServerTyped
<1> QED BY <1>1, EvsFrame DEF PollsAreReal, Saying

(* A Connected to come stays to come while others are passed on. *)
LEMMA AfterForward ==
  ASSUME Typed, Forward, UNCHANGED gen, NEW i \in Nat, ConnectedAfter(i)
  PROVE  ConnectedAfter(i)'
<1>1. PICK j \in 1..Len(ui) : j > i /\ ui[j].gen = gen /\ ui[j].e.ev = "Connected"
  BY DEF ConnectedAfter
<1>2. j \in 1..Len(ui') /\ ui'[j] = ui[j]
  BY ForwardAt DEF Typed, WatcherTyped
<1> QED BY <1>1, <1>2 DEF ConnectedAfter

(* It is one place nearer after the watcher took an event. *)
LEMMA AfterHandle ==
  ASSUME Typed, Handle, UNCHANGED gen, NEW i \in Nat, ConnectedAfter(i + 1)
  PROVE  ConnectedAfter(i)'
<1>1. PICK j \in 1..Len(ui) : j > i + 1 /\ ui[j].gen = gen /\ ui[j].e.ev = "Connected"
  BY DEF ConnectedAfter
<1>2. j - 1 \in 1..Len(ui') /\ ui'[j - 1] = ui[j] /\ j - 1 > i
  BY <1>1, HandleAt DEF Typed, WatcherTyped
<1> QED BY <1>1, <1>2 DEF ConnectedAfter

(* What a Forward does to the watermark. *)
LEMMA ForwardMark ==
  ASSUME Typed, PollsAreReal, Forward, UNCHANGED gen
  PROVE  \/ evs[1].ev = "MailboxPolled" /\ mark' # NoMark
         \/ evs[1].ev = "Connected" /\ \A i \in 0..Len(ui) : ConnectedAfter(i)'
         \/ evs[1].ev \notin {"MailboxPolled", "Connected"} /\ mark' = mark
<1>0. ui \in Seq(Passed) /\ Len(ui) \in Nat
  BY DEF Typed, WatcherTyped
<1>1. CASE evs[1].ev = "MailboxPolled"
  <2>1. mark' = [validity |-> evs[1].validity, next |-> evs[1].next]
    BY <1>1, ForwardAt DEF Forward, WatermarkFold
  <2>2. evs[1].validity # 0
    BY <1>1, ForwardAt DEF PollsAreReal, Typed, SessionTyped
  <2> QED BY <1>1, <2>1, <2>2 DEF NoMark
<1>2. CASE evs[1].ev = "Connected"
  <2>1. Len(ui) + 1 \in 1..Len(ui') /\ ui'[Len(ui) + 1].gen = gen' /\ ui'[Len(ui) + 1].e.ev = "Connected"
    BY <1>0, <1>2, ForwardAt
  <2> QED BY <1>0, <1>2, <2>1 DEF ConnectedAfter
<1>3. CASE evs[1].ev \notin {"MailboxPolled", "Connected"}
  BY <1>3, ForwardAt DEF Forward
<1> QED BY <1>1, <1>2, <1>3

(* Every step keeps PollLeavesMark: a restart makes the events in the channel
   those of an earlier session. *)
LEMMA PollLeavesStep ==
  Typed /\ SaidBySessions /\ PollsAreReal /\ PollLeavesMark /\ [Next]_vars => PollLeavesMark'
<1> SUFFICES ASSUME Typed, SaidBySessions, PollsAreReal, PollLeavesMark, [Next]_vars, state' # "absent",
                    NEW i \in 1..Len(ui'), ui'[i].gen = gen', ui'[i].e.ev = "MailboxPolled"
             PROVE  mark' # NoMark \/ ConnectedAfter(i)'
  BY DEF PollLeavesMark
<1>0. ui \in Seq(Passed) /\ Len(ui) \in Nat /\ gen \in Nat
  BY DEF Typed, WatcherTyped
<1>1. CASE UNCHANGED <<ui, gen, mark, state>>
  BY <1>1 DEF PollLeavesMark, ConnectedAfter
<1>2. CASE Forward /\ UNCHANGED <<gen, state>>
  <2>1. CASE i = Len(ui) + 1
    BY <1>0, <1>2, <2>1, ForwardAt, ForwardMark
  <2>2. CASE i # Len(ui) + 1
    <3>1. i \in 1..Len(ui) /\ ui'[i] = ui[i]
      BY <1>0, <1>2, <2>2, ForwardAt
    <3>2. mark # NoMark \/ ConnectedAfter(i)
      BY <1>2, <3>1 DEF PollLeavesMark
    <3> QED BY <1>0, <1>2, <3>1, <3>2, ForwardMark, AfterForward
  <2> QED BY <2>1, <2>2
<1>3. CASE Handle /\ UNCHANGED <<gen, mark>>
  <2>1. state # "absent"
    BY <1>3 DEF Handle
  <2>2. i + 1 \in 1..Len(ui) /\ ui'[i] = ui[i + 1] /\ i \in Nat
    BY <1>3, HandleAt
  <2>3. mark # NoMark \/ ConnectedAfter(i + 1)
    BY <1>3, <2>1, <2>2 DEF PollLeavesMark
  <2> QED BY <1>3, <2>2, <2>3, AfterHandle
<1>4. CASE ApplyAdds /\ UNCHANGED ui /\ gen' = gen + 1
  BY <1>0, <1>4 DEF SaidBySessions
<1> QED BY <1>1, <1>2, <1>3, <1>4, MarkFrame

(* Every step keeps WatchingHasMark. *)
LEMMA WatchingStep ==
  Typed /\ SaidBySessions /\ PollsAreReal /\ PollLeavesMark /\ WatchingHasMark /\ [Next]_vars => WatchingHasMark'
<1> SUFFICES ASSUME Typed, SaidBySessions, PollsAreReal, PollLeavesMark, WatchingHasMark, [Next]_vars,
                    state' = "watching", gen' = 1
             PROVE  mark' # NoMark \/ ConnectedAfter(0)'
  BY DEF WatchingHasMark
<1>0. ui \in Seq(Passed) /\ Len(ui) \in Nat
  BY DEF Typed, WatcherTyped
<1>1. CASE UNCHANGED <<ui, gen, mark, state>>
  BY <1>1 DEF WatchingHasMark, ConnectedAfter
<1>2. CASE Forward /\ UNCHANGED <<gen, state>>
  <2>1. mark # NoMark \/ ConnectedAfter(0)
    BY <1>2 DEF WatchingHasMark
  <2> QED BY <1>0, <1>2, <2>1, ForwardMark, AfterForward
<1>3. CASE Handle /\ UNCHANGED <<gen, mark>>
  <2>1. \/ state = "watching" /\ ui[1].e.ev # "Connected"
        \/ state = "connected" /\ ui[1].e.ev = "MailboxPolled"
    BY <1>3, HandleAt DEF Handle, HandleConnected, HandlePolled, IsUp
  <2>2. CASE state = "watching" /\ ui[1].e.ev # "Connected"
    <3>1. CASE mark # NoMark
      BY <1>3, <3>1
    <3>2. CASE ConnectedAfter(0)
      <4>1. ConnectedAfter(0 + 1)
        BY <1>0, <2>2, <3>2 DEF ConnectedAfter
      <4> QED BY <1>3, <4>1, AfterHandle
    <3> QED BY <1>3, <2>2, <3>1, <3>2 DEF WatchingHasMark
  <2>3. CASE state = "connected" /\ ui[1].e.ev = "MailboxPolled"
    <3>1. 1 \in 1..Len(ui) /\ ui[1].gen = gen
      BY <1>0, <1>3, HandleAt DEF SaidBySessions
    <3>2. mark # NoMark \/ ConnectedAfter(0 + 1)
      BY <2>3, <3>1 DEF PollLeavesMark
    <3> QED BY <1>3, <3>2, AfterHandle
  <2> QED BY <2>1, <2>2, <2>3
<1> QED BY <1>1, <1>2, <1>3, MarkFrame

(* "Connected and baselined": an account shown as watching, in its first
   session and with no news of the connection on its way, has a watermark,
   for channels of every capacity and any number of reconnects
   (Watcher::handle, forward_and_watch, update_watermark). *)
THEOREM WatchingIsTrue == Spec => []WatchingIsBaselined
<1>1. Init => Typed /\ Baselined
  <2>1. Init => Baselined
    BY DEF Init, SessionInit, Baselined, Unborn, SaidBySessions, PollsAreReal, PollLeavesMark, WatchingHasMark
  <2> QED BY <2>1, TypedInit
<1>2. Typed /\ Baselined /\ [Next]_vars => (Typed /\ Baselined)'
  BY TypedStep, UnbornStep, SaidStep, PollsRealStep, PollLeavesStep, WatchingStep DEF Baselined
<1>3. Typed /\ Baselined => WatchingIsBaselined
  <2> SUFFICES ASSUME Baselined, state = "watching", gen = 1, ~OnItsWay({"Connected", "Disconnected"})
               PROVE  mark # NoMark
    BY DEF WatchingIsBaselined
  <2>1. ~ConnectedAfter(0)
    BY DEF OnItsWay, ConnectedAfter
  <2> QED BY <2>1 DEF Baselined, WatchingHasMark
<1> QED BY <1>1, <1>2, <1>3, PTL DEF Spec

(***************************************************************************)
(* Old mail is not announced                                               *)
(***************************************************************************)

(* As long as nothing is removed, the mailbox is all the messages there were. *)
LEMMA GrowsStep ==
  ASSUME Typed, MailboxGrows, [Next]_vars, ~shrunk'
  PROVE  MailboxGrows' /\ ~shrunk /\ uidNext' \in Nat /\ uidNext \in Nat /\ uidNext' >= uidNext
<1>0. uidNext \in Nat \ {0} /\ shrunk \in BOOLEAN
  BY DEF Typed, ServerTyped
<1>1. CASE Arrive
  BY <1>0, <1>1 DEF Arrive, MailboxGrows
<1>2. CASE ReadElsewhere
  BY <1>0, <1>2 DEF ReadElsewhere, MailboxGrows
<1>3. ~ExpungeElsewhere /\ ~RecreateElsewhere
  BY DEF ExpungeElsewhere, RecreateElsewhere
<1>4. CASE ~(Arrive \/ ReadElsewhere)
  <2>1. UNCHANGED server
    BY <1>3, <1>4 DEF Next, SessionNext, ServerStep, LinkBreaks, IdleBreaks, ActorStep, ActorOnly, ConnectOk, ConnectFails,
       PollMailbox, FetchNewHeaders, FetchUnreadCounts, ReconnectGivesUp, IdleStep, IdleOnly, IdleConnects,
       IdleRevoked, IdleNewData, IdleAgain, ForwarderStep, Forward, PollTick, IdleWake, ApplyAdds, RestartAccount,
       ApplyRemoves, Handle, vars, sessionVars, server
  <2> QED BY <1>0, <2>1 DEF server, MailboxGrows
<1> QED BY <1>1, <1>2, <1>4

(* The first baseline is taken by the first poll passed on, and stays. *)
LEMMA FloorStep ==
  ASSUME Typed, Above, [Next]_vars
  PROVE  \/ floor' = floor
         \/ /\ floor = {} /\ Forward /\ evs[1].ev = "MailboxPolled"
            /\ floor' = {<<1, evs[1].next>>}
<1>1. CASE Forward
  <2>1. 1 \in 1..Len(evs) /\ Head(evs) = evs[1]
    BY <1>1, TailAt DEF Forward, Typed, SessionTyped
  <2>2. CASE evs[1].ev = "MailboxPolled"
    <3>1. evs[1].validity = 1
      BY <2>1, <2>2 DEF Above, PollsAbove
    <3>2. floor' = IF \E p \in floor : p[1] = 1 THEN floor ELSE floor \cup {<<1, evs[1].next>>}
      BY <1>1, <2>1, <2>2, <3>1 DEF Forward, WatermarkFold
    <3> QED BY <1>1, <2>2, <3>2 DEF Above, FloorIsFirst
  <2>3. CASE evs[1].ev # "MailboxPolled"
    BY <1>1, <2>1, <2>3 DEF Forward
  <2> QED BY <2>2, <2>3
<1>2. CASE SessionNext /\ ~Forward
  BY <1>2, Quiet
<1>3. CASE ~SessionNext
  BY <1>3 DEF Next, ApplyAdds, RestartAccount, ApplyRemoves, Handle, vars, sessionVars
<1> QED BY <1>1, <1>2, <1>3

(* What is above the first baseline stays above it. *)
LEMMA AboveKept ==
  ASSUME Typed, Above, [Next]_vars
  PROVE  \A u : AboveFloor(u) => floor' # {} /\ \A p \in floor' : p[2] <= u
BY FloorStep DEF Above, AboveFloor

(* The first baseline is of this mailbox. *)
LEMMA FloorFirstStep == ASSUME Typed, Above, [Next]_vars, ~shrunk' PROVE FloorIsFirst'
<1>1. uidNext' \in Nat /\ uidNext \in Nat /\ uidNext' >= uidNext
  BY GrowsStep DEF Above
<1>2. CASE floor' = floor
  <2>1. \A p \in floor : p[2] \in Nat
    BY DEF Typed, SessionTyped
  <2> QED BY <1>1, <1>2, <2>1 DEF Above, FloorIsFirst
<1>3. CASE Forward /\ evs[1].ev = "MailboxPolled" /\ floor' = {<<1, evs[1].next>>}
  <2>1. 1 \in 1..Len(evs) /\ evs[1] \in Event
    BY <1>3, TailAt DEF Forward, Typed, SessionTyped
  <2>2. evs[1].next <= uidNext /\ evs[1].next \in Nat
    BY <1>3, <2>1 DEF Above, PollsAbove, Event
  <2> QED BY <1>1, <1>3, <2>2 DEF FloorIsFirst
<1> QED BY <1>2, <1>3, FloorStep

(* The watermark stays above the first baseline. *)
LEMMA MarkAboveStep == ASSUME Typed, Above, [Next]_vars PROVE MarkAbove'
<1> SUFFICES ASSUME mark' # NoMark PROVE mark'.validity = 1 /\ floor' # {} /\ \A p \in floor' : p[2] <= mark'.next
  BY DEF MarkAbove, AboveFloor
<1>1. CASE mark' = mark
  BY <1>1, AboveKept DEF Above, MarkAbove
<1>2. CASE mark' # mark
  <2>1. ~ApplyAdds /\ ~ApplyRemoves
    BY DEF ApplyAdds, RestartAccount, FreshSession, ApplyRemoves, DropSession
  <2>2. Forward
    BY <1>2, <2>1, MarkFrame
  <2>3. evs[1].ev = "MailboxPolled" /\ 1 \in 1..Len(evs) /\ Head(evs) = evs[1] /\ evs[1].next \in Nat
    <3>1. 1 \in 1..Len(evs) /\ Head(evs) = evs[1] /\ evs[1] \in Event
      BY <2>2, TailAt DEF Forward, Typed, SessionTyped
    <3>2. evs[1].ev = "MailboxPolled"
      BY <1>2, <2>2, <3>1 DEF Forward, OnConnected
    <3> QED BY <3>1, <3>2 DEF Event
  <2>4. mark' = [validity |-> evs[1].validity, next |-> evs[1].next]
    BY <2>2, <2>3 DEF Forward, WatermarkFold
  <2>5. mark'.validity = 1 /\ mark'.next = evs[1].next /\ \A p \in floor : p[2] <= evs[1].next
    BY <2>3, <2>4 DEF Above, PollsAbove
  <2>6. floor' # {} /\ \A p \in floor' : p[2] <= evs[1].next
    <3>1. CASE floor = {} /\ floor' = {<<1, evs[1].next>>}
      BY <2>3, <3>1
    <3>2. CASE floor # {} /\ floor' = floor
      BY <2>5, <3>2
    <3>3. <<evs[1].validity, evs[1].next>> \in floor' \/ floor # {}
      BY <2>2, <2>3 DEF Forward, WatermarkFold
    <3> QED BY <3>1, <3>2, <3>3, FloorStep
  <2> QED BY <2>5, <2>6
<1> QED BY <1>1, <1>2

(* A fetch that is queued now was queued, or is asked for by a poll that found
   more than the watermark. *)
LEMMA CmdsFrame ==
  ASSUME Typed, [Next]_vars, NEW i \in 1..Len(cmds'), cmds'[i].op = "FetchNewHeaders"
  PROVE  \/ \E k \in 1..Len(cmds) : cmds'[i] = cmds[k]
         \/ /\ Forward /\ evs[1].ev = "MailboxPolled" /\ 1 \in 1..Len(evs)
            /\ cmds'[i].first = mark.next /\ mark # NoMark /\ evs[1].next > mark.next
<1>0. cmds \in Seq(Command) /\ Len(cmds) <= CmdQueue
  BY DEF Typed, SessionTyped
<1>1. CASE UNCHANGED cmds
  BY <1>1
<1>2. CASE ActorStep
  <2>1. cmds # <<>> /\ cmds' = Tail(cmds)
    BY <1>2, ActorAnswers DEF Answers, Typed
  <2> QED BY <1>0, <2>1, TailAt
<1>3. ASSUME NEW o \in {"Poll", "FetchUnreadCounts"}, cmds' = TrySend(cmds, Cmd(o))
      PROVE  \E k \in 1..Len(cmds) : cmds'[i] = cmds[k]
  <2>1. Cmd(o) \in Command /\ Cmd(o).op # "FetchNewHeaders"
    BY CmdType
  <2> QED BY <1>0, <1>3, <2>1, TrySendAt
<1>4. CASE Forward
  <2>1. 1 \in 1..Len(evs) /\ Head(evs) = evs[1]
    BY <1>4, TailAt DEF Forward, Typed, SessionTyped
  <2>2. CASE evs[1].ev = "MailboxPolled"
    <3> DEFINE c == [op |-> "FetchNewHeaders", first |-> mark.next]
    <3>1. c \in Command /\ c.first = mark.next
      BY DEF Command, Typed, SessionTyped
    <3>2. cmds' = cmds \/ (cmds' = TrySend(cmds, c) /\ mark # NoMark /\ evs[1].next > mark.next)
      BY <1>4, <2>1, <2>2 DEF Forward, WatermarkFold, NewMail
    <3> HIDE DEF c
    <3>3. CASE cmds' = TrySend(cmds, c) /\ mark # NoMark /\ evs[1].next > mark.next
      <4>1. cmds'[i] = c \/ (i \in 1..Len(cmds) /\ cmds'[i] = cmds[i])
        BY <1>0, <3>1, <3>3, TrySendAt
      <4> QED BY <1>4, <2>1, <2>2, <3>1, <3>3, <4>1
    <3> QED BY <1>1, <3>2, <3>3
  <2>3. CASE evs[1].ev # "MailboxPolled"
    BY <1>1, <1>4, <2>1, <2>3 DEF Forward
  <2> QED BY <2>2, <2>3
<1>5. CASE PollTick \/ IdleWake \/ Handle
  BY <1>1, <1>3, <1>5 DEF PollTick, IdleWake, Handle, HandleConnected, HandlePolled, RequestUnread
<1>6. CASE ApplyAdds \/ ApplyRemoves
  <2>1. Cmd("Connect").op = "Connect"
    BY CmdType
  <2>2. cmds' = <<Cmd("Connect")>> \/ cmds' = <<>>
    BY <1>6 DEF ApplyAdds, RestartAccount, FreshSession, ApplyRemoves, DropSession
  <2> HIDE DEF Cmd
  <2> QED BY <2>1, <2>2
<1>7. CASE ServerStep \/ IdleStep \/ UNCHANGED vars
  <2>1. UNCHANGED cmds
    BY <1>7 DEF ServerStep, Arrive, ReadElsewhere, ExpungeElsewhere, RecreateElsewhere, LinkBreaks, IdleBreaks,
       IdleStep, IdleOnly, IdleConnects, IdleRevoked, IdleNewData, IdleAgain, vars, sessionVars, actor
  <2> QED BY <1>1, <2>1
<1> QED BY <1>2, <1>4, <1>5, <1>6, <1>7 DEF Next, SessionNext, ForwarderStep

(* Every fetch starts at or above it, and finds a message there. *)
LEMMA FetchesAboveStep == ASSUME Typed, Above, [Next]_vars, ~shrunk' PROVE FetchesAbove'
<1> SUFFICES ASSUME NEW i \in 1..Len(cmds'), cmds'[i].op = "FetchNewHeaders"
             PROVE  floor' # {} /\ (\A p \in floor' : p[2] <= cmds'[i].first) /\ cmds'[i].first < uidNext'
  BY DEF FetchesAbove, AboveFloor
<1>1. uidNext' \in Nat /\ uidNext \in Nat /\ uidNext' >= uidNext
  BY GrowsStep DEF Above
<1>2. CASE \E k \in 1..Len(cmds) : cmds'[i] = cmds[k]
  <2>1. PICK k \in 1..Len(cmds) : cmds'[i] = cmds[k]
    BY <1>2
  <2>2. AboveFloor(cmds[k].first) /\ cmds[k].first < uidNext /\ cmds[k].first \in Nat
    <3>1. cmds[k] \in Command
      BY DEF Typed, SessionTyped
    <3> QED BY <2>1, <3>1 DEF Above, FetchesAbove, Command
  <2> QED BY <1>1, <2>1, <2>2, AboveKept
<1>3. CASE /\ Forward /\ evs[1].ev = "MailboxPolled" /\ 1 \in 1..Len(evs)
           /\ cmds'[i].first = mark.next /\ mark # NoMark /\ evs[1].next > mark.next
  <2>1. AboveFloor(mark.next) /\ mark.next \in Nat
    BY <1>3 DEF Above, MarkAbove, Typed, SessionTyped
  <2>2. evs[1].next <= uidNext /\ evs[1].next \in Nat
    <3>1. evs[1] \in Event
      BY <1>3 DEF Typed, SessionTyped
    <3> QED BY <1>3, <3>1 DEF Above, PollsAbove, Event
  <2> QED BY <1>1, <1>3, <2>1, <2>2, AboveKept
<1> QED BY <1>2, <1>3, CmdsFrame

(* Every poll on its way is above it. *)
LEMMA PollsAboveStep == ASSUME Typed, Above, [Next]_vars, ~shrunk' PROVE PollsAbove'
<1> SUFFICES ASSUME NEW i \in 1..Len(evs'), evs'[i].ev = "MailboxPolled"
             PROVE  /\ evs'[i].validity = 1 /\ evs'[i].next <= uidNext'
                    /\ \A p \in floor' : p[2] <= evs'[i].next
  BY DEF PollsAbove
<1>1. uidNext' \in Nat /\ uidNext \in Nat /\ uidNext' >= uidNext
  BY GrowsStep DEF Above
<1>2. ASSUME NEW k \in 1..Len(evs), evs'[i] = evs[k]
      PROVE  evs[k].next \in Nat /\ evs'[i].validity = 1 /\ evs'[i].next <= uidNext' /\ \A p \in floor : p[2] <= evs'[i].next
  <2>1. evs[k] \in Event
    BY DEF Typed, SessionTyped
  <2>2. evs[k].next <= uidNext /\ evs[k].validity = 1 /\ \A p \in floor : p[2] <= evs[k].next
    BY <1>2 DEF Above, PollsAbove
  <2> QED BY <1>1, <1>2, <2>1, <2>2 DEF Event
<1>3. CASE ~Forward
  <2>0. floor' = floor
    BY <1>3, FloorStep
  <2>1. CASE i \in 1..Len(evs) /\ evs'[i] = evs[i]
    BY <1>2, <2>0, <2>1
  <2>2. CASE ActorStep /\ ActorOnly /\ Saying(evs'[i], Head(cmds))
    <3>1. evs'[i].validity = 1 /\ evs'[i].next = uidNext /\ uidNext' = uidNext
      BY <2>2 DEF Saying, Above, MailboxGrows, ActorOnly, server
    <3>2. \A p \in floor : p[2] <= uidNext
      BY DEF Above, FloorIsFirst
    <3> QED BY <1>1, <2>0, <3>1, <3>2
  <2> QED BY <1>3, <2>1, <2>2, EvsFrame
<1>4. CASE Forward
  <2>1. PICK k \in 1..Len(evs) : evs'[i] = evs[k] /\ k > 1
    BY <1>4, TailAt DEF Forward, Typed, SessionTyped
  <2>2. CASE floor' = floor
    BY <1>2, <2>1, <2>2
  <2>3. CASE floor = {} /\ evs[1].ev = "MailboxPolled" /\ floor' = {<<1, evs[1].next>>}
    <3>1. evs[1].next <= evs[k].next
      BY <2>1, <2>3 DEF Above, PollsGrow
    <3> QED BY <1>2, <2>1, <2>3, <3>1
  <2> QED BY <2>2, <2>3, FloorStep
<1> QED BY <1>3, <1>4

(* Polls come in the order they were made. *)
LEMMA PollsGrowStep == ASSUME Typed, Above, [Next]_vars, ~shrunk' PROVE PollsGrow'
<1> SUFFICES ASSUME NEW i \in 1..Len(evs'), NEW j \in 1..Len(evs'), i < j,
                    evs'[i].ev = "MailboxPolled", evs'[j].ev = "MailboxPolled"
             PROVE  evs'[i].next <= evs'[j].next
  BY DEF PollsGrow
<1>0. evs \in Seq(Event) /\ Len(evs) \in Nat /\ uidNext \in Nat
  BY DEF Typed, SessionTyped, ServerTyped
<1>1. CASE Forward
  <2>1. /\ i + 1 \in 1..Len(evs) /\ evs'[i] = evs[i + 1]
        /\ j + 1 \in 1..Len(evs) /\ evs'[j] = evs[j + 1]
    BY <1>0, <1>1, TailAt DEF Forward
  <2> QED BY <2>1 DEF Above, PollsGrow
<1>2. CASE ~Forward
  <2>1. ASSUME NEW k \in 1..Len(evs'), evs'[k].ev = "MailboxPolled"
        PROVE  \/ k \in 1..Len(evs) /\ evs'[k] = evs[k]
               \/ k > Len(evs) /\ evs'[k].next = uidNext
    BY <1>2, <2>1, EvsFrame DEF Saying
  <2>2. CASE j \in 1..Len(evs) /\ evs'[j] = evs[j]
    BY <1>0, <2>1, <2>2 DEF Above, PollsGrow
  <2>3. CASE evs'[j].next = uidNext
    BY <1>0, <2>1, <2>3 DEF Above, PollsAbove
  <2> QED BY <2>1, <2>2, <2>3
<1> QED BY <1>1, <1>2

(* UID FETCH n:* of a mailbox with a message n or above returns none below n. *)
LEMMA FromUidAbove ==
  ASSUME Typed, MailboxGrows, NEW n \in Nat, n < uidNext, NEW u \in FromUid(n)
  PROVE  u >= n /\ u \in Nat
<1>0. uidNext \in Nat \ {0} /\ mail = 1..(uidNext - 1)
  BY DEF Typed, ServerTyped, MailboxGrows
<1>1. CASE u \in mail /\ u >= n
  BY <1>0, <1>1
<1>2. CASE u \in mail /\ \A w \in mail : w <= u
  <2>1. uidNext - 1 \in mail
    BY <1>0, <1>2
  <2>2. uidNext - 1 <= u
    BY <1>2, <2>1
  <2> QED BY <1>0, <1>2, <2>2
<1> QED BY <1>1, <1>2 DEF FromUid

(* Headers are fetched of messages above it only. *)
LEMMA HeadersAboveStep == ASSUME Typed, Above, [Next]_vars, ~shrunk' PROVE HeadersAbove'
<1> SUFFICES ASSUME NEW i \in 1..Len(evs'), evs'[i].ev = "NewHeaders"
             PROVE  evs'[i].validity = 1 /\ \A u \in evs'[i].uids : AboveFloor(u)'
  BY DEF HeadersAbove, AboveFloor
<1>1. ASSUME NEW k \in 1..Len(evs), evs'[i] = evs[k]
      PROVE  evs'[i].validity = 1 /\ \A u \in evs'[i].uids : AboveFloor(u)'
  BY <1>1, AboveKept DEF Above, HeadersAbove, AboveFloor
<1>2. CASE ActorStep /\ cmds # <<>> /\ Saying(evs'[i], Head(cmds))
  <2>1. Head(cmds) = cmds[1] /\ 1 \in 1..Len(cmds) /\ cmds[1] \in Command
    BY <1>2, TailAt DEF Typed, SessionTyped
  <2>2. cmds[1].op = "FetchNewHeaders" /\ evs'[i].validity = 1 /\ evs'[i].uids = FromUid(cmds[1].first)
    BY <1>2, <2>1 DEF Saying, Above, MailboxGrows
  <2>3. AboveFloor(cmds[1].first) /\ cmds[1].first < uidNext /\ cmds[1].first \in Nat
    BY <2>1, <2>2 DEF Above, FetchesAbove, Command
  <2>4. ASSUME NEW u \in evs'[i].uids PROVE AboveFloor(u)
    <3>1. u >= cmds[1].first /\ u \in Nat
      BY <2>2, <2>3, FromUidAbove DEF Above
    <3>2. \A p \in floor : p[2] \in Nat
      BY DEF Typed, SessionTyped
    <3> QED BY <2>3, <3>1, <3>2 DEF AboveFloor
  <2> QED BY <2>2, <2>4, AboveKept DEF AboveFloor
<1> QED BY <1>1, <1>2, EvsFrame

(* Only such messages are announced. *)
LEMMA ToastsAboveStep == ASSUME Typed, Above, [Next]_vars PROVE ToastsAbove'
<1> SUFFICES ASSUME NEW m \in toasted' PROVE m[1] = 1 /\ AboveFloor(m[2])'
  BY DEF ToastsAbove, AboveFloor
<1>1. CASE m \in toasted
  BY <1>1, AboveKept DEF Above, ToastsAbove, AboveFloor
<1>2. CASE m \notin toasted
  <2>1. Forward
    BY <1>2, Quiet DEF Next, ApplyAdds, RestartAccount, ApplyRemoves, Handle, vars, sessionVars
  <2>2. 1 \in 1..Len(evs) /\ Head(evs) = evs[1]
    BY <2>1, TailAt DEF Forward, Typed, SessionTyped
  <2>3. evs[1].ev = "NewHeaders" /\ \E u \in evs[1].uids : m = <<evs[1].validity, u>>
    BY <1>2, <2>1, <2>2 DEF Forward, Notify
  <2>4. PICK u \in evs[1].uids : m = <<evs[1].validity, u>>
    BY <2>3
  <2>5. evs[1].validity = 1 /\ AboveFloor(u)
    BY <2>2, <2>3 DEF Above, HeadersAbove
  <2> QED BY <2>4, <2>5, AboveKept DEF AboveFloor
<1> QED BY <1>1, <1>2

(* Every step keeps Above, until the mailbox shrinks. *)
LEMMA NewIsAboveStep == Typed /\ NewIsAbove /\ [Next]_vars => NewIsAbove'
<1> SUFFICES ASSUME Typed, NewIsAbove, [Next]_vars, ~shrunk' PROVE Above'
  BY DEF NewIsAbove
<1>1. ~shrunk
  BY DEF Next, SessionNext, ServerStep, Arrive, ReadElsewhere, ExpungeElsewhere, RecreateElsewhere, LinkBreaks,
     IdleBreaks, ActorStep, ActorOnly, ConnectOk, ConnectFails, PollMailbox, FetchNewHeaders, FetchUnreadCounts,
     ReconnectGivesUp, IdleStep, IdleOnly, IdleConnects, IdleRevoked, IdleNewData, IdleAgain, ForwarderStep, Forward,
     PollTick, IdleWake, ApplyAdds, RestartAccount, ApplyRemoves, Handle, vars, sessionVars, server
<1>2. Above
  BY <1>1 DEF NewIsAbove
<1>3. MailboxGrows'
  BY <1>2, GrowsStep DEF Above
<1> QED BY <1>2, <1>3, FloorFirstStep, MarkAboveStep, FetchesAboveStep, PollsAboveStep, PollsGrowStep,
           HeadersAboveStep, ToastsAboveStep DEF Above

(* Above holds at first: there is no baseline. *)
LEMMA NewIsAboveInit == Init => NewIsAbove
<1> SUFFICES ASSUME Init PROVE Above
  BY DEF NewIsAbove
<1>1. MailboxGrows
  <2>1. 1..(2 - 1) = {1}
    OBVIOUS
  <2> QED BY <2>1 DEF Init, SessionInit, MailboxGrows
<1>2. FloorIsFirst /\ MarkAbove /\ FetchesAbove /\ PollsAbove /\ PollsGrow /\ HeadersAbove /\ ToastsAbove
  BY DEF Init, SessionInit, FloorIsFirst, MarkAbove, FetchesAbove, PollsAbove, PollsGrow, HeadersAbove, ToastsAbove
<1> QED BY <1>1, <1>2 DEF Above

(* A message that was there at the first baseline is never announced as new as
   long as the mailbox only grows, whatever reconnects, pushes, dropped
   commands and restarts follow: n:* in a fetch never reaches below the
   watermark it was made from (update_watermark, fetch_new_headers,
   build_account_notification). *)
THEOREM OldMailIsQuiet == Spec => []OldMailIsNotNew
<1>1. Init => Typed /\ NewIsAbove
  BY TypedInit, NewIsAboveInit
<1>2. Typed /\ NewIsAbove /\ [Next]_vars => (Typed /\ NewIsAbove)'
  BY TypedStep, NewIsAboveStep
<1>3. Typed /\ NewIsAbove => OldMailIsNotNew
  <2> SUFFICES ASSUME Typed, NewIsAbove, ~shrunk, NEW m \in toasted
               PROVE  \E p \in floor : p[1] = m[1] /\ m[2] >= p[2]
    BY DEF OldMailIsNotNew
  <2>1. m[1] = 1 /\ floor # {} /\ \A p \in floor : p[1] = 1 /\ p[2] <= m[2]
    BY DEF NewIsAbove, Above, ToastsAbove, FloorIsFirst, AboveFloor
  <2>2. m[2] \in Nat /\ \A p \in floor : p[2] \in Nat
    BY DEF Typed, SessionTyped
  <2> QED BY <2>1, <2>2
<1> QED BY <1>1, <1>2, <1>3, PTL DEF Spec

=============================================================================
