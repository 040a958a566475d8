------------------------------ MODULE Session -------------------------------
(***************************************************************************)
(* One account's connection: the IMAP actor, the forwarder that passes its *)
(* events on, polls the watched mailbox and shows toasts, the IDLE watch   *)
(* that makes it poll sooner, and the mailbox on the server.               *)
(*                                                                         *)
(* Actor, forwarder, IDLE watch and frontend run concurrently and talk     *)
(* over bounded channels.  Here the actor gets the commands of the         *)
(* new-mail watch; the frontend is a module of its own (Watcher).          *)
(***************************************************************************)
EXTENDS Naturals, Sequences, FiniteSets

CONSTANTS
  CmdQueue,     \* capacity of the actor's command channel (32 in the code)
  EventQueue,   \* capacity of the actor's event channel (32)
  WakeQueue,    \* capacity of the IDLE wake channel (4)
  UiQueue,      \* capacity of the frontend's event channel (64)
  MaxChanges,   \* bound: messages that arrive and changes other clients make
  MaxFaults     \* bound: connections lost and logins refused

ASSUME ChannelAssumption ==
  CmdQueue \in Nat \ {0} /\ EventQueue \in Nat \ {0} /\ WakeQueue \in Nat \ {0} /\ UiQueue \in Nat \ {0}
ASSUME WatchBoundAssumption == MaxChanges \in Nat /\ MaxFaults \in Nat

VARIABLES
  \* the mailbox on the server
  mail,      \* UIDs of the messages in it
  unseen,    \* the ones without \Seen
  uidNext, validity,
  \* ImapActor
  cmds,      \* its command channel
  link,      \* its session: "none", "up", or "broken" and not noticed yet
  creds,     \* credentials that worked are remembered
  evs,       \* its event channel, to the forwarder
  \* the forwarder, forward_and_watch
  connected,
  mark,      \* the watermark: [validity, next], or NoMark
  wakes,     \* signals in the wake channel
  \* the IDLE watch
  idle,      \* "off", "down" (backing off), "idling", "between" two IDLEs, "stopped"
  push,      \* the server has something to push to it
  \* the frontend's channel
  ui,
  gen,       \* number of the session; a replaced one has a smaller number
  \* history, read by the properties and bounds only
  toasted,   \* messages announced, as <<validity, uid>>
  floor,     \* <<validity, UIDNEXT>> of the first baseline
  shrunk,    \* a message was expunged or the mailbox recreated
  changes, faults

server == <<mail, unseen, uidNext, validity, changes, shrunk>>
actor == <<cmds, link, creds, evs>>
idleVars == <<idle, push>>
forwarder == <<connected, mark, wakes>>
sessionVars == <<server, actor, forwarder, idleVars, ui, gen, toasted, floor, faults>>

NoMark == [validity |-> 0, next |-> 0]

Cmd(op) == [op |-> op, first |-> 0]
Ev(e) == [ev |-> e, validity |-> 0, next |-> 0, uids |-> {}, counted |-> FALSE, count |-> 0]

(* Mutant of TrySend: the channel has no bound. *)
TrySendUnbounded(q, c) == Append(q, c)

(* mpsc::Sender::try_send: a full channel drops the command. *)
TrySend(q, c) == IF Len(q) < CmdQueue THEN Append(q, c) ELSE q

Fault == faults < MaxFaults /\ faults' = faults + 1

-----------------------------------------------------------------------------
(* AccountSession::spawn and Drop.  A new session starts with a Connect in its
   queue; dropping one ends its actor, forwarder and IDLE watch, but what the
   forwarder has already passed on stays in the frontend's channel. *)
FreshSession ==
  /\ cmds' = <<Cmd("Connect")>> /\ link' = "none" /\ creds' = FALSE /\ evs' = <<>>
  /\ connected' = FALSE /\ mark' = NoMark /\ wakes' = 0
  /\ idle' = "off" /\ push' = FALSE
  /\ gen' = gen + 1

DropSession ==
  /\ cmds' = <<>> /\ link' = "none" /\ creds' = FALSE /\ evs' = <<>>
  /\ connected' = FALSE /\ mark' = NoMark /\ wakes' = 0
  /\ idle' = "off" /\ push' = FALSE
  /\ UNCHANGED gen

-----------------------------------------------------------------------------
(* The server and its other clients *)

(* A change the server pushes to a connection that is idling; between two
   IDLEs nothing is pushed. *)
Pushed == push' = (push \/ idle = "idling")

Change == changes < MaxChanges /\ changes' = changes + 1

Arrive ==
  /\ Change
  /\ mail' = mail \cup {uidNext} /\ unseen' = unseen \cup {uidNext} /\ uidNext' = uidNext + 1
  /\ Pushed
  /\ UNCHANGED <<validity, shrunk, actor, forwarder, idle, ui, gen, toasted, floor, faults>>

ReadElsewhere ==
  /\ Change
  /\ \E u \in unseen : unseen' = unseen \ {u}
  /\ Pushed
  /\ UNCHANGED <<mail, uidNext, validity, shrunk, actor, forwarder, idle, ui, gen, toasted, floor, faults>>

ExpungeElsewhere ==
  /\ Change
  /\ \E u \in mail : mail' = mail \ {u} /\ unseen' = unseen \ {u}
  /\ shrunk' = TRUE
  /\ Pushed
  /\ UNCHANGED <<uidNext, validity, actor, forwarder, idle, ui, gen, toasted, floor, faults>>

(* The mailbox is deleted and made again: the UIDs start over. *)
RecreateElsewhere ==
  /\ Change
  /\ mail' = {} /\ unseen' = {} /\ uidNext' = 1 /\ validity' = validity + 1
  /\ shrunk' = TRUE
  /\ Pushed
  /\ UNCHANGED <<actor, forwarder, idle, ui, gen, toasted, floor, faults>>

(* The network drops one of the connections. *)
LinkBreaks ==
  /\ link = "up" /\ link' = "broken" /\ Fault
  /\ UNCHANGED <<server, cmds, creds, evs, forwarder, idleVars, ui, gen, toasted, floor>>

IdleBreaks ==
  /\ idle \in {"idling", "between"} /\ idle' = "down" /\ push' = FALSE /\ Fault
  /\ UNCHANGED <<server, actor, forwarder, ui, gen, toasted, floor>>

-----------------------------------------------------------------------------
(* ImapActor::run.  It takes one command at a time and waits while the event
   channel has no room for what it has to say. *)

Room(n) == Len(evs) + n <= EventQueue
Take(op) == cmds # <<>> /\ Head(cmds).op = op /\ cmds' = Tail(cmds)
Tell(es) == Room(Len(es)) /\ evs' = evs \o es
ActorOnly == UNCHANGED <<server, forwarder, idleVars, ui, gen, toasted, floor>>

ConnectOk ==
  /\ Take("Connect") /\ link' = "up" /\ creds' = TRUE /\ Tell(<<Ev("Connected")>>)
  /\ ActorOnly /\ UNCHANGED faults

(* A login that fails on the first try leaves no credentials behind. *)
ConnectFails ==
  /\ Take("Connect") /\ Fault /\ Tell(<<Ev("Error")>>)
  /\ ActorOnly /\ UNCHANGED <<link, creds>>

(* PollMailbox does not reconnect: without a session it does nothing. *)
PollMailbox ==
  /\ Take("Poll") /\ UNCHANGED creds /\ ActorOnly /\ UNCHANGED faults
  /\ \/ link = "none" /\ UNCHANGED <<link, evs>>
     \/ link = "up" /\ UNCHANGED link /\ Tell(<<[Ev("MailboxPolled") EXCEPT !.validity = validity, !.next = uidNext]>>)
     \/ link = "broken" /\ link' = "none" /\ Tell(<<Ev("PollFailed")>>)

(* UID FETCH first:* also returns the last message when its UID is smaller. *)
FromUid(first) ==
  {u \in mail : u >= first} \cup {u \in mail : \A w \in mail : w <= u}

FetchNewHeaders ==
  /\ Take("FetchNewHeaders") /\ UNCHANGED creds /\ ActorOnly /\ UNCHANGED faults
  /\ \/ link = "none" /\ UNCHANGED <<link, evs>>
     \/ link = "up" /\ UNCHANGED link
        /\ Tell(<<[Ev("NewHeaders") EXCEPT !.validity = validity, !.uids = FromUid(Head(cmds).first)]>>)
     \/ link = "broken" /\ link' = "none" /\ Tell(<<Ev("PollFailed")>>)

(* fetch_unread_counts: a STATUS that fails is skipped, and leaves the session
   as it is. *)
Counts ==
  IF link' = "up" THEN <<[Ev("UnreadCounts") EXCEPT !.counted = TRUE, !.count = Cardinality(unseen)]>>
  ELSE <<Ev("UnreadCounts")>>

(* FetchUnreadCounts over ensure_connected: with a session it asks at once; with
   none it reconnects, saying so, in at most MAX_RECONNECT_ATTEMPTS attempts. *)
FetchUnreadCounts ==
  /\ Take("FetchUnreadCounts") /\ UNCHANGED <<creds, faults>> /\ ActorOnly
  /\ \/ link # "none" /\ UNCHANGED link /\ Tell(Counts)
     \/ link = "none" /\ ~creds /\ UNCHANGED <<link, evs>>
     \/ link = "none" /\ creds /\ link' = "up" /\ Tell(<<Ev("Disconnected"), Ev("Connected")>> \o Counts)

(* Every attempt fails, or the first one says the sign-in was revoked. *)
ReconnectGivesUp ==
  /\ Take("FetchUnreadCounts") /\ link = "none" /\ creds /\ Fault /\ Tell(<<Ev("Disconnected")>>)
  /\ UNCHANGED <<link, creds>> /\ ActorOnly

ActorStep ==
  \/ ConnectOk \/ ConnectFails \/ PollMailbox \/ FetchNewHeaders
  \/ FetchUnreadCounts \/ ReconnectGivesUp

-----------------------------------------------------------------------------
(* The IDLE watch, idle_watch::spawn and run *)

IdleOnly == UNCHANGED <<server, actor, connected, mark, ui, gen, toasted, floor>>

(* What changed while there was no IDLE is not pushed. *)
IdleConnects ==
  /\ idle = "down" /\ idle' = "idling" /\ push' = FALSE
  /\ IdleOnly /\ UNCHANGED <<wakes, faults>>

(* A revoked sign-in ends the watch for good. *)
IdleRevoked ==
  /\ idle = "down" /\ idle' = "stopped" /\ Fault
  /\ IdleOnly /\ UNCHANGED <<wakes, push>>

IdleNewData ==
  /\ idle = "idling" /\ push /\ wakes < WakeQueue
  /\ idle' = "between" /\ push' = FALSE /\ wakes' = wakes + 1
  /\ IdleOnly /\ UNCHANGED faults

IdleAgain ==
  /\ idle = "between" /\ idle' = "idling"
  /\ IdleOnly /\ UNCHANGED <<wakes, push, faults>>

IdleStep == IdleConnects \/ IdleRevoked \/ IdleNewData \/ IdleAgain

-----------------------------------------------------------------------------
(* notify::update_watermark *)

NewMail(current) == mark # NoMark /\ mark.validity = current.validity /\ current.next > mark.next
Baseline(current) == mark = NoMark \/ mark.validity # current.validity

(* Mutant of WatermarkFold: the first poll of a connection counts as new mail too. *)
WatermarkFoldEager(current) ==
  /\ mark' = current
  /\ IF NewMail(current) \/ Baseline(current)
     THEN cmds' = TrySend(cmds, [op |-> "FetchNewHeaders", first |-> IF mark = NoMark THEN 1 ELSE mark.next])
     ELSE UNCHANGED cmds
  /\ floor' = IF \E p \in floor : p[1] = current.validity THEN floor ELSE floor \cup {<<current.validity, current.next>>}

(* Mutant of WatermarkFold: fetches from the watermark after the poll. *)
WatermarkFoldSkips(current) ==
  /\ mark' = current
  /\ IF NewMail(current) THEN cmds' = TrySend(cmds, [op |-> "FetchNewHeaders", first |-> current.next]) ELSE UNCHANGED cmds
  /\ floor' = IF \E p \in floor : p[1] = current.validity THEN floor ELSE floor \cup {<<current.validity, current.next>>}

(* The watermark moves with every poll, also when the fetch it asks for finds
   the command queue full. *)
WatermarkFold(current) ==
  /\ mark' = current
  /\ IF NewMail(current) THEN cmds' = TrySend(cmds, [op |-> "FetchNewHeaders", first |-> mark.next]) ELSE UNCHANGED cmds
  /\ floor' = IF \E p \in floor : p[1] = current.validity THEN floor ELSE floor \cup {<<current.validity, current.next>>}

(* build_account_notification: no headers, no toast. *)
Notify(e) == toasted' = toasted \cup {<<e.validity, u>> : u \in e.uids}

(* The first Connected starts the IDLE watch, once; each one clears the mark. *)
OnConnected ==
  /\ connected' = TRUE /\ mark' = NoMark
  /\ IF idle = "off" THEN idle' = "down" ELSE UNCHANGED idle

(* The arm of forward_and_watch for an actor event.  The event then goes to the
   frontend, and the forwarder waits while that channel is full. *)
Forward ==
  /\ evs # <<>> /\ evs' = Tail(evs)
  /\ Len(ui) < UiQueue /\ ui' = Append(ui, [gen |-> gen, e |-> Head(evs)])
  /\ LET e == Head(evs) IN
       \/ e.ev = "Connected" /\ OnConnected /\ UNCHANGED <<cmds, toasted, floor>>
       \/ e.ev = "Disconnected" /\ connected' = FALSE /\ UNCHANGED <<mark, idle, cmds, toasted, floor>>
       \/ e.ev = "MailboxPolled" /\ WatermarkFold([validity |-> e.validity, next |-> e.next]) /\ UNCHANGED <<connected, idle, toasted>>
       \/ e.ev = "NewHeaders" /\ Notify(e) /\ UNCHANGED <<connected, mark, idle, cmds, floor>>
       \/ e.ev \in {"Error", "PollFailed", "UnreadCounts"} /\ UNCHANGED <<connected, mark, idle, cmds, toasted, floor>>
  /\ UNCHANGED <<server, link, creds, wakes, push, gen, faults>>

(* NEW_MAIL_POLL_INTERVAL.  The timer is slow: it ticks when the channels are
   quiet (a push from IDLE comes at any time). *)
PollTick ==
  /\ connected /\ cmds = <<>> /\ evs = <<>> /\ ui = <<>>
  /\ cmds' = TrySend(cmds, Cmd("Poll"))
  /\ UNCHANGED <<server, link, creds, evs, forwarder, idleVars, ui, gen, toasted, floor, faults>>

(* An IDLE push polls at once; while the actor is disconnected it is dropped. *)
IdleWake ==
  /\ wakes > 0 /\ wakes' = wakes - 1
  /\ cmds' = IF connected THEN TrySend(cmds, Cmd("Poll")) ELSE cmds
  /\ UNCHANGED <<server, link, creds, evs, connected, mark, idleVars, ui, gen, toasted, floor, faults>>

ForwarderStep == Forward \/ PollTick \/ IdleWake

-----------------------------------------------------------------------------
SessionInit ==
  /\ mail = {1} /\ unseen = {1} /\ uidNext = 2 /\ validity = 1
  /\ cmds = <<>> /\ link = "none" /\ creds = FALSE /\ evs = <<>>
  /\ connected = FALSE /\ mark = NoMark /\ wakes = 0
  /\ idle = "off" /\ push = FALSE
  /\ ui = <<>> /\ gen = 0
  /\ toasted = {} /\ floor = {} /\ shrunk = FALSE /\ changes = 0 /\ faults = 0

ServerStep == Arrive \/ ReadElsewhere \/ ExpungeElsewhere \/ RecreateElsewhere \/ LinkBreaks \/ IdleBreaks

(* What one session does, besides the frontend that owns it. *)
SessionNext == ServerStep \/ ActorStep \/ IdleStep \/ ForwarderStep

=============================================================================
