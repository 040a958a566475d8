------------------------------ MODULE AppCore -------------------------------
(***************************************************************************)
(* The shared application core: AppCore's account list, message list,      *)
(* reading pane, progress slot and bulk action, over the command queues of *)
(* the accounts' IMAP actors and body workers.                             *)
(*                                                                         *)
(* Replies come back through one channel, tagged with the account only,    *)
(* when the user may have opened another folder, message or account, run a *)
(* bulk action, replaced the session or logged out.  A message is          *)
(* <<account, mailbox, uid>>, and keeps its uid when it is moved; pages,   *)
(* texts, flags, unread counts and the status line are left out.           *)
(***************************************************************************)
EXTENDS Naturals, Sequences, FiniteSets, SequencesExt, Lists

CONSTANTS
  Accounts,     \* account ids
  NoOne,        \* no account, no mailbox
  ActorQueue,   \* capacity of an actor's command channel (32)
  MaxOps,       \* bound: what the user does
  MaxMishaps    \* bound: connections lost and requests refused

ASSUME CoreAssumption ==
  /\ IsFiniteSet(Accounts) /\ Accounts # {} /\ NoOne \notin Accounts
  /\ ActorQueue \in Nat \ {0} /\ MaxOps \in Nat /\ MaxMishaps \in Nat

VARIABLES
  box,        \* the server: account -> mailbox -> UIDs
  accts,      \* AppCore.accounts: sequence of account ids
  conn,       \* account -> ConnState
  active, open, \* the active account and selected_mailbox
  rows,       \* AppCore.headers, as messages
  sel, sels,  \* selected_uid (0: None) and selected_uids
  pane,       \* what the reading pane shows: a message, or a word
  hits, origins, \* search_results and search_origins
  req,        \* next_req_id
  headersReq, bodyReq,
  bulk,       \* bulk_action: [kind, pending], or NoBulk
  progress,   \* kind in the status bar's slot, or "none"
  cmdQ, workQ, \* account -> commands of its actor, and of its body worker
  live,       \* account -> its actor's session: "never" made, "up" or "down"
  events,     \* the one channel of AccountEvents
  cut,        \* history: a command of a bulk action was dropped with its queue
  gone,       \* history: messages reported moved since the last search
  ops, mishaps

coreView == <<accts, conn, active, open, rows, sel, sels, pane, hits, origins>>
coreReqs == <<req, headersReq, bodyReq, bulk, progress>>
coreWorld == <<box, cmdQ, workQ, live, events>>
coreNotes == <<cut, gone>>
coreVars == <<coreView, coreReqs, coreWorld, coreNotes, ops, mishaps>>

Mailboxes == {"INBOX", "Trash"}
NoBulk == [kind |-> "none", pending |-> {}]
Said(word) == <<word, NoOne, 0>>
Word == {Said(w) : w \in {"empty", "loading", "moved", "failed"}}

Command(op, mb, uid, id) == [op |-> op, mb |-> mb, uid |-> uid, id |-> id]
Reply(a, ev, mb, uid, id, uids) == [acct |-> a, ev |-> ev, mb |-> mb, uid |-> uid, id |-> id, uids |-> uids]

InList(a) == \E i \in 1..Len(accts) : accts[i] = a
Op == ops < MaxOps /\ ops' = ops + 1 /\ UNCHANGED mishaps
Mishap == mishaps < MaxMishaps /\ mishaps' = mishaps + 1

(* send_imap_to: dropped without an account, and by a full queue. *)
SendTo(q, a, c) ==
  IF InList(a) /\ Len(q[a]) < ActorQueue THEN [q EXCEPT ![a] = Append(@, c)] ELSE q

(* One after the other: once the queue is full the rest is dropped. *)
SendAll(q, a, cs) ==
  LET room == ActorQueue - Len(q[a]) IN
  IF InList(a) THEN [q EXCEPT ![a] = @ \o (IF Len(cs) <= room THEN cs ELSE SubSeq(cs, 1, room))] ELSE q

(* AppCore.accounts without one. *)
Without(a) == Picked(accts, {i \in 1..Len(accts) : accts[i] # a})

(* clear_progress: only while the slot still shows that kind. *)
Cleared(kind) == IF progress = kind THEN "none" ELSE progress

-----------------------------------------------------------------------------
(* What the frontend calls *)

(* open_session: a session open for the same account is dropped first. *)
OpenSession(a) ==
  /\ Op
  /\ accts' = Append(Without(a), a)
  /\ conn' = [conn EXCEPT ![a] = "Connecting"]
  /\ cut' = (cut \/ (bulk # NoBulk /\ InList(a)))
  /\ cmdQ' = [cmdQ EXCEPT ![a] = <<Command("Connect", NoOne, 0, 0)>>]
  /\ workQ' = [workQ EXCEPT ![a] = <<>>]
  /\ live' = [live EXCEPT ![a] = "never"]
  /\ UNCHANGED <<active, open, rows, sel, sels, pane, hits, origins, coreReqs, box, events, gone>>

(* activate: a request id of its own, so only the reply to this fetch counts. *)
Activated(a, mb, q) ==
  /\ active' = a /\ open' = mb
  /\ sel' = 0 /\ sels' = {}
  /\ req' = req + 1 /\ headersReq' = req + 1
  /\ cmdQ' = SendTo(q, a, Command("FetchHeaders", mb, 0, req + 1))

ActivateClears(a) ==
  IF active # a
  THEN rows' = {} /\ pane' = Said("empty") /\ hits' = <<>> /\ origins' = <<>>
  ELSE UNCHANGED <<rows, pane, hits, origins>>

Activate(a, mb) ==
  /\ Op /\ InList(a)
  /\ Activated(a, mb, cmdQ) /\ ActivateClears(a)
  /\ UNCHANGED <<accts, conn, bodyReq, bulk, progress, box, workQ, live, events, coreNotes>>

(* Select a row, then ask for its body, as a frontend opens a message. *)
OpenMessage(uid) ==
  /\ Op /\ active # NoOne /\ \E m \in rows : m[3] = uid
  /\ sel' = uid /\ sels' = {uid} /\ pane' = Said("loading")
  /\ req' = req + 1 /\ bodyReq' = req + 1
  /\ cmdQ' = SendTo(cmdQ, active, Command("FetchBody", open, uid, req + 1))
  /\ UNCHANGED <<accts, conn, active, open, rows, hits, origins, headersReq, bulk, progress, box, workQ, live, events, coreNotes>>

(* bulk_action_in_flight *)
BulkInFlight == bulk # NoBulk \/ progress \in {"Flags", "Move", "Index"}

(* begin_bulk_action over the rows shown, and a command for each; the frontend
   disables the buttons while one is in flight. *)
BeginBulk(op, kind) ==
  /\ Op /\ active # NoOne /\ ~BulkInFlight /\ Cardinality(rows) > 0
  /\ LET uids == {m[3] : m \in rows}
         each == SetToSeq(uids) IN
     /\ IF Cardinality(uids) < 2 THEN UNCHANGED <<bulk, progress>>
        ELSE bulk' = [kind |-> kind, pending |-> uids] /\ progress' = kind
     /\ cmdQ' = SendAll(cmdQ, active, [i \in 1..Len(each) |-> Command(op, open, each[i], 0)])
     /\ cut' = (cut \/ Len(cmdQ[active]) + Cardinality(uids) > ActorQueue)
  /\ UNCHANGED <<coreView, req, headersReq, bodyReq, box, workQ, live, events, gone>>

(* A search over what the cache holds; each hit with where it lives. *)
Search ==
  /\ Op /\ active # NoOne
  /\ LET found == SetToSeq({h \in Accounts \X Mailboxes \X (1..2) : h[3] \in box[h[1]][h[2]]}) IN
     hits' = [i \in 1..Len(found) |-> found[i][3]] /\ origins' = [i \in 1..Len(found) |-> <<found[i][1], found[i][2]>>]
  /\ gone' = {}
  /\ UNCHANGED <<accts, conn, active, open, rows, sel, sels, pane, coreReqs, coreWorld, cut>>

(* Index the open mailbox: a bulk download on the body worker. *)
StartIndex ==
  /\ Op /\ active # NoOne /\ ~BulkInFlight
  /\ cmdQ' = SendTo(cmdQ, active, Command("BulkDownload", open, 0, 0))
  /\ UNCHANGED <<coreView, coreReqs, box, workQ, live, events, coreNotes>>

(* What disconnect_account does to a bulk action in flight. *)
DisconnectBulk(a) ==
  IF active = a THEN bulk' = NoBulk /\ progress' = IF progress \in {"Flags", "Move", "Index"} THEN "none" ELSE progress
  ELSE UNCHANGED <<bulk, progress>>

(* disconnect_account: the next connected account takes over. *)
Disconnect(a) ==
  /\ Op /\ InList(a)
  /\ LET rest == Without(a)
         next == Picked(rest, {i \in 1..Len(rest) : conn[rest[i]] = "Connected"})
         q == [cmdQ EXCEPT ![a] = <<>>] IN
     /\ accts' = rest
     /\ IF active # a THEN UNCHANGED <<active, open, rows, sel, sels, pane, hits, origins, req, headersReq>> /\ cmdQ' = q
        ELSE /\ rows' = {} /\ hits' = <<>> /\ origins' = <<>> /\ pane' = Said("empty")
             /\ IF next # <<>> THEN Activated(next[1], "INBOX", q)
                ELSE active' = NoOne /\ sel' = 0 /\ sels' = {} /\ cmdQ' = q /\ UNCHANGED <<open, req, headersReq>>
  /\ DisconnectBulk(a) /\ cut' = (cut \/ (bulk # NoBulk /\ active # a))
  /\ conn' = [conn EXCEPT ![a] = "none"]
  /\ workQ' = [workQ EXCEPT ![a] = <<>>] /\ live' = [live EXCEPT ![a] = "never"]
  /\ UNCHANGED <<bodyReq, box, events, gone>>

CoreFrontend ==
  \/ \E a \in Accounts : OpenSession(a)
  \/ \E a \in Accounts, mb \in Mailboxes : Activate(a, mb)
  \/ \E u \in 1..2 : OpenMessage(u)
  \/ BeginBulk("StoreFlags", "Flags") \/ BeginBulk("MoveMessage", "Move")
  \/ Search \/ StartIndex
  \/ \E a \in Accounts : Disconnect(a)

-----------------------------------------------------------------------------
(* The accounts' actors (ImapActor::run) and body workers *)

Emit(es) == events' = events \o es
WorldOnly == UNCHANGED <<coreView, coreReqs, coreNotes, ops>>
Next1(a, op) == cmdQ[a] # <<>> /\ Head(cmdQ[a]).op = op /\ cmdQ' = [cmdQ EXCEPT ![a] = Tail(@)]

ActorConnects(a) ==
  /\ Next1(a, "Connect") /\ WorldOnly /\ UNCHANGED <<box, workQ>>
  /\ \/ live' = [live EXCEPT ![a] = "up"] /\ Emit(<<Reply(a, "Connected", NoOne, 0, 0, {})>>) /\ UNCHANGED mishaps
     \/ Mishap /\ Emit(<<Reply(a, "Error", NoOne, 0, 0, {})>>) /\ UNCHANGED live

(* ensure_connected before a request: it says when it has to reconnect. *)
Reconnected(a) ==
  IF live[a] = "up" THEN <<>> ELSE <<Reply(a, "Disconnected", NoOne, 0, 0, {}), Reply(a, "Connected", NoOne, 0, 0, {})>>
Up(a) == live[a] # "never" /\ live' = [live EXCEPT ![a] = "up"]

(* A move the server refuses may already have made its copy (the COPY, STORE,
   EXPUNGE fallback of move_message). *)
AfterCopy(a, c) ==
  IF c.op = "MoveMessage" /\ c.uid \in box[a][c.mb] /\ c.mb = "INBOX" THEN {box, [box EXCEPT ![a]["Trash"] = @ \cup {c.uid}]} ELSE {box}

(* The failure event each request has of its own. *)
FailEvent(op) ==
  CASE op = "StoreFlags" -> "FlagsUpdateFailed" [] op = "MoveMessage" -> "MoveFailed"
    [] op = "FetchBody" -> "BodyFailed" [] OTHER -> "Error"

Requests == {"FetchMailboxes", "FetchHeaders", "StoreFlags", "MoveMessage"}

(* An account that never connected has nothing to reconnect with. *)
ActorNotConnected(a) ==
  /\ cmdQ[a] # <<>> /\ Head(cmdQ[a]).op \in Requests \cup {"FetchUnreadCounts", "FetchBody", "BulkDownload"} /\ live[a] = "never"
  /\ cmdQ' = [cmdQ EXCEPT ![a] = Tail(@)]
  /\ LET c == Head(cmdQ[a]) IN
     IF c.op = "FetchUnreadCounts" THEN UNCHANGED events ELSE Emit(<<Reply(a, FailEvent(c.op), c.mb, c.uid, c.id, {})>>)
  /\ WorldOnly /\ UNCHANGED <<box, workQ, live, mishaps>>

(* A request that fails drops the session, and says so under its own name; the
   reconnect before it may have failed already. *)
ActorRequestFails(a) ==
  /\ cmdQ[a] # <<>> /\ Head(cmdQ[a]).op \in Requests /\ live[a] # "never"
  /\ LET c == Head(cmdQ[a])
         fail == <<Reply(a, FailEvent(c.op), c.mb, c.uid, c.id, {})>> IN
     /\ cmdQ' = [cmdQ EXCEPT ![a] = Tail(@)]
     /\ \/ Emit(Reconnected(a) \o fail) /\ box' \in AfterCopy(a, c)
        \/ live[a] = "down" /\ Emit(<<Reply(a, "Disconnected", NoOne, 0, 0, {})>> \o fail) /\ UNCHANGED box
  /\ live' = [live EXCEPT ![a] = "down"] /\ Mishap
  /\ WorldOnly /\ UNCHANGED workQ

ActorMailboxes(a) ==
  /\ Next1(a, "FetchMailboxes") /\ Up(a)
  /\ Emit(Reconnected(a) \o <<Reply(a, "Mailboxes", NoOne, 0, 0, {})>>)
  /\ WorldOnly /\ UNCHANGED <<box, workQ, mishaps>>

ActorHeaders(a) ==
  /\ Next1(a, "FetchHeaders") /\ Up(a)
  /\ LET c == Head(cmdQ[a]) IN Emit(Reconnected(a) \o <<Reply(a, "Headers", c.mb, 0, c.id, box[a][c.mb])>>)
  /\ WorldOnly /\ UNCHANGED <<box, workQ, mishaps>>

(* STORE on a message that is gone reports no flags, which is a failure. *)
ActorFlags(a) ==
  /\ Next1(a, "StoreFlags") /\ live[a] # "never"
  /\ LET c == Head(cmdQ[a]) IN
     IF c.uid \in box[a][c.mb]
     THEN Emit(Reconnected(a) \o <<Reply(a, "FlagsUpdated", c.mb, c.uid, 0, {})>>) /\ live' = [live EXCEPT ![a] = "up"]
     ELSE Emit(Reconnected(a) \o <<Reply(a, "FlagsUpdateFailed", c.mb, c.uid, 0, {})>>) /\ live' = [live EXCEPT ![a] = "down"]
  /\ WorldOnly /\ UNCHANGED <<box, workQ, mishaps>>

(* UID MOVE; moving to the mailbox the message is in leaves it there. *)
ActorMove(a) ==
  /\ Next1(a, "MoveMessage") /\ Up(a)
  /\ LET c == Head(cmdQ[a]) IN
     /\ box' = IF c.uid \in box[a][c.mb] /\ c.mb = "INBOX"
               THEN [box EXCEPT ![a]["INBOX"] = @ \ {c.uid}, ![a]["Trash"] = @ \cup {c.uid}] ELSE box
     /\ Emit(Reconnected(a) \o <<Reply(a, "Moved", c.mb, c.uid, 0, {})>>)
  /\ WorldOnly /\ UNCHANGED <<workQ, mishaps>>

(* FetchUnreadCounts: every mailbox named is asked in turn. *)
ActorCounts(a) ==
  /\ Next1(a, "FetchUnreadCounts") /\ Up(a)
  /\ Emit(Reconnected(a) \o <<Reply(a, "UnreadCounts", NoOne, 0, 0, {})>>)
  /\ WorldOnly /\ UNCHANGED <<box, workQ, mishaps>>

(* FetchBody and BulkDownload are handed to the body worker. *)
ActorHandsOver(a) ==
  /\ cmdQ[a] # <<>> /\ Head(cmdQ[a]).op \in {"FetchBody", "BulkDownload"} /\ live[a] # "never"
  /\ cmdQ' = [cmdQ EXCEPT ![a] = Tail(@)] /\ workQ' = [workQ EXCEPT ![a] = Append(@, Head(cmdQ[a]))]
  /\ WorldOnly /\ UNCHANGED <<box, live, events, mishaps>>

(* bulk_download: 0 of n, then one report per message; an empty mailbox
   reports nothing. *)
IndexReports(a, mb) ==
  IF box[a][mb] = {} THEN <<>>
  ELSE [i \in 1..(Cardinality(box[a][mb]) + 1) |->
          Reply(a, IF i = Cardinality(box[a][mb]) + 1 THEN "IndexDone" ELSE "IndexProgress", mb, 0, 0, {})]

WorkerDone(a) ==
  /\ workQ[a] # <<>> /\ workQ' = [workQ EXCEPT ![a] = Tail(@)]
  /\ LET c == Head(workQ[a]) IN
     IF c.op = "BulkDownload" THEN Emit(IndexReports(a, c.mb))
     ELSE Emit(<<Reply(a, IF c.uid \in box[a][c.mb] THEN "Body" ELSE "BodyFailed", c.mb, c.uid, c.id, {})>>)
  /\ WorldOnly /\ UNCHANGED <<box, cmdQ, live, mishaps>>

WorkerFails(a) ==
  /\ workQ[a] # <<>> /\ workQ' = [workQ EXCEPT ![a] = Tail(@)] /\ Mishap
  /\ LET c == Head(workQ[a]) IN
     IF c.op = "BulkDownload" THEN \E n \in 0..Len(IndexReports(a, c.mb)) :
           n < Len(IndexReports(a, c.mb)) /\ Emit(SubSeq(IndexReports(a, c.mb), 1, n) \o <<Reply(a, "Error", c.mb, 0, 0, {})>>)
     ELSE Emit(<<Reply(a, "BodyFailed", c.mb, c.uid, c.id, {})>>)
  /\ WorldOnly /\ UNCHANGED <<box, cmdQ, live>>

CoreActors ==
  \E a \in Accounts :
    \/ ActorConnects(a) \/ ActorNotConnected(a) \/ ActorRequestFails(a) \/ ActorMailboxes(a) \/ ActorHeaders(a) \/ ActorFlags(a)
    \/ ActorMove(a) \/ ActorCounts(a) \/ ActorHandsOver(a) \/ WorkerDone(a) \/ WorkerFails(a)

-----------------------------------------------------------------------------
(* AppCore::pump, one event at a time (handle_imap_event) *)

IsActive(e) == active = e.acct
KeepView == UNCHANGED <<accts, active, open, rows, sel, sels, pane, hits, origins>>
KeepReqs == UNCHANGED <<req, headersReq, bodyReq>>

(* (Saving an account that was added through the form is left out.) *)
PumpConnected(e) ==
  /\ conn' = [conn EXCEPT ![e.acct] = "Connected"]
  /\ LET q == SendTo(cmdQ, e.acct, Command("FetchMailboxes", NoOne, 0, 0)) IN
     IF active = NoOne THEN Activated(e.acct, "INBOX", q) /\ ActivateClears(e.acct)
     ELSE /\ UNCHANGED <<active, open, rows, sel, sels, pane, hits, origins>>
          /\ IF IsActive(e)
             THEN req' = req + 1 /\ headersReq' = req + 1
                  /\ cmdQ' = SendTo(q, e.acct, Command("FetchHeaders", open, 0, req + 1))
             ELSE cmdQ' = q /\ UNCHANGED <<req, headersReq>>
  /\ UNCHANGED <<accts, bodyReq, bulk, progress, coreNotes>>

PumpDisconnected(e) ==
  /\ conn' = [conn EXCEPT ![e.acct] = "Disconnected"]
  /\ KeepView /\ UNCHANGED <<coreReqs, cmdQ, coreNotes>>

(* An error of any account takes an indexing bar down. *)
PumpError(e) ==
  /\ conn' = [conn EXCEPT ![e.acct] = IF @ \in {"Connecting", "Disconnected"} THEN "Failed" ELSE @]
  /\ progress' = Cleared("Index")
  /\ KeepView /\ KeepReqs /\ UNCHANGED <<bulk, cmdQ, coreNotes>>

PumpMailboxes(e) ==
  /\ cmdQ' = SendTo(cmdQ, e.acct, Command("FetchUnreadCounts", NoOne, 0, 0))
  /\ KeepView /\ UNCHANGED <<conn, coreReqs, coreNotes>>

HeadersWanted(e) == IsActive(e) /\ e.id = headersReq /\ e.mb = open

PumpHeaders(e) ==
  /\ rows' = IF HeadersWanted(e) THEN {<<e.acct, e.mb, u>> : u \in e.uids} ELSE rows
  /\ UNCHANGED <<accts, conn, active, open, sel, sels, pane, hits, origins, coreReqs, cmdQ, coreNotes>>

BodyWanted(e) == IsActive(e) /\ e.id = bodyReq /\ sel = e.uid

PumpBody(e) ==
  /\ pane' = IF BodyWanted(e) THEN <<e.acct, e.mb, e.uid>> ELSE pane
  /\ UNCHANGED <<accts, conn, active, open, rows, sel, sels, hits, origins, coreReqs, cmdQ, coreNotes>>

PumpBodyFailed(e) ==
  /\ pane' = IF BodyWanted(e) THEN Said("failed") ELSE pane
  /\ UNCHANGED <<accts, conn, active, open, rows, sel, sels, hits, origins, coreReqs, cmdQ, coreNotes>>

(* Mutant of AdvanceBulk: a reply that failed is not counted as one. *)
AdvanceBulkOnlySuccess(kind, e) ==
  IF bulk.kind # kind \/ e.uid \notin bulk.pending \/ e.ev \in {"FlagsUpdateFailed", "MoveFailed"} THEN UNCHANGED <<bulk, progress>>
  ELSE IF bulk.pending = {e.uid} THEN bulk' = NoBulk /\ progress' = Cleared(kind)
  ELSE bulk' = [bulk EXCEPT !.pending = @ \ {e.uid}] /\ progress' = kind

(* advance_bulk_action: matched by kind and UID. *)
AdvanceBulk(kind, e) ==
  IF bulk.kind # kind \/ e.uid \notin bulk.pending THEN UNCHANGED <<bulk, progress>>
  ELSE IF bulk.pending = {e.uid} THEN bulk' = NoBulk /\ progress' = Cleared(kind)
  ELSE bulk' = [bulk EXCEPT !.pending = @ \ {e.uid}] /\ progress' = kind

PumpFlags(e) ==
  /\ AdvanceBulk("Flags", e)
  /\ KeepView /\ KeepReqs /\ UNCHANGED <<conn, cmdQ, coreNotes>>

DropHit(e) ==
  LET kept == {i \in 1..Len(hits) : ~(hits[i] = e.uid /\ origins[i] = <<e.acct, e.mb>>)} IN
  hits' = Picked(hits, kept) /\ origins' = Picked(origins, kept)

PumpMoved(e) ==
  /\ AdvanceBulk("Move", e)
  /\ rows' = IF IsActive(e) /\ e.mb = open THEN {m \in rows : m[3] # e.uid} ELSE rows
  /\ DropHit(e) /\ gone' = gone \cup {<<e.acct, e.mb, e.uid>>}
  /\ IF IsActive(e)
     THEN sels' = sels \ {e.uid} /\ sel' = (IF sel = e.uid THEN 0 ELSE sel) /\ pane' = (IF sel = e.uid THEN Said("moved") ELSE pane)
     ELSE UNCHANGED <<sels, sel, pane>>
  /\ KeepReqs /\ UNCHANGED <<accts, conn, active, open, cmdQ, cut>>

PumpMoveFailed(e) ==
  /\ AdvanceBulk("Move", e)
  /\ KeepView /\ KeepReqs /\ UNCHANGED <<conn, cmdQ, coreNotes>>

(* A report for an account that is not on screen is ignored. *)
PumpIndex(e) ==
  /\ progress' = IF ~IsActive(e) THEN progress ELSE IF e.ev = "IndexDone" THEN Cleared("Index") ELSE "Index"
  /\ KeepView /\ KeepReqs /\ UNCHANGED <<conn, bulk, cmdQ, coreNotes>>

Pump ==
  /\ events # <<>> /\ events' = Tail(events)
  /\ UNCHANGED <<box, workQ, live, ops, mishaps>>
  /\ LET e == Head(events) IN
     IF ~InList(e.acct) THEN UNCHANGED <<coreView, coreReqs, cmdQ, coreNotes>>
     ELSE \/ e.ev = "Connected" /\ PumpConnected(e)
          \/ e.ev = "Disconnected" /\ PumpDisconnected(e)
          \/ e.ev = "Error" /\ PumpError(e)
          \/ e.ev = "Mailboxes" /\ PumpMailboxes(e)
          \/ e.ev = "Headers" /\ PumpHeaders(e)
          \/ e.ev = "Body" /\ PumpBody(e)
          \/ e.ev = "BodyFailed" /\ PumpBodyFailed(e)
          \/ e.ev \in {"FlagsUpdated", "FlagsUpdateFailed"} /\ PumpFlags(e)
          \/ e.ev = "Moved" /\ PumpMoved(e)
          \/ e.ev = "MoveFailed" /\ PumpMoveFailed(e)
          \/ e.ev \in {"IndexProgress", "IndexDone"} /\ PumpIndex(e)
          \/ e.ev = "UnreadCounts" /\ UNCHANGED <<coreView, coreReqs, cmdQ, coreNotes>>

-----------------------------------------------------------------------------
(* Every account connected, the first one's INBOX listed, its first message
   clicked and its body asked for. *)
CoreInit ==
  /\ box = [a \in Accounts |-> [mb \in Mailboxes |-> IF mb = "INBOX" THEN {1, 2} ELSE {}]]
  /\ accts = SetToSeq(Accounts) /\ conn = [a \in Accounts |-> "Connected"]
  /\ active = accts[1] /\ open = "INBOX" /\ rows = {<<active, "INBOX", u>> : u \in {1, 2}}
  /\ sel = 1 /\ sels = {1} /\ pane = Said("loading") /\ hits = <<>> /\ origins = <<>>
  /\ req = 2 /\ headersReq = 1 /\ bodyReq = 2 /\ bulk = NoBulk /\ progress = "none"
  /\ cmdQ = [a \in Accounts |-> IF a = active THEN <<Command("FetchBody", "INBOX", 1, 2)>> ELSE <<>>]
  /\ workQ = [a \in Accounts |-> <<>>] /\ live = [a \in Accounts |-> "up"]
  /\ events = <<>> /\ cut = FALSE /\ gone = {} /\ ops = 0  /\ mishaps = 0

CoreNext == CoreFrontend \/ CoreActors \/ Pump

CoreSpec == CoreInit /\ [][CoreNext]_coreVars

-----------------------------------------------------------------------------
(* Type invariant of the core; the active account is one of the list. *)
CoreTypeOK ==
  /\ \A a \in Accounts : Len(cmdQ[a]) <= ActorQueue /\ live[a] \in {"never", "up", "down"}
  /\ \A a \in Accounts : conn[a] \in {"none", "Connecting", "Connected", "Disconnected", "Failed"}
  /\ active = NoOne \/ InList(active)
  /\ open \in Mailboxes /\ sel \in 0..2 /\ sels \subseteq 1..2
  /\ pane \in Word \cup (Accounts \X Mailboxes \X (1..2))

(* The message list shows the active account's messages only, whatever replies
   of other accounts and earlier sessions are still on their way. *)
RowsOfActive == \A m \in rows : m[1] = active

(* While a message is selected, a body in the reading pane is that message's. *)
PaneIsSelected == pane \notin Word /\ sel # 0 => pane[1] = active /\ pane[3] = sel

(* "Where each entry of search_results lives, index for index": after moves,
   no hit is listed whose move was confirmed. *)
SearchAligned ==
  /\ Len(hits) = Len(origins)
  /\ \A i \in 1..Len(hits) : <<origins[i][1], origins[i][2], hits[i]>> \notin gone

(* A bulk action comes to its end, so that the buttons it disables come back:
   each message it waits for has its command in a queue or its reply on the
   way, unless a command was dropped, by a full queue or with the session it
   was sent to. *)
BulkIsOutstanding ==
  bulk # NoBulk /\ ~cut =>
    \A u \in bulk.pending :
      \/ \E a \in Accounts : \E i \in 1..Len(cmdQ[a]) :
           cmdQ[a][i].op = (IF bulk.kind = "Flags" THEN "StoreFlags" ELSE "MoveMessage") /\ cmdQ[a][i].uid = u
      \/ \E i \in 1..Len(events) :
           /\ events[i].uid = u /\ InList(events[i].acct)
           /\ events[i].ev \in IF bulk.kind = "Flags" THEN {"FlagsUpdated", "FlagsUpdateFailed"} ELSE {"Moved", "MoveFailed"}

=============================================================================
