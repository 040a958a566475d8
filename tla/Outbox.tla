------------------------------- MODULE Outbox -------------------------------
(***************************************************************************)
(* Sending mail in the Win32 frontend: compose windows, the `Deliveries`   *)
(* bookkeeping of the UI thread, the cache actor that owns the `outbox`    *)
(* table, and the SMTP actor.                                              *)
(*                                                                         *)
(* A Send is attempted at once; a failed attempt is written to the outbox  *)
(* table, which is polled for rows to retry.  The three parties only talk  *)
(* through queues, so an answer may be stale when it is applied.           *)
(*                                                                         *)
(* A message is a letter number and a version (each edit makes a new       *)
(* version); recipients, text and attachments are abstracted away.  A      *)
(* request of a compose window and its handling by the main window are one *)
(* step: both windows live on the UI thread.                               *)
(***************************************************************************)
EXTENDS Naturals, Sequences, FiniteSets

CONSTANTS
  SmtpQueue,     \* COMMAND_QUEUE of sending.rs (16 in the code)
  CacheQueue,    \* COMMAND_QUEUE of cache.rs (256 in the code)
  OldRows,       \* rows an earlier run left in the outbox
  MaxClicks,     \* bound: how many things the user does
  MaxIds,        \* bound: how many compose ids one process hands out
  MaxFailures,   \* bound: how many SMTP attempts fail
  Disruptions,   \* which of "reload", "crash" and "dberror" may happen
  MaxDisruptions \* bound: how many of them do

ASSUME QueueAssumption == SmtpQueue \in Nat \ {0} /\ CacheQueue \in Nat \ {0}
ASSUME BoundAssumption == OldRows \in Nat /\ MaxClicks \in Nat /\ MaxFailures \in Nat

VARIABLES
  \* the UI thread: compose windows, Deliveries, the Outbox window
  lastId,        \* Deliveries.last_id
  open,          \* open compose windows: id -> [text, saved]
  sending,       \* windows locked by ComposeMsg::Sending
  inFlight,      \* Deliveries.in_flight: id -> text
  outboxRows,    \* Deliveries.outbox_rows: id -> row
  queueOpen,     \* the Outbox window is open
  items,         \* Queues.outbox_items the window shows: a set of [row, text]
  configured,    \* the account is configured
  removing,      \* a removal of the account is under way on its own thread
  \* the cache actor
  dbQ, dbEv,     \* its commands and its answers, both FIFO
  table,         \* the outbox table: row -> [text, due]
  lastRow,       \* AUTOINCREMENT: row numbers are never reused
  \* the SMTP actor
  smtpQ, smtpEv, \* its commands and its outcomes, both FIFO
  \* history, read by the properties only
  letters,       \* letters begun so far
  accepted,      \* texts some Send or retry was queued for
  delivered,     \* letters the SMTP server took
  dropped,       \* letters the user discarded or deleted
  takenBack,     \* letters taken back from the outbox into a window
  drafted,       \* letters a draft row keeps
  clicks, failures, disruptions

ui == <<lastId, open, sending, inFlight, outboxRows, queueOpen, items>>
account == <<configured, removing>>
db == <<dbQ, dbEv, table, lastRow>>
smtp == <<smtpQ, smtpEv>>
history == <<letters, accepted, delivered, dropped, takenBack, drafted>>
bounds == <<clicks, failures, disruptions>>
vars == <<ui, account, db, smtp, history, bounds>>

-----------------------------------------------------------------------------
(* Partial functions, as the code's HashMaps. *)

Empty == [x \in {} |-> x]
Put(f, k, v) == [x \in DOMAIN f \cup {k} |-> IF x = k THEN v ELSE f[x]]
Without(f, k) == [x \in DOMAIN f \ {k} |-> f[x]]
Elements(s) == {s[i] : i \in 1..Len(s)}

(* Cache commands and events, SMTP commands and outcomes. *)
Text == [letter : Nat, v : Nat]
NoText == [letter |-> 0, v |-> 0]
Enqueue(id, text) == [op |-> "enqueue", id |-> id, row |-> 0, text |-> text, reply |-> TRUE]
OnRow(op, row) == [op |-> op, id |-> 0, row |-> row, text |-> NoText, reply |-> TRUE]
Ask(op) == OnRow(op, 0)
Enqueued(id, row) == [ev |-> "enqueued", id |-> id, row |-> row, items |-> {}]
Listing(ev, list) == [ev |-> ev, id |-> 0, row |-> 0, items |-> list]
RowsOf(list) == {it.row : it \in list}
TextOf(list, r) == (CHOOSE it \in list : it.row = r).text

(* Cache::command: a full queue drops the command without a word. *)
Push(q, cmds) == SubSeq(q \o cmds, 1, IF Len(q) + Len(cmds) > CacheQueue THEN CacheQueue ELSE Len(q) + Len(cmds))

(* refresh_queue(Outbox): asks for the rows again if the window is open. *)
Refresh == IF queueOpen THEN <<Ask("list")>> ELSE <<>>

(* S in ascending order (ORDER BY id): a set of one sequence. *)
Ascending(S) == {s \in [1..Cardinality(S) -> S] : \A i, j \in 1..Cardinality(S) : i < j => s[i] < s[j]}

-----------------------------------------------------------------------------
(* Compose windows *)

Act == clicks < MaxClicks /\ clicks' = clicks + 1
Disrupt(kind) == kind \in Disruptions /\ disruptions < MaxDisruptions /\ disruptions' = disruptions + 1
NoFault == UNCHANGED <<failures, disruptions>>

(* Mutant of StartCompose: next_id forgets to store the new last_id. *)
StartComposeStaleId(text) ==
  /\ lastId < MaxIds /\ lastId' = lastId
  /\ open' = Put(open, lastId + 1, [text |-> text, saved |-> text.v])

(* start_compose: a window for the message, under a fresh id. *)
StartCompose(text) ==
  /\ lastId < MaxIds /\ lastId' = lastId + 1
  /\ open' = Put(open, lastId + 1, [text |-> text, saved |-> text.v])

OpenCompose ==
  /\ Act /\ configured
  /\ StartCompose([letter |-> letters + 1, v |-> 1])
  /\ letters' = letters + 1
  /\ UNCHANGED <<sending, inFlight, outboxRows, queueOpen, items, account, db, smtp,
                 accepted, delivered, dropped, takenBack, drafted>> /\ NoFault

(* Typing into a form that is not locked. *)
Edit(id) ==
  /\ Act /\ id \notin sending
  /\ open' = [open EXCEPT ![id].text.v = @ + 1]
  /\ UNCHANGED <<lastId, sending, inFlight, outboxRows, queueOpen, items, account, db, smtp, history>> /\ NoFault

(* ComposeApp::send and send_message.  A Send the core refuses (no account,
   no password, no recipient, queue full) only says so in the window. *)
Send(id) ==
  /\ Act /\ id \notin sending
  /\ configured /\ Len(smtpQ) < SmtpQueue
  /\ smtpQ' = Append(smtpQ, [id |-> id, text |-> open[id].text])
  /\ inFlight' = Put(inFlight, id, open[id].text)
  /\ sending' = sending \cup {id}
  /\ accepted' = accepted \cup {open[id].text}
  /\ UNCHANGED <<lastId, open, outboxRows, queueOpen, items, account, db, smtpEv,
                 letters, delivered, dropped, takenBack, drafted>> /\ NoFault

(* A draft save, explicit or by the timer (the module Drafts has its races). *)
SaveDraft(id) ==
  /\ Act /\ open[id].text.v # open[id].saved
  /\ open' = [open EXCEPT ![id].saved = open[id].text.v]
  /\ drafted' = drafted \cup {open[id].text.letter}
  /\ UNCHANGED <<lastId, sending, inFlight, outboxRows, queueOpen, items, account, db, smtp,
                 letters, accepted, delivered, dropped, takenBack>> /\ NoFault

(* close_requested without a question: a send is under way, or nothing was
   edited.  Otherwise the user saves (SaveDraft, then this) or discards. *)
Close(id) ==
  /\ Act /\ (id \in sending \/ open[id].text.v = open[id].saved)
  /\ open' = Without(open, id)
  /\ sending' = sending \ {id}
  /\ UNCHANGED <<lastId, inFlight, outboxRows, queueOpen, items, account, db, smtp, history>> /\ NoFault

(* Discard, which no lock disables: Deliveries::forget, delete the outbox row
   if one is known, settle the draft, close the window. *)
Discard(id) ==
  /\ Act
  /\ inFlight' = Without(inFlight, id)
  /\ outboxRows' = Without(outboxRows, id)
  /\ dbQ' = IF id \in DOMAIN outboxRows THEN Push(dbQ, <<OnRow("delete", outboxRows[id])>>) ELSE dbQ
  /\ open' = Without(open, id)
  /\ sending' = sending \ {id}
  /\ dropped' = dropped \cup {open[id].text.letter}
  /\ drafted' = drafted \ {open[id].text.letter}
  /\ UNCHANGED <<lastId, queueOpen, items, account, dbEv, table, lastRow, smtp,
                 letters, accepted, delivered, takenBack>> /\ NoFault

-----------------------------------------------------------------------------
(* Retries *)

(* Mutants of Owned: the sends under way are forgotten; a row an id ever owned
   is never retried. *)
OwnedByWindows == {outboxRows[i] : i \in DOMAIN outboxRows \cap DOMAIN open}
OwnedForEver == {outboxRows[i] : i \in DOMAIN outboxRows}

(* The rows Deliveries::retries leaves alone. *)
Owned == {outboxRows[i] : i \in {j \in DOMAIN outboxRows : j \in DOMAIN open \/ j \in DOMAIN inFlight}}

(* What outcome_failed queues for each of `rows` in turn. *)
BackOffEach(rows) ==
  IF queueOpen
    THEN [n \in 1..(2 * Len(rows)) |-> IF n % 2 = 1 THEN OnRow("failed", rows[(n + 1) \div 2]) ELSE Ask("list")]
    ELSE [n \in 1..Len(rows) |-> OnRow("failed", rows[n])]

(* outbox_due: rows of an unknown account are backed off; every other row not
   owned becomes a send under a fresh id, in the order of the rows.  `refused`
   are the sends the core turns down (no password, queue full): outcome_failed
   backs their rows off at once. *)
OutboxDue(due, refused) ==
  LET free == RowsOf(due) \ Owned
      todo == IF configured THEN free ELSE {}
      ids == (lastId + 1)..(lastId + Cardinality(todo))
  IN /\ refused \subseteq todo
     /\ failures + Cardinality(refused) <= MaxFailures
     /\ failures' = failures + Cardinality(refused)
     /\ lastId' = lastId + Cardinality(todo) /\ lastId' <= MaxIds
     /\ \E order \in Ascending(todo) :
          LET rowOf(id) == order[id - lastId]
              sends == {id \in ids : rowOf(id) \notin refused}
          IN /\ outboxRows' = [id \in DOMAIN outboxRows \cup ids |-> IF id \in ids THEN rowOf(id) ELSE outboxRows[id]]
             /\ inFlight' = [id \in DOMAIN inFlight \cup sends |-> IF id \in sends THEN TextOf(due, rowOf(id)) ELSE inFlight[id]]
             /\ accepted' = accepted \cup {TextOf(due, rowOf(id)) : id \in sends}
             /\ \E seq \in Ascending(sends) :
                  smtpQ' = smtpQ \o [n \in 1..Len(seq) |-> [id |-> seq[n], text |-> TextOf(due, rowOf(seq[n]))]]
     /\ Len(smtpQ') <= SmtpQueue
     /\ \E rows \in Ascending(IF configured THEN refused ELSE free) :
          dbQ' = Push(dbQ, IF configured THEN BackOffEach(rows) ELSE [n \in 1..Len(rows) |-> OnRow("failed", rows[n])])

(* The outbox timer asks for due rows.  Bound: one question at a time. *)
Poll ==
  /\ \A c \in Elements(dbQ) : c.op # "due"
  /\ \A e \in Elements(dbEv) : e.ev # "due"
  /\ dbQ' = Push(dbQ, <<Ask("due")>>)
  /\ UNCHANGED <<ui, account, dbEv, table, lastRow, smtp, history, bounds>>

-----------------------------------------------------------------------------
(* The Outbox window *)

(* show_queue: a new window shows no row before the next listing. *)
ShowQueue ==
  /\ Act /\ ~queueOpen
  /\ queueOpen' = TRUE /\ items' = {}
  /\ dbQ' = Push(dbQ, <<Ask("list")>>)
  /\ UNCHANGED <<lastId, open, sending, inFlight, outboxRows, account, dbEv, table, lastRow, smtp, history>> /\ NoFault

CloseQueue ==
  /\ Act /\ queueOpen
  /\ queueOpen' = FALSE
  /\ UNCHANGED <<lastId, open, sending, inFlight, outboxRows, items, account, db, smtp, history>> /\ NoFault

(* retry_queued: sends the row as the last listing showed it. *)
RetryQueued(it) ==
  /\ Act /\ queueOpen
  /\ \E refused \in SUBSET {it.row} : OutboxDue({it}, refused)
  /\ UNCHANGED <<open, sending, queueOpen, items, account, dbEv, table, lastRow, smtpEv,
                 letters, delivered, dropped, takenBack, drafted, disruptions>>

(* edit_queued: the row is deleted and its message opens in a new window. *)
EditQueued(it) ==
  /\ Act /\ queueOpen
  /\ items' = items \ {it}
  /\ dbQ' = Push(dbQ, <<OnRow("delete", it.row)>> \o Refresh)
  /\ StartCompose(it.text)
  /\ takenBack' = takenBack \cup {it.text.letter}
  /\ UNCHANGED <<sending, inFlight, outboxRows, queueOpen, account, dbEv, table, lastRow, smtp,
                 letters, accepted, delivered, dropped, drafted>> /\ NoFault

DeleteQueued(it) ==
  /\ Act /\ queueOpen
  /\ dbQ' = Push(dbQ, <<OnRow("delete", it.row)>> \o Refresh)
  /\ dropped' = dropped \cup {it.text.letter}
  /\ UNCHANGED <<ui, account, dbEv, table, lastRow, smtp,
                 letters, accepted, delivered, takenBack, drafted>> /\ NoFault

-----------------------------------------------------------------------------
(* The cache actor *)

Cmd == Head(dbQ)
Took == dbQ # <<>> /\ dbQ' = Tail(dbQ)
(* Mutant of Answer: the newest answer overtakes the others. *)
AnswerFirst(ev) == dbEv' = IF Cmd.reply THEN <<ev>> \o dbEv ELSE dbEv
Answer(ev) == dbEv' = IF Cmd.reply THEN Append(dbEv, ev) ELSE dbEv

(* enqueue_outbox with id None: a new row, due at once. *)
DbEnqueue ==
  /\ Took /\ Cmd.op = "enqueue"
  /\ lastRow' = lastRow + 1
  /\ table' = Put(table, lastRow + 1, [text |-> Cmd.text, due |-> TRUE])
  /\ Answer(Enqueued(Cmd.id, lastRow + 1))
  /\ UNCHANGED <<ui, account, smtp, history, bounds>>

(* due_outbox and list_outbox. *)
DbQuery ==
  /\ Took /\ Cmd.op \in {"due", "list"}
  /\ LET rows == {r \in DOMAIN table : Cmd.op = "list" \/ table[r].due}
     IN Answer(Listing(Cmd.op, {[row |-> r, text |-> table[r].text] : r \in rows}))
  /\ UNCHANGED <<ui, account, table, lastRow, smtp, history, bounds>>

(* MarkOutboxSent and DeleteOutbox. *)
DbDelete ==
  /\ Took /\ Cmd.op \in {"sent", "delete"}
  /\ table' = Without(table, Cmd.row)
  /\ UNCHANGED <<ui, account, dbEv, lastRow, smtp, history, bounds>>

(* mark_outbox_failed: an error, reported and ignored, when the row is gone. *)
DbFailed ==
  /\ Took /\ Cmd.op = "failed"
  /\ table' = IF Cmd.row \in DOMAIN table THEN [table EXCEPT ![Cmd.row].due = FALSE] ELSE table
  /\ UNCHANGED <<ui, account, dbEv, lastRow, smtp, history, bounds>>

(* A write SQLite refuses: reported as DbEvent::Error, nothing is retried. *)
DbError ==
  /\ Took /\ Cmd.op \notin {"due", "list"}
  /\ Disrupt("dberror")
  /\ UNCHANGED <<ui, account, dbEv, table, lastRow, smtp, history, clicks, failures>>

(* The back-off of a row ends: next_attempt_at has passed. *)
BackoffEnds(r) ==
  /\ ~table[r].due
  /\ table' = [table EXCEPT ![r].due = TRUE]
  /\ UNCHANGED <<ui, account, dbQ, dbEv, lastRow, smtp, history, bounds>>

-----------------------------------------------------------------------------
(* The SMTP actor: one attempt at a time, one outcome each *)

SmtpSent ==
  /\ smtpQ # <<>>
  /\ smtpQ' = Tail(smtpQ)
  /\ smtpEv' = Append(smtpEv, [id |-> Head(smtpQ).id, ok |-> TRUE])
  /\ delivered' = delivered \cup {Head(smtpQ).text.letter}
  /\ UNCHANGED <<ui, account, db, letters, accepted, dropped, takenBack, drafted, bounds>>

(* Mutant of SmtpError: a failed attempt has no outcome. *)
SmtpErrorSilent ==
  /\ smtpQ # <<>> /\ failures < MaxFailures
  /\ smtpQ' = Tail(smtpQ)
  /\ failures' = failures + 1
  /\ UNCHANGED <<ui, account, db, smtpEv, history, clicks, disruptions>>

(* The attempt fails, possibly after the server took the message (the reply
   to DATA was lost). *)
SmtpError ==
  /\ smtpQ # <<>> /\ failures < MaxFailures
  /\ smtpQ' = Tail(smtpQ)
  /\ smtpEv' = Append(smtpEv, [id |-> Head(smtpQ).id, ok |-> FALSE])
  /\ delivered' \in {delivered, delivered \cup {Head(smtpQ).text.letter}}
  /\ failures' = failures + 1
  /\ UNCHANGED <<ui, account, db, letters, accepted, dropped, takenBack, drafted,
                 clicks, disruptions>>

-----------------------------------------------------------------------------
(* The UI thread drains the answers *)

(* outbox_enqueued *)
HandleEnqueued ==
  /\ dbEv # <<>> /\ Head(dbEv).ev = "enqueued"
  /\ dbEv' = Tail(dbEv)
  /\ outboxRows' = Put(outboxRows, Head(dbEv).id, Head(dbEv).row)
  /\ dbQ' = Push(dbQ, Refresh)
  /\ UNCHANGED <<lastId, open, sending, inFlight, queueOpen, items, account, table, lastRow, smtp, history, bounds>>

HandleDue ==
  /\ dbEv # <<>> /\ Head(dbEv).ev = "due"
  /\ dbEv' = Tail(dbEv)
  /\ \E refused \in SUBSET RowsOf(Head(dbEv).items) : OutboxDue(Head(dbEv).items, refused)
  /\ UNCHANGED <<open, sending, queueOpen, items, account, table, lastRow, smtpEv,
                 letters, delivered, dropped, takenBack, drafted, clicks, disruptions>>

(* outbox_listed *)
HandleList ==
  /\ dbEv # <<>> /\ Head(dbEv).ev = "list"
  /\ dbEv' = Tail(dbEv)
  /\ items' = Head(dbEv).items
  /\ UNCHANGED <<lastId, open, sending, inFlight, outboxRows, queueOpen, account, dbQ, table, lastRow, smtp, history, bounds>>

(* outcome_sent: an outcome nobody waits for is ignored; otherwise the row is
   marked done, the draft settled and the window closed. *)
OutcomeSent ==
  /\ smtpEv # <<>> /\ Head(smtpEv).ok
  /\ smtpEv' = Tail(smtpEv)
  /\ LET id == Head(smtpEv).id
         known == id \in DOMAIN inFlight
         mark == IF id \in DOMAIN outboxRows THEN <<OnRow("sent", outboxRows[id])>> ELSE <<>>
     IN /\ inFlight' = Without(inFlight, id)
        /\ outboxRows' = IF known THEN Without(outboxRows, id) ELSE outboxRows
        /\ dbQ' = IF known THEN Push(dbQ, mark \o Refresh) ELSE dbQ
        /\ open' = IF known THEN Without(open, id) ELSE open
        /\ sending' = IF known THEN sending \ {id} ELSE sending
        /\ drafted' = IF known /\ id \in DOMAIN open THEN drafted \ {open[id].text.letter} ELSE drafted
  /\ UNCHANGED <<lastId, queueOpen, items, account, dbEv, table, lastRow, smtpQ,
                 letters, accepted, delivered, dropped, takenBack, bounds>>

(* Mutants of Failed: the row is marked done instead of backed off; a message
   whose window is open is not recorded. *)
FailedDone(id) ==
  IF id \in DOMAIN outboxRows THEN <<OnRow("sent", outboxRows[id])>>
  ELSE IF configured THEN <<Enqueue(id, inFlight[id])>> ELSE <<>>
FailedUnlessOpen(id) ==
  IF id \in DOMAIN outboxRows THEN <<OnRow("failed", outboxRows[id])>>
  ELSE IF configured /\ id \notin DOMAIN open THEN <<Enqueue(id, inFlight[id])>> ELSE <<>>

(* Deliveries::failed: the row the id owns is backed off; a message without
   one is recorded in a new row, if its account is still configured. *)
Failed(id) ==
  IF id \in DOMAIN outboxRows THEN <<OnRow("failed", outboxRows[id])>>
  ELSE IF configured THEN <<Enqueue(id, inFlight[id])>> ELSE <<>>

(* outcome_failed: an outcome nobody waits for is ignored. *)
OutcomeFailed ==
  /\ smtpEv # <<>> /\ ~Head(smtpEv).ok
  /\ smtpEv' = Tail(smtpEv)
  /\ LET id == Head(smtpEv).id
         known == id \in DOMAIN inFlight
     IN /\ inFlight' = Without(inFlight, id)
        /\ sending' = IF known THEN sending \ {id} ELSE sending
        /\ dbQ' = IF known THEN Push(dbQ, Failed(id) \o Refresh) ELSE dbQ
  /\ UNCHANGED <<lastId, open, outboxRows, queueOpen, items, account, dbEv, table, lastRow, smtpQ, history, bounds>>

-----------------------------------------------------------------------------
(* Account changes and the end of the process *)

(* reload_accounts: a new core.  The old SMTP actor and every undelivered
   event die with the old runtime; the old cache actor still runs the
   commands it has, unheard.  Composes and Queues are left as they are. *)
Reload ==
  /\ Disrupt("reload")
  /\ smtpQ' = <<>> /\ smtpEv' = <<>> /\ dbEv' = <<>>
  /\ dbQ' = [i \in 1..Len(dbQ) |-> [dbQ[i] EXCEPT !.reply = FALSE]]
  /\ UNCHANGED <<ui, table, lastRow, history, clicks, failures>>

(* Outcome::Saved: an account was added or edited; no window is asked. *)
AccountSaved == Reload /\ configured' = TRUE /\ UNCHANGED removing

(* remove_account refuses while a message window is open ... *)
RemoveAccount ==
  /\ Act /\ configured /\ ~removing /\ DOMAIN open = {}
  /\ removing' = TRUE
  /\ UNCHANGED <<ui, configured, db, smtp, history>> /\ NoFault

(* ... and Outcome::Removed arrives from its thread some time later. *)
AccountRemoved == removing /\ Reload /\ configured' = FALSE /\ removing' = FALSE

(* The process dies and is started again: only the table is left, and the
   start-up asks for due rows. *)
Crash ==
  /\ Disrupt("crash")
  /\ lastId' = 0 /\ open' = Empty /\ sending' = {} /\ inFlight' = Empty /\ outboxRows' = Empty
  /\ queueOpen' = FALSE /\ items' = {} /\ removing' = FALSE
  /\ dbQ' = <<Ask("due")>> /\ dbEv' = <<>>
  /\ smtpQ' = <<>> /\ smtpEv' = <<>>
  /\ UNCHANGED <<configured, table, lastRow, history, clicks, failures>>

-----------------------------------------------------------------------------
Init ==
  /\ lastId = 0 /\ open = Empty /\ sending = {} /\ inFlight = Empty /\ outboxRows = Empty
  /\ queueOpen = FALSE /\ items = {}
  /\ configured = TRUE /\ removing = FALSE
  /\ dbQ = <<Ask("due")>> /\ dbEv = <<>> /\ lastRow = OldRows
  /\ table = [r \in 1..OldRows |-> [text |-> [letter |-> r, v |-> 1], due |-> TRUE]]
  /\ smtpQ = <<>> /\ smtpEv = <<>>
  /\ letters = OldRows /\ accepted = {[letter |-> r, v |-> 1] : r \in 1..OldRows} /\ delivered = {}
  /\ dropped = {} /\ takenBack = {} /\ drafted = {}
  /\ clicks = 0 /\ failures = 0 /\ disruptions = 0

User ==
  \/ OpenCompose \/ ShowQueue \/ CloseQueue \/ RemoveAccount
  \/ \E id \in DOMAIN open : Edit(id) \/ Send(id) \/ SaveDraft(id) \/ Close(id) \/ Discard(id)
  \/ \E it \in items : RetryQueued(it) \/ EditQueued(it) \/ DeleteQueued(it)
Drain == HandleEnqueued \/ HandleDue \/ HandleList \/ OutcomeSent \/ OutcomeFailed
CacheActor == DbEnqueue \/ DbQuery \/ DbDelete \/ DbFailed \/ DbError
SmtpActor == SmtpSent \/ SmtpError
Clock == Poll \/ \E r \in DOMAIN table : BackoffEnds(r)
Disruption == AccountSaved \/ AccountRemoved \/ Crash

Next == User \/ Drain \/ CacheActor \/ SmtpActor \/ Clock \/ Disruption

Spec == Init /\ [][Next]_vars

(* The actors keep taking commands, the UI thread keeps draining every channel
   and the timers keep firing; MaxFailures makes the server accept in the end.
   Users and disruptions owe nothing. *)
Fairness ==
  /\ WF_vars(HandleEnqueued) /\ WF_vars(HandleDue) /\ WF_vars(HandleList)
  /\ WF_vars(OutcomeSent) /\ WF_vars(OutcomeFailed)
  /\ WF_vars(CacheActor) /\ WF_vars(SmtpActor) /\ WF_vars(Poll)
  /\ WF_vars(\E r \in DOMAIN table : BackoffEnds(r))
FairSpec == Spec /\ Fairness

-----------------------------------------------------------------------------
(* Types *)

MapInto(f, S, T) == DOMAIN f \subseteq S /\ f \in [DOMAIN f -> T]
Item == [row : Nat, text : Text]
Command == [op : {"enqueue", "due", "list", "sent", "delete", "failed"}, id : Nat, row : Nat, text : Text, reply : BOOLEAN]
Event == [ev : {"enqueued", "due", "list"}, id : Nat, row : Nat, items : SUBSET Item]
Mail == [id : Nat, text : Text]
Outcome == [id : Nat, ok : BOOLEAN]
Window == [text : Text, saved : Nat]
Queued == [text : Text, due : BOOLEAN]

UiTypeOK ==
  /\ lastId \in Nat /\ queueOpen \in BOOLEAN /\ configured \in BOOLEAN /\ removing \in BOOLEAN
  /\ MapInto(open, 1..lastId, Window)
  /\ sending \subseteq DOMAIN open
  /\ MapInto(inFlight, 1..lastId, Text)
  /\ MapInto(outboxRows, 1..lastId, 1..lastRow)
  /\ items \subseteq Item /\ RowsOf(items) \subseteq 1..lastRow

CacheTypeOK ==
  /\ lastRow \in Nat
  /\ MapInto(table, 1..lastRow, Queued)
  /\ dbQ \in Seq(Command) /\ Len(dbQ) <= CacheQueue
  /\ \A i \in 1..Len(dbQ) : dbQ[i].op = "enqueue" /\ dbQ[i].reply => dbQ[i].id \in 1..lastId
  /\ dbEv \in Seq(Event)
  /\ \A i \in 1..Len(dbEv) :
       /\ RowsOf(dbEv[i].items) \subseteq 1..lastRow
       /\ dbEv[i].ev = "enqueued" => dbEv[i].id \in 1..lastId /\ dbEv[i].row \in 1..lastRow /\ dbEv[i].items = {}

SmtpTypeOK ==
  /\ smtpQ \in Seq(Mail) /\ Len(smtpQ) <= SmtpQueue
  /\ smtpEv \in Seq(Outcome)
  /\ \A i \in 1..Len(smtpQ) : smtpQ[i].id \in 1..lastId
  /\ \A i \in 1..Len(smtpEv) : smtpEv[i].id \in 1..lastId

BoundsTypeOK == letters \in Nat /\ clicks \in Nat /\ failures \in Nat /\ disruptions \in Nat

(* Every variable has its type: the ids and rows in any map, queue or answer
   are never ahead of the counters that hand them out, over crashes and
   reloads too, and no queue is longer than its channel. *)
TypeOK == UiTypeOK /\ CacheTypeOK /\ SmtpTypeOK /\ BoundsTypeOK

-----------------------------------------------------------------------------
(* Properties that hold *)

(* A compose id that may still send: its window is open or it is in flight. *)
Live(id) == id \in DOMAIN open \/ id \in DOMAIN inFlight

(* An outbox row is never at the disposal of two senders at once.  The retry
   timer must skip a row while an open window owns it or while it is being
   sent (Deliveries::retries), although ownership is learnt late, from the
   cache actor's answers. *)
RowHasOneSender ==
  \A i, j \in DOMAIN outboxRows :
    i # j /\ outboxRows[i] = outboxRows[j] => ~(Live(i) /\ Live(j))

(* A row whose number is still on its way back to the UI thread is claimed by
   no compose id and shown by no listing that arrives earlier: a listing that
   contains it was read later, and answers are applied in order.  This is why
   outbox_enqueued may overwrite outbox_rows without a look. *)
PendingRowIsUnclaimed ==
  \A k \in 1..Len(dbEv) : dbEv[k].ev = "enqueued" =>
    /\ \A i \in DOMAIN outboxRows : outboxRows[i] # dbEv[k].row
    /\ dbEv[k].row \notin RowsOf(items)
    /\ \A j \in 1..(k - 1) : dbEv[k].row \notin RowsOf(dbEv[j].items)
    /\ \A j \in 1..Len(dbEv) : j # k /\ dbEv[j].ev = "enqueued" => dbEv[j].row # dbEv[k].row

(* A row of the outbox stays, over crashes, reloads, dropped commands and
   failed writes, until its message was delivered or the user gave it up
   (EnqueueOutbox: "stays until MarkOutboxSent removes it"). *)
RowStaysUntilDone ==
  [][\A r \in DOMAIN table \ DOMAIN table' : table[r].text.letter \in delivered \cup dropped \cup takenBack]_vars

(* Some copy of the letter can still be sent. *)
HasCopy(l) ==
  \/ \E i \in DOMAIN inFlight : inFlight[i].letter = l /\ \E m \in Elements(smtpQ) \cup Elements(smtpEv) : m.id = i
  \/ \E i \in DOMAIN open : open[i].text.letter = l
  \/ \E c \in Elements(dbQ) : c.op = "enqueue" /\ c.text.letter = l
  \/ \E r \in DOMAIN table : table[r].text.letter = l
  \/ l \in drafted

(* A message whose Send was accepted is delivered, or given up by the user, or
   there is still a copy of it: a failed send is "not lost with its window". *)
NothingLost ==
  \A t \in accepted : t.letter \in delivered \cup dropped \cup takenBack \/ HasCopy(t.letter)

(* A window locked by "Sending..." gets an outcome that unlocks or closes it:
   its send is under way or its outcome is waiting to be applied. *)
LockedWindowHasOutcome ==
  \A id \in sending : id \in DOMAIN inFlight /\ \E m \in Elements(smtpQ) \cup Elements(smtpEv) : m.id = id

(* A message in the outbox whose window is gone is sent in the end, once the
   server stops refusing it, unless the account or the user is gone. *)
OutboxDrains ==
  \A r \in 1..(OldRows + MaxFailures) :
    (r \in DOMAIN table /\ DOMAIN open = {}) ~> (r \notin DOMAIN table \/ DOMAIN open # {} \/ ~configured)
=============================================================================
