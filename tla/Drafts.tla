------------------------------- MODULE Drafts -------------------------------
(***************************************************************************)
(* Drafts in the Win32 frontend: the entries `Composes` keeps for its      *)
(* compose windows, the cache actor that owns the `drafts` table, and the  *)
(* Drafts window.                                                          *)
(*                                                                         *)
(* A save is a command to the cache actor; the number of the row it was    *)
(* written to comes back later, when the window may have saved again, been *)
(* closed, sent or discarded.  A message is a number and a version (each   *)
(* edit makes a new version) and always has some content.  What sending    *)
(* does besides (Deliveries, the outbox) is the module Outbox; here a send *)
(* is under way and then succeeds or fails.                                *)
(***************************************************************************)
EXTENDS Naturals, Sequences, FiniteSets

CONSTANTS
  CacheQueue,    \* COMMAND_QUEUE of cache.rs (256 in the code)
  OldDrafts,     \* drafts an earlier run left behind
  MaxClicks,     \* bound: how many things the user does
  MaxIds,        \* bound: how many compose ids one process hands out
  Disruptions,   \* which of "reload", "crash" and "dberror" may happen
  MaxDisruptions \* bound: how many of them do

ASSUME QueueAssumption == CacheQueue \in Nat \ {0}
ASSUME BoundAssumption == OldDrafts \in Nat /\ MaxClicks \in Nat /\ MaxIds \in Nat /\ MaxDisruptions \in Nat

VARIABLES
  lastId,     \* Deliveries.last_id
  entries,    \* Composes.entries, with the state of their windows
  sends,      \* Deliveries.in_flight: compose id -> [msg, live]; the outcome of
              \* a send that is not live never comes
  draftsOpen, \* the Drafts window is open
  listed,     \* the rows it shows
  dbQ, dbEv,  \* commands to the cache actor and its answers, both FIFO
  table,      \* the drafts table: row -> [msg, v]
  lastRow,    \* AUTOINCREMENT: row numbers are never reused
  \* history, read by the properties only
  msgs,       \* messages begun so far
  sent,       \* messages whose send succeeded
  discarded,  \* messages the user discarded in a compose window
  deleted,    \* messages deleted in the Drafts window
  saved,      \* texts a window has asked to save
  full,       \* the command queue has been full: a command may have been dropped
  clicks, disruptions

window == <<draftsOpen, listed>>
ui == <<lastId, entries, sends, window>>
db == <<dbQ, dbEv, table, lastRow>>
history == <<msgs, sent, discarded, deleted, saved>>
vars == <<ui, db, history, full, clicks, disruptions>>

NoRow == 0
Empty == [x \in {} |-> x]
Put(f, k, v) == [x \in DOMAIN f \cup {k} |-> IF x = k THEN v ELSE f[x]]
Without(f, k) == [x \in DOMAIN f \ {k} |-> f[x]]

SaveCmd(id, row, text) == [op |-> "save", id |-> id, row |-> row, text |-> text, reply |-> TRUE]
RowCmd(op, row) == [op |-> op, id |-> 0, row |-> row, text |-> [msg |-> 0, v |-> 0], reply |-> TRUE]

(* Cache::command: a full queue drops the command without a word. *)
Push(c) == IF Len(dbQ) < CacheQueue THEN Append(dbQ, c) ELSE dbQ

(* forget_if_done: a closed window's entry goes once no save is pending. *)
ForgetIfDone(es, id) == IF ~es[id].open /\ es[id].pending = 0 THEN Without(es, id) ELSE es

Act == clicks < MaxClicks /\ clicks' = clicks + 1 /\ UNCHANGED disruptions
Disrupt(kind) == kind \in Disruptions /\ disruptions < MaxDisruptions /\ disruptions' = disruptions + 1 /\ UNCHANGED clicks
NoClick == UNCHANGED <<clicks, disruptions>>

-----------------------------------------------------------------------------
(* Compose windows *)

(* Bound: the windows opened so far and the drafts still being loaded. *)
RoomForWindow ==
  lastId + Cardinality({i \in 1..Len(dbQ) : dbQ[i].op = "load"}) + Cardinality({i \in 1..Len(dbEv) : dbEv[i].ev = "loaded"})
    < MaxIds

(* Mutant of StartCompose: next_id forgets to store the new last_id. *)
StartComposeStaleId(text) ==
  /\ lastId' = lastId
  /\ entries' = Put(entries, lastId + 1,
       [open |-> TRUE, text |-> text, asked |-> text.v, draft |-> NoRow, pending |-> 0, settled |-> FALSE])

(* start_compose: the entry starts without a draft row, whatever row the text
   came from. *)
StartCompose(text) ==
  /\ lastId' = lastId + 1
  /\ entries' = Put(entries, lastId + 1,
       [open |-> TRUE, text |-> text, asked |-> text.v, draft |-> NoRow, pending |-> 0, settled |-> FALSE])

NewCompose ==
  /\ Act /\ RoomForWindow
  /\ StartCompose([msg |-> msgs + 1, v |-> 1])
  /\ msgs' = msgs + 1
  /\ UNCHANGED <<sends, window, db, sent, discarded, deleted, saved>>

Edit(id) ==
  /\ Act /\ id \notin DOMAIN sends
  /\ entries' = [entries EXCEPT ![id].text.v = @ + 1]
  /\ UNCHANGED <<lastId, sends, window, db, msgs, sent, discarded, deleted, saved>>

(* save_draft: by the user at any time (Ctrl+S works while the form is locked),
   or by the timer.  Composes adds the row it knows by now. *)
SaveDraft(id) ==
  /\ Act
  /\ entries' = [entries EXCEPT ![id].asked = entries[id].text.v, ![id].pending = @ + 1]
  /\ dbQ' = Push(SaveCmd(id, entries[id].draft, entries[id].text))
  /\ saved' = saved \cup {entries[id].text}
  /\ UNCHANGED <<lastId, sends, window, dbEv, table, lastRow, msgs, sent, discarded, deleted>>

Send(id) ==
  /\ Act /\ id \notin DOMAIN sends
  /\ sends' = Put(sends, id, [msg |-> entries[id].text.msg, live |-> TRUE])
  /\ UNCHANGED <<lastId, entries, window, db, history>>

(* close_requested without a question: a send is under way, or nothing changed
   since the last save. *)
Close(id) ==
  /\ Act /\ (id \in DOMAIN sends \/ entries[id].text.v = entries[id].asked)
  /\ entries' = ForgetIfDone([entries EXCEPT ![id].open = FALSE], id)
  /\ UNCHANGED <<lastId, sends, window, db, msgs, sent, discarded, deleted, saved>>

(* settle, and the window closes: the entry is marked and gives up its row. *)
Settled(id) == [entries EXCEPT ![id].settled = TRUE, ![id].draft = NoRow, ![id].open = FALSE]
SettleCmd(id) == IF entries[id].draft # NoRow THEN Push(RowCmd("delete", entries[id].draft)) ELSE dbQ

(* discard_message: Deliveries::forget, settle; then the window closes. *)
Discard(id) ==
  /\ Act
  /\ sends' = Without(sends, id)
  /\ entries' = ForgetIfDone(Settled(id), id)
  /\ dbQ' = SettleCmd(id)
  /\ discarded' = discarded \cup {entries[id].text.msg}
  /\ UNCHANGED <<lastId, window, dbEv, table, lastRow, msgs, sent, deleted, saved>>

(* outcome_sent: settles the message if its entry is still there, and closes
   the window. *)
OutcomeSent(id) ==
  /\ sends[id].live
  /\ sends' = Without(sends, id)
  /\ sent' = sent \cup {sends[id].msg}
  /\ entries' = IF id \in DOMAIN entries THEN ForgetIfDone(Settled(id), id) ELSE entries
  /\ dbQ' = IF id \in DOMAIN entries THEN SettleCmd(id) ELSE dbQ
  /\ UNCHANGED <<lastId, window, dbEv, table, lastRow, msgs, discarded, deleted, saved>> /\ NoClick

(* outcome_failed: the window is unlocked; the outbox keeps the message. *)
OutcomeFailed(id) ==
  /\ sends[id].live
  /\ sends' = Without(sends, id)
  /\ UNCHANGED <<lastId, entries, window, db, history>> /\ NoClick

-----------------------------------------------------------------------------
(* The Drafts window *)

(* show_queue: opens the window, empty, or brings it forward. *)
ShowDrafts ==
  /\ Act
  /\ draftsOpen' = TRUE /\ listed' = IF draftsOpen THEN listed ELSE {}
  /\ dbQ' = Push(RowCmd("list", NoRow))
  /\ UNCHANGED <<lastId, entries, sends, dbEv, table, lastRow, history>>

CloseDrafts ==
  /\ Act /\ draftsOpen
  /\ draftsOpen' = FALSE /\ listed' = {}
  /\ UNCHANGED <<lastId, entries, sends, db, history>>

OpenDraft(r) ==
  /\ Act /\ RoomForWindow
  /\ dbQ' = Push(RowCmd("load", r))
  /\ UNCHANGED <<ui, dbEv, table, lastRow, history>>

(* The list is asked for again right after the row is deleted. *)
DeleteDraft(r) ==
  /\ Act
  /\ dbQ' = LET q == Push(RowCmd("delete", r))
            IN IF Len(q) < CacheQueue THEN Append(q, RowCmd("list", NoRow)) ELSE q
  /\ deleted' = deleted \cup (IF r \in DOMAIN table THEN {table[r].msg} ELSE {})
  /\ UNCHANGED <<ui, dbEv, table, lastRow, msgs, sent, discarded, saved>>

-----------------------------------------------------------------------------
(* The cache actor *)

Cmd == Head(dbQ)
Took == dbQ # <<>> /\ dbQ' = Tail(dbQ)
Answer(ev, rows, text) ==
  dbEv' = IF Cmd.reply THEN Append(dbEv, [ev |-> ev, id |-> Cmd.id, rows |-> rows, text |-> text]) ELSE dbEv

(* Mutant of SavedRow: last_insert_rowid() is returned for an update too. *)
SavedRowLastInsert == IF Cmd.row = NoRow THEN lastRow + 1 ELSE lastRow

(* The row save_draft returns: the one it was given, else the new one. *)
SavedRow == IF Cmd.row = NoRow THEN lastRow + 1 ELSE Cmd.row

(* save_draft: an UPDATE of a row that is gone changes nothing and succeeds. *)
DbSave ==
  /\ Took /\ Cmd.op = "save"
  /\ lastRow' = IF Cmd.row = NoRow THEN lastRow + 1 ELSE lastRow
  /\ table' = IF Cmd.row = NoRow \/ Cmd.row \in DOMAIN table
                THEN Put(table, IF Cmd.row = NoRow THEN lastRow + 1 ELSE Cmd.row, Cmd.text)
                ELSE table
  /\ Answer("saved", {SavedRow}, Cmd.text)
  /\ UNCHANGED <<ui, history>> /\ NoClick

DbDelete ==
  /\ Took /\ Cmd.op = "delete"
  /\ table' = Without(table, Cmd.row)
  /\ UNCHANGED <<ui, dbEv, lastRow, history>> /\ NoClick

(* load_draft (an error when the row is gone) and list_drafts. *)
DbRead ==
  /\ Took /\ Cmd.op \in {"load", "list"}
  /\ IF Cmd.op = "list" THEN Answer("listed", DOMAIN table, Cmd.text)
     ELSE IF Cmd.row \in DOMAIN table THEN Answer("loaded", {Cmd.row}, table[Cmd.row])
     ELSE UNCHANGED dbEv
  /\ UNCHANGED <<ui, table, lastRow, history>> /\ NoClick

(* A write SQLite refuses: reported as DbEvent::Error, nothing is retried. *)
DbError ==
  /\ Took /\ Cmd.op \in {"save", "delete"}
  /\ Disrupt("dberror")
  /\ UNCHANGED <<ui, dbEv, table, lastRow, history>>

-----------------------------------------------------------------------------
(* The UI thread drains the answers *)

Ev == Head(dbEv)
TheRow == CHOOSE r \in Ev.rows : TRUE

(* What draft_saved does with the row of a message that is done, or not. *)
KeepRow(id, done) ==
  /\ entries' = ForgetIfDone([entries EXCEPT ![id].pending = IF @ = 0 THEN 0 ELSE @ - 1,
                                             ![id].draft = IF done THEN @ ELSE TheRow], id)
  /\ dbQ' = IF done THEN Push(RowCmd("delete", TheRow)) ELSE dbQ

(* Mutant of SaveCame: a draft whose window is gone is deleted. *)
SaveCameIfOpen(id) == KeepRow(id, entries[id].settled \/ ~entries[id].open)
(* Mutant of SaveCame: the pending saves are not counted down. *)
SaveCameUncounted(id) ==
  /\ entries' = [entries EXCEPT ![id].draft = IF entries[id].settled THEN @ ELSE TheRow]
  /\ dbQ' = IF entries[id].settled THEN Push(RowCmd("delete", TheRow)) ELSE dbQ
SaveCame(id) == KeepRow(id, entries[id].settled)

(* draft_saved: a settled message's row is deleted, any other is remembered. *)
DraftSaved ==
  /\ dbEv # <<>> /\ Ev.ev = "saved" /\ dbEv' = Tail(dbEv)
  /\ IF Ev.id \in DOMAIN entries THEN SaveCame(Ev.id) ELSE UNCHANGED <<entries, dbQ>>
  /\ UNCHANGED <<lastId, sends, window, table, lastRow, history>> /\ NoClick

(* draft_loaded: the text opens in a new window, and the Drafts window closes. *)
DraftLoaded ==
  /\ dbEv # <<>> /\ Ev.ev = "loaded" /\ dbEv' = Tail(dbEv)
  /\ StartCompose(Ev.text)
  /\ draftsOpen' = FALSE /\ listed' = {}
  /\ UNCHANGED <<sends, dbQ, table, lastRow, history>> /\ NoClick

DraftsListed ==
  /\ dbEv # <<>> /\ Ev.ev = "listed" /\ dbEv' = Tail(dbEv)
  /\ listed' = IF draftsOpen THEN Ev.rows ELSE listed
  /\ UNCHANGED <<lastId, entries, sends, draftsOpen, dbQ, table, lastRow, history>> /\ NoClick

-----------------------------------------------------------------------------
(* reload_accounts: the answers under way are lost, and so is the outcome of
   every send; the old cache actor still runs the commands it has. *)
Reload ==
  /\ Disrupt("reload")
  /\ dbEv' = <<>>
  /\ dbQ' = [i \in 1..Len(dbQ) |-> [dbQ[i] EXCEPT !.reply = FALSE]]
  /\ sends' = [id \in DOMAIN sends |-> [sends[id] EXCEPT !.live = FALSE]]
  /\ UNCHANGED <<lastId, entries, window, table, lastRow, history>>

Crash ==
  /\ Disrupt("crash")
  /\ lastId' = 0 /\ entries' = Empty /\ sends' = Empty /\ draftsOpen' = FALSE /\ listed' = {} /\ dbQ' = <<>> /\ dbEv' = <<>>
  /\ UNCHANGED <<table, lastRow, msgs, sent, discarded, deleted, saved>>

Init ==
  /\ lastId = 0 /\ entries = Empty /\ sends = Empty /\ draftsOpen = FALSE /\ listed = {}
  /\ dbQ = <<>> /\ dbEv = <<>> /\ lastRow = OldDrafts
  /\ table = [r \in 1..OldDrafts |-> [msg |-> r, v |-> 1]]
  /\ msgs = OldDrafts /\ sent = {} /\ discarded = {} /\ deleted = {}
  /\ saved = {[msg |-> r, v |-> 1] : r \in 1..OldDrafts}
  /\ full = FALSE /\ clicks = 0 /\ disruptions = 0

Windows == {id \in DOMAIN entries : entries[id].open}
User ==
  \/ NewCompose \/ ShowDrafts \/ CloseDrafts
  \/ \E id \in Windows : Edit(id) \/ Send(id) \/ Close(id) \/ Discard(id) \/ SaveDraft(id)
  \/ \E r \in listed : OpenDraft(r) \/ DeleteDraft(r)
Outcomes == \E id \in DOMAIN sends : OutcomeSent(id) \/ OutcomeFailed(id)
CacheActor == DbSave \/ DbDelete \/ DbRead \/ DbError
Drain == DraftSaved \/ DraftLoaded \/ DraftsListed

Next ==
  /\ User \/ Outcomes \/ CacheActor \/ Drain \/ Reload \/ Crash
  /\ full' = (full \/ Len(dbQ') = CacheQueue)
Spec == Init /\ [][Next]_vars

(* The actor keeps taking commands and the UI thread keeps draining. *)
Fairness ==
  /\ WF_vars(CacheActor /\ Next) /\ WF_vars(DraftSaved /\ Next)
  /\ WF_vars(DraftLoaded /\ Next) /\ WF_vars(DraftsListed /\ Next)

FairSpec == Spec /\ Fairness

-----------------------------------------------------------------------------
Text == [msg : Nat, v : Nat]
Entry == [open : BOOLEAN, text : Text, asked : Nat, draft : Nat, pending : Nat, settled : BOOLEAN]
Command == [op : {"save", "load", "list", "delete"}, id : Nat, row : Nat, text : Text, reply : BOOLEAN]
Event == [ev : {"saved", "loaded", "listed"}, id : Nat, rows : SUBSET Nat, text : Text]

(* Every variable has its type, and a row number in an entry is one the table
   has handed out. *)
TypeOK ==
  /\ lastId \in 0..MaxIds /\ DOMAIN entries \subseteq 1..lastId /\ entries \in [DOMAIN entries -> Entry]
  /\ \A id \in DOMAIN entries : entries[id].draft <= lastRow
  /\ DOMAIN sends \subseteq 1..lastId /\ sends \in [DOMAIN sends -> [msg : Nat, live : BOOLEAN]]
  /\ draftsOpen \in BOOLEAN /\ listed \subseteq 1..lastRow
  /\ dbQ \in Seq(Command) /\ Len(dbQ) <= CacheQueue /\ dbEv \in Seq(Event)
  /\ lastRow \in Nat /\ DOMAIN table \subseteq 1..lastRow /\ table \in [DOMAIN table -> Text]

Finished == sent \cup discarded \cup deleted

(* The row an entry holds is its own: it contains the entry's message and no
   other entry holds it, so that settling a message deletes no other draft,
   even when a row was deleted twice and row numbers come back late. *)
DraftRowIsOwn ==
  \A i \in DOMAIN entries : entries[i].draft # NoRow =>
    /\ entries[i].draft \in DOMAIN table => table[entries[i].draft].msg = entries[i].text.msg
    /\ \A j \in DOMAIN entries : entries[j].draft = entries[i].draft => i = j

(* What a window asked to save is in the table or on its way there, in that
   version or a later one, until the user sends or gives up the message: a
   closed window's draft is not dropped and a slow save overwrites no newer
   one.  A crash, a reload, a failing database and a full queue may lose it. *)
SavedTextKept ==
  (disruptions = 0 /\ ~full) => \A t \in saved : t.msg \notin Finished =>
    \/ \E r \in DOMAIN table : table[r].msg = t.msg /\ table[r].v >= t.v
    \/ \E i \in 1..Len(dbQ) : dbQ[i].op = "save" /\ dbQ[i].text.msg = t.msg /\ dbQ[i].text.v >= t.v

(* Once the row numbers have come back, the entry of a closed window is
   forgotten (forget_if_done), unless an answer was lost. *)
ClosedIsForgotten ==
  \A id \in 1..MaxIds :
    (id \in DOMAIN entries /\ ~entries[id].open) ~> (id \notin DOMAIN entries \/ disruptions > 0 \/ full)
=============================================================================
