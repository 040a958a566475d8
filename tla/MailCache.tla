----------------------------- MODULE MailCache ------------------------------
(***************************************************************************)
(* The message tables of the local SQLite cache and what keeps them in     *)
(* step with a mailbox: listings of the mailbox are reported to the cache  *)
(* actor, which plans what to fetch; fetched headers and downloaded bodies *)
(* come back to it as commands.                                            *)
(*                                                                         *)
(* Most commands are several SQL statements, each committed on its own, so *)
(* a crash may fall between two of them.  Two frontends feed the cache:    *)
(* AppCore ("core") reports every listing, the win32 one ("win32") indexes *)
(* the listed page and never reports.  One mailbox of one account; a       *)
(* message is told apart by the generation (UIDVALIDITY) of its UID, and   *)
(* envelope, text and attachments by that generation too.                  *)
(***************************************************************************)
EXTENDS Naturals, Sequences, FiniteSets, SequencesExt, FiniteSetsExt, Lists

CONSTANTS
  MaxUid,       \* bound: UIDs of a generation
  DbQueue,      \* capacity of the actor's command channel (256)
  BodyCap,      \* MAX_CACHED_BODIES (2000)
  MaxEvents,    \* bound: what the user and other mail clients do
  MaxBreaks     \* bound: crashes, lost fetches and refused commands

ASSUME MailCacheAssumption ==
  MaxUid \in Nat \ {0} /\ DbQueue \in Nat \ {0} /\ BodyCap \in Nat \ {0} /\ MaxEvents \in Nat /\ MaxBreaks \in Nat

VARIABLES
  frontend,               \* who feeds the cache: "core" or "win32"
  srv,                    \* the server's mailbox: generation, UIDNEXT, UIDs, seen UIDs
  wire,                   \* commands queued for the IMAP actor
  hand,                   \* messages the body worker has fetched and not reported
  news,                   \* events on their way to the frontend, in order
  dbCmds,                 \* the cache actor's command channel
  stmts,                  \* SQL statements left of the command being run
  plans,                  \* SyncPlan events on their way to the frontend
  columns,                \* columns added to the schema since its first version
  messages, bodies, fts,  \* the tables, per UID: a row (or NoRow), and a count of index rows
  mailboxRow,             \* the row of mailboxes: UIDVALIDITY and UIDNEXT (0, 0: none)
  spoiled,                \* history: what went wrong so far
  cacheEvents, breaks

tables == <<columns, messages, bodies, fts, mailboxRow>>
cacheVars == <<frontend, srv, wire, hand, news, dbCmds, stmts, plans, tables, spoiled, cacheEvents, breaks>>

Uid == 1..MaxUid
NoRow == [gen |-> 0, seen |-> FALSE, at |-> 0]
Row(gen, seen, at) == [gen |-> gen, seen |-> seen, at |-> at]
LateColumns == {"message_id", "flags", "attachments"}
Header(u) == [uid |-> u, gen |-> srv.gen, seen |-> u \in srv.seen]
DbCmd(op, hs, gen, next) == [op |-> op, hs |-> hs, gen |-> gen, next |-> next]

Does == cacheEvents < MaxEvents /\ cacheEvents' = cacheEvents + 1 /\ UNCHANGED breaks
Breaks == breaks < MaxBreaks /\ breaks' = breaks + 1 /\ UNCHANGED cacheEvents
Goes == UNCHANGED <<cacheEvents, breaks>>

-----------------------------------------------------------------------------
(* What the tables answer *)

(* fetch_mail: the generations of the header and of the body it joins. *)
FetchMail(u) ==
  IF messages[u] = NoRow \/ bodies[u] = NoRow THEN <<>> ELSE <<messages[u].gen, bodies[u].gen>>

(* search: how often a message turns up, in the join of index and messages. *)
SearchHits(u) == IF messages[u] = NoRow THEN 0 ELSE fts[u]

(* newest: what a folder shows before the network answers. *)
Newest(limit) ==
  LET cached == {u \in Uid : messages[u] # NoRow} IN
  {u \in cached : Cardinality({v \in cached : v > u}) < limit}

(* Mutant of SyncDecision: a mailbox made again keeps its cached mail. *)
SyncDecisionForgiving(gen, next) ==
  IF mailboxRow = <<0, 0>> THEN IF next <= 1 THEN <<"UpToDate", 0>> ELSE <<"FetchFrom", 1>>
  ELSE IF next > mailboxRow[2] THEN <<"FetchFrom", mailboxRow[2]>> ELSE <<"UpToDate", 0>>

(* sync_decision: the plan, and the first UID it fetches. *)
SyncDecision(gen, next) ==
  IF mailboxRow = <<0, 0>> THEN IF next <= 1 THEN <<"UpToDate", 0>> ELSE <<"FetchFrom", 1>>
  ELSE IF mailboxRow[1] # gen THEN <<"Resync", 1>>
  ELSE IF next > mailboxRow[2] THEN <<"FetchFrom", mailboxRow[2]>> ELSE <<"UpToDate", 0>>

-----------------------------------------------------------------------------
(* The server, which other clients use too *)

Deliver ==
  /\ Does /\ srv.next <= MaxUid
  /\ srv' = [srv EXCEPT !.next = @ + 1, !.uids = @ \union {srv.next}]
  /\ UNCHANGED <<frontend, wire, hand, news, dbCmds, stmts, plans, tables, spoiled>>

Recreate ==
  /\ Does /\ srv.gen < 2
  /\ srv' = [gen |-> srv.gen + 1, next |-> 2, uids |-> {1}, seen |-> {}]
  /\ UNCHANGED <<frontend, wire, hand, news, dbCmds, stmts, plans, tables, spoiled>>

(* The user lists the folder, reads a message or moves it away: a command for the IMAP actor. *)
Request(op, u) ==
  /\ Does /\ (IF op = "List" THEN u = 1 ELSE u \in srv.uids /\ messages[u] # NoRow)
  /\ wire' = Append(wire, <<op, u>>)
  /\ UNCHANGED <<frontend, srv, hand, news, dbCmds, stmts, plans, tables, spoiled>>

(* BulkDownload: the body worker, on a connection of its own, fetches a message ... *)
Download(u) ==
  /\ Does /\ u \in srv.uids /\ hand = {}
  /\ hand' = {Header(u)}
  /\ UNCHANGED <<frontend, srv, wire, news, dbCmds, stmts, plans, tables, spoiled>>

(* ... and reports it, when the actor may have reported newer things. *)
MailData ==
  /\ Goes /\ hand # {}
  /\ news' = Append(news, DbCmd("IndexMail", SetToSeq(hand), 0, 0)) /\ hand' = {}
  /\ UNCHANGED <<frontend, srv, wire, dbCmds, stmts, plans, tables, spoiled>>

-----------------------------------------------------------------------------
(* The IMAP actor: one command at a time, answered in order *)

(* What the frontend will ask of the cache when it sees the answer. *)
Answer(c) ==
  LET from(n) == Picked([u \in Uid |-> Header(u)], {u \in srv.uids : u >= n}) IN
  CASE c[1] = "List" /\ frontend = "core" -> <<DbCmd("ReportMailboxState", <<>>, srv.gen, srv.next)>>
    [] c[1] = "List" /\ frontend = "win32" -> <<DbCmd("IndexHeadersSearchable", from(1), 0, 0)>>
    [] c[1] = "From" -> <<DbCmd("IndexHeaders", from(c[2]), 0, 0)>>
    [] c[1] = "Read" /\ c[2] \in srv.uids -> <<DbCmd("UpdateFlags", <<[Header(c[2]) EXCEPT !.seen = TRUE]>>, 0, 0)>>
    [] c[1] = "Move" /\ c[2] \in srv.uids -> <<DbCmd("RemoveMessage", <<Header(c[2])>>, 0, 0)>>
    [] OTHER -> <<>>

ImapStep ==
  /\ Goes /\ wire # <<>>
  /\ LET c == Head(wire) IN
     /\ news' = news \o Answer(c)
     /\ srv' = CASE c[1] = "Read" -> [srv EXCEPT !.seen = @ \union ({c[2]} \cap srv.uids)]
                 [] c[1] = "Move" -> [srv EXCEPT !.uids = @ \ {c[2]}, !.seen = @ \ {c[2]}]
                 [] OTHER -> srv
  /\ wire' = Tail(wire)
  /\ UNCHANGED <<frontend, hand, dbCmds, stmts, plans, tables, spoiled>>

(* A fetch fails; nothing asks for it again. *)
ImapFails ==
  /\ Breaks /\ wire # <<>> /\ wire' = Tail(wire)
  /\ spoiled' = spoiled \union (IF Head(wire)[1] = "From" THEN {"lost"} ELSE {})
  /\ UNCHANGED <<frontend, srv, hand, news, dbCmds, stmts, plans, tables>>

(* The frontend takes an event and writes it back: try_send, so a full queue drops it. *)
PumpNews ==
  /\ Goes /\ news # <<>> /\ news' = Tail(news)
  /\ IF Len(dbCmds) < DbQueue THEN dbCmds' = Append(dbCmds, Head(news)) /\ UNCHANGED spoiled
     ELSE spoiled' = spoiled \union {"lost"} /\ UNCHANGED dbCmds
  /\ UNCHANGED <<frontend, srv, wire, hand, stmts, plans, tables>>

(* The frontend acts on a plan. *)
HandlePlan ==
  /\ Goes /\ plans # <<>> /\ plans' = Tail(plans)
  /\ wire' = IF Head(plans)[1] = "UpToDate" THEN wire ELSE Append(wire, <<"From", Head(plans)[2]>>)
  /\ UNCHANGED <<frontend, srv, hand, news, dbCmds, stmts, tables, spoiled>>

(* The account is removed: its cached mail is forgotten. *)
RemoveAccount ==
  /\ Does /\ Len(dbCmds) < DbQueue
  /\ dbCmds' = Append(dbCmds, DbCmd("RemoveAccount", <<>>, 0, 0))
  /\ UNCHANGED <<frontend, srv, wire, hand, news, stmts, plans, tables, spoiled>>

-----------------------------------------------------------------------------
(* The cache actor *)

(* init_schema, then each column an older build's file lacks. *)
AddColumn(col) ==
  /\ Goes /\ col \notin columns
  /\ columns' = columns \union {col}
  /\ UNCHANGED <<frontend, srv, wire, hand, news, dbCmds, stmts, plans, messages, bodies, fts, mailboxRow, spoiled>>

Stmt(st, h, gen, next) == [st |-> st, h |-> h, gen |-> gen, next |-> next]
NoHeader == [uid |-> 0, gen |-> 0, seen |-> FALSE]

(* The statements of a command. *)
Statements(c) ==
  LET on(h, sts) == [i \in 1..Len(sts) |-> Stmt(sts[i], h, c.gen, c.next)] IN
  CASE c.op = "IndexHeaders" -> [i \in 1..Len(c.hs) |-> Stmt("message", c.hs[i], 0, 0)]
    [] c.op = "IndexHeadersSearchable" -> [i \in 1..Len(c.hs) |-> Stmt("searchable", c.hs[i], 0, 0)]
    [] c.op = "IndexMail" -> on(c.hs[1], <<"message", "body", "unindex", "index", "evict">>)
    [] c.op = "UpdateFlags" -> on(c.hs[1], <<"flags">>)
    [] c.op = "RemoveMessage" -> on(c.hs[1], <<"unmessage", "unbody", "unindex">>)
    [] c.op = "RemoveAccount" -> on(NoHeader, <<"clear messages", "clear bodies", "clear fts", "clear mailbox">>)
    [] c.op = "ReportMailboxState" ->
         on(NoHeader, (IF SyncDecision(c.gen, c.next)[1] = "Resync"
                       THEN <<"clear messages", "clear bodies", "clear fts">> ELSE <<>>) \o <<"mailbox">>)

(* A downloaded message that comes before the mailbox was ever reported, or
   after it was made again or the message moved away. *)
Untimely(h) ==
  (IF mailboxRow[1] = 0 THEN {"early"} ELSE {})
  \union (IF mailboxRow[1] > h.gen \/ (h.gen = srv.gen /\ h.uid \notin srv.uids) THEN {"late"} ELSE {})

TakeCommand ==
  /\ Goes /\ columns = LateColumns /\ stmts = <<>> /\ dbCmds # <<>>
  /\ stmts' = Statements(Head(dbCmds)) /\ dbCmds' = Tail(dbCmds)
  /\ plans' = IF Head(dbCmds).op = "ReportMailboxState"
              THEN Append(plans, SyncDecision(Head(dbCmds).gen, Head(dbCmds).next)) ELSE plans
  /\ spoiled' = IF Head(dbCmds).op = "IndexMail" THEN spoiled \union Untimely(Head(dbCmds).hs[1]) ELSE spoiled
  /\ UNCHANGED <<frontend, srv, wire, hand, news, tables>>

(* evict_lru_bodies: the oldest go; rows cached in the same second tie. *)
Evict(bs) ==
  LET cached == {u \in Uid : bs[u] # NoRow} IN
  {[u \in Uid |-> IF u \in out THEN NoRow ELSE bs[u]] :
     out \in {s \in SUBSET cached : /\ Cardinality(s) = Max({0, Cardinality(cached) - BodyCap})
                                    /\ \A x \in s, y \in cached \ s : bs[x].at <= bs[y].at}}

RunMessages(s) ==
  CASE s.st \in {"message", "searchable"} -> [messages EXCEPT ![s.h.uid] = Row(s.h.gen, s.h.seen, 0)]
    [] s.st = "flags" /\ messages[s.h.uid] # NoRow -> [messages EXCEPT ![s.h.uid].seen = s.h.seen]
    [] s.st = "unmessage" -> [messages EXCEPT ![s.h.uid] = NoRow]
    [] s.st = "clear messages" -> [u \in Uid |-> NoRow]
    [] OTHER -> messages

(* The index has no key: a row is replaced by deleting it first, and a header
   adds one only for a message that was not known. *)
RunFts(s) ==
  CASE s.st = "index" \/ (s.st = "searchable" /\ messages[s.h.uid] = NoRow) -> [fts EXCEPT ![s.h.uid] = @ + 1]
    [] s.st = "unindex" -> [fts EXCEPT ![s.h.uid] = 0]
    [] s.st = "clear fts" -> [u \in Uid |-> 0]
    [] OTHER -> fts

(* now_unix: whole seconds, so two bodies may share one. *)
Second == {0, 1}

RunBodies(s) ==
  CASE s.st = "body" -> {[bodies EXCEPT ![s.h.uid] = Row(s.h.gen, FALSE, at)] : at \in Second}
    [] s.st = "unbody" -> {[bodies EXCEPT ![s.h.uid] = NoRow]}
    [] s.st = "clear bodies" -> {[u \in Uid |-> NoRow]}
    [] s.st = "evict" -> Evict(bodies)
    [] OTHER -> {bodies}

RunStatement ==
  /\ Goes /\ stmts # <<>>
  /\ LET s == Head(stmts) IN
     /\ messages' = RunMessages(s) /\ bodies' \in RunBodies(s) /\ fts' = RunFts(s)
     /\ mailboxRow' = CASE s.st = "mailbox" -> <<s.gen, s.next>>
                        [] s.st = "clear mailbox" -> <<0, 0>>
                        [] OTHER -> mailboxRow
  /\ stmts' = Tail(stmts)
  /\ UNCHANGED <<frontend, srv, wire, hand, news, dbCmds, plans, columns, spoiled>>

(* The process ends anywhere, and starts again from the file.  The headers of
   a page are one transaction, undone as a whole. *)
CacheCrash ==
  /\ Breaks
  /\ stmts # <<>> => Head(stmts).st # "searchable"
  /\ wire' = <<>> /\ hand' = {} /\ news' = <<>> /\ dbCmds' = <<>> /\ stmts' = <<>> /\ plans' = <<>>
  /\ spoiled' = spoiled \union (IF stmts # <<>> THEN {"torn", "lost"}
                                ELSE IF <<wire, news, dbCmds, plans>> # <<<<>>, <<>>, <<>>, <<>>>> THEN {"lost"} ELSE {})
  /\ UNCHANGED <<frontend, srv, tables>>

CacheInit ==
  /\ frontend \in {"core", "win32"}
  /\ srv = [gen |-> 1, next |-> 2, uids |-> {1}, seen |-> {}]
  /\ wire = <<>> /\ hand = {} /\ news = <<>> /\ dbCmds = <<>> /\ stmts = <<>> /\ plans = <<>>
  /\ columns \in {LateColumns, {"message_id"}, {}}
  /\ messages = [u \in Uid |-> NoRow] /\ bodies = [u \in Uid |-> NoRow] /\ fts = [u \in Uid |-> 0]
  /\ mailboxRow = <<0, 0>>
  /\ spoiled = {} /\ cacheEvents = 0 /\ breaks = 0

CacheNext ==
  \/ Deliver \/ Recreate \/ MailData
  \/ \E op \in {"List", "Read", "Move"}, u \in Uid : Request(op, u)
  \/ \E u \in Uid : Download(u)
  \/ ImapStep \/ ImapFails \/ PumpNews \/ HandlePlan \/ RemoveAccount
  \/ \E col \in LateColumns : AddColumn(col)
  \/ TakeCommand \/ RunStatement \/ CacheCrash

CacheSpec == CacheInit /\ [][CacheNext]_cacheVars

-----------------------------------------------------------------------------
(* Types, and the command queue's capacity; the actor runs no command on a
   schema that lacks a column (init_schema before run). *)
CacheTypeOK ==
  /\ frontend \in {"core", "win32"} /\ columns \subseteq LateColumns
  /\ srv.uids \subseteq Uid /\ srv.seen \subseteq srv.uids /\ srv.next \in 1..(MaxUid + 1)
  /\ Len(dbCmds) <= DbQueue /\ (stmts # <<>> => columns = LateColumns)
  /\ \A u \in Uid : fts[u] \in Nat /\ messages[u].gen \in 0..2 /\ bodies[u].gen \in 0..2
  /\ spoiled \subseteq {"torn", "lost", "late", "early"}

(* A header of the generation the cache has recorded is never shown with the
   body of another message: report_mailbox_state wipes the mailbox before it
   records the new generation, whatever was fetched or queued meanwhile.
   A crash between two statements, or a body the worker reports before the
   first listing or after a newer one, may. *)
BodyIsOfItsHeader ==
  stmts = <<>> /\ spoiled \cap {"torn", "late", "early"} = {} =>
    \A u \in Uid : FetchMail(u) # <<>> /\ FetchMail(u)[1] = mailboxRow[1] => FetchMail(u)[2] = FetchMail(u)[1]

(* Whatever lies below the UIDNEXT the cache has recorded is cached once the
   fetches it planned are over: recording UIDNEXT before the fetch is safe as
   long as no fetch or command is lost and no body of an older generation
   comes late (sync_decision, index_headers). *)
BelowUidNextIsCached ==
  /\ frontend = "core" /\ spoiled \subseteq {"early"}
  /\ <<stmts, dbCmds, plans, news, wire>> = <<<<>>, <<>>, <<>>, <<>>, <<>>>> /\ mailboxRow[1] = srv.gen
  => \A u \in srv.uids : u < mailboxRow[2] => messages[u].gen = srv.gen

(* A message turns up in a search at most once, and, in the frontend that
   indexes what it lists, every cached message can be found, unless a crash
   fell between two statements (index_mail, index_headers_searchable). *)
FoundOnce ==
  stmts = <<>> /\ "torn" \notin spoiled =>
    \A u \in Uid : fts[u] <= 1 /\ (frontend = "win32" => SearchHits(u) = (IF messages[u] # NoRow THEN 1 ELSE 0))

(* Between commands the bodies are within the cap, however many were cached
   in one second and whichever of them go (evict_lru_bodies). *)
CacheWithinCap ==
  stmts = <<>> /\ "torn" \notin spoiled =>
    Cardinality({u \in Uid : bodies[u] # NoRow}) <= BodyCap

(* A message that was moved away and whose removal was written is not shown
   again from the cache, unless a late download brings it back. *)
MovedStaysAway ==
  /\ <<stmts, dbCmds, plans, news, wire>> = <<<<>>, <<>>, <<>>, <<>>, <<>>>> /\ spoiled \subseteq {"early"} /\ hand = {}
  => \A u \in Newest(MaxUid) : messages[u].gen = srv.gen => u \in srv.uids
=============================================================================
