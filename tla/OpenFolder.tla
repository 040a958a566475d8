----------------------------- MODULE OpenFolder -----------------------------
(***************************************************************************)
(* The open folder of the Win32 frontend: `OpenFolder` and its pages, the  *)
(* list widget's selection, search results in its place, moving messages   *)
(* away, and the account's IMAP actor that answers.                        *)
(*                                                                         *)
(* There is one mailbox, and a message is its uid.  Replies for another    *)
(* mailbox are ignored, so leaving the folder and coming back is opening   *)
(* it again.  Flags only repaint a row and are left out.  The account has  *)
(* connected once, so the actor has credentials to reconnect with.         *)
(***************************************************************************)
EXTENDS Naturals, SequencesExt, Lists

CONSTANTS
  PageSize,   \* PAGE_SIZE of mailbox.rs, per_page of imap.rs (50 in the code)
  OldUids,    \* uids 1..OldUids were handed out before the program started
  None,       \* Option::None
  MaxClicks,  \* bound: how many things the user does besides scrolling
  MaxFaults,  \* bound: failed commands, refused sends, errors of other commands
  MaxArrived, \* bound: messages that arrive
  MaxExpunged,\* bound: messages another client removes
  MaxDisturbed\* bound: faults, arrivals and removals together

ASSUME PageAssumption == PageSize \in Nat \ {0} /\ OldUids \in Nat /\ None \notin Nat \cup Seq(Nat)
ASSUME BoundAssumption ==
  MaxClicks \in Nat /\ MaxFaults \in Nat /\ MaxArrived \in Nat /\ MaxExpunged \in Nat /\ MaxDisturbed \in Nat

VARIABLES
  folder,     \* App.open: the fields of OpenFolder
  selected,   \* App.selected
  pending,    \* App.pending_actions
  sel,        \* the rows selected in the list widget
  posted,     \* rows of Selected messages the UI thread has yet to handle
  text,       \* the search box holds something
  queries,    \* searches the cache has not answered
  results,    \* SearchState.results: the uids found
  q, ev,      \* commands to the IMAP actor and its events, both FIFO
  up,         \* the actor has a session
  server,     \* uids in the mailbox
  uidNext,    \* the server's UIDNEXT
  unannounced,\* mail has arrived that no NewHeaders told of
  \* history
  original,   \* the mailbox when the program started
  listed,     \* uids the frontend has been told of, now or in an earlier run
  chosen,     \* the messages the user has selected
  opening,    \* how often the folder was opened
  seed,       \* the cached uids the folder was filled with
  strays,     \* an older page asked for by an earlier opening was taken for one of this
  waiting,    \* the user has scrolled to the end and a page was asked for
  clicks, faults, expunged

list == <<sel, posted, chosen>>
search == <<text, queries, results>>
imap == <<q, ev, up>>
mailbox == <<server, uidNext, unannounced>>
history == <<original, listed, opening, seed, strays>>
bounds == <<clicks, faults, expunged>>
paging == <<folder, waiting>>
vars == <<paging, selected, pending, list, search, imap, mailbox, history, bounds>>

NoRequest == 0
Arrived == uidNext - 1 - OldUids

Descending(S) == [i \in 1..Cardinality(S) |-> CHOOSE u \in S : Cardinality({v \in S : v >= u}) = i]
Ascending(S) == Reverse(Descending(S))
RowOf(uids, u) == SelectInSeq(uids, LAMBDA v : v = u)
FirstOlder(uids, u) == SelectInSeq(uids, LAMBDA v : v < u)

(* What the list shows: the results of a search in place of the folder. *)
Shown == IF results # None THEN results ELSE folder.rows

Click == posted = <<>> /\ clicks < MaxClicks /\ clicks' = clicks + 1
WithinBounds == Arrived + expunged + faults < MaxDisturbed
Fault == WithinBounds /\ faults < MaxFaults /\ faults' = faults + 1

-----------------------------------------------------------------------------
(* mailbox.rs: the methods of OpenFolder, as operators on its fields *)

NewFolder == [rows |-> <<>>, nextPage |-> 1, firstPage |-> FALSE, totalPages |-> None,
              lastId |-> 0, pageReq |-> NoRequest, refreshReq |-> NoRequest]

IsComplete(f) == f.totalPages # None /\ f.nextPage > f.totalPages
IsCachedOnly(f) == ~f.firstPage /\ f.rows # <<>>

(* Mutant of SeedFolder: the cursor goes on where the cache ends. *)
SeedFolderNoOverlap(f, S) ==
  [f EXCEPT !.rows = Descending(S), !.nextPage = Cardinality(S) \div PageSize + 1]

(* seed: the cursor starts a page before the end of the cached rows. *)
SeedFolder(f, S) ==
  [f EXCEPT !.rows = Descending(S), !.nextPage = Max({1, Cardinality(S) \div PageSize})]

(* Mutant of Older: what is loaded already is not skipped. *)
OlderAll(f, uids) == uids

(* append: only what is older than the last row. *)
Older(f, uids) == Picked(uids, {i \in DOMAIN uids : f.rows = <<>> \/ uids[i] < Last(f.rows)})

(* Mutant of Floor: the newest page reaches down to the first uid. *)
FloorZero(fresh) == 0

(* merge_newest: below this uid the newest page says nothing. *)
Floor(fresh) == IF fresh = <<>> THEN 0 ELSE Last(fresh)

Edit(op, at) == [op |-> op, at |-> at]

(* One message of the newest page: its row is there, or goes before the first
   older one. *)
MergeOne(m, u) ==
  LET before == FirstOlder(m.rows, u)
      at == IF before = 0 THEN Len(m.rows) + 1 ELSE before
  IN IF RowOf(m.rows, u) # 0 THEN m
     ELSE [rows |-> InsertAt(m.rows, at, u), edits |-> Append(m.edits, Edit("inserted", at))]

(* The messages of the newest page, one after the other. *)
MergeAll(kept, fresh) ==
  LET merged[n \in 0..Len(fresh)] == IF n = 0 THEN kept ELSE MergeOne(merged[n - 1], fresh[n])
  IN merged[Len(fresh)]

(* merge_newest: the rows, and the edits that lead to them, last removal first. *)
Gone(rows, fresh) == {i \in DOMAIN rows : rows[i] >= Floor(fresh) /\ RowOf(fresh, rows[i]) = 0}
Removals(gone) == [k \in 1..Cardinality(gone) |-> Edit("removed", Descending(gone)[k])]
MergeNewest(rows, fresh) ==
  LET gone == Gone(rows, fresh)
  IN MergeAll([rows |-> Picked(rows, DOMAIN rows \ gone), edits |-> Removals(gone)], fresh)

Applied(kind, f, added, edits) == [kind |-> kind, folder |-> f, added |-> added, edits |-> edits]

Refreshed(f, uids) ==
  LET m == MergeNewest(f.rows, uids) IN Applied("refreshed", [f EXCEPT !.rows = m.rows], 0, m.edits)

(* apply_reply.  The first reply after a seed is merged like a refresh. *)
ApplyReply(f, r) ==
  IF f.pageReq = r.id
    THEN LET older == Older(f, r.uids)
             g == [f EXCEPT !.pageReq = NoRequest, !.totalPages = r.total, !.firstPage = TRUE,
                            !.nextPage = IF IsCachedOnly(f) THEN Max({@, r.page + 1}) ELSE r.page + 1]
         IN IF IsCachedOnly(f) THEN Refreshed(g, r.uids)
            ELSE Applied("page", [g EXCEPT !.rows = @ \o older], Len(older), <<>>)
  ELSE IF f.refreshReq = r.id
    THEN Refreshed([f EXCEPT !.refreshReq = NoRequest, !.totalPages = r.total], r.uids)
  ELSE Applied("stale", f, 0, <<>>)

-----------------------------------------------------------------------------
(* folder.rs: asking for pages *)

(* `of` is history: the opening of the folder the request belongs to. *)
FetchHeaders(page, id, of) == [op |-> "headers", page |-> page, id |-> id, of |-> of]

(* next_request and request_page, for the folder `f` as it is by now. *)
RequestPage(f, of) ==
  LET id == f.lastId + 1
      g == [f EXCEPT !.lastId = id, !.pageReq = id]
  IN IF f.pageReq # NoRequest \/ IsComplete(f)
       THEN folder' = f /\ UNCHANGED <<q, faults>>
       ELSE \/ /\ folder' = g
               /\ q' = Append(q, FetchHeaders(f.nextPage, id, of))
               /\ UNCHANGED faults
            \/ /\ Fault
               /\ folder' = [g EXCEPT !.pageReq = NoRequest]
               /\ UNCHANGED q

(* refresh_request and request_refresh: a refused send leaves the id set. *)
RequestRefresh ==
  LET id == folder.lastId + 1
  IN IF ~folder.firstPage
       THEN UNCHANGED <<folder, q, faults>>
       ELSE /\ folder' = [folder EXCEPT !.lastId = id, !.refreshReq = id]
            /\ \/ q' = Append(q, FetchHeaders(1, id, opening)) /\ UNCHANGED faults
               \/ Fault /\ UNCHANGED q

(* list.set_rows *)
SetRows == sel' = {} /\ chosen' = {} /\ UNCHANGED posted

(* open_folder *)
OpenFolder ==
  /\ opening' = opening + 1
  /\ selected' = None /\ SetRows
  /\ text' = FALSE /\ results' = None /\ UNCHANGED queries
  /\ seed' = {} /\ strays' = FALSE /\ waiting' = FALSE
  /\ RequestPage(NewFolder, opening + 1)

UserOpens ==
  /\ Click /\ OpenFolder
  /\ UNCHANGED <<pending, ev, up, mailbox, original, listed, expunged>>

(* refresh (F5): opens the folder afresh when its first page never arrived. *)
UserRefreshes ==
  /\ Click
  /\ IF folder.firstPage
       THEN RequestRefresh /\ UNCHANGED <<selected, list, search, history, waiting>>
       ELSE OpenFolder /\ UNCHANGED <<original, listed>>
  /\ UNCHANGED <<pending, ev, up, mailbox, expunged>>

(* The list is scrolled near its end. *)
NearEnd ==
  /\ posted = <<>> /\ results = None
  /\ folder.pageReq = NoRequest /\ ~IsComplete(folder)
  /\ RequestPage(folder, opening)
  /\ waiting' = (faults' = faults)
  /\ UNCHANGED <<selected, pending, list, search, ev, up, mailbox, history, clicks, expunged>>

(* seed_from_cache, with what the cache held when it was read: any of the uids
   listed, since its writes lag behind and may be dropped.  It is refused once
   there are rows or the first page has arrived.  A read of an earlier opening
   that is answered late serves as well. *)
SeedFromCache(S) ==
  /\ S # {} /\ ~folder.firstPage /\ folder.rows = <<>>
  /\ seed = {} \/ opening > 1
  /\ folder' = SeedFolder(folder, S) /\ seed' = S
  /\ IF results = None THEN SetRows ELSE UNCHANGED list
  /\ UNCHANGED <<waiting, selected, pending, search, imap, mailbox, original, listed, opening, strays, bounds>>

-----------------------------------------------------------------------------
(* The selection of the list widget *)

(* Mutant of Shift: an inserted row leaves the selection where it was. *)
ShiftRemovedOnly(rows, e) ==
  IF e.op = "removed" THEN {IF r > e.at THEN r - 1 ELSE r : r \in rows \ {e.at}} ELSE rows

(* Selection::remove and Selection::insert, of one row. *)
Shift(rows, e) ==
  IF e.op = "removed"
    THEN {IF r > e.at THEN r - 1 ELSE r : r \in rows \ {e.at}}
    ELSE {IF r >= e.at THEN r + 1 ELSE r : r \in rows}

(* The edits of a merge, in their order. *)
ShiftAll(rows, edits) ==
  LET shifted[n \in 0..Len(edits)] == IF n = 0 THEN rows ELSE Shift(shifted[n - 1], edits[n])
  IN shifted[Len(edits)]

(* App::select: one row opens its message, several leave the pane alone. *)
Select(rows) ==
  selected' = IF Cardinality(rows) = 1 /\ rows \subseteq DOMAIN Shown
                THEN Shown[CHOOSE r \in rows : TRUE] ELSE selected

(* A click on a row, or a Ctrl+click. *)
SelectRows(rows) ==
  /\ Click
  /\ sel' = rows /\ chosen' = {Shown[r] : r \in rows}
  /\ Select(rows)
  /\ UNCHANGED <<paging, pending, posted, search, imap, mailbox, history, faults, expunged>>

ClickRow(r) == SelectRows({r})
CtrlClickRow(r) == SelectRows(IF r \in sel THEN sel \ {r} ELSE sel \cup {r})

(* The message set_selection emitted is handled after what was drained with it. *)
HandlePosted ==
  /\ posted # <<>> /\ posted' = Tail(posted)
  /\ Select({Head(posted)})
  /\ UNCHANGED <<paging, pending, sel, chosen, search, imap, mailbox, history, bounds>>

(* move_selected: a refused send ends the loop. *)
MoveSelected ==
  LET rows == Ascending(sel)
      Commands(n) == [i \in 1..n |-> [op |-> "move", uid |-> Shown[rows[i]]]]
  IN /\ sel # {} /\ Click
     /\ \E n \in 0..Len(rows) :
          /\ IF n = Len(rows) THEN UNCHANGED faults ELSE Fault
          /\ q' = q \o Commands(n) /\ pending' = pending + n
     /\ UNCHANGED <<paging, selected, list, search, ev, up, mailbox, history, expunged>>

-----------------------------------------------------------------------------
(* search.rs *)

(* search_changed with a query, and run_search once typing pauses. *)
Search ==
  /\ Click
  /\ text' = TRUE /\ queries' = queries + 1 /\ UNCHANGED results
  /\ UNCHANGED <<paging, selected, pending, list, imap, mailbox, history, faults, expunged>>

(* search_arrived, in one of the orders the cache may rank its hits. *)
SearchArrived(S) ==
  /\ queries > 0 /\ queries' = queries - 1
  /\ IF text THEN results' = Ascending(S) /\ SetRows /\ selected' = None
             ELSE UNCHANGED <<results, list, selected>>
  /\ UNCHANGED <<paging, pending, text, imap, mailbox, history, bounds>>

(* clear_search and search_changed to an empty box, with show_folder_again. *)
ClearSearch ==
  /\ text /\ Click
  /\ text' = FALSE /\ results' = None /\ UNCHANGED queries
  /\ IF results # None THEN SetRows /\ selected' = None ELSE UNCHANGED <<list, selected>>
  /\ UNCHANGED <<paging, pending, imap, mailbox, history, faults, expunged>>

-----------------------------------------------------------------------------
(* The mailbox, and the IMAP actor *)

Arrive ==
  /\ WithinBounds /\ Arrived < MaxArrived
  /\ server' = server \cup {uidNext} /\ uidNext' = uidNext + 1 /\ unannounced' = TRUE
  /\ UNCHANGED <<paging, selected, pending, list, search, imap, history, bounds>>

(* Another client deletes or moves a message. *)
Expunge ==
  /\ WithinBounds /\ expunged < MaxExpunged /\ expunged' = expunged + 1
  /\ \E u \in server : server' = server \ {u}
  /\ UNCHANGED <<uidNext, unannounced, paging, selected, pending, list, search, imap, history, clicks, faults>>

(* The poll of the watched mailbox finds the new mail, or never does. *)
Announce ==
  /\ up /\ unannounced /\ unannounced' = FALSE
  /\ ev' = Append(ev, [op |-> "newHeaders"])
  /\ UNCHANGED <<server, uidNext, paging, selected, pending, list, search, q, up, history, bounds>>

(* fetch_headers: page `page` of the mailbox, newest first, the last page when
   there are not as many. *)
TotalPages == (Cardinality(server) + PageSize - 1) \div PageSize
Page(page) ==
  LET p == Max({1, Min({page, TotalPages})})
  IN SubSeq(Descending(server), (p - 1) * PageSize + 1, Min({p * PageSize, Cardinality(server)}))

Headers(c) == [op |-> "headers", page |-> c.page, id |-> c.id, of |-> c.of, uids |-> Page(c.page), total |-> TotalPages]
Failure(c) == IF c.op = "headers" THEN [op |-> "error"] ELSE [op |-> "moveFailed", uid |-> c.uid]

Serve(reply) ==
  /\ q # <<>> /\ q' = Tail(q) /\ ev' = Append(ev, reply)
  /\ UNCHANGED <<uidNext, unannounced, paging, selected, pending, list, search, history, clicks, expunged>>

ServeHeaders ==
  /\ up /\ q # <<>> /\ Head(q).op = "headers"
  /\ Serve(Headers(Head(q)))
  /\ UNCHANGED <<server, up, faults>>

ServeMove ==
  /\ up /\ q # <<>> /\ Head(q).op = "move"
  /\ Serve([op |-> "moved", uid |-> Head(q).uid])
  /\ server' = server \ {Head(q).uid}
  /\ UNCHANGED <<up, faults>>

(* A command, or reconnecting for it, fails.  A move may have happened. *)
CommandFails ==
  /\ Fault /\ q # <<>> /\ Serve(Failure(Head(q)))
  /\ up' = FALSE
  /\ \/ UNCHANGED server
     \/ up /\ Head(q).op = "move" /\ server' = server \ {Head(q).uid}

(* ensure_connected.  The watch starts again from what is there by now. *)
Reconnect ==
  /\ ~up /\ q # <<>> /\ up' = TRUE /\ ev' = Append(ev, [op |-> "connected"])
  /\ unannounced' = FALSE
  /\ UNCHANGED <<q, server, uidNext, paging, selected, pending, list, search, history, bounds>>

(* Some other command fails, of this account or of another one. *)
OtherError ==
  /\ Fault /\ ev' = Append(ev, [op |-> "error"])
  /\ UNCHANGED <<q, up, mailbox, paging, selected, pending, list, search, history, clicks, expunged>>

-----------------------------------------------------------------------------
(* events.rs: what the UI thread does with an event *)

Took(op) == ev # <<>> /\ Head(ev).op = op /\ ev' = Tail(ev)

(* Connected and NewHeaders: re-read the newest page. *)
HandleNews ==
  /\ Took("connected") \/ Took("newHeaders")
  /\ RequestRefresh
  /\ UNCHANGED <<waiting, selected, pending, list, search, up, mailbox, history, clicks, expunged>>

(* Error: the page is taken to have failed, whatever the error was about. *)
HandleError ==
  /\ Took("error")
  /\ folder' = [folder EXCEPT !.pageReq = NoRequest] /\ waiting' = FALSE
  /\ UNCHANGED <<selected, pending, list, search, q, up, mailbox, history, bounds>>

(* show_applied *)
ShowApplied(a, page) ==
  IF results # None THEN UNCHANGED list
  ELSE IF a.kind = "page" /\ page = 1 THEN SetRows
  ELSE /\ sel' = ShiftAll(sel, a.edits)
       /\ chosen' = chosen \cap ToSet(a.folder.rows)
       /\ UNCHANGED posted

(* Mutant of KeepPaging: a page is not asked for again. *)
NeverKeepPaging(a) == FALSE

(* A page that only repeated rows asks for the next one. *)
KeepPaging(a) == a.kind = "page" /\ a.added = 0 /\ ~IsComplete(a.folder)

(* apply_headers *)
HandleHeaders ==
  /\ Took("headers")
  /\ listed' = listed \cup ToSet(Head(ev).uids)
  /\ \E a \in {ApplyReply(folder, Head(ev))} :
       IF a.kind = "stale"
         THEN UNCHANGED <<paging, q, faults, list, selected, strays>>
         ELSE /\ strays' = (strays \/ (Head(ev).of # opening /\ Head(ev).page # 1))
              /\ IF KeepPaging(a) THEN RequestPage(a.folder, opening)
                                  ELSE folder' = a.folder /\ UNCHANGED <<q, faults>>
              /\ waiting' = (waiting /\ a.added = 0 /\ ~IsComplete(a.folder) /\ faults' = faults)
              /\ ShowApplied(a, Head(ev).page)
              /\ selected' = IF selected \in ToSet(a.folder.rows) THEN selected ELSE None
  /\ UNCHANGED <<pending, search, up, mailbox, original, opening, seed, clicks, expunged>>

(* Mutant of SelectNeighbour: the row before removal is not clamped. *)
SelectNeighbourUnclamped(row, left, rest) ==
  /\ sel' = {row} /\ chosen' = IF row <= Len(left) THEN {left[row]} ELSE {}
  /\ posted' = IF rest = {row} THEN posted ELSE Append(posted, row)

(* set_selection to the neighbour of a row that left; `left` are the rows and
   `rest` is the selection without it. *)
SelectNeighbour(row, left, rest) ==
  LET r == Min({row, Len(left)})
  IN IF left = <<>>
       THEN sel' = rest /\ chosen' = {} /\ UNCHANGED posted
       ELSE /\ sel' = {r} /\ chosen' = {left[r]}
            /\ posted' = IF rest = {r} THEN posted ELSE Append(posted, r)

RemoveUid(uids, u) == Picked(uids, {i \in DOMAIN uids : uids[i] # u})

(* moved: the row leaves the folder and the results; if its message was open,
   the neighbour is selected. *)
HandleMoved ==
  LET u == Head(ev).uid
      row == RowOf(Shown, u)
      rest == Shift(sel, Edit("removed", row))
  IN /\ Took("moved")
     /\ pending' = pending - 1
     /\ folder' = [folder EXCEPT !.rows = RemoveUid(@, u)]
     /\ results' = IF results = None THEN None ELSE RemoveUid(results, u)
     /\ IF row = 0 THEN UNCHANGED <<list, selected>>
        ELSE IF selected # u THEN sel' = rest /\ chosen' = chosen \ {u} /\ UNCHANGED <<posted, selected>>
        ELSE selected' = None /\ SelectNeighbour(row, RemoveUid(Shown, u), rest)
     /\ UNCHANGED <<waiting, text, queries, q, up, mailbox, history, bounds>>

(* Mutant of HandleMoveFailed: action_finished is not called. *)
HandleMoveFailedBusy ==
  /\ Took("moveFailed")
  /\ UNCHANGED <<pending, paging, selected, list, search, q, up, mailbox, history, bounds>>

HandleMoveFailed ==
  /\ Took("moveFailed") /\ pending' = pending - 1
  /\ UNCHANGED <<paging, selected, list, search, q, up, mailbox, history, bounds>>

-----------------------------------------------------------------------------
(* The folder has just been opened: its first page has been asked for. *)
Init ==
  /\ folder = [NewFolder EXCEPT !.lastId = 1, !.pageReq = 1]
  /\ selected = None /\ pending = 0
  /\ sel = {} /\ posted = <<>>
  /\ text = FALSE /\ queries = 0 /\ results = None
  /\ q = <<FetchHeaders(1, 1, 1)>> /\ ev = <<>> /\ up = TRUE
  /\ server \in SUBSET (1..OldUids) /\ uidNext = OldUids + 1 /\ unannounced = FALSE
  /\ original = server /\ listed = 1..OldUids /\ chosen = {}
  /\ opening = 1 /\ seed = {} /\ strays = FALSE /\ waiting = FALSE
  /\ clicks = 0 /\ faults = 0 /\ expunged = 0

User ==
  \/ UserOpens \/ UserRefreshes \/ NearEnd \/ MoveSelected \/ Search \/ ClearSearch
  \/ \E r \in DOMAIN Shown : ClickRow(r) \/ CtrlClickRow(r)

Cache == \E S \in SUBSET listed : SeedFromCache(S) \/ SearchArrived(S)
Actor == ServeHeaders \/ ServeMove \/ Reconnect
Handle == HandlePosted \/ HandleNews \/ HandleError \/ HandleHeaders \/ HandleMoved \/ HandleMoveFailed
World == Arrive \/ Expunge \/ Announce \/ CommandFails \/ OtherError

Next == User \/ Cache \/ Actor \/ Handle \/ World

Spec == Init /\ [][Next]_vars

(* The actor goes on with its queue.  The UI thread takes what is waiting for
   it: one of the handlers can always take the next event or message. *)
TakesEvent == ev # <<>> /\ ev' = Tail(ev)
TakesPosted == posted # <<>> /\ posted' = Tail(posted)
FairSpec == Spec /\ WF_vars(Actor) /\ WF_ev(TakesEvent) /\ WF_posted(TakesPosted)

-----------------------------------------------------------------------------
Commands == [op : {"headers"}, page : Nat \ {0}, id : Nat, of : Nat] \cup [op : {"move"}, uid : 1..uidNext - 1]
IsDescending(s) == \A i, j \in DOMAIN s : i < j => s[i] > s[j]

(* Types: request ids are never ahead of their counter, and every uid the
   frontend knows was handed out by the server. *)
TypeOK ==
  /\ folder.rows \in Seq(1..uidNext - 1) /\ folder.nextPage \in Nat \ {0}
  /\ folder.totalPages \in Nat \cup {None}
  /\ {folder.pageReq, folder.refreshReq} \subseteq 0..folder.lastId
  /\ selected \in 1..uidNext - 1 \cup {None} /\ pending \in Nat
  /\ sel \subseteq DOMAIN Shown /\ posted \in Seq(Nat \ {0})
  /\ queries \in Nat
  /\ q \in Seq(Commands)
  /\ server \cup listed \subseteq 1..uidNext - 1

(* The list is newest first and no message is in it twice, whatever mixture of
   cached rows, pages, overlapping pages and refreshes it was made of
   (OpenFolder::append, merge_newest). *)
NewestFirst == IsDescending(folder.rows)

(* The selected rows are the messages the user selected, through every row
   that came or went above them (Selection::insert, Selection::remove, the
   edits of merge_newest and the order they are applied in). *)
SelectionFollowsMessages == sel \subseteq DOMAIN Shown /\ {Shown[r] : r \in sel} = chosen

(* The bars are disabled exactly while a move is under way: each of them ends
   in one event that calls action_finished. *)
Moves(s) == {i \in DOMAIN s : s[i].op \in {"move", "moved", "moveFailed"}}
PendingIsOutstanding == pending = Cardinality(Moves(q)) + Cardinality(Moves(ev))

LeavesWhileThere == (ToSet(folder.rows) \ ToSet(folder'.rows)) \cap server # {}

(* As long as nothing failed, a reply to a request made since the folder was
   opened takes a message off the list only if the server has it no more, and
   so does a finished move (merge_newest: "within its range, messages missing
   from the reply are gone from the server"). *)
OwnReplyDropsOnlyGone ==
  [][opening' = opening /\ faults = 0 /\ (Took("headers") => Head(ev).of = opening)
     => ~LeavesWhileThere]_vars

(* The cached rows lack nothing the server has within their range but what the
   newest page brings, and no more than a page of them is gone. *)
SeedIsClose ==
  /\ seed # {} => {u \in server : u >= Min(seed)} \subseteq seed \cup ToSet(Page(1))
  /\ Cardinality(seed \ server) <= PageSize

(* A folder that says it is complete lists every message of the mailbox, if the
   mailbox has not changed and nothing failed since the program started, and no
   page that an earlier opening asked for got in, the ids starting again: the
   page by which the cursor is set back after a seed makes up for up to a page
   of messages that were deleted meanwhile (OpenFolder::seed, is_complete). *)
CompleteListsAll ==
  IsComplete(folder) /\ server = original /\ Arrived = 0 /\ faults = 0 /\ ~strays /\ SeedIsClose => server \subseteq ToSet(folder.rows)

(* Scrolling to the end brings older messages in the end, or the list is
   complete, or a failure is reported: a page of repeated rows is followed by
   the next one (apply_headers, keep_paging). *)
ScrollBringsRows == waiting ~> ~waiting \/ faults > 0

=============================================================================
