----------------------------- MODULE MessagePane -----------------------------
(***************************************************************************)
(* The reading pane of the Win32 frontend: which message is selected, the  *)
(* one body fetch `BodyLoads` keeps in flight for it, the timer that marks *)
(* a message read, and the body worker of each account's IMAP actor.       *)
(*                                                                         *)
(* The list may show a folder or search results, so a click may select any *)
(* message of any folder.  A body is the key of the message it was fetched *)
(* for: the text itself is abstracted away.  Since the pane keeps one      *)
(* fetch in flight, the channels between the UI thread, the actor and the  *)
(* worker are one set of requests with the place each has reached.         *)
(***************************************************************************)
EXTENDS Naturals

CONSTANTS
  Accounts,   \* account numbers
  Boxes,      \* mailbox names
  Uids,       \* IMAP uids, unique in one mailbox only
  None,       \* Option::None
  MaxClicks,  \* bound: how many single messages the user selects
  MaxRefused, \* bound: how many fetches the core refuses (no session, queue full)
  MaxReloads  \* bound: how often the accounts are reloaded

Folder == [acct : Accounts, box : Boxes]
Key == [acct : Accounts, box : Boxes, uid : Uids]
Load == [key : Key, id : Nat]

ASSUME NoneAssumption ==
  None \notin Uids /\ None \notin Folder /\ None \notin Key /\ None \notin Load
ASSUME BoundAssumption == MaxClicks \in Nat /\ MaxRefused \in Nat /\ MaxReloads \in Nat

VARIABLES
  \* App
  selected,     \* the uid of App.selected
  selectedIn,   \* App.selected_in
  messageShown, \* App.message_shown
  pane,         \* what the reader shows: a notice, a message or a failure
  \* App.bodies
  lastId,       \* BodyLoads.ids
  inFlight,     \* BodyLoads.in_flight
  wanted,       \* BodyLoads.wanted
  \* App.seen
  pending,      \* SeenTimer.pending: a uid
  pendingFor,   \* history: the message SeenTimer::schedule was called for
  marked,       \* history: the messages a \Seen was sent for
  \* the IMAP side
  requests,     \* fetches under way: [key, id, at, retried, ok]
  workers,      \* accounts whose Connect succeeded: they have a body worker
  sessions,     \* accounts whose body worker has a connection
  clicks, refused, reloads

selection == <<selected, selectedIn, messageShown, pane>>
loads == <<lastId, inFlight, wanted>>
seen == <<pending, pendingFor, marked>>
imap == <<requests, workers, sessions>>
bounds == <<clicks, refused, reloads>>
vars == <<selection, loads, seen, imap, bounds>>

FolderOf(k) == [acct |-> k.acct, box |-> k.box]
Notice == [kind |-> "notice", header |-> None, body |-> None]
Shown(kind, header, body) == [kind |-> kind, header |-> header, body |-> body]

-----------------------------------------------------------------------------
(* BodyLoads *)

(* fetch_body: the request joins the `others` under way, or the core refuses it
   and the status bar says so; BodyLoads is not told. *)
FetchBody(others, key, id) ==
  \/ /\ requests' = others \cup {[key |-> key, id |-> id, at |-> "actor", retried |-> FALSE, ok |-> FALSE]}
     /\ UNCHANGED refused
  \/ /\ refused < MaxRefused /\ refused' = refused + 1
     /\ requests' = others

(* Mutant of StartWanted: the request counter is not stored. *)
StartWantedStaleId(others, flying, key) ==
  IF flying # None \/ key = None
    THEN inFlight' = flying /\ requests' = others /\ UNCHANGED <<lastId, refused>>
    ELSE /\ lastId' = lastId
         /\ inFlight' = [key |-> key, id |-> lastId + 1]
         /\ FetchBody(others, key, lastId + 1)

(* start_wanted, with `flying` and `key` the values just assigned to
   in_flight and wanted, and the fetch_body its callers make of the result. *)
StartWanted(others, flying, key) ==
  IF flying # None \/ key = None
    THEN inFlight' = flying /\ requests' = others /\ UNCHANGED <<lastId, refused>>
    ELSE /\ lastId' = lastId + 1
         /\ inFlight' = [key |-> key, id |-> lastId + 1]
         /\ FetchBody(others, key, lastId + 1)

(* Mutant of Want: a new selection does not wait for the fetch in flight. *)
WantAtOnce(key) ==
  /\ wanted' = key
  /\ IF wanted = key THEN UNCHANGED <<lastId, inFlight, requests, refused>> ELSE StartWanted(requests, None, key)

(* want: nothing to do if `key` is wanted already. *)
Want(key) ==
  /\ wanted' = key
  /\ IF wanted = key THEN UNCHANGED <<lastId, inFlight, requests, refused>> ELSE StartWanted(requests, inFlight, key)

Cancel == wanted' = None /\ UNCHANGED <<lastId, inFlight, requests, refused>>

(* Mutant of IsWanted: whatever came is shown. *)
IsWantedAny(key) == wanted # None

(* finished: the message of the reply is still the one to show. *)
IsWanted(key) == wanted = key

(* finished: the reply is for the fetch in flight. *)
Matches(key, id) == inFlight # None /\ inFlight.key = key /\ inFlight.id = id

-----------------------------------------------------------------------------
(* The user and the list *)

SeenCancel == pending' = None /\ pendingFor' = None

(* Mutant of SeenFor: a message that is read already leaves the timer alone. *)
SeenForKeep(key, unread) ==
  IF unread THEN pending' = key.uid /\ pendingFor' = key ELSE UNCHANGED <<pending, pendingFor>>

(* seen.cancel, and seen.schedule for an unread message. *)
SeenFor(key, unread) ==
  IF unread THEN pending' = key.uid /\ pendingFor' = key ELSE SeenCancel

(* select with one row, which any click on a row is, the selected one too. *)
Select(key, unread) ==
  /\ clicks < MaxClicks /\ clicks' = clicks + 1
  /\ selectedIn' = FolderOf(key) /\ selected' = key.uid
  /\ messageShown' = FALSE
  /\ SeenFor(key, unread)
  /\ Want(key)
  /\ UNCHANGED <<marked, pane, workers, sessions, reloads>>

(* select with no row or several: the pane keeps what it shows. *)
SelectSeveral ==
  /\ Cancel /\ SeenCancel
  /\ UNCHANGED <<marked, selection, workers, sessions, clicks, reloads>>

OpenFolder ==
  /\ Cancel /\ SeenCancel
  /\ selected' = None /\ pane' = Notice
  /\ UNCHANGED <<marked, selectedIn, messageShown, workers, sessions, clicks, reloads>>

(* reset_reading_pane: the list was replaced (a search began or ended). *)
ResetReadingPane ==
  /\ Cancel
  /\ selected' = None /\ messageShown' = FALSE /\ pane' = Notice
  /\ UNCHANGED <<selectedIn, seen, workers, sessions, clicks, reloads>>

(* The selected message left its folder (apply_headers) or was moved away
   (moved, which then selects its neighbour if the list has one left). *)
Gone ==
  /\ selected # None
  /\ Cancel
  /\ selected' = None /\ pane' \in {pane, Notice}
  /\ UNCHANGED <<selectedIn, messageShown, seen, workers, sessions, clicks, reloads>>

(* reload_accounts and clear_view: new sessions; `bodies` is kept. *)
Reload ==
  /\ reloads < MaxReloads /\ reloads' = reloads + 1
  /\ wanted' = None /\ SeenCancel
  /\ selected' = None /\ selectedIn' = None /\ messageShown' = FALSE /\ pane' = Notice
  /\ requests' = {} /\ workers' = {} /\ sessions' = {}
  /\ UNCHANGED <<marked, lastId, inFlight, clicks, refused>>

(* mark_seen_when_due: the tick drops a pending mark that is not for the
   selected uid; a due one is sent for the selected message. *)
SeenTick ==
  /\ pending # None
  /\ marked' = IF selected = pending /\ selectedIn # None
                 THEN marked \cup {[acct |-> selectedIn.acct, box |-> selectedIn.box, uid |-> pending]}
                 ELSE marked
  /\ SeenCancel
  /\ UNCHANGED <<selection, loads, imap, bounds>>

-----------------------------------------------------------------------------
(* The IMAP actor and its body worker *)

Moved(r, at, retried, ok) == requests' = (requests \ {r}) \cup {[r EXCEPT !.at = at, !.retried = retried, !.ok = ok]}

(* Connect succeeded: the account gets a body worker. *)
Connect(a) ==
  /\ a \notin workers /\ workers' = workers \cup {a}
  /\ UNCHANGED <<selection, loads, seen, requests, sessions, bounds>>

(* FetchBody is handed to the worker; without one it fails at once. *)
ActorFetchBody(r) ==
  /\ r.at = "actor"
  /\ IF r.key.acct \in workers THEN Moved(r, "worker", FALSE, FALSE) ELSE Moved(r, "reply", FALSE, FALSE)
  /\ UNCHANGED <<selection, loads, seen, workers, sessions, bounds>>

(* ensure_worker_connected, with all of its attempts: it succeeds or the
   request fails. *)
WorkerConnect(r) ==
  /\ r.at = "worker" /\ r.key.acct \notin sessions
  /\ \/ sessions' = sessions \cup {r.key.acct} /\ UNCHANGED requests
     \/ Moved(r, "reply", r.retried, FALSE) /\ UNCHANGED sessions
  /\ UNCHANGED <<selection, loads, seen, workers, bounds>>

(* Mutant of WorkerFetch: a failed retry is given up without a word. *)
WorkerFetchSilent(r) ==
  /\ r.at = "worker" /\ r.key.acct \in sessions
  /\ \/ Moved(r, "reply", r.retried, TRUE) /\ UNCHANGED sessions
     \/ /\ sessions' = sessions \ {r.key.acct}
        /\ IF r.retried THEN requests' = requests \ {r} ELSE Moved(r, "worker", TRUE, FALSE)
  /\ UNCHANGED <<selection, loads, seen, workers, bounds>>

(* run_worker_command: a failure drops the connection and is retried once on
   a new one before it is reported. *)
WorkerFetch(r) ==
  /\ r.at = "worker" /\ r.key.acct \in sessions
  /\ \/ Moved(r, "reply", r.retried, TRUE) /\ UNCHANGED sessions
     \/ /\ sessions' = sessions \ {r.key.acct}
        /\ IF r.retried THEN Moved(r, "reply", TRUE, FALSE) ELSE Moved(r, "worker", TRUE, FALSE)
  /\ UNCHANGED <<selection, loads, seen, workers, bounds>>

(* body_arrived.  The reply names its account, uid and id; the mailbox is the
   one selected NOW. *)
BodyArrived(r) ==
  /\ r.at = "reply"
  /\ IF selectedIn = None \/ ~Matches([acct |-> r.key.acct, box |-> selectedIn.box, uid |-> r.key.uid], r.id)
       THEN requests' = requests \ {r} /\ UNCHANGED <<pane, messageShown, lastId, inFlight, refused>>
       ELSE LET show == IsWanted([acct |-> r.key.acct, box |-> selectedIn.box, uid |-> r.key.uid])
                header == [acct |-> selectedIn.acct, box |-> selectedIn.box, uid |-> selected]
            IN /\ IF show /\ selected # None
                    THEN /\ pane' = Shown(IF r.ok THEN "message" ELSE "failed", header, r.key)
                         /\ messageShown' = TRUE
                    ELSE UNCHANGED <<pane, messageShown>>
               /\ StartWanted(requests \ {r}, None, IF show THEN None ELSE wanted)
  /\ UNCHANGED <<selected, selectedIn, wanted, seen, workers, sessions, clicks, reloads>>

-----------------------------------------------------------------------------
Init ==
  /\ selected = None /\ selectedIn = None /\ messageShown = FALSE /\ pane = Notice
  /\ lastId = 0 /\ inFlight = None /\ wanted = None
  /\ pending = None /\ pendingFor = None /\ marked = {}
  /\ requests = {} /\ workers = {} /\ sessions = {}
  /\ clicks = 0 /\ refused = 0 /\ reloads = 0

User ==
  \/ \E key \in Key, unread \in BOOLEAN : Select(key, unread)
  \/ SelectSeveral \/ OpenFolder \/ ResetReadingPane \/ Gone \/ Reload
Fetching(r) == ActorFetchBody(r) \/ WorkerConnect(r) \/ WorkerFetch(r) \/ BodyArrived(r)

Next == User \/ SeenTick \/ (\E a \in Accounts : Connect(a)) \/ (\E r \in requests : Fetching(r))

Spec == Init /\ [][Next]_vars

(* The actor, the worker and the UI thread get on with a request that is under
   way.  Nobody has to click, and an account need never connect. *)
FairSpec == Spec /\ WF_vars(\E r \in requests : Fetching(r))

-----------------------------------------------------------------------------
Request == [key : Key, id : Nat, at : {"actor", "worker", "reply"}, retried : BOOLEAN, ok : BOOLEAN]
Pane == [kind : {"notice", "message", "failed"}, header : Key \cup {None}, body : Key \cup {None}]

(* Every variable has its type, and a request's id is one BodyLoads gave out. *)
TypeOK ==
  /\ selected \in Uids \cup {None} /\ selectedIn \in Folder \cup {None} /\ messageShown \in BOOLEAN
  /\ pane \in Pane
  /\ lastId \in Nat /\ inFlight \in Load \cup {None} /\ wanted \in Key \cup {None}
  /\ inFlight # None => inFlight.id \in 1..lastId
  /\ pending \in Uids \cup {None} /\ pendingFor \in Key \cup {None} /\ marked \subseteq Key
  /\ requests \subseteq Request /\ workers \subseteq Accounts /\ sessions \subseteq Accounts
  /\ clicks \in Nat /\ refused \in Nat /\ reloads \in Nat

(* The pane shows a body only under the header of the message it was fetched
   for (and body_arrived indexes it only under that header), however the
   selection moved while the fetch was under way: uids repeat from one folder
   to the next. *)
BodyUnderItsHeader == pane.header = pane.body

(* At most one fetch is under way, and it is the one BodyLoads knows of:
   arrowing down the list queues nothing behind a slow server. *)
OneFetchAtATime ==
  \A r \in requests : inFlight = [key |-> r.key, id |-> r.id] /\ \A s \in requests : r = s

(* \Seen is sent only for the message whose selection started the delay, even
   when a message of another folder with the same uid is selected by then, or
   the list was replaced without stopping the timer. *)
SeenIsForItsMessage == [][\A k \in marked' \ marked : k = pendingFor]_vars

(* The pane comes to show the wanted message, or why it could not be loaded.
   Two fetches of one worker failing, and a worker that cannot connect, are
   among the behaviours; a fetch that the core refuses and a
   reload of the accounts, which loses the answer, end the promise. *)
WantedIsShown ==
  \A k \in Key : (wanted = k) ~> (wanted # k \/ refused + reloads > 0 \/ (pane.kind # "notice" /\ pane.body = k))

(* The pane keeps what ReadingPane promises: BodyLoads' bookkeeping, the
   retries and the late replies are details of it. *)
Pane_ == INSTANCE ReadingPane WITH asked <- wanted, content <- pane
KeepsPromise == Pane_!Promise
=============================================================================
