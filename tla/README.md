# A TLA+ model of esmail

esmail is a desktop mail client in Rust: a core crate (`crates/esmail`: IMAP,
SMTP, OAuth, the SQLite cache, the background watcher), a Win32 frontend
(`crates/esmail-win32`: windows, and the glue that drives the core from the UI
thread), the HTML view (`crates/litehtml-view-d2d`) and a mock mail server for
the tests.  This directory models the parts that keep state and talk to each
other through queues, checks them with TLC on small instances and proves the
properties that matter most with TLAPS for every instance.

    tlc -workers 2 -config Outbox_faults.cfg MC_Outbox   # one run
    tlapm Outbox_proofs.tla                              # one proof module

`PROJECT.json` maps every definition to the lines it models and lists the
runs, the mutants that show each property can fail, the hazards and the
theorems.

## The system

Everything the user sees runs on one UI thread.  The core owns a Tokio runtime
with one actor per concern; the UI thread sends commands over bounded channels
(`try_send`, never waiting) and is woken to drain their events.  So the hard
behaviour is not data races but *staleness*: every answer arrives some time
after the question, when the window, the selection, the account list or the
row it was about may have changed.

| Component | State | Operations | Talks to | What makes it correct |
|---|---|---|---|---|
| Compose windows, `Composes` (`app/composes.rs`, `app/compose/`) | one entry per window: open, text, draft row, saves pending, settled | open, edit, save, send, close, discard | `Deliveries`, cache, SMTP | nothing the user wrote is lost; a finished message leaves nothing behind |
| `Deliveries` (`core_glue/deliveries.rs`) | ids, sends in flight, outbox row of each id | start, failed, sent, retries, forget | cache, SMTP | a row has one sender; no message falls between window and outbox |
| SMTP actor (`smtp.rs`, `core_glue/sending.rs`) | command queue | one attempt at a time | server, UI thread | one outcome per command |
| Cache actor (`db.rs`, `core_glue/cache.rs`) | SQLite tables: mail, bodies, index, mailbox state, outbox, drafts; command queue of 256 | index, search, seed, outbox and draft commands, eviction | UI thread, IMAP events | commands in order, answers in order; cached bodies are their headers' |
| Outbox and Drafts windows (`app/queue/`) | the listing shown | open, retry, edit, delete | cache, composes | acting on an old listing does no harm |
| Reading pane (`app/message.rs`, `core_glue/loads.rs`) | selection, fetch in flight, message wanted, mark-as-read timer | select, body arrived, tick | IMAP actor | the body shown is the selected message's |
| HTML view (`litehtml-view-d2d`, `app/reader*`) | page, frame, jobs, images, fonts, text selection | load, resize, render, fetch images, select, copy | render worker, fetcher | it settles on the newest page; a selection stays in the text |
| IMAP actor (`imap.rs`) | session, mailbox selected, body worker | connect with back-off, select, page, fetch, flags, move, poll | server, UI thread | each request answered, connection rebuilt |
| Session, notifier, IDLE (`session.rs`, `notify.rs`, `idle_watch.rs`) | watermark of seen uids, IDLE connection | new mail, re-issue, back-off | IMAP actor, watcher | each new message announced, no old one |
| Watcher (`watcher.rs`) | accounts watched, their state and unread count | add, remove, restart, handle | sessions, tray | the state and count shown are the account's |
| IPC (`ipc/`) | endpoint name, token file, handshakes | bind, accept, connect | the frontend | one listener; only peers with its token |
| Open folder (`core_glue/mailbox.rs`, `app/folder.rs`) | rows, pages loaded, requests in flight | seed, page, refresh, remove | IMAP actor, cache | rows in order, no gap, no duplicate |
| Message list (`message_list/`, `state.rs`, `selection.rs`) | rows, selection, anchor, focus, scroll, invalid rectangles | mouse, keys, scroll, insert, remove, paint | open folder | the selection is of rows there are; what is on screen is current |
| Folder tree (`core_glue/folders.rs`, `app/tree.rs`, `app/events.rs`) | rows, node ids, unread counts, folds | list, count, fold, restart | IMAP actor, settings | every folder has one node and keeps its id |
| Message actions, search (`app/actions.rs`, `app/search.rs`) | pending actions, search generation | flag, move, delete, search | IMAP actor, cache | every command is answered once; the selection acted on is the user's; stale results are dropped |
| Shared core (`crates/esmail/src/app/`) | accounts, active account, request ids, bulk action, progress | open, select, search, move, flag, log out, pump | all actors | stale replies are ignored |
| Accounts, OAuth (`app/accounts/`, `oauth.rs`, `auth.rs`) | setup form, sign-in attempt, token source | sign in, refresh, save, remove | keyring, core | a sign-in is its own; the newest token is used; no account half saved |
| Settings (`config.rs`, `core_glue/config_saver.rs`) | pending save | debounced save | file | the last change is written |
| Process (`app/instance.rs`, `shell.rs`, tray) | lock file, request files, event, window | launch, hand over, hide, quit | other launches | one instance; a launch handed over is served |
| Mock server (`mail-mock-server`) | mailboxes, connections, broadcast | IMAP and SMTP commands | its clients | uids are for ever; moved mail survives; an idling client hears |
| Drawing, window chrome, text helpers | layout, strings | - | - | not modelled (below) |

## Modules

| Module | Models |
|---|---|
| `Outbox`, `Outbox_proofs` | sending: compose windows, `Deliveries`, the outbox table behind the cache actor, the SMTP actor, the Outbox window, account reload and removal, crashes |
| `Drafts`, `Drafts_proofs` | `Composes` entries, the drafts table, the Drafts window, reload, crash |
| `ComposeWindow` | one compose window: recipient fields, suggestions, attachments, send, save, close |
| `MessagePane`, `MessagePane_proofs` | selection, `BodyLoads`, mark-as-read, and the body fetch through the IMAP actor and its body worker |
| `ReadingPane` | abstract specification: what the pane promises the user |
| `OpenFolder`, `OpenFolder_proofs` | the open folder and its pages, the list's selection, search results in its place, moves, and the IMAP actor that answers |
| `Session` | one account: IMAP actor, forwarder, IDLE watch, and the mailbox on the server |
| `Watcher`, `Watcher_proofs` | EXTENDS `Session`: the background watcher that owns it |
| `AppCore`, `Core_proofs` | the shared core over the command queues of the accounts' actors and body workers |
| `MailCache`, `Core_proofs` | message, body and index tables, the sync plan, eviction, migration of the schema |
| `FolderTree` | LIST to tree to rows to node ids, unread marks, folding |
| `MessageList` | selection, keyboard, scrolling, row edits, repainting |
| `SearchBox` | the search box, its debounce, query syntax and late answers |
| `HtmlView` | the HTML view: render worker, images, text selection, painter's fonts |
| `SignIn` | the browser round trip and the shared access token |
| `Accounts` | adding, editing and removing accounts; config file, keyring, saver thread |
| `AccountForm` | the fields of the account form and its presets |
| `Process` | single instance, request files, window and tray |
| `Ipc` | the local endpoint and its handshake |
| `MockServer` | the mail store and the IMAP and SMTP connections to it |
| `Setup_proofs` | proofs about the six modules from `SignIn` on |
| `Lists`, `Lists_proofs` | `Picked`, the elements of a list at given places, and the facts about lists that the proofs share |
| `MC_*` | the modules the configurations name |

`Watcher` is composed with `Session` by EXTENDS: they share the command and
event channels.  `MC_Drafts`, `MC_Mail` and `MC_Setup` hold components that share no state;
`part` says which of them moves while the others rest in one initial state, so
a run of theirs is the sum of the components' state spaces, not the product.

### Outbox

A letter is a number and a version; each edit makes a new version, so "which
text is kept" can be asked without modelling text.  `open`, `sending`,
`inFlight`, `outboxRows` are the maps of `Composes` and `Deliveries`; `dbQ`,
`dbEv` are the channel to the cache actor and back, `smtpQ`, `smtpEv` those of
the SMTP actor.  One action per user request (`Send`, `Discard`, `RetryQueued`,
...), one per command arm of the cache actor, one per outcome, one per event
the UI thread drains.  `Push` is `Cache::command`: a full queue drops the
command without a word.  `OutboxDue` is the whole of `outbox_due`: rows of an
unknown account are backed off, owned rows skipped, the others sent in order,
refused ones backed off at once.  `Reload` is `reload_accounts`: the core is
replaced, so outcomes and answers die, the old cache actor finishes its queue
unheard, and the bookkeeping of the UI thread stays as it is.  A request of a
compose window and its handling by the main window are one step: both are on
the UI thread.

Bounds (named constants): `MaxClicks` things the user does, `MaxIds` compose
ids, `MaxFailures` failed attempts, `MaxDisruptions` reloads, crashes or
refused writes, one outbox poll outstanding.  `OldRows` rows are there at the
start.  The interesting races need one message, one retry and one disruption;
three clicks reach open-send-close, send-fail-send, and show-edit-close of the
Outbox window.

### Drafts

`entries` are `Composes.entries`; `pending` counts saves without an answer and
`settled` says the message is done, so that a row number that arrives late is
deleted instead of remembered (`draft_saved`).  `sends` is the part of
`Deliveries` the drafts depend on; a send whose outcome was lost in a reload is
not `live`.  `DbSave` models the `UPDATE` that changes no row and still
succeeds.  Six clicks with one disruption, two windows, one draft from before
and a queue of three reach two saves, a send and a continued draft.

### ComposeWindow

One window, from an empty message, a reply, a reply to all or a forward.  A
recipient field is a sequence of words, commas and spaces with a caret in it, so
that finding the entry under the caret, completing it and leaving the others
alone (`Suggester`, `complete_recipient`) are done, not assumed; the other
fields are one number.  Files are read on threads of their own and attached when
they have been.  `underWay` is `ComposeApp.sending`, the window's view, and
`flying` the main window's; between a Send and its taking (`asks`) they differ.
`draftNow`, `outNow`, `touched` and `detached` are history.  Four strokes and
one file picked reach type-suggest-complete and attach-send-refuse-close.

### MessagePane and ReadingPane

A message is `[acct, box, uid]`: uids repeat between mailboxes, which is what
makes late replies dangerous.  `inFlight` and `wanted` are `BodyLoads`;
`requests` are the fetches on their way through actor, worker and reply, a set,
because replies of different accounts overtake each other.  `BodyArrived`
rebuilds the key from the mailbox selected *now*, as `body_arrived` does.
`pendingFor` is history: the message the mark-as-read delay was started for.

`ReadingPane` knows only what was asked for and what is on show: a question may
be asked, given up or answered, and an answer is that message under its own
header.  `Pane_ == INSTANCE ReadingPane WITH asked <- wanted, content <- pane`
is the refinement mapping; `KeepsPromise == Pane_!Promise` says every step of
`MessagePane`, with its fetches, refusals, late replies and reloads, is a step
of `ReadingPane` or leaves both variables alone.

### OpenFolder

`folder` is the record of `OpenFolder`'s fields and the operators above
`RequestPage` are its methods, written on that record; a message is its uid.
There is one mailbox: replies for another one are ignored by the code, so
leaving a folder and coming back is opening it again (`opening` counts, and
`of` on a request is history that says which opening made it).  The cache
answers with *any* set of uids ever listed, because its writes lag and may be
dropped.  The actor serves its queue in order; `CommandFails`, `Reconnect` and
`OtherError` are what else it may report, and an `Error` of anything clears the
page request, as in `events.rs`.  `sel` are the selected rows of the widget and
`chosen`, history, the messages they were selected as.  `posted` are the
`Selected` messages `set_selection` emits: the windowing library, which is
outside this repository, hands them to `update` after the batch being drained,
so their row number may be old by then.  Keyboard and Shift+click are in
`MessageList`; flags, which repaint a row and change nothing else here, are
left out.  What a method keeps of a list (`retain`, `extend`, a filter) is
`Lists.Picked`.  `strays` is history too: an older page that an earlier opening
asked for and this one took for its own, since the request ids start again; the
list then continues after a gap, and `CompleteListsAll` is stated without it.

Bounds: `MaxClicks` things the user does besides scrolling, `MaxFaults` failed
or refused commands, `MaxArrived` and `MaxExpunged` changes of the mailbox and
`MaxDisturbed` of these three together.  A page of one message and a mailbox of
at most two old ones already has a first, a middle and a last page;
`folder_pages` uses six messages in pages of two, so that the cached rows can
span two pages and lack or exceed the server's by up to a page.  There the
user does nothing but scroll, and nothing fails.

### Session and Watcher

`cmds` and `evs` are the actor's channels, `ui` the one to the watcher, `wakes`
the one from the IDLE watch; each has its capacity, and the code's choice
between `try_send` (dropped when full) and `send().await` (the sender waits).
`mark` is the forwarder's watermark, reset by every `Connected`.  The actor's
step is a whole command with its reply, or the failure that makes it reconnect;
logins may be refused.  The server's mailbox gains mail, is read and expunged
by other clients, and may be recreated with another UIDVALIDITY.  `floor` and
`toasted` are history: the first baseline of each generation, and what was
announced.  `Handle` is `Watcher::handle`; `gen` numbers the sessions an account
has had, because the code tells their events apart by account only.

Bounds: queues of 3, 3, 1 and 1 (32, 32, 4, 64 in the code), two changes of
the mailbox and one fault.  With capacities this small every full-channel
branch is taken.  Back-off lengths are left out; the poll timer ticks when the
channels are quiet, since it is minutes long.

### AppCore

Two accounts, each with INBOX and one more mailbox, and an actor and a body
worker with a queue each; replies of all of them come through one channel,
tagged with the account only, as `AppEvent`s are.  `headersReq` and `bodyReq`
are the request ids that tell a stale reply; `bulk` the bulk action and the
messages it waits for, whose commands `SendAll` puts in the queue until it is
full; `hits`, `origins` the two parallel lists of search
results.  `CoreFrontend` is what a frontend calls, `CoreActors` what the
sessions do, `Pump` one event of `pump`.  `cut` and `gone` are history.  Bounds:
two operations of the user after a first message was asked for, and one mishap
(a connection lost, a request refused): enough for a reply to find another
account, folder or message in place.

### MailCache

One mailbox.  `srv.gen` is its UIDVALIDITY, and a header, a body or an index
entry is told apart by the generation it was fetched from.  A command of the
cache actor is a sequence `stmts` of SQL statements, each committed on its own
except where the code opens a transaction, and `CacheCrash` may fall between
two of them.  `frontend` is which program feeds the cache: the core reports
each listing and follows the sync plan, the Win32 one indexes the page it
lists.  `AddColumn` is the migration in `init_schema`.  `spoiled` is history: a
torn command, a lost fetch or command, a body that came late or before the
first listing.  The properties name which of these they survive, so the history
marks exactly how far the code's guarantee reaches.  Bounds: two uids per
generation, two generations, a queue of two, one cached body at most
(`MAX_CACHED_BODIES` is 2000), four events and one crash or failure.

### FolderTree

A name is a sequence of words and delimiters, so splitting at the delimiter,
joining with "/" and sorting are done, not assumed; the hash of a key is the
key.  `SetMailboxes`, `CachedFolders`, `UnreadCounts` are the events,
`Toggle` and `Restart` the user's.  The delimiter is "/" or ".": the properties
hold where keys stay distinct, and ids are stable where the delimiter is "/"
(keys are joined with "/" whatever the server uses).

### MessageList

`scroll` and rows in whole pixels, rows numbered from 1.  `shown` is what was
painted as selected, `dirty` the rows invalidated: `Paint` draws only those, so
a rectangle the code forgets to invalidate stays on screen.  `owed` marks the
repaint that a right-click in the focused list leaves out, `ghost` the anchor
that Ctrl+A in an empty list leaves past the end.  Bounds: four rows of height
two in a viewport of three, four inputs or edits.

### SearchBox

What is typed is a sequence of words, keys, spaces and quotes, so tokenizing,
`ParsedQuery` and matching are done, not assumed; the full-text index is the
messages themselves (`MailCache` shows that it agrees with them) and the ranking
is the order of their names.  `commands` and `answers` are the cache actor's
queues; an answer is the hits alone, since it does not say which query it is
for.  Messages move and accounts are reloaded meanwhile; `raced` and
`unanswered` are history.

### HtmlView

litehtml is external: a document is its runs of text, its images and its
fonts, and a layout puts the runs on lines of the given width.  The widget, the
worker and the channel between them are modelled message by message: `submit`,
`newest_job`, abandoning a render, passes that discover images, frames posted
and polled, the wake that may already be set.  Carets, word and line selection,
link hits and `selection_text` are operators on the run table.  `refused` is
history: images asked for while remote ones might not be fetched.  Points are
points of the document; scrolling is left out.  Bounds: three documents, three
loads, resizes, image choices or failed renders, and one mouse or key input.

### SignIn, Accounts, AccountForm

A sign-in attempt is a number, and its nonce, verifier and consent page are
told apart by it; a page of an earlier attempt may redirect to the listener of
a later one.  Connections share a `TokenSource` behind an async mutex: `waiters`
queue for it, `holder` refreshes.  Times are scaled: margins of 1 and lifetimes
of 2 on a clock of 3 keep the order of the code's constants.

`Accounts` works as the code does on a *copy* of the configuration taken when
Connect or Remove was pressed: `works` is the set of these jobs, each with its
number and the step it is at, `handle` the number Abort stops, `saves` the
queue of `ConfigSaver`, `disk` and `ring` the file and the keyring.  Saving and
removing an account are a write of config.toml and three calls to the keyring,
a step each: `set_password` may be refused, which ends the save with the
secrets before it stored, and `delete_password` may do nothing, which nobody
hears of (`Refused`, `SecretStays`).  A write of config.toml may fail, in a job
(`WorkFails`) or in the saver, which only logs it (`SaverWrites`), and leaves
the old file or one that loads as no accounts (`HalfWritten`).

`snags` is history: "keyring" if the keyring refused something after a first
change to it, "disturbed" if anything else came between: overlapping changes,
an aborted save that ran on, a failed write of config.toml, a crash.
`SavedMatches` has a part for each.  With no snag, config.toml is what is on
screen and every account has exactly the secrets it signs in with; whatever the
keyring did, config.toml still is and no account lacks a secret, though one too
many may be left.  After "disturbed" it promises nothing: the code does not.
Secrets are told apart by account and kind, not by value, so that a refused
second password may leave a new `imap` secret beside an old `smtp` one is not
seen; nor is a keyring that cannot be read, which the code takes for an empty
one.  `AccountForm` is the form alone: `filled` is what tells the form's own
changes from the user's.

### Process, Ipc, MockServer

`Process` interleaves up to three launches at every file operation and system
call; each may die anywhere, and the OS then frees its lock.  `owed` is history:
requests handed over and not yet acted on.  `Ipc` has up to three listeners on
one endpoint over each transport, each with a queue of connections of its own,
and one peer that may say anything; a token is the number of the listener that
wrote it.  `MockServer` is the store behind its
mutex, one action per critical section, two IMAP clients and an SMTP
connection; `told` and `missed` are history for the broadcast of capacity one.

Bounds of `setup`: two accounts, which nothing tells apart (`Symmetry`), two
jobs, so that one can follow or overlap another on the same account or the
other, and one upset: a preference, a failed write of config.toml by a job or a
crash (refusals of the keyring and failures of the saver are not bounded);
three launches and one poke of the window; three mails, two copies and
six protocol lines after a client has selected INBOX, which is enough for two
interleaved moves.

## Runs

| Run | Expect | Shows |
|---|---|---|
| `outbox_faults` | pass | `TypeOK`, `RowHasOneSender`, `PendingRowIsUnclaimed`, `RowStaysUntilDone` with a cache queue of two (so commands are dropped), reloads, crashes and failed writes |
| `outbox_live` | pass | `NothingLost`, `LockedWindowHasOutcome` and, with fairness, `OutboxDrains`, when nothing disrupts the process and the cache queue is never full |
| `outbox_stranded` | violation | after a reload the rows that were being sent are never retried |
| `drafts` | pass | `TypeOK`, `DraftRowIsOwn`, `SavedTextKept` and, with fairness, `ClosedIsForgotten`, over reloads, crashes, failed writes and a full queue; and inside one compose window `ComposeKeeps` |
| `pane` | pass | `TypeOK`, `BodyUnderItsHeader`, `OneFetchAtATime`, `SeenIsForItsMessage`, the refinement `KeepsPromise` and, with fairness, `WantedIsShown`, for two accounts of one mailbox each, with a refused fetch and a reload |
| `pane_stuck` | violation | with two mailboxes `WantedIsShown` fails: one reply is taken for a stranger and no body is fetched again |
| `folder_safe` | pass | `TypeOK`, `NewestFirst`, `SelectionFollowsMessages`, `PendingIsOutstanding`, `OwnReplyDropsOnlyGone` with two clicks, and two of a fault, an arrival and a removal |
| `folder_pages` | pass | `CompleteListsAll` and, with fairness, `ScrollBringsRows`, for six messages in pages of two with any cached rows |
| `watch` | pass | `TypeOK`, `WatchingIsBaselined`, `OldMailIsNotNew` and, with fairness, `NewMailIsAnnounced` and `UnreadSettles`, over lost connections, full channels, a replaced account and a mailbox other clients change |
| `mail` | pass | the shared core (`CoreIsCurrent`), the cache (`CacheAgrees`), tree, list and search box (`ListsAreCurrent`), the HTML view (`ViewIsCurrent`), and what no change underneath may move (`UserKeepsHold`) |
| `setup` | pass | signing in (`SignInSound`), accounts and form (`AccountsSound`), instance and endpoint (`InstanceIsOne`), the mock server (`ServerSound`, `UidsAreForever`) |
| `view_fonts` | violation | a page is painted with the fonts that an earlier page's keys were resolved to |

`ComposeKeeps` and the properties of `mail` and `setup` are conjunctions, each part named and
explained where it is defined:

| Property | Parts |
|---|---|
| `ComposeKeeps` | `ClosedIsKept`, `OfferIsNew`, `CompletesOneEntry` |
| `CoreIsCurrent` | `RowsOfActive`, `PaneIsSelected`, `SearchAligned`, `BulkIsOutstanding` |
| `CacheAgrees` | `BodyIsOfItsHeader`, `BelowUidNextIsCached`, `MovedStaysAway`, `FoundOnce`, `CacheWithinCap` |
| `ListsAreCurrent` | `EveryFolderIsShown`, `PaintedIsCurrent`, `SelectionInBounds`, `SettlesOnText` |
| `ViewIsCurrent` | `SettlesOnNewest`, `CaretsInText` |
| `UserKeepsHold` | action properties `IdsAreStable` (tree), `ViewKeepsPlace` (list), `CopyIgnoresLayout` (view) |
| `SignInSound` | `SignInIsOwn`, `RefreshesWithNewest` |
| `AccountsSound` | `SavedMatches`, `LockedFormHasWork`, `TypedServersKept` |
| `InstanceIsOne` | `HandedOverIsServed`, `InstanceSound`, `EndpointSound` |
| `ServerSound` | `MovedMailSurvives`, `IdleHears` |

Every passing property has a mutant in `PROJECT.json`: a plausible slip in one
mapped definition under which TLC finds the property violated.  Deadlock is
checked for `MessagePane` only: elsewhere a program whose user has no click
left may stop, and a bound that is used up ends a behaviour.

### Fairness

`Outbox`: weak fairness of the two actors, of each kind of event the UI thread
drains, of the poll timer and of the end of a back-off.  The actors loop on
`recv` and the UI thread drains every channel whenever it is woken, so an
enabled step stays enabled until it is taken; the timers are periodic.
`MaxFailures` makes the server accept in the end; without it a message the
server always refuses is retried for ever, which is right.  `Drafts`: the same
for the cache actor and the draining.  `MessagePane`: a request under way moves
on; an account need never connect and no user need ever click.  `OpenFolder`:
the actor serves its queue and the UI thread takes each event and message that
waits for it; the user need not scroll, no mail need arrive.  What the UI thread
takes is stated on the queue (`WF_ev(TakesEvent)`), since some handler is
enabled for every event at its head.  `Watcher`: the actor, the forwarder, the
IDLE watch and the watcher are tasks of one runtime, the poll interval keeps
ticking, and an account that is not there yet is applied (the watcher begins
by applying the configured ones; removing one counts as a fault, which the
liveness properties exclude).  The mailbox need not change, no connection need
break.  Its liveness properties are conditional on no
connection having been lost: the code does not promise to announce mail that
arrives while it is disconnected.

## Proofs

Eight modules hold proofs, for every value of the constants.  The assumptions
are those the modules name (`QueueAssumption`, `BoundAssumption`,
`ChannelAssumption`, `SignInAssumption`, `CoreAssumption`, ...): queues hold at
least one message, bounds are naturals, "nobody" is nobody, and for the shared
core the accounts are finitely many.  TLC evaluates them in every run.  Where a
theorem has a further hypothesis it is in its statement.

**`Outbox_proofs`.** `TypeOK`, `PendingRowIsUnclaimed` and `RowHasOneSender`
are one invariant.  `RowHasOneSender` is not inductive alone: `HandleEnqueued`
gives an id a row without asking who else has it, which is safe only because
that row, until its number has been applied, is claimed by nobody
(`PendingRowIsUnclaimed`); and that in turn holds because the listing a retry is
made from is read and answered later than the enqueue.  `TypeOK` contributes
that ids and rows are never ahead of their counters, so a fresh id or row
clashes with nothing.  On top of it:

- `RowsStay` proves the action property `RowStaysUntilDone`.  A row is deleted
  by a command that was sent earlier, so the invariant (`Faithful`) says of
  every outcome under way that it is of the letter its id was sent with, and of
  every deletion under way that its row's letter is done.
- `NothingIsLost` proves `NothingLost` where `Disruptions = {}` and the cache
  queue is never full, the latter as a hypothesis on the behaviour
  (`[](Len(dbQ) < CacheQueue)`).  Neither can be dropped: a crash between a
  failed attempt and the write of its row, or a command that a full queue
  drops, does lose the message.  An outcome moves a letter from one kind of
  copy to the next, so the invariant says of each accepted letter which of them
  it has, and of each row deleted that its letter is done.
- `LockedWindowsUnlock` proves `LockedWindowHasOutcome` where there are no
  reloads; crashes, failed writes and full queues do it no harm.

**`Drafts_proofs`.** `TypeOK`, `DraftRowIsOwn` and `SavedTextKept`.  A row
number is in the entry that saved it, in save commands on their way, and in
answers on their way back; each is a claim on the row, and the invariant
(`Linked`) says that all claims on a row are of one compose id and one message,
which the row, if it still exists, holds.  For `SavedTextKept` it adds
(`Kept`) that versions only grow from the row through the queue to the window,
so that a slow save overwrites no newer one.

**`MessagePane_proofs`.** `TypeOK`, `BodyUnderItsHeader`, `OneFetchAtATime` and
the action property `SeenIsForItsMessage`, for all sets of accounts, mailboxes
and uids.  The inductive invariant adds `WantedIsSelected` (the wanted message
is the selected one) and `PendingIsSelected` (the delay is running for the
selected message): a reply is shown under the header of the selection, so it
must be known that what is wanted, in flight and selected agree whenever
`Matches` holds.  From the same invariant `PaneKeepsPromise` proves the
refinement `Spec => KeepsPromise`: each action maps to `Ask`, `GiveUp`,
`Appear` or a stutter of `ReadingPane`, and the lemma `ShownIsWanted` says that
whatever body a reply puts on show is the wanted message's.

**`Watcher_proofs`.** `TypeOK`, `WatchingIsBaselined` and `OldMailIsNotNew`, for
all channel sizes, mailboxes and bounds.  The first argument (`Baselined`) is
about order: a `Connected` is followed by the listing that becomes the
watermark, and a `Disconnected` still on its way takes the state back.  The
second (`Above`): every watermark, every listing under way and every uid
announced is at or above the floor that the first baseline of its generation
set, as long as no uid disappears; reconnects, dropped pushes and late events of
an earlier session included.

**`Setup_proofs`.** All of `setup`, part by part; an invariant of one part says
nothing of another's variables.

- `SignInIsSound` (`SignInSound`).  A redirect with another attempt's state is
  turned away, so what is exchanged is the attempt's own code (`GrantTyped`); who
  holds the token source's lock is who refreshes (`LockTyped`), so the token sent
  is the newest until an upset that the properties name.
- `OneInstance` (`InstanceIsOne`).  Of the process: who owns the lock, the
  event, the window and the thread (`Owners`); what a launch is owed is in a
  file, in the thread's hands or in the window's queue (`Accounted`), also when a
  later launch writes the same file again; and a file of a launch that has
  signalled is ahead of the thread on its round or the event is set for another
  round (`WillBeFound`), since a launch signals after its last file is there.  Of
  the endpoint: a connection waits once, at the listener it was made to
  (`QueueIsOwn`, `QueuedOnce`), and is served there, so the token it is asked for
  is that listener's.
- `AccountsAreSaved` (`AccountsSound`).  Reports of finished work wait in the
  main window's queue while file and keyring are already written.  The invariant
  follows them as a chain: each is of a change to the configuration that the one
  before it leaves (`Chained`), or hearing it is noted as an overlap.  While the
  chain holds, config.toml and the keyring are as its last link says, but for
  what the one work that may run has written so far (`SettledAtLast`,
  `OneAtATime`), so an empty queue means that what is written is what is shown.
  How far that work is with the keyring is `After`: of the kinds it has called
  for, those the account will sign in with, of the others what was there.  The
  keyring holds that, and nothing else unless it refused something (`Fits`); a
  refusal leaves what the account had, because `save_account` stores its secrets
  before it deletes any (`AfterRefusal`).
  A locked form is awaited because an Abort in the queue is followed by a new
  Connect whenever the form is locked again (`FormIsKnown`).  Of the fields:
  until the user edits one they are as filled in, so the first edit is noticed
  (`EditsNoticed`).
- `ServerIsSound` (`ServerSound`) and `UidsLast` (the action property
  `UidsAreForever`).  The invariant (`ServerInv`): a mailbox has each uid once
  and has handed out more uids than it holds messages (`BoxesSound`); what a
  client remembers of a COPY is of the mailbox it has selected, and an idling
  one is to be told what is new (`ClientsSound`); and of each mail there is a
  message that is not marked and that no client may mark (`AllLeft`).  A client
  may mark what it has copied, and the copy is such a message, so
  `MovedMailSurvives` needs no count of the copies.

**`Lists_proofs`.** What lists and selections of them contain.  The provers
cannot use the library's induction principles, which take an operator, but they
can use induction over a *set* of naturals: `Induction` follows from `LeastNat`,
a least element of every non-empty set, and with it `Iterates` for functions
defined by recursion.  `PickedIs`, `PickedPlaces` and `PickedKeeps` say what
`Picked` returns for every list: its elements, in their order, each at a place
that its place in the original gives.

**`OpenFolder_proofs`.** Every safety property of the two folder runs.  `Inv`
carries `TypeOK`, `NewestFirst`, `SelectionFollowsMessages` and
`PendingIsOutstanding`: the rows stay a strictly decreasing list of uids through
every merge, insertion and removal, the selection moves with each edit of them,
and the moves in the queue and among the events are what is counted.  The
others need to know what is on its way.  For the action property
`OwnReplyDropsOnlyGone`: which request belongs to which opening (`Own`), and
that a reply of the newest page lacks only what arrived after it, and nothing
handled before it tells of that (`UpToDate`).  For `CompleteListsAll`: the pages
before the cursor are listed, and no page that is waited for is beyond it
(`Whole`); its hypotheses (`Still`, no stray page, `SeedIsClose`) are those of
the property.

**`Core_proofs`.** `CoreIsCurrent`.  The view (`ViewInv`) is kept by what each
reply is compared with before it is taken.  `BulkIsOutstanding` becomes
inductive as `Outstanding`: each message of a bulk action has a command in the
queue of an account that is listed or a reply on its way from one; an actor
answers a command in the step that takes it, only a listed account's queue
holds any, and what a full queue or a removed account drops is noted (`cut`).
That `SetToSeq` yields every message once uses that there are finitely many.

And `CacheAgrees`, where a statement is a step and a crash may fall between two.
`CacheInv` says of every command how far it has come: for each statement that
may be next (`Mail1` to `Mail5` of a download, `Move1` to `Move3` of a removal,
`Report1` to `Report4` of a listing that finds the mailbox made again) what the
tables satisfy and what they do not yet, which is what the command being run is
about to restore.  What is on its way is part of it: a command knows nothing
the server does not (`Fits`), and of two commands the later is not from before
the earlier (`InTurn`), but for downloads, which is why `early` and `late` are
excused; a message below the recorded UIDNEXT is cached or a plan, a fetch or a
header on its way brings it (`Fetched`, `Brings`); the header of a message that
was moved is followed by its removal (`MovedLeave`, `Leaves`).  The theorem is
for every number of uids, queue capacity and cap on bodies; the two generations
are the model's.

Only model-checked, and why:

- Liveness: `OutboxDrains`, `ClosedIsForgotten`, `WantedIsShown`,
  `ScrollBringsRows`, `NewMailIsAnnounced`, `UnreadSettles`.  Fairness and
  `ENABLED` are out of the prover's reach.
- `ListsAreCurrent`, `ViewIsCurrent`, `UserKeepsHold` and `ComposeKeeps`: their
  modules split and join names, tokenize queries, walk runs of text and complete
  recipients with folds over sequences and with recursive operators, which are
  checked over bounded inputs.

## Known divergences

Three are runs (above).  Reading the code for the models showed others, which
are not carried as runs; where a property had to step around one, a history
variable says so.

Sending and drafts:

- Discarding a message whose outbox row number is still on its way leaves the
  row, which is retried and sent, where `compose/mod.rs:34` says "forget its
  draft and outbox row".
- A second failed Send of an edited message keeps the first version in the
  outbox: `Deliveries::failed` answers `Backoff`, which only moves the row's
  next attempt, where `db.rs` (`EnqueueOutbox`) says the row is overwritten "with
  fresh content".
- A second Send that succeeds before the row number of the first failure is
  handled leaves the row (`outcome_sent` knows no row); it is retried, and the
  message is sent twice (`composes.rs`, `outcome_sent`).
- A message whose window is closed while it is being sent leaves its draft:
  `forget_if_done` drops the entry, and with it the draft's row number, before
  `outcome_sent` would settle it (`deliveries.rs` says the draft is done then).
- `edit_queued` deletes the row and opens the message in a window that counts
  as unchanged: closing it asks nothing, and the message is gone.
- `Cache::command` drops `EnqueueOutbox` and `SaveDraft` like any other
  command; its comment speaks of a stale cache only.
- The comment of `smtp.rs` says a Send is recorded first; the Win32 frontend
  records it only after the first attempt failed.
- A continued draft is saved into a new row, because `save_draft` overwrites
  `state.draft_id` with the entry's row, which a new entry does not have.
- Two saves before the first `DraftSaved` make two rows, and one of them stays
  when the message is discarded.
- `save_draft` of a row deleted meanwhile changes nothing and is announced as
  saved.
- `Edited` compares the number of attachments only: one exchanged for another
  is no change, and closing the window asks nothing (`compose/mod.rs`, `edited`).
- Ctrl+Space, the Delete key on an attachment and Ctrl+S act on a window that is
  locked for sending (`compose/mod.rs` disables the fields only).
- Ctrl+S of a message whose text was deleted writes nothing and keeps the draft
  row with the old text.
- A file still being read when Send is pressed is attached after the message
  has left without it.
- A second Send before the main window has taken the first is refused, and the
  refusal unlocks the window while the first is under way.
- Suggestions are not refreshed when only the caret moves.
- A reply to all leaves out every address that contains one's own.

Folder, list, tree and view:

- A folder that is opened again takes the page an earlier opening asked for,
  because its request ids start again; it is merged as the newest page and rows
  the server still has leave the list, or taken for the next older page, which
  leaves a gap in a folder that then counts as complete (`mailbox.rs:4-6`: "drops a page that
  belongs to a folder (or a refresh) the user already left").
- An `Error` of any account or command clears the page request of the open
  folder, so the page that was on its way is dropped as stale.  If the folder
  was seeded with two pages or more and its first page is lost this way, the
  next request is for a later page, and `apply_reply` merges that one as the
  newest: newer rows leave the list.
- A refresh of the folder while search results are shown clears an open hit
  that is not among the loaded rows, with "This message is no longer in the
  folder."
- A row number emitted by `set_selection` is looked up after a further `moved`
  of the same batch, and may open another message than the one selected.
- An answer of a search is not matched to its query, so that of an older text
  is shown under the newer one until the newer one's comes; a query the full
  command queue dropped, one that failed, and one that asks for attachments only
  leave the list of the text before.
- Of several `since:` or `before:` the last one counts alone.
- A message moved while a search's answer is on its way comes back with it.
- `BodyLoads::want` answers `None` for the wanted message also when its fetch is
  over, so clicking a message that failed to load does not try again.
- Ctrl+A in an empty list leaves anchor and focus past its end (`ghost`), and a
  right-click in the focused list leaves rows it changed unpainted
  (`owed`).
- Folds are restored at an account's first listing only (`events.rs:36`), which
  is the cache's flat one; the nested list of the server comes after it.
- Keys of folders are joined with "/" whatever the server's delimiter is, so
  two names may share a key, and the id of a nested folder changes when the
  server's list replaces the cache's.
- `set_image_fetcher` says it "applies to the next load"; the fetcher is shared
  with the render in progress, which uses it from then on.

Accounts and sessions:

- `reload_accounts` does not reset `pending_actions`; a move, flag or export
  under way is never answered and the bars stay disabled.
- `Outcome::Saved` reloads the accounts without asking whether a message window
  is open, so a window may stay locked (`accounts/mod.rs`).
- A bulk action whose account is disconnected while another one is active waits
  for replies that are dropped (`AppCore::disconnect_account` resets it only
  for the active account).
- A first connection that fails is reported and not tried again
  (`imap.rs:609`), where `watcher.rs:38-39` says "The session keeps retrying on
  its own".
- Nothing registers `TokenSource::on_rotation`, so a rotated refresh token is
  lost at the next start.
- Two changes of the accounts or preferences that overlap write copies taken
  before each other's: the later one undoes the earlier.
- A password save whose second secret is refused leaves the first in the
  keyring, and `remove_account` ("Forgets the account `id`: its `config.toml`
  entry and every keyring secret") leaves each secret that cannot be deleted,
  since `delete_password` ignores its error.  Nothing cleans them up.
- `ConfigSaver` only logs a write that failed: config.toml is then not what is
  on screen until the next change is saved.

Process, IPC, mock server:

- The wake event is created after the lock is taken, with a file operation in
  between, so a second launch may find the lock without it
  (`instance.rs:44-45` says it never does).
- Two listeners that both find a stale socket file may both replace it; the
  first is then listening on a name that leads nowhere (`local.rs:106-112`).
- The mock server answers "+ idling" before it subscribes, so a delivery in
  between is not announced; and a receiver that lagged does not look at the
  mailbox again (`imap_server.rs:629-668`), though the comment relies on a next
  delivery.

## Hazards without a property

`PROJECT.json` names under each hazard the properties that would catch it going
wrong.  For some there is none, because the code does not guard against them
and the property had to excuse them, or only half a one:

- A message the server took before its reply was lost is sent again, and one
  whose process dies before its row is written is gone: delivery is at least
  once from the row on, and nothing more.  A command dropped by a full cache
  queue is excused by `NothingLost`; what the dropped command does to a row or a
  draft that exists is checked.
- The draft row of a message whose window is closed while it is being sent, and
  a folder that takes the reply of an earlier opening: both go wrong in the code
  (see above), so `ClosedIsForgotten` is about entries only and
  `OwnReplyDropsOnlyGone` about the replies of this opening.
- A poll that fails after the watermark was moved, and mail that comes while the
  watch reconnects: `NewMailIsAnnounced` and `UnreadSettles` assume that no
  connection is lost.  Events of a session that was replaced:
  `WatchingIsBaselined` is about the first session of an account.
- A command that a full queue of the shared core dropped is noted (`cut`), and
  the bulk action it belonged to is excused.
- Headers whose fetch failed, statements a crash separated, and a body written
  after its mailbox was renumbered are noted and excused by `CacheAgrees`.
- A task that is dropped while it refreshes a token, and a rotated token that
  is not saved, are upsets that `RefreshesWithNewest` excuses.
- Two folders of one account, where a late body would be shown under another
  folder's header, are beyond the bounds of `pane`; there `BodyUnderItsHeader`
  rests on its theorem, which is for any mailboxes.

## Plan

Modelled and checked: all of the above; proved: every safety property of the
runs but four.  What is left is proof, in this order:

1. `ComposeWindow`: `ClosedIsKept` (what differs from the message as it was
   last saved shows in what `edited` compares).
2. `MessageList`: `PaintedIsCurrent` and `SelectionInBounds`; `SearchBox`:
   `SettlesOnText`; the render worker of `HtmlView`: `SettlesOnNewest`.

## Not modelled, and why

- Drawing, window chrome and platform code, installers: system calls and layout
  without state of their own.
- Text helpers (formatting, emoji, view models), `render.rs` and `css.rs`: pure string functions over unbounded text.
- The layout engine: litehtml is external; `HtmlView` models what the view does
  with a layout, and leaves scrolling of the view out.
- Exporting messages and attachments to files, parsing of envelopes and MIME,
  migration of old configuration files, the placement of windows.
- Message contents and subjects, and outside `ComposeWindow` addresses and
  attachments: abstracted to numbers.
