------------------------------ MODULE Process -------------------------------
(***************************************************************************)
(* One running esMail per data directory (app/instance.rs over             *)
(* esmail::shell): a launch takes the lock file and becomes the instance,  *)
(* or leaves request files for the one that runs and signals its named     *)
(* event; a thread of the instance forwards requests to the window, which  *)
(* may live in the tray.  Launches interleave at every file operation and  *)
(* system call, and any of them may end at any time.                       *)
(***************************************************************************)
EXTENDS Naturals, Sequences, FiniteSets

CONSTANTS
  MaxLaunches,  \* bound: processes that are started
  MaxPokes      \* bound: what the user and the mail sessions do to the window

ASSUME ProcessAssumption == MaxLaunches \in Nat /\ MaxPokes \in Nat

VARIABLES
  at, flags,    \* per launch: where it is, and the flags it was given
  lock,         \* who has the lock file (the OS frees it when the process ends)
  requests,     \* request files present: which, who left it, and whether for an instance that has ended
  event,        \* the named event: "none", "unset" or "set" (auto-reset)
  forwarder, taken,   \* the instance's thread: "none", "waiting" or the file it looks for; what it found
  windowQ,      \* launch messages to the window
  window,       \* hidden, tray icon, theme poll timer, theme choice
  owed,         \* history: <<launch, request>> left, and neither acted on nor gone with an instance
  staleQuit,    \* history: an instance obeyed a quit left before it took the lock
  toasts, pokes

processVars == <<at, flags, lock, requests, event, forwarder, taken, windowQ, window, owed, staleQuit, toasts, pokes>>

(* Launches are numbered in the order they start. *)
Launches == 1..MaxLaunches
Nobody == 0

Flags == {"plain", "compose", "quit"}
NoWindow == [open |-> FALSE, hidden |-> FALSE, tray |-> FALSE, poll |-> FALSE, system |-> FALSE, toTray |-> FALSE]

(* REQUEST_FILES in the order take_request looks for them, then compose.request. *)
RequestFiles == <<"quit", "show", "compose">>
Present(file) == \E r \in requests : r.file = file
Found(file) == CHOOSE r \in requests : r.file = file
Left(file, p) ==
  {r \in requests : r.file # file}
    \union {[file |-> file, by |-> IF Present(file) THEN Found(file).by \union {p} ELSE {p}, old |-> FALSE]}
Of(rs) == UNION {{<<p, r.file>> : p \in r.by} : r \in rs}

(* What a launch leaves for the instance, in order. *)
Wanted(p) == CASE flags[p] = "quit" -> <<"quit">> [] flags[p] = "compose" -> <<"compose", "show">> [] OTHER -> <<"show">>

Still(vs) == UNCHANGED vs
Goto(p, where) == at' = [at EXCEPT ![p] = where]

(* The last use of a launch's flags: the model forgets them. *)
Forget(p) == flags' = [flags EXCEPT ![p] = "plain"]

-----------------------------------------------------------------------------
(* A launch *)

(* Args::parse, and main's choice of --quit, hand-over or start. *)
StartLaunch(p, f) ==
  /\ at[p] = "not started" /\ \A q \in Launches : q < p => at[q] # "not started"
  /\ flags' = [flags EXCEPT ![p] = f] /\ Goto(p, "claiming")
  /\ Still(<<lock, requests, event, forwarder, taken, windowQ, window, owed, staleQuit, toasts, pokes>>)

(* acquire_in: try_lock. *)
TryLock(p) ==
  /\ at[p] = "claiming"
  /\ IF lock = Nobody THEN lock' = p /\ Goto(p, "locked") ELSE Goto(p, "leaving 1") /\ UNCHANGED lock
  /\ Still(<<flags, requests, event, forwarder, taken, windowQ, window, owed, staleQuit, toasts, pokes>>)

(* ... and what an instance that died left is discarded; claim also discards
   compose.request.  --quit found nobody to ask, and ends. *)
Discard(p) ==
  /\ at[p] = "locked" /\ Goto(p, IF flags[p] = "quit" THEN "ended" ELSE "discarded")
  /\ lock' = IF flags[p] = "quit" THEN Nobody ELSE lock
  /\ LET gone == {r \in requests : r.file # "compose" \/ flags[p] # "quit"} IN
     requests' = requests \ gone /\ owed' = owed \ Of(gone)
  /\ Forget(p) /\ Still(<<event, forwarder, taken, windowQ, window, staleQuit, toasts, pokes>>)

(* CreateEventW *)
CreateEvent(p) ==
  /\ at[p] = "discarded" /\ Goto(p, "first") /\ event' = "unset"
  /\ Still(<<flags, lock, requests, forwarder, taken, windowQ, window, owed, staleQuit, toasts, pokes>>)

(* build: the window, with a tray icon if the shell has a place for one, and
   the thread that forwards requests; the theme follows the system at first. *)
BuildWindow(p, tray) ==
  /\ at[p] = "first" /\ Goto(p, "running")
  /\ window' = [open |-> TRUE, hidden |-> FALSE, tray |-> tray, poll |-> TRUE, system |-> TRUE, toTray |-> TRUE]
  /\ forwarder' = RequestFiles[1]
  /\ Still(<<flags, lock, requests, event, taken, windowQ, owed, staleQuit, toasts, pokes>>)

(* claim, request_quit: the request files are written, one after another. *)
LeaveRequest(p, i) ==
  /\ at[p] = <<"leaving 1", "leaving 2">>[i] /\ i <= Len(Wanted(p))
  /\ requests' = Left(Wanted(p)[i], p) /\ owed' = owed \union {<<p, Wanted(p)[i]>>}
  /\ Goto(p, IF i < Len(Wanted(p)) THEN "leaving 2" ELSE "signalling")
  /\ Still(<<flags, lock, event, forwarder, taken, windowQ, window, staleQuit, toasts, pokes>>)

(* Mutant of Signal: the event is not set when the thread is not waiting. *)
SignalOnlyWaiting(p) ==
  /\ at[p] = "signalling"
  /\ event' = IF event = "none" \/ forwarder # "waiting" THEN event ELSE "set"
  /\ Goto(p, IF event # "none" \/ flags[p] = "quit" THEN "handed over" ELSE "failed")
  /\ Forget(p) /\ Still(<<lock, requests, forwarder, taken, windowQ, window, owed, staleQuit, toasts, pokes>>)

(* OpenEventW fails when no instance has made the event yet. *)
Signal(p) ==
  /\ at[p] = "signalling"
  /\ event' = IF event = "none" THEN event ELSE "set"
  /\ Goto(p, IF event # "none" \/ flags[p] = "quit" THEN "handed over" ELSE "failed")
  /\ Forget(p) /\ Still(<<lock, requests, forwarder, taken, windowQ, window, owed, staleQuit, toasts, pokes>>)

-----------------------------------------------------------------------------
(* The instance *)

(* drain: the files are looked for in order, again from the first after one is
   found, compose.request last; then all of it goes to the window and the
   thread waits.  A file that appears behind its back waits for a wake. *)
Look(i) ==
  /\ forwarder = RequestFiles[i]
  /\ LET file == RequestFiles[i] now == IF Present(file) THEN Append(taken, Found(file)) ELSE taken IN
     /\ requests' = {r \in requests : r.file # file}
     /\ forwarder' = IF i = 3 THEN "waiting" ELSE IF Present(file) THEN RequestFiles[1] ELSE RequestFiles[i + 1]
     /\ taken' = IF i = 3 THEN <<>> ELSE now
     /\ windowQ' = IF i = 3 THEN windowQ \o now ELSE windowQ
  /\ Still(<<at, flags, lock, event, window, owed, staleQuit, toasts, pokes>>)

Woken ==
  /\ forwarder = "waiting" /\ event = "set"
  /\ forwarder' = RequestFiles[1] /\ event' = "unset"
  /\ Still(<<at, flags, lock, requests, taken, windowQ, window, owed, staleQuit, toasts, pokes>>)

(* The process ends, by its own doing or not: lock and event go with it. *)
Gone(p) ==
  /\ Goto(p, "ended")
  /\ lock' = IF lock = p THEN Nobody ELSE lock
  /\ IF at[p] \in {"first", "running"}
     THEN /\ event' = "none" /\ forwarder' = "none" /\ taken' = <<>> /\ windowQ' = <<>> /\ window' = NoWindow /\ toasts' = 0
          /\ requests' = {[r EXCEPT !.old = TRUE] : r \in requests}
          /\ owed' = owed \ Of(requests \union {(windowQ \o taken)[i] : i \in 1..Len(windowQ \o taken)})
     ELSE Still(<<event, forwarder, taken, windowQ, window, toasts, requests, owed>>)

LaunchDies(p) ==
  /\ pokes < MaxPokes /\ pokes' = pokes + 1
  /\ at[p] \notin {"not started", "handed over", "failed", "ended"} /\ Gone(p)
  /\ Forget(p) /\ Still(<<staleQuit>>)

(* show_window: the theme is watched again if the window was hidden. *)
Shown(w) == [w EXCEPT !.hidden = FALSE, !.poll = IF w.hidden THEN w.system ELSE @]

(* hide_window *)
Hidden(w) == [w EXCEPT !.hidden = TRUE, !.poll = FALSE]

(* App::launch: quit, or come to the front (and open a message window). *)
Launch ==
  /\ window.open /\ windowQ # <<>>
  /\ LET m == Head(windowQ) IN
     IF m.file = "quit"
     THEN Gone(lock) /\ staleQuit' = (staleQuit \/ m.old)
     ELSE /\ windowQ' = Tail(windowQ) /\ window' = Shown(window) /\ owed' = owed \ Of({m})
          /\ Still(<<at, lock, requests, event, forwarder, taken, staleQuit, toasts>>)
  /\ Still(<<flags, pokes>>)

(* A message to the window that no launch left. *)
Own(what) == [file |-> what, by |-> {}, old |-> FALSE]

Poke == window.open /\ pokes < MaxPokes /\ pokes' = pokes + 1

(* The close box: to the tray when there is one and the user wants that. *)
CloseWindow ==
  /\ Poke /\ ~window.hidden
  /\ IF window.tray /\ window.toTray
     THEN window' = Hidden(window) /\ Still(<<at, lock, requests, event, forwarder, taken, windowQ, owed, toasts>>)
     ELSE Gone(lock)
  /\ Still(<<flags, staleQuit>>)

(* The tray icon's click and menu. *)
TrayClick(what) ==
  /\ Poke /\ window.tray /\ windowQ' = Append(windowQ, Own(what))
  /\ Still(<<at, flags, lock, requests, event, forwarder, taken, window, owed, staleQuit, toasts>>)

(* New mail: a toast, unless the window is the one being looked at. *)
Toast ==
  /\ Poke /\ \E foreground \in (IF window.hidden THEN {FALSE} ELSE BOOLEAN) : toasts' = IF foreground THEN toasts ELSE toasts + 1
  /\ Still(<<at, flags, lock, requests, event, forwarder, taken, windowQ, window, owed, staleQuit>>)

ClickToast ==
  /\ window.open /\ toasts > 0 /\ toasts' = toasts - 1 /\ windowQ' = Append(windowQ, Own("open account"))
  /\ Still(<<at, flags, lock, requests, event, forwarder, taken, window, owed, staleQuit, pokes>>)

(* View > Theme, View > Close to tray. *)
ChooseTheme(system) ==
  /\ Poke /\ ~window.hidden /\ window' = [window EXCEPT !.system = system, !.poll = system]
  /\ Still(<<at, flags, lock, requests, event, forwarder, taken, windowQ, owed, staleQuit, toasts>>)

SetCloseToTray(on) ==
  /\ Poke /\ ~window.hidden /\ window' = [window EXCEPT !.toTray = on]
  /\ Still(<<at, flags, lock, requests, event, forwarder, taken, windowQ, owed, staleQuit, toasts>>)

ProcessInit ==
  /\ at = [p \in Launches |-> "not started"] /\ flags = [p \in Launches |-> "plain"]
  /\ lock = Nobody /\ requests = {} /\ event = "none" /\ forwarder = "none" /\ taken = <<>> /\ windowQ = <<>> /\ window = NoWindow
  /\ owed = {} /\ staleQuit = FALSE /\ toasts = 0 /\ pokes = 0

ProcessNext ==
  \/ \E p \in Launches :
       \/ \E f \in Flags : StartLaunch(p, f)
       \/ TryLock(p) \/ Discard(p) \/ CreateEvent(p) \/ Signal(p) \/ LaunchDies(p)
       \/ \E tray \in BOOLEAN : BuildWindow(p, tray)
       \/ \E i \in 1..2 : LeaveRequest(p, i)
  \/ \E i \in 1..3 : Look(i)
  \/ Woken \/ Launch \/ CloseWindow \/ Toast \/ ClickToast
  \/ \E what \in {"show", "compose", "quit"} : TrayClick(what)
  \/ \E on \in BOOLEAN : ChooseTheme(on) \/ SetCloseToTray(on)

ProcessSpec == ProcessInit /\ [][ProcessNext]_processVars

-----------------------------------------------------------------------------
(* Types; a window belongs to the process that has the lock. *)
ProcessTypeOK ==
  /\ lock \in Launches \union {Nobody} /\ flags \in [Launches -> Flags]
  /\ window.open => lock # Nobody /\ at[lock] = "running"
  /\ event \in {"none", "unset", "set"} /\ forwarder \in {"none", "waiting", "quit", "show", "compose"}

(* A launch that handed over is served: once the thread waits, nothing is
   signalled and the window's queue is empty, the window has acted on all it
   left, unless a starting instance discarded it or the instance ended first
   (claim, Waiting::forward, drain). *)
HandedOverIsServed ==
  /\ window.open /\ forwarder = "waiting" /\ event = "unset" /\ windowQ = <<>>
  => \A x \in owed : at[x[1]] # "handed over"

(* An instance never obeys a quit that was left for an earlier one
   (acquire_in discards it), and a hidden window can be brought back and
   wakes nothing (close, hide_window, resume_theme_poll). *)
InstanceSound ==
  /\ ~staleQuit
  /\ window.hidden => window.tray /\ ~window.poll
  /\ window.open /\ ~window.hidden => window.poll = window.system
=============================================================================
