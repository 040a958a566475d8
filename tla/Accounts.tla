------------------------------ MODULE Accounts ------------------------------
(***************************************************************************)
(* Adding, editing and removing accounts, and what is kept of them: the    *)
(* account form (a window with a queue of its own), the main window, the   *)
(* connection work behind Connect, the thread behind Remove, the thread    *)
(* that writes preferences (ConfigSaver), config.toml and the OS keyring.  *)
(*                                                                         *)
(* A configuration is, per account, how it signs in, and a number that     *)
(* stands for the preferences (trusted senders, Google client).  Work is   *)
(* done on a copy of the configuration taken when it was asked for.        *)
(***************************************************************************)
EXTENDS Naturals, Sequences, FiniteSets, SequencesExt

CONSTANTS
  Ids,          \* account ids
  MaxWorks,     \* bound: Connects and Removes
  MaxUpsets     \* bound: preference changes, a work's failed writes of config.toml and crashes

ASSUME AccountsAssumption == MaxWorks \in Nat /\ MaxUpsets \in Nat

VARIABLES
  cfg, disk,    \* App.config, and config.toml
  ring,         \* keyring: which kinds of secret an account has
  form,         \* the form window: open, busy, the account and method in it
  formKnown,    \* the main window holds its handle
  formQ, mainQ, \* the two windows' message queues
  works,        \* connection work and removals running
  handle,       \* Worker.task: which work Abort stops (0: none)
  saves,        \* ConfigSaver: configurations queued to be written
  status,       \* per account: what its session is doing
  snags,        \* history: the keyring failed, or a change was disturbed otherwise
  began, miseries

accountVars == <<cfg, disk, ring, form, formKnown, formQ, mainQ, works, handle, saves, status, snags, began, miseries>>

Methods == {"Password", "GoogleOAuth"}
NoAccount == "none"
ClosedForm == [open |-> FALSE, busy |-> FALSE, id |-> NoAccount, how |-> NoAccount]

(* SECRET_KINDS, and those a method signs in with. *)
Kinds == {"imap", "smtp", "oauth"}
KindsOf(how) == IF how = "Password" THEN {"imap", "smtp"} ELSE IF how = "GoogleOAuth" THEN {"oauth"} ELSE {}

Msg(what, id, how, conf) == [what |-> what, id |-> id, how |-> how, conf |-> conf]
NoConf == [acc |-> [i \in Ids |-> NoAccount], pref |-> 0]
Work(what, id, how) ==
  [no |-> began + 1, what |-> what, id |-> id, how |-> how, conf |-> cfg, step |-> IF what = "Connect" THEN 1 ELSE 2, cut |-> FALSE]

(* The keyring calls of save_account and remove_account, in their order: what
   the account will sign in with is set, anything else deleted. *)
Secrets(w) == IF w.how = "GoogleOAuth" THEN <<"oauth", "imap", "smtp">> ELSE <<"imap", "smtp", "oauth">>
SignsInWith(w) == IF w.what = "Connect" THEN KindsOf(w.how) ELSE {}
CallsKeyring(w) == w.step \in 3..5
Secret(w) == Secrets(w)[w.step - 2]

(* Config::upsert_account, remove_account. *)
Upsert(conf, id, how) == [conf EXCEPT !.acc[id] = how]
Without(conf, id) == [conf EXCEPT !.acc[id] = NoAccount]

(* saved_auth: the account has the secret its method needs. *)
CanSignIn(conf, id) ==
  conf.acc[id] # NoAccount =>
    (IF conf.acc[id] = "Password" THEN "imap" ELSE "oauth") \in ring[id]

Easy == UNCHANGED miseries
Misery == cfg.pref + miseries < MaxUpsets /\ miseries' = miseries + 1 /\ snags' = snags \union {"disturbed"}

(* A change made while other work holds an older copy of the configuration. *)
Overlap == IF works # {} \/ saves # <<>> THEN {"disturbed"} ELSE {}

-----------------------------------------------------------------------------
(* The form window *)

(* Add account, Edit, or Reconnect: one form at a time.  The command comes
   through the main window's queue, behind the Closed of an earlier form. *)
OpenForm(id) ==
  /\ Easy /\ ~formKnown /\ ~form.open /\ \A i \in 1..Len(mainQ) : mainQ[i].what # "Closed"
  /\ form' = [open |-> TRUE, busy |-> FALSE, id |-> id, how |-> IF cfg.acc[id] = NoAccount THEN "Password" ELSE cfg.acc[id]]
  /\ formKnown' = TRUE /\ formQ' = <<>>
  /\ UNCHANGED <<cfg, disk, ring, mainQ, works, handle, saves, status, snags, began>>

ChooseMethod(how) ==
  /\ Easy /\ form.open /\ ~form.busy /\ how # form.how
  /\ form' = [form EXCEPT !.how = how]
  /\ UNCHANGED <<cfg, disk, ring, formKnown, formQ, mainQ, works, handle, saves, status, snags, began>>

(* Connect: the form locks itself and asks the main window. *)
PressConnect ==
  /\ Easy /\ form.open /\ ~form.busy /\ began + Len(mainQ) < MaxWorks
  /\ form' = [form EXCEPT !.busy = TRUE]
  /\ mainQ' = Append(mainQ, Msg("Connect", form.id, form.how, NoConf))
  /\ UNCHANGED <<cfg, disk, ring, formKnown, formQ, works, handle, saves, status, snags, began>>

(* Cancel sign-in, while waiting for the browser: the form unlocks at once. *)
CancelSignIn ==
  /\ Easy /\ form.open /\ form.busy /\ form.how = "GoogleOAuth"
  /\ form' = [form EXCEPT !.busy = FALSE]
  /\ mainQ' = Append(mainQ, Msg("Abort", form.id, NoAccount, NoConf))
  /\ UNCHANGED <<cfg, disk, ring, formKnown, formQ, works, handle, saves, status, snags, began>>

(* Cancel, Esc or the close box; dropping the window reports Closed. *)
CloseForm ==
  /\ Easy /\ form.open
  /\ form' = ClosedForm /\ formQ' = <<>>
  /\ mainQ' = mainQ \o (IF form.busy THEN <<Msg("Abort", form.id, NoAccount, NoConf)>> ELSE <<>>)
                    \o <<Msg("Closed", form.id, NoAccount, NoConf)>>
  /\ UNCHANGED <<cfg, disk, ring, formKnown, works, handle, saves, status, snags, began>>

(* FormMsg::Failed: the form stays filled for a retry. *)
FormHears ==
  /\ Easy /\ formQ # <<>> /\ form.open
  /\ form' = [form EXCEPT !.busy = @ /\ Head(formQ) # "Failed"]
  /\ formQ' = Tail(formQ)
  /\ UNCHANGED <<cfg, disk, ring, formKnown, mainQ, works, handle, saves, status, snags, began>>

-----------------------------------------------------------------------------
(* The main window *)

Tell(what) == formQ' = IF form.open THEN Append(formQ, what) ELSE formQ

(* Remove, confirmed in the Accounts window. *)
AskRemove(id) ==
  /\ Easy /\ cfg.acc[id] # NoAccount /\ began + Len(mainQ) < MaxWorks
  /\ mainQ' = Append(mainQ, Msg("Remove", id, NoAccount, NoConf))
  /\ UNCHANGED <<cfg, disk, ring, form, formKnown, formQ, works, handle, saves, status, snags, began>>

(* reload_accounts: every account gets a new session. *)
Reload(conf) ==
  /\ cfg' = conf
  /\ status' = [i \in Ids |-> IF conf.acc[i] = NoAccount THEN NoAccount ELSE IF CanSignIn(conf, i) THEN "Connecting" ELSE "Failed"]

StartWork(m) ==
  /\ works' = works \union {Work(m.what, m.id, m.how)}
  /\ began' = began + 1
  /\ handle' = IF m.what = "Connect" THEN began + 1 ELSE handle
  /\ snags' = snags \union Overlap
  /\ UNCHANGED <<cfg, form, formKnown, formQ, status>>

(* Worker::abort: a task that is saving runs on, but nobody hears of it. *)
AbortWork ==
  /\ works' = {IF w.no = handle THEN [w EXCEPT !.cut = TRUE] ELSE w : w \in {x \in works : x.no # handle \/ x.step > 2}}
  /\ handle' = 0
  /\ snags' = snags \union (IF \E w \in works : w.no = handle /\ w.step > 2 THEN {"disturbed"} ELSE {})
  /\ UNCHANGED <<cfg, form, formKnown, formQ, status, began>>

Fails ==
  /\ handle' = 0 /\ Tell("Failed")
  /\ UNCHANGED <<cfg, form, formKnown, works, status, snags, began>>

(* Saved: the form is closed, and the configuration replaced by the one saved. *)
Saves(m) ==
  /\ handle' = 0 /\ Reload(m.conf)
  /\ form' = IF formKnown THEN ClosedForm ELSE form
  /\ formKnown' = FALSE /\ formQ' = <<>>
  /\ snags' = snags \union (IF m.conf # Upsert(cfg, m.id, m.how) THEN {"disturbed"} ELSE {})
  /\ UNCHANGED <<works, began>>

Removes(m) ==
  /\ Reload(m.conf)
  /\ snags' = snags \union (IF m.conf # Without(cfg, m.id) THEN {"disturbed"} ELSE {})
  /\ UNCHANGED <<form, formKnown, formQ, works, handle, began>>

(* The form asked for something, or the work behind it reported. *)
MainHears ==
  /\ Easy /\ mainQ # <<>>
  /\ mainQ' = Tail(mainQ) \o (IF Head(mainQ).what = "Saved" /\ formKnown /\ form.open
                              THEN <<Msg("Closed", form.id, NoAccount, NoConf)>> ELSE <<>>)
  /\ LET m == Head(mainQ) IN
     \/ m.what \in {"Connect", "Remove"} /\ StartWork(m)
     \/ m.what = "Abort" /\ AbortWork
     \/ /\ m.what = "Closed" /\ formKnown' = FALSE
        /\ UNCHANGED <<cfg, form, formQ, works, handle, status, snags, began>>
     \/ m.what = "Working" /\ Tell("Working") /\ UNCHANGED <<cfg, form, formKnown, works, handle, status, snags, began>>
     \/ m.what = "Failed" /\ Fails
     \/ m.what = "Saved" /\ Saves(m)
     \/ m.what = "Removed" /\ Removes(m)
  /\ UNCHANGED <<disk, ring, saves>>

(* trust_sender, settings_request: the change is queued to be written. *)
ChangePref ==
  /\ Easy /\ cfg.pref + miseries < MaxUpsets
  /\ cfg' = [cfg EXCEPT !.pref = @ + 1]
  /\ saves' = Append(saves, cfg')
  /\ snags' = snags \union (IF works # {} \/ \E i \in 1..Len(mainQ) : mainQ[i].what \in {"Saved", "Removed"} THEN {"disturbed"} ELSE {})
  /\ UNCHANGED <<disk, ring, form, formKnown, formQ, mainQ, works, handle, status, began>>

(* Status::after: an error counts only until the account has signed in, or if
   it says that the credentials are refused. *)
StatusAfter(now, event) ==
  CASE event = "Connected" -> "Connected"
    [] event = "Disconnected" -> "Reconnecting"
    [] event = "Error" /\ now \notin {"Connected", "Reconnecting"} -> "Failed"
    [] event = "sign-in error" /\ now # "Connected" -> "Failed"
    [] OTHER -> now

TrackStatus(id, event) ==
  /\ Easy /\ status[id] # NoAccount
  /\ status' = [status EXCEPT ![id] = StatusAfter(@, event)]
  /\ UNCHANGED <<cfg, disk, ring, form, formKnown, formQ, mainQ, works, handle, saves, snags, began>>

-----------------------------------------------------------------------------
(* The work behind Connect and Remove, step by step *)

(* The work stops, and reports unless it was aborted. *)
Ends(w, what, conf) ==
  /\ works' = works \ {w}
  /\ mainQ' = IF w.cut THEN mainQ ELSE Append(mainQ, Msg(what, w.id, w.how, conf))

Steps(w) == works' = (works \ {w}) \union {[w EXCEPT !.step = @ + 1]}

(* One call to the keyring: set_password, or delete_password. *)
KeyringStep(w) ==
  /\ CallsKeyring(w) /\ Steps(w)
  /\ ring' = [ring EXCEPT ![w.id] = IF Secret(w) \in SignsInWith(w) THEN @ \union {Secret(w)} ELSE @ \ {Secret(w)}]
  /\ UNCHANGED <<disk, mainQ>>

(* Mutant of ConnectStep: config.toml is written before the keyring. *)
ConnectStepFileFirst(w) ==
  \/ w.step = 1 /\ Steps(w) /\ UNCHANGED <<ring, disk, mainQ>>
  \/ /\ w.step = 2 /\ Steps(w) /\ mainQ' = Append(mainQ, Msg("Working", w.id, w.how, NoConf))
     /\ disk' = Upsert(w.conf, w.id, w.how) /\ UNCHANGED ring
  \/ KeyringStep(w)
  \/ w.step = 6 /\ Ends(w, "Saved", Upsert(w.conf, w.id, w.how)) /\ UNCHANGED <<ring, disk>>

(* credentials, test_connection, then save_account: the keyring, config.toml. *)
ConnectStep(w) ==
  \/ w.step = 1 /\ Steps(w) /\ UNCHANGED <<ring, disk, mainQ>>
  \/ w.step = 2 /\ Steps(w) /\ mainQ' = Append(mainQ, Msg("Working", w.id, w.how, NoConf)) /\ UNCHANGED <<ring, disk>>
  \/ KeyringStep(w)
  \/ w.step = 6 /\ disk' = Upsert(w.conf, w.id, w.how) /\ Ends(w, "Saved", Upsert(w.conf, w.id, w.how)) /\ UNCHANGED ring

(* remove_account: config.toml, the keyring. *)
RemoveStep(w) ==
  \/ w.step = 2 /\ disk' = Without(w.conf, w.id) /\ Steps(w) /\ UNCHANGED <<ring, mainQ>>
  \/ KeyringStep(w)
  \/ w.step = 6 /\ Ends(w, "Removed", Without(w.conf, w.id)) /\ UNCHANGED <<ring, disk>>

WorkSteps(w) ==
  /\ Easy /\ (IF w.what = "Connect" THEN ConnectStep(w) ELSE RemoveStep(w))
  /\ UNCHANGED <<cfg, form, formKnown, formQ, handle, saves, status, snags, began>>

(* The keyring keeps a secret that is to go: delete_password ignores its error. *)
SecretStays(w) ==
  /\ Easy /\ CallsKeyring(w) /\ Secret(w) \in ring[w.id] \ SignsInWith(w) /\ Steps(w)
  /\ snags' = snags \union {"keyring"}
  /\ UNCHANGED <<cfg, disk, ring, form, formKnown, formQ, mainQ, handle, saves, status, began>>

(* The browser, a server or the keyring refuses; secrets stored before the
   refused one stay stored. *)
Refused(w) ==
  /\ Easy /\ w.what = "Connect" /\ (w.step <= 2 \/ (CallsKeyring(w) /\ Secret(w) \in SignsInWith(w)))
  /\ snags' = snags \union (IF w.step > 3 THEN {"keyring"} ELSE {})
  /\ UNCHANGED disk

(* config.toml is written in place: a write that does not complete may leave
   it unreadable, and Config::load then starts with no accounts. *)
Writes(w) == w.step = IF w.what = "Connect" THEN 6 ELSE 2
HalfWritten == {disk, NoConf}

WorkFails(w) ==
  /\ Refused(w) \/ (Writes(w) /\ Misery /\ disk' \in HalfWritten)
  /\ Ends(w, "Failed", NoConf)
  /\ UNCHANGED <<cfg, ring, form, formKnown, formQ, handle, saves, status, began>>

(* The ConfigSaver thread: only the newest of what is queued is written, and
   an error is only logged. *)
SaverWrites ==
  /\ Easy /\ saves # <<>> /\ saves' = <<>>
  /\ \/ disk' = Last(saves) /\ UNCHANGED snags
     \/ disk' \in HalfWritten /\ snags' = snags \union {"disturbed"}
  /\ UNCHANGED <<cfg, ring, form, formKnown, formQ, mainQ, works, handle, status, began>>

(* The process ends. *)
ProcessEnds ==
  /\ Misery
  /\ disk' \in IF saves # <<>> \/ \E w \in works : Writes(w) THEN HalfWritten ELSE {disk}
  /\ cfg' = disk' /\ status' = [i \in Ids |-> IF disk'.acc[i] = NoAccount THEN NoAccount ELSE "Connecting"]
  /\ form' = ClosedForm /\ formKnown' = FALSE /\ formQ' = <<>> /\ mainQ' = <<>> /\ works' = {} /\ handle' = 0 /\ saves' = <<>>
  /\ UNCHANGED <<ring, began>>

AccountsInit ==
  /\ cfg = NoConf /\ disk = NoConf /\ ring = [i \in Ids |-> {}]
  /\ form = ClosedForm /\ formKnown = FALSE /\ formQ = <<>> /\ mainQ = <<>> /\ works = {} /\ handle = 0 /\ saves = <<>>
  /\ status = [i \in Ids |-> NoAccount] /\ snags = {} /\ began = 0 /\ miseries = 0

AccountsNext ==
  \/ PressConnect \/ CancelSignIn \/ CloseForm \/ FormHears \/ MainHears \/ ChangePref \/ SaverWrites \/ ProcessEnds
  \/ \E id \in Ids : OpenForm(id) \/ AskRemove(id)
  \/ \E how \in Methods : ChooseMethod(how)
  \/ \E w \in works : WorkSteps(w) \/ SecretStays(w) \/ WorkFails(w)
  \/ \E id \in Ids, event \in {"Connected", "Disconnected", "Error", "sign-in error"} : TrackStatus(id, event)

AccountsSpec == AccountsInit /\ [][AccountsNext]_accountVars

-----------------------------------------------------------------------------
(* Types; the form is busy only while it is open, an account has a status
   exactly while it is configured, and Abort stops work that has begun. *)
AccountsTypeOK ==
  /\ form.busy => form.open
  /\ \A i \in Ids : ring[i] \subseteq Kinds /\ cfg.acc[i] \in Methods \union {NoAccount}
  /\ \A i \in Ids : status[i] = NoAccount <=> cfg.acc[i] = NoAccount
  /\ handle \in 0..began /\ snags \subseteq {"keyring", "disturbed"}

(* Once all is quiet, config.toml says what the program shows and every
   account in it has the secrets that it signs in with, whatever the keyring
   refused to store or to delete; and if it refused nothing, a removed or
   changed account leaves no other secret behind.  Excused: a change that
   overlapped another, an aborted save that ran on, a write of config.toml that
   failed, the end of the process (save_account, remove_account, ConfigSaver). *)
SavedMatches ==
  works = {} /\ saves = <<>> /\ mainQ = <<>> =>
    /\ snags \subseteq {"keyring"} => disk = cfg /\ \A i \in Ids : KindsOf(cfg.acc[i]) \subseteq ring[i]
    /\ snags = {} => \A i \in Ids : ring[i] = KindsOf(cfg.acc[i])

(* A form that is locked waits for something that will unlock or close it:
   its request, the work behind it, or the answer on its way (connect,
   account_outcome, FormMsg::Failed). *)
LockedFormHasWork ==
  form.busy =>
    \/ \E i \in 1..Len(mainQ) : mainQ[i].what \in {"Connect", "Failed", "Saved"}
    \/ \E w \in works : w.what = "Connect" /\ ~w.cut
    \/ \E i \in 1..Len(formQ) : formQ[i] = "Failed"
=============================================================================
