------------------------------ MODULE Watcher -------------------------------
(***************************************************************************)
(* The background watcher over one account: it owns the account's session  *)
(* (module Session), drains the events the session passes on, and keeps    *)
(* the connection state and the unread count the tray shows.               *)
(***************************************************************************)
EXTENDS Session

VARIABLES
  state,    \* AccountState of the account, or "absent"
  unread    \* Watched.unread

vars == <<sessionVars, state, unread>>

IsUp == state \in {"connected", "watching"}

(* request_unread: best effort. *)
RequestUnread == cmds' = TrySend(cmds, Cmd("FetchUnreadCounts"))

(* restart_account: the old session is dropped before the new one starts. *)
RestartAccount ==
  /\ FreshSession
  /\ state' = "connecting" /\ unread' = 0
  /\ UNCHANGED <<server, ui, toasted, floor>>

(* apply_accounts with the account in the list and its config changed, or new. *)
ApplyAdds ==
  /\ IF state = "absent" THEN UNCHANGED faults ELSE Fault
  /\ RestartAccount

(* apply_accounts without it: the session is dropped, a real logout. *)
ApplyRemoves ==
  /\ state # "absent" /\ Fault
  /\ DropSession /\ state' = "absent" /\ unread' = 0
  /\ UNCHANGED <<server, ui, toasted, floor>>

(* Mutant of HandlePolled: the count is asked for on connecting only. *)
HandlePolledSilent ==
  /\ state' = IF state = "connected" THEN "watching" ELSE state
  /\ UNCHANGED <<cmds, unread>>

(* A poll refreshes the count; the first one after connecting is the baseline. *)
HandlePolled ==
  /\ RequestUnread
  /\ state' = IF state = "connected" THEN "watching" ELSE state
  /\ UNCHANGED unread

(* Mutant of HandleConnected: connected is taken for watching. *)
HandleConnectedEager == RequestUnread /\ state' = "watching" /\ UNCHANGED unread

HandleConnected == RequestUnread /\ state' = "connected" /\ UNCHANGED unread

(* Watcher::handle for the next event; the account it names is the only key. *)
Handle ==
  /\ ui # <<>> /\ ui' = Tail(ui)
  /\ LET e == Head(ui).e IN
       IF state = "absent" THEN UNCHANGED <<cmds, state, unread>>
       ELSE \/ e.ev = "Connected" /\ HandleConnected
            \/ e.ev = "Disconnected" /\ state' = "connecting" /\ UNCHANGED <<cmds, unread>>
            \/ e.ev = "Error" /\ state' = (IF IsUp THEN state ELSE "failed") /\ UNCHANGED <<cmds, unread>>
            \/ e.ev = "MailboxPolled" /\ HandlePolled
            \/ e.ev = "UnreadCounts" /\ unread' = (IF e.counted THEN e.count ELSE unread) /\ UNCHANGED <<cmds, state>>
            \/ e.ev \in {"PollFailed", "NewHeaders"} /\ UNCHANGED <<cmds, state, unread>>
  /\ UNCHANGED <<server, link, creds, evs, forwarder, idleVars, gen, toasted, floor, faults>>

-----------------------------------------------------------------------------
Init == SessionInit /\ state = "absent" /\ unread = 0

Next ==
  \/ SessionNext /\ UNCHANGED <<state, unread>>
  \/ ApplyAdds \/ ApplyRemoves \/ Handle

Spec == Init /\ [][Next]_vars

(* The actor, the forwarder, the IDLE watch and the watcher are tasks the
   runtime keeps running, and the poll timer keeps ticking. *)
Fairness ==
  /\ WF_vars(ActorStep /\ UNCHANGED <<state, unread>>)
  /\ WF_vars(Forward /\ UNCHANGED <<state, unread>>)
  /\ WF_vars(PollTick /\ UNCHANGED <<state, unread>>)
  /\ WF_vars(IdleWake /\ UNCHANGED <<state, unread>>)
  /\ WF_vars((IdleConnects \/ IdleNewData \/ IdleAgain) /\ UNCHANGED <<state, unread>>)
  /\ WF_vars(Handle)

FairSpec == Spec /\ Fairness /\ WF_vars(state = "absent" /\ ApplyAdds)

-----------------------------------------------------------------------------
(* Type invariant of the session and its watcher; every channel stays within
   the capacity the code gives it. *)
TypeOK ==
  /\ mail \subseteq 1..(MaxChanges + 1) /\ unseen \subseteq mail
  /\ uidNext \in 1..(MaxChanges + 2) /\ validity \in Nat
  /\ Len(cmds) <= CmdQueue /\ Len(evs) <= EventQueue /\ Len(ui) <= UiQueue /\ wakes \in 0..WakeQueue
  /\ link \in {"none", "up", "broken"} /\ creds \in BOOLEAN /\ connected \in BOOLEAN /\ push \in BOOLEAN
  /\ idle \in {"off", "down", "idling", "between", "stopped"}
  /\ state \in {"absent", "connecting", "connected", "watching", "failed"} /\ unread \in Nat

(* An event of the live session that is still on its way to the watcher. *)
OnItsWay(names) ==
  \/ \E i \in 1..Len(ui) : ui[i].gen = gen /\ ui[i].e.ev \in names
  \/ \E i \in 1..Len(evs) : evs[i].ev \in names

(* "Connected and baselined: mail arriving from now on is announced": with no
   news of the connection on its way, and no event left over from a session the
   account had before, an account shown as watching has a watermark. *)
WatchingIsBaselined ==
  state = "watching" /\ gen = 1 /\ ~OnItsWay({"Connected", "Disconnected"}) => mark # NoMark

(* A message that was in the mailbox when the account was first baselined is
   never announced as new, whatever reconnects, pushes and restarts follow, as
   long as the mailbox only grows. *)
OldMailIsNotNew ==
  ~shrunk => \A m \in toasted : \E p \in floor : p[1] = m[1] /\ m[2] >= p[2]

(* A message that arrives while the forwarder has a watermark is announced,
   unless a connection is lost, the account is restarted or the mailbox shrinks. *)
NewMailIsAnnounced ==
  \A u \in 1..(MaxChanges + 1) :
    (u \in mail /\ connected /\ mark.validity = validity /\ u >= mark.next /\ faults = 0)
      ~> (<<validity, u>> \in toasted \/ faults > 0 \/ shrunk)

(* Once the mailbox is left alone, the watcher of an account whose connection
   stays up ends up watching and shows its unread count. *)
UnreadSettles ==
  <>[](faults = 0 => state = "watching" /\ unread = Cardinality(unseen))

=============================================================================
