------------------------- MODULE MessagePane_proofs -------------------------
(***************************************************************************)
(* Proofs about the reading pane, for every set of accounts, mailboxes and *)
(* uids and every bound.  The inductive invariant Inv says that what is    *)
(* wanted is what is selected, that the only fetch under way is the one    *)
(* BodyLoads knows of, and that a pending mark-as-read belongs to the      *)
(* selected message when their uids agree.                                 *)
(***************************************************************************)
EXTENDS MessagePane, TLAPS

(* BodyLoads.wanted is the selected message or nothing. *)
WantedIsSelected == wanted # None => selected = wanted.uid /\ selectedIn = FolderOf(wanted)

(* A pending mark whose uid is selected was scheduled for that very message. *)
PendingIsSelected ==
  pending # None /\ selected = pending =>
    selectedIn # None /\ pendingFor = [acct |-> selectedIn.acct, box |-> selectedIn.box, uid |-> pending]

Inv == TypeOK /\ WantedIsSelected /\ OneFetchAtATime /\ BodyUnderItsHeader /\ PendingIsSelected

(* What StartWanted leaves behind, when no fetch but `flying` is under way: a
   new fetch is started only when none is, so there is still at most one. *)
LEMMA StartWantedKeepsOne ==
  ASSUME TypeOK, NEW others \in SUBSET requests, NEW flying \in Load \cup {None}, NEW key \in Key \cup {None},
         flying # None => flying.id \in 1..lastId,
         \A r \in others : flying = [key |-> r.key, id |-> r.id] /\ \A s \in others : r = s,
         StartWanted(others, flying, key)
  PROVE  /\ lastId' \in Nat /\ inFlight' \in Load \cup {None} /\ requests' \subseteq Request /\ refused' \in Nat
         /\ inFlight' # None => inFlight'.id \in 1..lastId'
         /\ OneFetchAtATime'
<1> USE NoneAssumption
<1>1. others \subseteq Request
  BY DEF TypeOK
<1>2. CASE flying # None \/ key = None
  BY <1>1, <1>2 DEF StartWanted, TypeOK, OneFetchAtATime
<1>3. CASE ~(flying # None \/ key = None)
  <2>1. others = {}
    <3> SUFFICES ASSUME NEW r \in others PROVE FALSE
      OBVIOUS
    <3>1. [key |-> r.key, id |-> r.id] \in Load
      BY <1>1 DEF Request, Load
    <3> QED
      BY <3>1, <1>3
  <2> DEFINE new == [key |-> key, id |-> lastId + 1, at |-> "actor", retried |-> FALSE, ok |-> FALSE]
  <2>2. key \in Key /\ lastId \in Nat /\ refused \in Nat
    BY <1>3 DEF TypeOK
  <2>3. /\ lastId' = lastId + 1 /\ inFlight' = [key |-> key, id |-> lastId + 1]
        /\ requests' \subseteq {new} /\ refused' \in Nat
    BY <1>3, <2>1, <2>2 DEF StartWanted, FetchBody
  <2>4. new \in Request
    BY <2>2 DEF Request
  <2>5. \A r \in requests' : r = new
    BY <2>3
  <2>6. new.key = key /\ new.id = lastId + 1
    OBVIOUS
  <2>7. OneFetchAtATime'
    <3> HIDE DEF new
    <3> QED
      BY <2>3, <2>5, <2>6 DEF OneFetchAtATime
  <2>8. inFlight' \in Load /\ inFlight'.id \in 1..lastId'
    BY <2>2, <2>3 DEF Load
  <2>9. requests' \subseteq Request /\ lastId' \in Nat
    <3> HIDE DEF new
    <3> QED
      BY <2>2, <2>3, <2>4
  <2> QED
    BY <2>3, <2>7, <2>8, <2>9
<1> QED
  BY <1>2, <1>3

(* Moving a request along changes neither its key nor its id. *)
LEMMA MovedKeepsOne ==
  ASSUME TypeOK, OneFetchAtATime, UNCHANGED inFlight,
         NEW r \in requests, NEW at \in {"actor", "worker", "reply"}, NEW retried \in BOOLEAN, NEW ok \in BOOLEAN,
         Moved(r, at, retried, ok)
  PROVE  requests' \subseteq Request /\ OneFetchAtATime'
<1> DEFINE new == [r EXCEPT !.at = at, !.retried = retried, !.ok = ok]
<1>1. r \in Request
  BY DEF TypeOK
<1>2. new \in Request /\ new.key = r.key /\ new.id = r.id
  BY <1>1 DEF Request
<1>3. requests' = {new}
  BY DEF Moved, OneFetchAtATime
<1> HIDE DEF new
<1> QED
  BY <1>2, <1>3 DEF OneFetchAtATime

(* The invariant holds at the start. *)
LEMMA InitInv == Init => Inv
<1> SUFFICES ASSUME Init PROVE Inv
  OBVIOUS
<1>1. messageShown \in BOOLEAN
  BY Zenon DEF Init
<1>2. TypeOK
  BY <1>1, NoneAssumption DEF Init, TypeOK, Notice, Pane
<1>3. WantedIsSelected /\ OneFetchAtATime /\ BodyUnderItsHeader /\ PendingIsSelected
  BY DEF Init, WantedIsSelected, OneFetchAtATime, BodyUnderItsHeader, PendingIsSelected, Notice
<1> QED
  BY <1>2, <1>3 DEF Inv

(* A click on one message. *)
LEMMA SelectStep ==
  ASSUME Inv, NEW key \in Key, NEW unread \in BOOLEAN, Select(key, unread)
  PROVE  Inv'
<1> USE NoneAssumption DEF Inv
<1>1. /\ lastId' \in Nat /\ inFlight' \in Load \cup {None} /\ requests' \subseteq Request /\ refused' \in Nat
      /\ inFlight' # None => inFlight'.id \in 1..lastId'
      /\ OneFetchAtATime'
  <2>1. CASE wanted = key
    BY <2>1 DEF Select, Want, TypeOK, OneFetchAtATime
  <2>2. CASE wanted # key
    <3>1. StartWanted(requests, inFlight, key)
      BY <2>2 DEF Select, Want
    <3>2. inFlight \in Load \cup {None} /\ (inFlight # None => inFlight.id \in 1..lastId)
      BY DEF TypeOK
    <3>3. \A r \in requests : inFlight = [key |-> r.key, id |-> r.id] /\ \A s \in requests : r = s
      BY DEF OneFetchAtATime
    <3> HIDE DEF Inv
    <3> QED
      BY <3>1, <3>2, <3>3, StartWantedKeepsOne DEF Inv
  <2> QED
    BY <2>1, <2>2
<1>2. key.uid \in Uids /\ FolderOf(key) \in Folder
  BY DEF Key, Folder, FolderOf
<1>3. wanted' = key /\ selected' = key.uid /\ selectedIn' = FolderOf(key)
  BY DEF Select, Want
<1>4. \/ pending' = key.uid /\ pendingFor' = key
      \/ pending' = None /\ pendingFor' = None
  BY DEF Select, SeenFor, SeenCancel
<1>5. TypeOK'
  <2>1. messageShown' \in BOOLEAN
    BY Zenon DEF Select
  <2>2. UNCHANGED <<pane, marked, workers, sessions, reloads>> /\ clicks' = clicks + 1
    BY DEF Select
  <2> QED
    BY <1>1, <1>2, <1>3, <1>4, <2>1, <2>2 DEF TypeOK
<1>6. WantedIsSelected' /\ BodyUnderItsHeader'
  BY <1>3 DEF WantedIsSelected, BodyUnderItsHeader, Select
<1>7. PendingIsSelected'
  <2>1. key = [acct |-> key.acct, box |-> key.box, uid |-> key.uid]
    BY DEF Key
  <2>2. selectedIn'.acct = key.acct /\ selectedIn'.box = key.box /\ selectedIn' # None
    BY <1>2, <1>3 DEF FolderOf
  <2> QED
    BY <1>2, <1>4, <2>1, <2>2 DEF PendingIsSelected
<1> QED
  BY <1>1, <1>5, <1>6, <1>7

(* A body, or its failure, reaches the UI thread. *)
LEMMA BodyArrivedStep ==
  ASSUME Inv, NEW r \in requests, BodyArrived(r)
  PROVE  Inv'
<1> USE NoneAssumption
<1> DEFINE key == [acct |-> r.key.acct, box |-> selectedIn.box, uid |-> r.key.uid]
           header == [acct |-> selectedIn.acct, box |-> selectedIn.box, uid |-> selected]
<1>1. TypeOK /\ WantedIsSelected /\ OneFetchAtATime /\ BodyUnderItsHeader /\ PendingIsSelected
  BY DEF Inv
<1>2. r \in Request
  BY <1>1 DEF TypeOK
<1>3. requests = {r} /\ inFlight = [key |-> r.key, id |-> r.id]
  BY <1>1 DEF OneFetchAtATime
<1>4. UNCHANGED <<selected, selectedIn, wanted, pending, pendingFor, marked, workers, sessions, clicks, reloads>>
  BY DEF BodyArrived, IsWanted, seen
<1>5. WantedIsSelected' /\ PendingIsSelected'
  BY <1>1, <1>4 DEF WantedIsSelected, PendingIsSelected
<1>6. CASE selectedIn = None \/ ~Matches(key, r.id)
  <2>1. requests' = {} /\ UNCHANGED <<pane, messageShown, lastId, inFlight, refused>>
    BY <1>3, <1>6 DEF BodyArrived, IsWanted
  <2>2. TypeOK' /\ OneFetchAtATime' /\ BodyUnderItsHeader'
    BY <1>1, <1>4, <2>1 DEF TypeOK, OneFetchAtATime, BodyUnderItsHeader
  <2> QED
    BY <1>5, <2>2 DEF Inv
<1>7. CASE selectedIn # None /\ Matches(key, r.id)
  <2> DEFINE show == wanted = key
  <2>1. /\ IF show /\ selected # None
             THEN /\ pane' = Shown(IF r.ok THEN "message" ELSE "failed", header, r.key)
                  /\ messageShown' = TRUE
             ELSE UNCHANGED <<pane, messageShown>>
        /\ StartWanted(requests \ {r}, None, IF show THEN None ELSE wanted)
    BY <1>7 DEF BodyArrived, IsWanted
  <2>2. r.key = key
    BY <1>3, <1>7 DEF Matches
  <2>3. /\ lastId' \in Nat /\ inFlight' \in Load \cup {None} /\ requests' \subseteq Request /\ refused' \in Nat
        /\ inFlight' # None => inFlight'.id \in 1..lastId'
        /\ OneFetchAtATime'
    <3> DEFINE others == requests \ {r}
               next == IF show THEN None ELSE wanted
    <3>1. others \in SUBSET requests /\ next \in Key \cup {None} /\ None \in Load \cup {None} /\ others = {}
      BY <1>1, <1>3 DEF TypeOK
    <3>2. StartWanted(others, None, next)
      BY <2>1
    <3> HIDE DEF others, next
    <3> QED
      BY <1>1, <3>1, <3>2, StartWantedKeepsOne
  <2>4. pane' \in Pane /\ pane'.header = pane'.body /\ messageShown' \in BOOLEAN
    <3>1. CASE show /\ selected # None
      <4>1. wanted # None
        BY <1>1, <1>2, <2>2, <3>1 DEF Request
      <4>2. selected = key.uid /\ selectedIn = [acct |-> key.acct, box |-> key.box]
        BY <1>1, <3>1, <4>1 DEF WantedIsSelected, FolderOf
      <4>3. header = key
        BY <4>2
      <4>4. key \in Key
        BY <1>2, <2>2 DEF Request
      <4>5. pane' = [kind |-> IF r.ok THEN "message" ELSE "failed", header |-> key, body |-> key] /\ messageShown' = TRUE
        BY <2>1, <2>2, <3>1, <4>3 DEF Shown
      <4> QED
        BY <4>4, <4>5 DEF Pane
    <3>2. CASE ~(show /\ selected # None)
      BY <1>1, <2>1, <3>2 DEF TypeOK, BodyUnderItsHeader
    <3> QED
      BY <3>1, <3>2
  <2>5. TypeOK'
    BY <1>1, <1>4, <2>3, <2>4 DEF TypeOK
  <2> QED
    BY <1>5, <2>3, <2>4, <2>5 DEF Inv, BodyUnderItsHeader
<1> QED
  BY <1>6, <1>7

(* The steps of the actor and of the worker leave the UI thread alone. *)
LEMMA ImapStep ==
  ASSUME Inv, NEW r \in requests, ActorFetchBody(r) \/ WorkerConnect(r) \/ WorkerFetch(r)
  PROVE  Inv'
<1>1. TypeOK /\ OneFetchAtATime
  BY DEF Inv
<1>2. r \in Request
  BY <1>1 DEF TypeOK
<1>3. r.retried \in BOOLEAN /\ r.key.acct \in Accounts
  BY <1>2 DEF Request, Key
<1>4. UNCHANGED <<selection, loads, seen, workers, bounds>>
  BY DEF ActorFetchBody, WorkerConnect, WorkerFetch
<1>5. requests' \subseteq Request /\ OneFetchAtATime' /\ sessions' \subseteq Accounts
  <2>1. UNCHANGED inFlight
    BY <1>4 DEF loads
  <2>2. \A at \in {"actor", "worker", "reply"}, retried \in BOOLEAN, ok \in BOOLEAN :
          Moved(r, at, retried, ok) => requests' \subseteq Request /\ OneFetchAtATime'
    BY <1>1, <2>1, MovedKeepsOne
  <2>3. \/ Moved(r, "worker", FALSE, FALSE) \/ Moved(r, "reply", FALSE, FALSE) \/ Moved(r, "reply", r.retried, FALSE)
        \/ Moved(r, "reply", r.retried, TRUE) \/ Moved(r, "reply", TRUE, FALSE) \/ Moved(r, "worker", TRUE, FALSE)
        \/ UNCHANGED requests
    BY DEF ActorFetchBody, WorkerConnect, WorkerFetch
  <2>4. requests' \subseteq Request /\ OneFetchAtATime'
    <3>1. CASE UNCHANGED requests
      BY <1>1, <2>1, <3>1 DEF TypeOK, OneFetchAtATime
    <3>2. /\ TRUE \in BOOLEAN /\ FALSE \in BOOLEAN
          /\ "worker" \in {"actor", "worker", "reply"} /\ "reply" \in {"actor", "worker", "reply"}
      OBVIOUS
    <3> QED
      BY <1>3, <2>2, <2>3, <3>1, <3>2, Zenon
  <2>5. sessions' \subseteq Accounts
    BY <1>1, <1>3 DEF ActorFetchBody, WorkerConnect, WorkerFetch, TypeOK
  <2> QED
    BY <2>4, <2>5
<1> QED
  BY <1>4, <1>5 DEF Inv, TypeOK, WantedIsSelected, BodyUnderItsHeader, PendingIsSelected,
     selection, loads, seen, bounds

(* The steps that forget the selection, the fetch or the pending mark. *)
LEMMA ForgetStep ==
  ASSUME Inv, SelectSeveral \/ OpenFolder \/ ResetReadingPane \/ Gone \/ Reload \/ SeenTick
  PROVE  Inv'
<1> USE NoneAssumption DEF Inv
<1>1. Notice \in Pane /\ Notice.header = Notice.body
  BY DEF Notice, Pane
<1>2. CASE SelectSeveral
  BY <1>2 DEF SelectSeveral, Cancel, SeenCancel, selection, TypeOK, WantedIsSelected, OneFetchAtATime, BodyUnderItsHeader, PendingIsSelected
<1>3. CASE OpenFolder \/ ResetReadingPane \/ Gone
  <2>1. wanted' = None /\ selected' = None /\ pane' \in {pane, Notice} /\ messageShown' \in BOOLEAN
    BY <1>3 DEF OpenFolder, ResetReadingPane, Gone, Cancel, TypeOK
  <2>2. UNCHANGED <<lastId, inFlight, requests, refused, selectedIn, marked, workers, sessions, clicks, reloads>>
    BY <1>3 DEF OpenFolder, ResetReadingPane, Gone, Cancel, seen
  <2>3. pending' \in {pending, None} /\ pendingFor' \in {pendingFor, None}
    BY <1>3 DEF OpenFolder, ResetReadingPane, Gone, SeenCancel, seen
  <2> QED
    BY <1>1, <2>1, <2>2, <2>3 DEF TypeOK, WantedIsSelected, OneFetchAtATime, BodyUnderItsHeader, PendingIsSelected
<1>4. CASE Reload
  <2>1. messageShown' \in BOOLEAN
    BY <1>4, Zenon DEF Reload
  <2>2. TypeOK'
    BY <1>1, <1>4, <2>1 DEF Reload, SeenCancel, TypeOK
  <2>3. WantedIsSelected' /\ OneFetchAtATime' /\ BodyUnderItsHeader' /\ PendingIsSelected'
    BY <1>1, <1>4 DEF Reload, SeenCancel, WantedIsSelected, OneFetchAtATime, BodyUnderItsHeader, PendingIsSelected
  <2> QED
    BY <2>2, <2>3
<1>5. CASE SeenTick
  <2>1. marked' \subseteq Key
    BY <1>5 DEF SeenTick, TypeOK, Key, Folder
  <2> QED
    BY <1>5, <2>1 DEF SeenTick, SeenCancel, selection, loads, imap, bounds, TypeOK, WantedIsSelected, OneFetchAtATime, BodyUnderItsHeader, PendingIsSelected
<1> QED
  BY <1>2, <1>3, <1>4, <1>5

(* Every step preserves the invariant. *)
LEMMA NextInv == Inv /\ [Next]_vars => Inv'
<1> SUFFICES ASSUME Inv, [Next]_vars PROVE Inv'
  OBVIOUS
<1>1. CASE UNCHANGED vars
  BY <1>1 DEF vars, selection, loads, seen, imap, bounds, Inv, TypeOK, WantedIsSelected, OneFetchAtATime, BodyUnderItsHeader, PendingIsSelected
<1>2. ASSUME NEW key \in Key, NEW unread \in BOOLEAN, Select(key, unread) PROVE Inv'
  BY <1>2, SelectStep
<1>3. CASE SelectSeveral \/ OpenFolder \/ ResetReadingPane \/ Gone \/ Reload \/ SeenTick
  BY <1>3, ForgetStep
<1>4. ASSUME NEW a \in Accounts, Connect(a) PROVE Inv'
  BY <1>4 DEF Connect, selection, loads, seen, bounds, Inv, TypeOK, WantedIsSelected, OneFetchAtATime, BodyUnderItsHeader, PendingIsSelected
<1>5. ASSUME NEW r \in requests, Fetching(r) PROVE Inv'
  BY <1>5, ImapStep, BodyArrivedStep DEF Fetching
<1> QED
  BY <1>1, <1>2, <1>3, <1>4, <1>5 DEF Next, User

(* The invariant holds in every reachable state. *)
LEMMA InvHolds == Spec => []Inv
  BY InitInv, NextInv, PTL DEF Spec

(* Every variable of the pane, BodyLoads, the timer and the worker keeps its
   type. *)
THEOREM PaneTypes == Spec => []TypeOK
<1>1. Inv => TypeOK
  BY DEF Inv
<1> QED
  BY <1>1, InvHolds, PTL

(* A body is shown (and indexed) only under the header of the message it was
   fetched for. *)
THEOREM RightBodyShown == Spec => []BodyUnderItsHeader
<1>1. Inv => BodyUnderItsHeader
  BY DEF Inv
<1> QED
  BY <1>1, InvHolds, PTL

(* At most one body fetch is under way, over reloads and refused fetches. *)
THEOREM OneFetch == Spec => []OneFetchAtATime
<1>1. Inv => OneFetchAtATime
  BY DEF Inv
<1> QED
  BY <1>1, InvHolds, PTL

(* A delayed mark-as-read reaches the message it was scheduled for. *)
THEOREM SeenForItsMessage == Spec => SeenIsForItsMessage
<1>1. Inv /\ [Next]_vars => [\A k \in marked' \ marked : k = pendingFor]_vars
  <2> SUFFICES ASSUME Inv, Next, NEW k \in marked' \ marked PROVE k = pendingFor
    OBVIOUS
  <2>1. SeenTick
    BY DEF Next, User, Select, SelectSeveral, OpenFolder, ResetReadingPane, Gone, Reload, Connect, Fetching,
       ActorFetchBody, WorkerConnect, WorkerFetch, BodyArrived, IsWanted, seen
  <2> QED
    BY <2>1 DEF SeenTick, Inv, PendingIsSelected
<1> QED
  BY <1>1, InvHolds, PTL DEF Spec, SeenIsForItsMessage

(* The answer BodyLoads lets through is the one for the selected message. *)
LEMMA ShownIsWanted ==
  ASSUME Inv, NEW r \in requests, BodyArrived(r), pane' # pane
  PROVE  Pane_!Appear
<1> USE NoneAssumption
<1> DEFINE key == [acct |-> r.key.acct, box |-> selectedIn.box, uid |-> r.key.uid]
           header == [acct |-> selectedIn.acct, box |-> selectedIn.box, uid |-> selected]
<1>1. r.key \in Key /\ inFlight = [key |-> r.key, id |-> r.id]
  BY DEF Inv, TypeOK, Request, OneFetchAtATime
<1>2. /\ selectedIn # None /\ Matches(key, r.id) /\ IsWanted(key)
      /\ pane' = Shown(IF r.ok THEN "message" ELSE "failed", header, r.key)
      /\ wanted' = wanted
  BY DEF BodyArrived
<1>3. key = r.key
  BY <1>1, <1>2 DEF Matches
<1>4. wanted = r.key
  BY <1>2, <1>3 DEF IsWanted
<1>5. wanted # None
  BY <1>1, <1>4
<1>6. header = r.key
  <2>1. selected = r.key.uid /\ selectedIn = FolderOf(r.key)
    BY <1>4, <1>5 DEF Inv, WantedIsSelected
  <2>2. selectedIn.acct = r.key.acct
    BY <2>1 DEF FolderOf
  <2> QED
    BY <1>3, <2>1, <2>2
<1> QED
  BY <1>2, <1>4, <1>5, <1>6 DEF Pane_!Appear, Pane_!Answer, Shown

(* The reading pane implements what ReadingPane promises: every step of the
   application, the actor and the worker is a step of the promise or changes
   neither what is asked for nor what is shown. *)
THEOREM PaneKeepsPromise == Spec => KeepsPromise
<1>1. Init => Pane_!PromiseInit
  BY DEF Init, Pane_!PromiseInit
<1>2. Inv /\ [Next]_vars => [Pane_!PromiseNext]_(Pane_!promised)
  <2> SUFFICES ASSUME Inv, Next, ~UNCHANGED <<wanted, pane>> PROVE Pane_!PromiseNext
    BY DEF vars, selection, loads, Pane_!promised
  <2>1. CASE \E key \in Key, unread \in BOOLEAN : Select(key, unread)
    BY <2>1 DEF Select, Want, Pane_!PromiseNext, Pane_!Ask
  <2>2. CASE SelectSeveral \/ OpenFolder \/ ResetReadingPane \/ Gone \/ Reload
    BY <2>2 DEF SelectSeveral, OpenFolder, ResetReadingPane, Gone, Reload, Cancel, selection, Pane_!PromiseNext, Pane_!GiveUp
  <2>3. CASE \E r \in requests : BodyArrived(r)
    <3>1. PICK r \in requests : BodyArrived(r)
      BY <2>3
    <3>2. wanted' = wanted
      BY <3>1 DEF BodyArrived
    <3> QED
      BY <3>1, <3>2, ShownIsWanted DEF Pane_!PromiseNext
  <2>4. CASE SeenTick \/ (\E a \in Accounts : Connect(a)) \/ \E r \in requests : ActorFetchBody(r) \/ WorkerConnect(r) \/ WorkerFetch(r)
    BY <2>4 DEF SeenTick, Connect, ActorFetchBody, WorkerConnect, WorkerFetch, selection, loads
  <2> QED
    BY <2>1, <2>2, <2>3, <2>4 DEF Next, User, Fetching
<1> QED
  BY <1>1, <1>2, InvHolds, PTL DEF Spec, KeepsPromise, Pane_!Promise
=============================================================================
