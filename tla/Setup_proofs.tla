---------------------------- MODULE Setup_proofs ----------------------------
(***************************************************************************)
(* Proofs about SignIn, Process, Ipc, MockServer, Accounts and             *)
(* AccountForm, as MC_Setup composes them, for every value of the          *)
(* constants: SignInSound, InstanceIsOne, ServerSound, UidsAreForever and  *)
(* AccountsSound.                                                          *)
(*                                                                         *)
(* Signing in: two invariants that share no variable.  The attempt         *)
(* exchanges the code of its own page only, since a redirect with another  *)
(* state is turned away (GrantTyped); and whoever holds the token source's *)
(* lock is the one that refreshes, so that the token sent is the newest    *)
(* (LockTyped, NewestSent).                                                *)
(*                                                                         *)
(* The process: who owns the lock, the event, the window and the thread    *)
(* (Owners); what a launch is owed is in a file, in the thread's hands or  *)
(* in the window's queue (Accounted); and a file whose writer has          *)
(* signalled is ahead of the thread on its round, or the event is set for  *)
(* another (WillBeFound): a launch signals after its last file is there.   *)
(* Of the endpoint: a connection waits once, where it was made.            *)
(*                                                                         *)
(* The mail server: of each mail there is a message that nobody has marked *)
(* and no client may mark (AllLeft).  A client may mark what it has        *)
(* copied, and the copy is such a message, so the right to mark one is     *)
(* given only together with another.                                       *)
(*                                                                         *)
(* Accounts and their form: while a change is on its way three copies of   *)
(* the configuration differ: the one on screen, the one in config.toml and *)
(* the one that the reports still in the main window's queue will put on   *)
(* screen.  The inductive invariant follows the reports as a chain: each   *)
(* must be of a change to the configuration that the report before it      *)
(* leaves, or hearing it is noted as an overlap.  As long as the chain     *)
(* holds, config.toml and the keyring are as its last link says, but for   *)
(* what the one work that may run has written so far (SettledAtLast), and  *)
(* only one work runs (OneAtATime).  A refused call of the keyring changes *)
(* nothing of the chain: all it leaves behind is a secret too many.  Once  *)
(* the queue is empty the chain is empty, and what is written is what is   *)
(* shown.                                                                  *)
(***************************************************************************)
EXTENDS MC_Setup, Lists_proofs, FiniteSetTheorems, TLAPS

(***************************************************************************)
(* Signing in                                                              *)
(***************************************************************************)

Phases == {"off", "queued", "refreshing", "has token", "challenged", "in", "refused", "failed", "expired"}

(* The attempt: what it got is its own page's. *)
GrantTyped ==
  /\ stage \in {"idle", "waiting", "exchanging"} /\ (stage # "waiting" => backlog = <<>>)
  /\ client[2] = "none" \/ client[2] = client[1]
  /\ backlog = <<>> \/ \E hit : backlog = <<hit>> /\ (hit.kind = "redirect" /\ hit.what = "error" => hit.st \in declined)
  /\ stage = "exchanging" => code = attempt

(* The lock of the token source: whoever holds it refreshes. *)
LockTyped ==
  /\ waiters \in Seq(Callers) /\ holder \in Callers \union {NoCaller}
  /\ phase \in [Callers -> Phases]
  /\ \A c \in Callers : phase[c] = "refreshing" <=> holder = c

(* The refresh token sent is the one the provider takes, until an upset. *)
NewestSent ==
  /\ clock \in Nat /\ issuedAt \in Nat /\ minted \in Nat
  /\ upsets \subseteq {"cut", "revoked", "restarted", "rotation not saved"}
  /\ upsets = {} => source.refresh = valid

SignInInv == GrantTyped /\ SignInIsOwn /\ LockTyped /\ NewestSent

(* No attempt, nobody asks for a token. *)
LEMMA SignInStarts == SignInInit => SignInInv
<1> SUFFICES ASSUME SignInInit PROVE SignInInv
  OBVIOUS
<1>1. GrantTyped /\ SignInIsOwn
  BY DEF SignInInit, GrantTyped, SignInIsOwn
<1>2. LockTyped
  BY SignInAssumption DEF SignInInit, LockTyped, Phases
<1>3. NewestSent
  BY DEF SignInInit, NewestSent
<1> QED BY <1>1, <1>2, <1>3 DEF SignInInv

(* The attempt keeps to its own page. *)
LEMMA GrantStep == GrantTyped /\ SignInIsOwn /\ SignInNext => GrantTyped' /\ SignInIsOwn'
<1> SUFFICES ASSUME GrantTyped, SignInIsOwn, SignInNext PROVE GrantTyped' /\ SignInIsOwn'
  OBVIOUS
<1>1. CASE UNCHANGED grantVars
  BY <1>1 DEF grantVars, GrantTyped, SignInIsOwn
<1>2. CASE Begin
  <2>1. client'[2] = "none" \/ client'[2] = client'[1]
    <3>1. PICK offers \in Offers : client' = ResolveClient(offers)
      BY <1>2 DEF Begin
    <3> DEFINE s == Sources[Min({i \in 1..3 : offers[Sources[i]] \in {"id", "id and secret"}})]
    <3>2. client' = <<"none", "none">> \/ client' = <<s, IF offers[s] = "id and secret" THEN s ELSE "none">>
      BY <3>1 DEF ResolveClient
    <3> HIDE DEF s
    <3>3. client' = <<"none", "none">> \/ client' = <<s, s>> \/ client' = <<s, "none">>
      BY <3>2
    <3>4. \A a, b : <<a, b>>[1] = a /\ <<a, b>>[2] = b
      OBVIOUS
    <3>5. CASE client' = <<"none", "none">>
      BY <3>4, <3>5
    <3>6. CASE client' = <<s, s>>
      BY <3>4, <3>6
    <3>7. CASE client' = <<s, "none">>
      BY <3>4, <3>7
    <3> QED BY <3>3, <3>5, <3>6, <3>7
  <2> QED BY <1>2, <2>1 DEF Begin, GrantTyped, SignInIsOwn
<1>3. CASE AwaitRedirect
  <2>1. PICK hit : backlog = <<hit>> /\ (hit.kind = "redirect" /\ hit.what = "error" => hit.st \in declined)
    BY <1>3 DEF AwaitRedirect, GrantTyped
  <2>2. Head(backlog) = hit /\ Tail(backlog) = <<>>
    BY <2>1
  <2>3. UNCHANGED <<client, attempt, declined, redeemed>> /\ backlog' = <<>>
    BY <1>3, <2>2 DEF AwaitRedirect
  <2>4. CASE Verdict(hit) = "code"
    <3>1. hit.st = attempt /\ stage' = "exchanging" /\ code' = hit.st /\ ended' = ended
      BY <1>3, <2>2, <2>4 DEF AwaitRedirect, Verdict
    <3> QED BY <2>3, <3>1 DEF GrantTyped, SignInIsOwn
  <2>5. CASE Verdict(hit) = "declined"
    <3>1. hit.st = attempt /\ hit.what = "error" /\ hit.kind = "redirect" /\ stage' = "idle"
      BY <1>3, <2>2, <2>5 DEF AwaitRedirect, Verdict
    <3> QED BY <2>1, <2>3, <3>1 DEF GrantTyped, SignInIsOwn
  <2>6. CASE Verdict(hit) = "ignored"
    <3>1. stage' = "waiting" /\ ended' = ended
      BY <1>3, <2>2, <2>6 DEF AwaitRedirect
    <3> QED BY <2>3, <3>1 DEF GrantTyped, SignInIsOwn
  <2> QED BY <2>4, <2>5, <2>6 DEF Verdict
<1>4. CASE AbandonSignIn
  BY <1>4 DEF AbandonSignIn, GrantTyped, SignInIsOwn
<1>5. CASE ExchangeFails
  BY <1>5 DEF ExchangeFails, GrantTyped, SignInIsOwn
<1>6. ASSUME NEW seconds \in {1, 4}, ExchangeOk(seconds) PROVE GrantTyped' /\ SignInIsOwn'
  BY <1>6 DEF ExchangeOk, GrantTyped, SignInIsOwn
<1>7. CASE RestartClient
  BY <1>7 DEF RestartClient, GrantTyped, SignInIsOwn
<1>8. ASSUME NEW k \in 1..MaxSignIns, NEW what \in {"code", "error", "nothing"}, AnswersPage(k, what)
      PROVE  GrantTyped' /\ SignInIsOwn'
  <2>1. backlog' = <<Hit("redirect", k, what)>> /\ stage = "waiting"
        /\ UNCHANGED <<client, attempt, stage, code, redeemed, ended>>
    BY <1>8 DEF AnswersPage, Arrives
  <2>2. declined \subseteq declined' /\ (what = "error" => k \in declined')
    BY <1>8 DEF AnswersPage
  <2>3. Hit("redirect", k, what).what = what /\ Hit("redirect", k, what).st = k
    BY DEF Hit
  <2> QED BY <2>1, <2>2, <2>3 DEF GrantTyped, SignInIsOwn
<1>9. ASSUME NEW hit \in StrayHits, Stray(hit) PROVE GrantTyped' /\ SignInIsOwn'
  <2>1. backlog' = <<hit>> /\ stage = "waiting"
        /\ UNCHANGED <<client, attempt, stage, code, redeemed, ended, declined>>
    BY <1>9 DEF Stray, Arrives
  <2>2. hit.kind # "redirect"
    <3>1. PICK kind \in {"silent", "garbled", "other path"} : hit = Hit(kind, 0, "nothing")
      BY DEF StrayHits
    <3>2. hit.kind = kind
      BY <3>1 DEF Hit
    <3> QED BY <3>1, <3>2
  <2> QED BY <2>1, <2>2 DEF GrantTyped, SignInIsOwn
<1>10. CASE TakeLock \/ RefreshCut \/ Revoke \/ Tick
  BY <1>1, <1>10 DEF TakeLock, RefreshCut, Revoke, Tick
<1>11. ASSUME NEW seconds \in {1, 4}, NEW rotates \in BOOLEAN, Refreshed(seconds, rotates) PROVE GrantTyped' /\ SignInIsOwn'
  BY <1>1, <1>11 DEF Refreshed
<1>12. ASSUME NEW error \in {"invalid_grant", "unavailable"}, RefreshFails(error) PROVE GrantTyped' /\ SignInIsOwn'
  BY <1>1, <1>12 DEF RefreshFails
<1>13. ASSUME NEW c \in Callers, Ask(c) \/ Challenge(c) \/ HangsUp(c) PROVE GrantTyped' /\ SignInIsOwn'
  BY <1>1, <1>13 DEF Ask, Challenge, HangsUp
<1> QED BY <1>2, <1>3, <1>4, <1>5, <1>6, <1>7, <1>8, <1>9, <1>10, <1>11, <1>12, <1>13 DEF SignInNext

(* At most one connection refreshes, and it holds the lock. *)
LEMMA LockStep == LockTyped /\ SignInNext => LockTyped'
<1> SUFFICES ASSUME LockTyped, SignInNext PROVE LockTyped'
  OBVIOUS
<1> USE SignInAssumption
<1>1. CASE UNCHANGED <<waiters, holder, phase>>
  BY <1>1 DEF LockTyped
<1>2. ASSUME waiters' = <<>>, holder' = NoCaller, phase' = [c \in Callers |-> "off"] PROVE LockTyped'
  <2>1. <<>> \in Seq(Callers)
    OBVIOUS
  <2>2. phase' \in [Callers -> Phases] /\ \A c \in Callers : phase'[c] # "refreshing" /\ c # NoCaller
    BY <1>2 DEF Phases
  <2> QED BY <1>2, <2>1, <2>2 DEF LockTyped
<1>3. ASSUME NEW c \in Callers, phase[c] # "refreshing", NEW s \in Phases \ {"refreshing"}, phase' = [phase EXCEPT ![c] = s],
             waiters' \in Seq(Callers), holder' = holder
      PROVE  LockTyped'
  BY <1>3 DEF LockTyped
<1>4. ASSUME holder # NoCaller, holder' = NoCaller, waiters' = waiters, NEW s \in Phases \ {"refreshing"},
             phase' = [phase EXCEPT ![holder] = s]
      PROVE  LockTyped'
  BY <1>4 DEF LockTyped
<1>5. CASE TakeLock
  <2> DEFINE c == Head(waiters)
  <2>1. c \in Callers /\ waiters' \in Seq(Callers) /\ holder = NoCaller
    <3>1. waiters # <<>> /\ waiters' = Tail(waiters) /\ holder = NoCaller
      BY <1>5 DEF TakeLock
    <3>2. waiters \in Seq(Callers)
      BY DEF LockTyped
    <3> QED BY <3>1, <3>2
  <2>2. phase[c] # "refreshing"
    BY <2>1 DEF LockTyped
  <2>3. CASE source.exp > clock + EXPIRY_MARGIN
    <3>1. phase' = [phase EXCEPT ![c] = "has token"] /\ holder' = holder
      BY <1>5, <2>3 DEF TakeLock
    <3>2. "has token" \in Phases \ {"refreshing"}
      BY DEF Phases
    <3> QED BY <1>3, <2>1, <2>2, <3>1, <3>2
  <2>4. CASE ~(source.exp > clock + EXPIRY_MARGIN)
    <3>1. phase' = [phase EXCEPT ![c] = "refreshing"] /\ holder' = c
      BY <1>5, <2>4 DEF TakeLock
    <3> HIDE DEF c
    <3> QED BY <2>1, <3>1 DEF LockTyped, Phases
  <2> QED BY <2>3, <2>4
<1>6. CASE RefreshCut
  BY <1>4, <1>6 DEF RefreshCut, Phases
<1>7. CASE RestartClient
  BY <1>2, <1>7 DEF RestartClient
<1>8. ASSUME NEW seconds \in {1, 4}, ExchangeOk(seconds) PROVE LockTyped'
  BY <1>2, <1>8 DEF ExchangeOk
<1>9. ASSUME NEW seconds \in {1, 4}, NEW rotates \in BOOLEAN, Refreshed(seconds, rotates) PROVE LockTyped'
  BY <1>4, <1>9 DEF Refreshed, Phases
<1>10. ASSUME NEW error \in {"invalid_grant", "unavailable"}, RefreshFails(error) PROVE LockTyped'
  <2>1. TokenError(error) \in {"expired", "failed"}
    BY DEF TokenError
  <2>2. TokenError(error) \in Phases \ {"refreshing"}
    BY <2>1 DEF Phases
  <2> QED BY <1>4, <1>10, <2>2 DEF RefreshFails
<1>11. ASSUME NEW c \in Callers, Ask(c) PROVE LockTyped'
  <2>1. Append(waiters, c) \in Seq(Callers)
    BY DEF LockTyped
  <2> QED BY <1>3, <1>11, <2>1 DEF Ask, Phases
<1>12. ASSUME NEW c \in Callers, Challenge(c) PROVE LockTyped'
  <2>1. waiters \in Seq(Callers)
    BY DEF LockTyped
  <2> QED BY <1>3, <1>12, <2>1 DEF Challenge, Phases
<1>13. ASSUME NEW c \in Callers, HangsUp(c) PROVE LockTyped'
  <2>1. waiters \in Seq(Callers)
    BY DEF LockTyped
  <2> QED BY <1>3, <1>13, <2>1 DEF HangsUp, Phases
<1>14. CASE Begin \/ AwaitRedirect \/ AbandonSignIn \/ ExchangeFails \/ Revoke \/ Tick
  BY <1>1, <1>14 DEF Begin, AwaitRedirect, AbandonSignIn, ExchangeFails, Revoke, Tick, tokenVars
<1>15. ASSUME NEW k \in 1..MaxSignIns, NEW what \in {"code", "error", "nothing"}, AnswersPage(k, what) PROVE LockTyped'
  BY <1>1, <1>15 DEF AnswersPage, Arrives, tokenVars
<1>16. ASSUME NEW hit \in StrayHits, Stray(hit) PROVE LockTyped'
  BY <1>1, <1>16 DEF Stray, Arrives, tokenVars
<1> QED BY <1>5, <1>6, <1>7, <1>8, <1>9, <1>10, <1>11, <1>12, <1>13, <1>14, <1>15, <1>16 DEF SignInNext

(* The source follows the provider through every rotation it hears of. *)
LEMMA NewestStep == NewestSent /\ SignInNext => NewestSent'
<1> SUFFICES ASSUME NewestSent, SignInNext PROVE NewestSent'
  OBVIOUS
<1>1. CASE UNCHANGED <<source, valid, minted, issuedAt, clock, upsets>>
  BY <1>1 DEF NewestSent
<1>2. CASE UNCHANGED <<clock, issuedAt>> /\ minted' \in Nat /\ \E w \in {"cut", "revoked", "restarted", "rotation not saved"} : Trouble(w)
  BY <1>2 DEF Trouble, NewestSent
<1>3. CASE RefreshCut \/ Revoke \/ RestartClient
  <2>1. minted' \in Nat
    <3>1. minted \in Nat
      BY DEF NewestSent
    <3>2. minted' = minted \/ minted' = minted + 1
      BY <1>3 DEF RefreshCut, Revoke, RestartClient
    <3> QED BY <3>1, <3>2
  <2> QED BY <1>2, <1>3, <2>1 DEF RefreshCut, Revoke, RestartClient
<1>4. ASSUME NEW seconds \in {1, 4}, ExchangeOk(seconds) PROVE NewestSent'
  <2>1. minted' = minted + 1 /\ valid' = minted + 1 /\ source'.refresh = minted + 1 /\ issuedAt' = clock
        /\ UNCHANGED <<clock, upsets>>
    BY <1>4 DEF ExchangeOk, Calm
  <2>2. minted \in Nat /\ clock \in Nat
    BY DEF NewestSent
  <2>3. minted' \in Nat
    BY <2>1, <2>2
  <2> QED BY <2>1, <2>2, <2>3 DEF NewestSent
<1>5. ASSUME NEW seconds \in {1, 4}, NEW rotates \in BOOLEAN, Refreshed(seconds, rotates) PROVE NewestSent'
  <2>1. UNCHANGED <<upsets, clock, issuedAt>> /\ source.refresh = valid
    BY <1>5 DEF Refreshed, Calm, Taken
  <2>m. minted \in Nat /\ minted + 1 \in Nat /\ minted + 1 # 0 /\ (minted' = minted \/ minted' = minted + 1)
    <3>1. minted \in Nat
      BY DEF NewestSent
    <3>2. minted' = minted \/ minted' = minted + 1
      BY <1>5 DEF Refreshed
    <3> QED BY <3>1, <3>2
  <2>2. CASE rotates
    <3>1. valid' = minted + 1 /\ source' = Rotate(minted + 1, clock + Lifetime(seconds)) /\ minted < MaxTokens
      BY <1>5, <2>2 DEF Refreshed
    <3>2. source'.refresh = minted + 1 \/ (minted + 1 = 0 /\ source'.refresh = source.refresh)
      BY <3>1 DEF Rotate
    <3> QED BY <2>1, <2>m, <3>1, <3>2 DEF NewestSent
  <2>3. CASE ~rotates
    <3>1. valid' = valid /\ source' = Rotate(0, clock + Lifetime(seconds))
      BY <1>5, <2>3 DEF Refreshed
    <3> QED BY <2>1, <2>m, <3>1 DEF NewestSent, Rotate
  <2> QED BY <2>2, <2>3
<1>6. CASE Tick
  <2>1. clock \in Nat /\ clock' = clock + 1 /\ UNCHANGED <<source, valid, minted, issuedAt, upsets>>
    BY <1>6 DEF Tick, Calm, NewestSent
  <2>2. clock' \in Nat
    BY <2>1
  <2> QED BY <2>1, <2>2 DEF NewestSent
<1>7. CASE Begin \/ AwaitRedirect \/ AbandonSignIn \/ ExchangeFails \/ TakeLock
  BY <1>1, <1>7 DEF Begin, AwaitRedirect, AbandonSignIn, ExchangeFails, TakeLock, Calm
<1>8. ASSUME NEW k \in 1..MaxSignIns, NEW what \in {"code", "error", "nothing"}, AnswersPage(k, what) PROVE NewestSent'
  BY <1>1, <1>8 DEF AnswersPage, Arrives, Calm
<1>9. ASSUME NEW hit \in StrayHits, Stray(hit) PROVE NewestSent'
  BY <1>1, <1>9 DEF Stray, Arrives, Calm
<1>10. ASSUME NEW error \in {"invalid_grant", "unavailable"}, RefreshFails(error) PROVE NewestSent'
  BY <1>1, <1>10 DEF RefreshFails, Calm
<1>11. ASSUME NEW c \in Callers, Ask(c) \/ Challenge(c) \/ HangsUp(c) PROVE NewestSent'
  BY <1>1, <1>11 DEF Ask, Challenge, HangsUp, Calm
<1> QED BY <1>3, <1>4, <1>5, <1>6, <1>7, <1>8, <1>9, <1>10, <1>11 DEF SignInNext

(* The invariant gives what is checked. *)
LEMMA SignInImplies == SignInInv => SignInTypeOK /\ SignInIsOwn /\ RefreshesWithNewest
<1> SUFFICES ASSUME SignInInv PROVE SignInTypeOK /\ RefreshesWithNewest
  BY DEF SignInInv
<1>1. SignInTypeOK
  BY DEF SignInInv, GrantTyped, LockTyped, NewestSent, SignInTypeOK, Phases
<1>2. ASSUME ~Taken, upsets = {} PROVE Notice # "none"
  <2>1. issuedAt # 0 /\ ~(clock < issuedAt + TESTING_LIFETIME)
    BY <1>2 DEF SignInInv, NewestSent, Taken
  <2>2. ExpiringSoon(issuedAt, clock)
    <3>1. clock \in Nat /\ issuedAt \in Nat
      BY DEF SignInInv, NewestSent
    <3> QED BY <2>1, <3>1 DEF ExpiringSoon, TESTING_LIFETIME, WARNING_MARGIN
  <2> QED BY <2>2 DEF Notice
<1> QED BY <1>1, <1>2 DEF RefreshesWithNewest

(* Whatever pages are left open from earlier attempts and whatever else
   connects to the loopback port, a sign-in ends with the answer to its own
   page; one connection at a time refreshes, and it sends the newest refresh
   token, or there was an upset, or the notice bar warns (oauth.rs: begin,
   await_redirect, TokenSource::access_token, rotate). *)
THEOREM SignInIsSound == MCSpec => []SignInSound
<1> DEFINE I == part = "sign in" => SignInInv
<1>1. MCInit => I
  BY SignInStarts DEF MCInit
<1>2. I /\ [MCNext]_setupVars => I'
  <2> SUFFICES ASSUME SignInInv, part = "sign in", [MCNext]_setupVars PROVE SignInInv'
    BY DEF MCNext, setupVars
  <2>1. CASE SignInNext
    BY <2>1, GrantStep, LockStep, NewestStep DEF SignInInv
  <2>2. CASE UNCHANGED signInVars
    BY <2>2 DEF signInVars, grantVars, tokenVars, SignInInv, GrantTyped, SignInIsOwn, LockTyped, NewestSent
  <2> QED BY <2>1, <2>2 DEF MCNext, setupVars
<1>3. I => SignInSound
  BY SignInImplies DEF SignInSound
<1> QED BY <1>1, <1>2, <1>3, PTL DEF MCSpec

(***************************************************************************)
(* The endpoint                                                            *)
(***************************************************************************)

ListenerStates == {"off", "binding", "replacing", "listening", "refused", "dead"}
PeerStates == {"new", "queued", "talking", "connected", "refused", "timed out"}
Connection == [at : PeerStates, to : Nat, says : Says, token : Nat, welcomed : BOOLEAN]

IpcTyped ==
  /\ transport \in {"pipe", "socket", "memory"} /\ name \in 0..MaxListeners /\ tokenFile \in 0..MaxListeners
  /\ listener \in [Listeners -> ListenerStates] /\ replaced \in BOOLEAN
  /\ peer \in [Peers -> Connection]
  /\ queue \in [Listeners -> Seq(Peers)] /\ serving \in [Listeners -> 0..MaxPeers]

(* The name leads to whoever listens, until a live listener's was taken. *)
NameLeads == ~replaced => \A l \in Listeners : listener[l] = "listening" => name = l

(* A connection waits once, at the listener it was made to, and is served by that one. *)
QueueIsOwn ==
  \A l \in Listeners : \A i \in 1..Len(queue[l]) :
    peer[queue[l][i]].to = l /\ peer[queue[l][i]].at \in {"queued", "timed out"}

QueuedOnce ==
  \A l \in Listeners : \A i, j \in 1..Len(queue[l]) : queue[l][i] = queue[l][j] => i = j

ServesOwn ==
  \A l \in Listeners : serving[l] # 0 =>
    listener[l] = "listening" /\ peer[serving[l]].to = l /\ peer[serving[l]].at # "new"

(* Who was welcomed had said Hello with the token of the session it reached. *)
WelcomesOwn ==
  \A p \in Peers : (peer[p].welcomed \/ peer[p].at = "connected") =>
    peer[p].token = peer[p].to /\ peer[p].says = "Hello" /\ peer[p].welcomed

IpcInv == IpcTyped /\ NameLeads /\ QueueIsOwn /\ QueuedOnce /\ ServesOwn /\ WelcomesOwn

(* No listener, no connection. *)
LEMMA IpcStarts == IpcInit => IpcInv
<1> SUFFICES ASSUME IpcInit PROVE IpcInv
  OBVIOUS
<1> USE IpcAssumption
<1>1. IpcTyped
  <2>1. transport \in {"pipe", "socket", "memory"} /\ name \in 0..MaxListeners /\ tokenFile \in 0..MaxListeners
    BY DEF IpcInit
  <2>2. listener \in [Listeners -> ListenerStates]
    BY DEF IpcInit, ListenerStates
  <2>3. peer \in [Peers -> Connection]
    <3>1. [at |-> "new", to |-> 0, says |-> "nothing", token |-> 0, welcomed |-> FALSE] \in Connection
      BY DEF Connection, PeerStates, Says
    <3> QED BY <3>1 DEF IpcInit
  <2>4. queue \in [Listeners -> Seq(Peers)]
    BY DEF IpcInit
  <2>5. serving \in [Listeners -> 0..MaxPeers]
    BY DEF IpcInit
  <2>6. replaced \in BOOLEAN
    BY DEF IpcInit
  <2> QED BY <2>1, <2>2, <2>3, <2>4, <2>5, <2>6 DEF IpcTyped
<1>2. NameLeads /\ ServesOwn
  BY DEF IpcInit, NameLeads, ServesOwn
<1>3. QueueIsOwn /\ QueuedOnce
  <2>1. \A l \in Listeners : queue[l] = <<>>
    BY DEF IpcInit
  <2>2. \A l \in Listeners : Len(queue[l]) = 0
    BY <2>1
  <2>3. \A l \in Listeners : 1..Len(queue[l]) = {}
    BY <2>2
  <2> QED BY <2>3 DEF QueueIsOwn, QueuedOnce
<1>4. WelcomesOwn
  BY DEF IpcInit, WelcomesOwn
<1> QED BY <1>1, <1>2, <1>3, <1>4 DEF IpcInv

(* What a handshake does to a connection. *)
LEMMA HandshakeDoes ==
  ASSUME IpcTyped, NEW l \in Listeners, Handshake(l)
  PROVE  \A q \in Peers :
           \/ peer'[q] = peer[q]
           \/ q = serving[l] /\ peer'[q] = [peer[q] EXCEPT !.at = "refused"] /\ peer[q].at = "talking"
           \/ /\ q = serving[l] /\ Passes(l, q)
              /\ \E s \in {"connected", peer[q].at} :
                   /\ s # peer[q].at => peer[q].at = "talking"
                   /\ peer'[q] = [peer[q] EXCEPT !.at = s, !.welcomed = TRUE]
<1> SUFFICES ASSUME NEW q \in Peers
             PROVE  \/ peer'[q] = peer[q]
                    \/ q = serving[l] /\ peer'[q] = [peer[q] EXCEPT !.at = "refused"] /\ peer[q].at = "talking"
                    \/ /\ q = serving[l] /\ Passes(l, q)
                       /\ \E s \in {"connected", peer[q].at} :
                            /\ s # peer[q].at => peer[q].at = "talking"
                            /\ peer'[q] = [peer[q] EXCEPT !.at = s, !.welcomed = TRUE]
  OBVIOUS
<1>0. peer[q] \in Connection
  BY DEF IpcTyped
<1>1. CASE q # serving[l]
  BY <1>1 DEF Handshake, IpcTyped
<1>2. CASE q = serving[l]
  <2> DEFINE s == IF peer[q].at = "talking" THEN IF Passes(l, q) THEN "connected" ELSE "refused" ELSE peer[q].at
  <2>1. peer'[q] = [peer[q] EXCEPT !.at = s, !.welcomed = peer[q].welcomed \/ Passes(l, q)]
    BY <1>0, <1>2 DEF Handshake, IpcTyped, Connection
  <2>2. CASE Passes(l, q)
    <3>1. s \in {"connected", peer[q].at} /\ (s # peer[q].at => peer[q].at = "talking")
      BY <2>2
    <3>2. (peer[q].welcomed \/ Passes(l, q)) = TRUE
      BY <2>2
    <3> HIDE DEF s
    <3> QED BY <1>2, <2>1, <2>2, <3>1, <3>2
  <2>3. CASE ~Passes(l, q)
    <3>1. peer[q].welcomed \in BOOLEAN
      BY <1>0 DEF Connection
    <3>2. (peer[q].welcomed \/ Passes(l, q)) = peer[q].welcomed
      BY <2>3, <3>1
    <3>3. peer'[q] = [peer[q] EXCEPT !.at = s, !.welcomed = peer[q].welcomed]
      BY <2>1, <3>2
    <3>4. s = peer[q].at \/ (s = "refused" /\ peer[q].at = "talking")
      BY <2>3
    <3> HIDE DEF s
    <3>5. CASE s = peer[q].at
      <4>1. peer'[q] = peer[q]
        BY <1>0, <3>3, <3>5 DEF Connection
      <4> QED BY <4>1
    <3>6. CASE s = "refused" /\ peer[q].at = "talking"
      <4>1. peer'[q] = [peer[q] EXCEPT !.at = "refused"]
        BY <1>0, <3>3, <3>6 DEF Connection
      <4> QED BY <1>2, <3>6, <4>1
    <3> QED BY <3>4, <3>5, <3>6
  <2> QED BY <2>2, <2>3
<1> QED BY <1>1, <1>2

(* Everybody but the one being served is left alone. *)
LEMMA HandshakeKeeps ==
  ASSUME IpcTyped, NEW l \in Listeners, Handshake(l)
  PROVE  \A q \in Peers : peer'[q].to = peer[q].to /\ (peer'[q].at = peer[q].at \/ (peer[q].at = "talking" /\ peer'[q].at # "new"))
<1> SUFFICES ASSUME NEW q \in Peers
             PROVE  peer'[q].to = peer[q].to /\ (peer'[q].at = peer[q].at \/ (peer[q].at = "talking" /\ peer'[q].at # "new"))
  OBVIOUS
<1>1. peer[q] \in Connection
  BY DEF IpcTyped
<1>2. CASE peer'[q] = peer[q]
  BY <1>2
<1>3. CASE peer'[q] = [peer[q] EXCEPT !.at = "refused"] /\ peer[q].at = "talking"
  BY <1>1, <1>3 DEF Connection
<1>4. CASE \E s \in {"connected", peer[q].at} :
             (s # peer[q].at => peer[q].at = "talking") /\ peer'[q] = [peer[q] EXCEPT !.at = s, !.welcomed = TRUE]
  <2>1. PICK s \in {"connected", peer[q].at} :
             (s # peer[q].at => peer[q].at = "talking") /\ peer'[q] = [peer[q] EXCEPT !.at = s, !.welcomed = TRUE]
    BY <1>4
  <2>2. peer'[q].to = peer[q].to /\ peer'[q].at = s
    BY <1>1, <2>1 DEF Connection
  <2> QED BY <2>1, <2>2
<1> QED BY <1>2, <1>3, <1>4, HandshakeDoes

(* The types are kept. *)
LEMMA IpcTypes == IpcTyped /\ IpcNext => IpcTyped'
<1> SUFFICES ASSUME IpcTyped, IpcNext PROVE IpcTyped'
  OBVIOUS
<1> USE IpcAssumption
<1>1. ASSUME NEW l \in Listeners, Bind(l) PROVE IpcTyped'
  <2>1. name' \in 0..MaxListeners
    BY <1>1 DEF Bind, IpcTyped, Listeners
  <2>2. listener' \in [Listeners -> ListenerStates]
    BY <1>1 DEF Bind, IpcTyped, ListenerIs, ListenerStates
  <2> QED BY <1>1, <2>1, <2>2 DEF Bind, IpcTyped
<1>2. ASSUME NEW l \in Listeners, Rebind(l) PROVE IpcTyped'
  <2>1. name' \in 0..MaxListeners
    BY <1>2 DEF Rebind, Listeners
  <2>2. listener' \in [Listeners -> ListenerStates]
    BY <1>2 DEF Rebind, IpcTyped, ListenerIs, ListenerStates
  <2>3. replaced' \in BOOLEAN
    BY <1>2 DEF Rebind, IpcTyped
  <2> QED BY <1>2, <2>1, <2>2, <2>3 DEF Rebind, IpcTyped
<1>3. ASSUME NEW l \in Listeners, WriteToken(l) PROVE IpcTyped'
  BY <1>3 DEF WriteToken, IpcTyped, Listeners
<1>4. ASSUME NEW l \in Listeners, ListenerEnds(l) PROVE IpcTyped'
  <2>1. name' \in 0..MaxListeners
    BY <1>4 DEF ListenerEnds, IpcTyped
  <2>2. listener' \in [Listeners -> ListenerStates]
    BY <1>4 DEF ListenerEnds, IpcTyped, ListenerIs, ListenerStates
  <2>3. peer' \in [Peers -> Connection]
    BY <1>4 DEF ListenerEnds, IpcTyped, Connection, PeerStates
  <2>4. queue' \in [Listeners -> Seq(Peers)]
    <3>1. <<>> \in Seq(Peers)
      OBVIOUS
    <3> QED BY <1>4, <3>1 DEF ListenerEnds, IpcTyped
  <2>5. serving' \in [Listeners -> 0..MaxPeers]
    BY <1>4 DEF ListenerEnds, IpcTyped
  <2> QED BY <1>4, <2>1, <2>2, <2>3, <2>4, <2>5 DEF ListenerEnds, IpcTyped
<1>5. ASSUME NEW p \in Peers, NEW says \in Says, NEW knows \in {0, 1} \union {tokenFile}, Connect(p, says, knows) PROVE IpcTyped'
  <2>0. name \in Listeners /\ name \in Nat /\ knows \in Nat
    BY <1>5 DEF IpcTyped, Connect, Alive, Listeners
  <2>1. [at |-> "queued", to |-> name, says |-> says, token |-> knows, welcomed |-> FALSE] \in Connection
    BY <2>0 DEF Connection, PeerStates
  <2>2. peer' \in [Peers -> Connection]
    BY <1>5, <2>1 DEF Connect, IpcTyped
  <2>3. queue' \in [Listeners -> Seq(Peers)]
    <3>1. queue[name] \in Seq(Peers)
      BY <2>0 DEF IpcTyped
    <3>2. Append(queue[name], p) \in Seq(Peers)
      BY <3>1
    <3> QED BY <1>5, <2>0, <3>2 DEF Connect, IpcTyped
  <2> QED BY <1>5, <2>2, <2>3 DEF Connect, IpcTyped
<1>6. ASSUME NEW l \in Listeners, Accept(l) PROVE IpcTyped'
  <2> DEFINE p == Head(queue[l])
  <2>0. queue[l] \in Seq(Peers) /\ queue[l] # <<>>
    BY <1>6 DEF Accept, IpcTyped
  <2>a. p \in Peers /\ Tail(queue[l]) \in Seq(Peers)
    BY <2>0
  <2>1. p \in Peers /\ Tail(queue[l]) \in Seq(Peers) /\ p \in 0..MaxPeers
    BY <2>a DEF Peers
  <2>2. serving' = [serving EXCEPT ![l] = p] /\ queue' = [queue EXCEPT ![l] = Tail(queue[l])]
        /\ peer' = [peer EXCEPT ![p].at = IF peer[p].at = "queued" THEN "talking" ELSE peer[p].at]
    BY <1>6 DEF Accept, IpcTyped
  <2> HIDE DEF p
  <2>3. peer' \in [Peers -> Connection]
    BY <2>1, <2>2 DEF IpcTyped, Connection, PeerStates
  <2>4. queue' \in [Listeners -> Seq(Peers)] /\ serving' \in [Listeners -> 0..MaxPeers]
    BY <2>1, <2>2 DEF IpcTyped
  <2> QED BY <1>6, <2>3, <2>4 DEF Accept, IpcTyped
<1>7. ASSUME NEW l \in Listeners, Handshake(l) PROVE IpcTyped'
  <2>1. serving[l] \in Peers
    BY <1>7 DEF Handshake, IpcTyped, Peers
  <2>2. peer' \in [Peers -> Connection]
    <3>1. \A q \in Peers : peer'[q] \in Connection
      <4> SUFFICES ASSUME NEW q \in Peers PROVE peer'[q] \in Connection
        OBVIOUS
      <4>1. peer[q] \in Connection
        BY DEF IpcTyped
      <4>2. CASE peer'[q] = peer[q]
        BY <4>1, <4>2
      <4>3. CASE peer'[q] = [peer[q] EXCEPT !.at = "refused"]
        BY <4>1, <4>3 DEF Connection, PeerStates
      <4>4. CASE \E s \in {"connected", peer[q].at} : peer'[q] = [peer[q] EXCEPT !.at = s, !.welcomed = TRUE]
        BY <4>1, <4>4 DEF Connection, PeerStates
      <4> QED BY <1>7, <4>2, <4>3, <4>4, HandshakeDoes
    <3>2. peer' = [q \in Peers |-> peer'[q]]
      BY <1>7 DEF Handshake, IpcTyped
    <3> QED BY <3>1, <3>2
  <2>3. serving' \in [Listeners -> 0..MaxPeers]
    BY <1>7 DEF Handshake, IpcTyped
  <2> QED BY <1>7, <2>2, <2>3 DEF Handshake, IpcTyped
<1>8. ASSUME NEW p \in Peers, GiveUp(p) PROVE IpcTyped'
  <2>1. peer' \in [Peers -> Connection]
    BY <1>8 DEF GiveUp, IpcTyped, Connection, PeerStates
  <2> QED BY <1>8, <2>1 DEF GiveUp, IpcTyped
<1> QED BY <1>1, <1>2, <1>3, <1>4, <1>5, <1>6, <1>7, <1>8 DEF IpcNext

(* A name is taken only when it is free, or its holder is dead or now replaced. *)
LEMMA NameStep == IpcTyped /\ NameLeads /\ IpcNext => NameLeads'
<1> SUFFICES ASSUME IpcTyped, NameLeads, IpcNext, ~replaced', NEW k \in Listeners, listener'[k] = "listening" PROVE name' = k
  BY DEF NameLeads
<1> USE IpcAssumption DEF Listeners
<1>1. CASE UNCHANGED <<listener, name, replaced>>
  BY <1>1 DEF NameLeads
<1>2. ASSUME NEW l \in Listeners, Bind(l) PROVE name' = k
  <2>1. CASE name = 0
    BY <1>2, <2>1 DEF Bind, ListenerIs, NameLeads, IpcTyped
  <2>2. CASE name # 0
    BY <1>2, <2>2 DEF Bind, ListenerIs, NameLeads, IpcTyped
  <2> QED BY <2>1, <2>2
<1>3. ASSUME NEW l \in Listeners, Rebind(l) PROVE name' = k
  <2>1. ~replaced /\ ~Alive(name)
    BY <1>3 DEF Rebind, IpcTyped
  <2>2. k = l
    BY <1>3, <2>1 DEF Rebind, ListenerIs, NameLeads, IpcTyped, Alive
  <2> QED BY <1>3, <2>2 DEF Rebind
<1>4. ASSUME NEW l \in Listeners, ListenerEnds(l) PROVE name' = k
  BY <1>4 DEF ListenerEnds, ListenerIs, NameLeads, IpcTyped
<1>5. ASSUME NEW l \in Listeners, WriteToken(l) \/ Accept(l) \/ Handshake(l) PROVE name' = k
  BY <1>1, <1>5 DEF WriteToken, Accept, Handshake
<1>6. ASSUME NEW p \in Peers, NEW says \in Says, NEW knows \in {0, 1} \union {tokenFile}, Connect(p, says, knows) PROVE name' = k
  BY <1>1, <1>6 DEF Connect
<1>7. ASSUME NEW p \in Peers, GiveUp(p) PROVE name' = k
  BY <1>1, <1>7 DEF GiveUp
<1> QED BY <1>2, <1>3, <1>4, <1>5, <1>6, <1>7 DEF IpcNext

(* The queues and the handshakes, whatever their peers do meanwhile. *)
LEMMA OnceStep == IpcTyped /\ QueueIsOwn /\ QueuedOnce /\ IpcNext => QueuedOnce'
<1> SUFFICES ASSUME IpcTyped, QueueIsOwn, QueuedOnce, IpcNext, NEW k \in Listeners,
                    NEW i \in 1..Len(queue'[k]), NEW j \in 1..Len(queue'[k]), queue'[k][i] = queue'[k][j]
             PROVE  i = j
  BY DEF QueuedOnce
<1> USE IpcAssumption
<1>0. queue[k] \in Seq(Peers) /\ Len(queue[k]) \in Nat
  BY DEF IpcTyped
<1>1. CASE queue'[k] = queue[k]
  BY <1>1 DEF QueuedOnce
<1>2. CASE queue'[k] = <<>>
  BY <1>2
<1>3. CASE queue[k] # <<>> /\ queue'[k] = Tail(queue[k])
  <2>1. i + 1 \in 1..Len(queue[k]) /\ queue'[k][i] = queue[k][i + 1] /\ j + 1 \in 1..Len(queue[k]) /\ queue'[k][j] = queue[k][j + 1]
    BY <1>0, <1>3
  <2>2. i + 1 = j + 1
    BY <2>1 DEF QueuedOnce
  <2> QED BY <2>2
<1>4. ASSUME NEW p \in Peers, peer[p].at = "new", queue'[k] = Append(queue[k], p) PROVE i = j
  <2>1. \A h \in 1..Len(queue[k]) : queue[k][h] # p
    BY <1>4 DEF QueueIsOwn
  <2>2. /\ Len(queue'[k]) = Len(queue[k]) + 1 /\ queue'[k][Len(queue[k]) + 1] = p
        /\ \A h \in 1..Len(queue[k]) : queue'[k][h] = queue[k][h]
    BY <1>0, <1>4
  <2>3. \A h \in 1..Len(queue'[k]) : h = Len(queue[k]) + 1 \/ h \in 1..Len(queue[k])
    BY <1>0, <2>2
  <2> QED BY <2>1, <2>2, <2>3 DEF QueuedOnce
<1>5. ASSUME NEW l \in Listeners, Bind(l) \/ Rebind(l) \/ WriteToken(l) \/ Handshake(l) PROVE i = j
  BY <1>1, <1>5 DEF Bind, Rebind, WriteToken, Handshake
<1>6. ASSUME NEW l \in Listeners, ListenerEnds(l) PROVE i = j
  <2>1. queue'[k] = queue[k] \/ queue'[k] = <<>>
    BY <1>6 DEF ListenerEnds, IpcTyped
  <2> QED BY <1>1, <1>2, <2>1
<1>7. ASSUME NEW l \in Listeners, Accept(l) PROVE i = j
  <2>1. queue[l] # <<>> /\ queue' = [queue EXCEPT ![l] = Tail(queue[l])]
    BY <1>7 DEF Accept
  <2>2. queue'[k] = queue[k] \/ (queue[k] # <<>> /\ queue'[k] = Tail(queue[k]))
    BY <2>1 DEF IpcTyped
  <2> QED BY <1>1, <1>3, <2>2
<1>8. ASSUME NEW p \in Peers, NEW says \in Says, NEW knows \in {0, 1} \union {tokenFile}, Connect(p, says, knows) PROVE i = j
  <2>1. queue'[k] = queue[k] \/ queue'[k] = Append(queue[k], p)
    BY <1>8 DEF Connect, IpcTyped
  <2> QED BY <1>1, <1>4, <1>8, <2>1 DEF Connect
<1>9. ASSUME NEW p \in Peers, GiveUp(p) PROVE i = j
  BY <1>1, <1>9 DEF GiveUp
<1> QED BY <1>5, <1>6, <1>7, <1>8, <1>9 DEF IpcNext

(* What a step may do to a connection that waits at the listener k. *)
LEMMA QueueStep == IpcTyped /\ QueueIsOwn /\ QueuedOnce /\ IpcNext => QueueIsOwn'
<1> SUFFICES ASSUME IpcTyped, QueueIsOwn, QueuedOnce, IpcNext, NEW k \in Listeners, NEW i \in 1..Len(queue'[k])
             PROVE  peer'[queue'[k][i]].to = k /\ peer'[queue'[k][i]].at \in {"queued", "timed out"}
  BY DEF QueueIsOwn
<1> USE IpcAssumption
<1>0. /\ queue[k] \in Seq(Peers) /\ Len(queue[k]) \in Nat
      /\ \A j \in 1..Len(queue[k]) : queue[k][j] \in Peers /\ peer[queue[k][j]].to = k /\ peer[queue[k][j]].at \in {"queued", "timed out"}
  <2>1. queue[k] \in Seq(Peers)
    BY DEF IpcTyped
  <2>2. \A j \in 1..Len(queue[k]) : peer[queue[k][j]].to = k /\ peer[queue[k][j]].at \in {"queued", "timed out"}
    BY DEF QueueIsOwn
  <2>3. \A j \in 1..Len(queue[k]) : queue[k][j] \in Peers
    BY <2>1
  <2>4. Len(queue[k]) \in Nat
    BY <2>1
  <2> QED BY <2>1, <2>2, <2>3, <2>4
<1>1. ASSUME queue'[k] = queue[k],
             \A q \in Peers : peer[q].to = k => peer'[q].to = k /\ (peer'[q].at = peer[q].at \/ peer'[q].at = "timed out" \/ peer[q].at = "talking")
      PROVE  peer'[queue'[k][i]].to = k /\ peer'[queue'[k][i]].at \in {"queued", "timed out"}
  <2>1. queue[k][i] \in Peers /\ peer[queue[k][i]].to = k /\ peer[queue[k][i]].at \in {"queued", "timed out"}
    BY <1>0, <1>1
  <2> DEFINE q == queue[k][i]
  <2>2. queue'[k][i] = q
    BY <1>1
  <2> HIDE DEF q
  <2>3. q \in Peers /\ peer[q].to = k /\ peer[q].at \in {"queued", "timed out"}
    BY <2>1 DEF q
  <2> QED BY <1>1, <2>2, <2>3
<1>5. ASSUME NEW l \in Listeners, Bind(l) \/ Rebind(l) \/ WriteToken(l)
      PROVE  peer'[queue'[k][i]].to = k /\ peer'[queue'[k][i]].at \in {"queued", "timed out"}
  BY <1>1, <1>5 DEF Bind, Rebind, WriteToken
<1>6. ASSUME NEW l \in Listeners, ListenerEnds(l)
      PROVE  peer'[queue'[k][i]].to = k /\ peer'[queue'[k][i]].at \in {"queued", "timed out"}
  <2>1. (k = l => queue'[k] = <<>>) /\ (k # l => queue'[k] = queue[k])
    BY <1>6 DEF ListenerEnds, IpcTyped
  <2>2. k # l
    BY <2>1
  <2>3. \A q \in Peers : peer[q].to = k => peer'[q] = peer[q]
    BY <1>6, <2>2 DEF ListenerEnds, IpcTyped
  <2> QED BY <1>1, <2>1, <2>2, <2>3
<1>7. ASSUME NEW l \in Listeners, Accept(l)
      PROVE  peer'[queue'[k][i]].to = k /\ peer'[queue'[k][i]].at \in {"queued", "timed out"}
  <2> DEFINE p == Head(queue[l])
  <2>0. queue[l] \in Seq(Peers) /\ queue[l] # <<>>
    BY <1>7 DEF Accept, IpcTyped
  <2>a. p \in Peers /\ p = queue[l][1] /\ 1 \in 1..Len(queue[l])
    BY <2>0
  <2>b. queue' = [queue EXCEPT ![l] = Tail(queue[l])]
        /\ peer' = [peer EXCEPT ![p] = [peer[p] EXCEPT !.at = IF peer[p].at = "queued" THEN "talking" ELSE peer[p].at]]
    BY <1>7, <2>a DEF Accept, IpcTyped
  <2>c. peer[p].to = l
    <3>1. peer[queue[l][1]].to = l
      BY <2>a DEF QueueIsOwn
    <3> QED BY <2>a, <3>1
  <2> HIDE DEF p
  <2>1. \A q \in Peers : q # p => peer'[q] = peer[q]
    BY <2>a, <2>b DEF IpcTyped
  <2>2. CASE k # l
    <3>1. queue'[k] = queue[k]
      BY <2>b, <2>2 DEF IpcTyped
    <3>2. \A q \in Peers : peer[q].to = k => peer'[q] = peer[q]
      BY <2>1, <2>2, <2>c
    <3> QED BY <1>1, <3>1, <3>2
  <2>3. CASE k = l
    <3>1. queue'[k] = Tail(queue[k]) /\ queue[k] # <<>>
      BY <2>0, <2>b, <2>3 DEF IpcTyped
    <3>2. i + 1 \in 1..Len(queue[k]) /\ queue'[k][i] = queue[k][i + 1] /\ i + 1 # 1
      <4>1. queue[k] \in Seq(Peers)
        BY <1>0
      <4> QED BY <3>1, <4>1
    <3>3. queue[k][i + 1] # p
      BY <2>a, <2>3, <3>2 DEF QueuedOnce
    <3>4. peer'[queue[k][i + 1]] = peer[queue[k][i + 1]]
      BY <1>0, <2>1, <3>2, <3>3
    <3> QED BY <1>0, <3>2, <3>4
  <2> QED BY <2>2, <2>3
<1>8. ASSUME NEW p \in Peers, NEW says \in Says, NEW knows \in {0, 1} \union {tokenFile}, Connect(p, says, knows)
      PROVE  peer'[queue'[k][i]].to = k /\ peer'[queue'[k][i]].at \in {"queued", "timed out"}
  <2>1. /\ peer[p].at = "new" /\ peer'[p].at = "queued" /\ peer'[p].to = name /\ \A q \in Peers \ {p} : peer'[q] = peer[q]
        /\ (queue'[k] = queue[k] \/ (k = name /\ queue'[k] = Append(queue[k], p)))
    BY <1>8 DEF Connect, IpcTyped
  <2>2. \A j \in 1..Len(queue[k]) : queue[k][j] \in Peers \ {p}
    BY <1>0, <2>1
  <2>3. ASSUME NEW j \in 1..Len(queue[k]) PROVE peer'[queue[k][j]] = peer[queue[k][j]]
    BY <2>1, <2>2
  <2>4. CASE queue'[k] = queue[k]
    BY <1>0, <2>3, <2>4
  <2>5. CASE k = name /\ queue'[k] = Append(queue[k], p)
    <3>1. /\ Len(queue'[k]) = Len(queue[k]) + 1 /\ queue'[k][Len(queue[k]) + 1] = p
          /\ \A h \in 1..Len(queue[k]) : queue'[k][h] = queue[k][h]
      <4>1. queue[k] \in Seq(Peers)
        BY <1>0
      <4> QED BY <2>5, <4>1
    <3>2. i = Len(queue[k]) + 1 \/ i \in 1..Len(queue[k])
      <4>1. Len(queue[k]) \in Nat
        BY <1>0
      <4> QED BY <3>1, <4>1
    <3>3. CASE i = Len(queue[k]) + 1
      BY <2>1, <2>5, <3>1, <3>3
    <3>4. CASE i \in 1..Len(queue[k])
      <4>1. queue'[k][i] = queue[k][i] /\ peer'[queue[k][i]] = peer[queue[k][i]]
        BY <2>3, <3>1, <3>4
      <4> QED BY <1>0, <3>4, <4>1
    <3> QED BY <3>2, <3>3, <3>4
  <2> QED BY <2>1, <2>4, <2>5
<1>9. ASSUME NEW p \in Peers, GiveUp(p)
      PROVE  peer'[queue'[k][i]].to = k /\ peer'[queue'[k][i]].at \in {"queued", "timed out"}
  <2>1. \A q \in Peers : peer[q].to = k => peer'[q].to = k /\ (peer'[q].at = peer[q].at \/ peer'[q].at = "timed out")
    BY <1>9 DEF GiveUp, IpcTyped, Connection
  <2> QED BY <1>1, <1>9, <2>1 DEF GiveUp
<1>10. ASSUME NEW l \in Listeners, Handshake(l)
      PROVE  peer'[queue'[k][i]].to = k /\ peer'[queue'[k][i]].at \in {"queued", "timed out"}
  <2>1. \A q \in Peers : peer'[q].to = peer[q].to /\ (peer'[q].at = peer[q].at \/ peer[q].at = "talking")
    BY <1>10, HandshakeKeeps
  <2> QED BY <1>1, <1>10, <2>1 DEF Handshake
<1> QED BY <1>5, <1>6, <1>7, <1>8, <1>9, <1>10 DEF IpcNext

(* The peer whose handshake runs was made to this listener. *)
LEMMA ServesStep == IpcTyped /\ QueueIsOwn /\ ServesOwn /\ IpcNext => ServesOwn'
<1> SUFFICES ASSUME IpcTyped, QueueIsOwn, ServesOwn, IpcNext, NEW k \in Listeners, serving'[k] # 0
             PROVE  listener'[k] = "listening" /\ peer'[serving'[k]].to = k /\ peer'[serving'[k]].at # "new"
  BY DEF ServesOwn
<1> USE IpcAssumption
<1>0. serving[k] # 0 => serving[k] \in Peers /\ listener[k] = "listening" /\ peer[serving[k]].to = k /\ peer[serving[k]].at # "new"
  <2>1. serving[k] # 0 => serving[k] \in Peers
    BY DEF IpcTyped, Peers
  <2> QED BY <2>1 DEF ServesOwn
<1> DEFINE Good == listener'[k] = "listening" /\ peer'[serving'[k]].to = k /\ peer'[serving'[k]].at # "new"
<1>1. ASSUME serving'[k] = serving[k], listener'[k] = listener[k] \/ listener[k] # "listening",
             \A q \in Peers : peer[q].at # "new" => peer'[q].to = peer[q].to /\ peer'[q].at # "new"
      PROVE  Good
  BY <1>0, <1>1
<1>2. ASSUME NEW l \in Listeners, Bind(l) \/ Rebind(l) \/ WriteToken(l) PROVE Good
  <2>1. listener'[k] = listener[k] \/ listener[k] # "listening"
    BY <1>2 DEF Bind, Rebind, WriteToken, ListenerIs, IpcTyped
  <2> QED BY <1>1, <1>2, <2>1 DEF Bind, Rebind, WriteToken
<1>3. ASSUME NEW l \in Listeners, ListenerEnds(l) PROVE Good
  <2>1. k # l /\ serving'[k] = serving[k] /\ listener'[k] = listener[k]
    BY <1>3 DEF ListenerEnds, ListenerIs, IpcTyped
  <2>2. \A q \in Peers : peer[q].at # "new" => peer'[q].to = peer[q].to /\ peer'[q].at # "new"
    BY <1>3 DEF ListenerEnds, IpcTyped, Connection
  <2> QED BY <1>1, <2>1, <2>2
<1>4. ASSUME NEW p \in Peers, NEW says \in Says, NEW knows \in {0, 1} \union {tokenFile}, Connect(p, says, knows) PROVE Good
  <2>1. \A q \in Peers : peer[q].at # "new" => peer'[q] = peer[q]
    BY <1>4 DEF Connect, IpcTyped
  <2> QED BY <1>1, <1>4, <2>1 DEF Connect
<1>5. ASSUME NEW l \in Listeners, Accept(l) PROVE Good
  <2> DEFINE p == Head(queue[l])
  <2>0. queue[l] \in Seq(Peers) /\ queue[l] # <<>>
    BY <1>5 DEF Accept, IpcTyped
  <2>1. p \in Peers /\ p = queue[l][1] /\ 1 \in 1..Len(queue[l])
    BY <2>0
  <2>2. /\ serving' = [serving EXCEPT ![l] = p] /\ listener[l] = "listening" /\ UNCHANGED listener
        /\ peer' = [peer EXCEPT ![p] = [peer[p] EXCEPT !.at = IF peer[p].at = "queued" THEN "talking" ELSE peer[p].at]]
    BY <1>5, <2>1 DEF Accept, IpcTyped
  <2>3. peer[p].to = l /\ peer[p].at # "new"
    <3>1. peer[queue[l][1]].to = l /\ peer[queue[l][1]].at # "new"
      BY <2>1 DEF QueueIsOwn
    <3> QED BY <2>1, <3>1
  <2> HIDE DEF p
  <2>4. \A q \in Peers : peer[q].at # "new" => peer'[q].to = peer[q].to /\ peer'[q].at # "new"
    BY <2>1, <2>2 DEF IpcTyped, Connection
  <2>5. CASE k = l
    <3>1. serving'[k] = p
      BY <2>2, <2>5 DEF IpcTyped
    <3> QED BY <2>1, <2>2, <2>3, <2>4, <2>5, <3>1
  <2>6. CASE k # l
    <3>1. serving'[k] = serving[k]
      BY <2>2, <2>6 DEF IpcTyped
    <3> QED BY <1>1, <2>2, <2>4, <3>1
  <2> QED BY <2>5, <2>6
<1>6. ASSUME NEW l \in Listeners, Handshake(l) PROVE Good
  <2>1. serving'[k] = serving[k] /\ UNCHANGED listener
    BY <1>6 DEF Handshake, IpcTyped
  <2>2. \A q \in Peers : peer[q].at # "new" => peer'[q].to = peer[q].to /\ peer'[q].at # "new"
    BY <1>6, HandshakeKeeps
  <2> QED BY <1>1, <2>1, <2>2
<1>7. ASSUME NEW p \in Peers, GiveUp(p) PROVE Good
  <2>1. \A q \in Peers : peer[q].at # "new" => peer'[q].to = peer[q].to /\ peer'[q].at # "new"
    BY <1>7 DEF GiveUp, IpcTyped, Connection
  <2> QED BY <1>1, <1>7, <2>1 DEF GiveUp
<1> QED BY <1>2, <1>3, <1>4, <1>5, <1>6, <1>7 DEF IpcNext

(* Only a handshake welcomes, and only its own session's token. *)
LEMMA WelcomeStep == IpcTyped /\ ServesOwn /\ WelcomesOwn /\ IpcNext => WelcomesOwn'
<1> SUFFICES ASSUME IpcTyped, ServesOwn, WelcomesOwn, IpcNext, NEW p \in Peers, peer'[p].welcomed \/ peer'[p].at = "connected"
             PROVE  peer'[p].token = peer'[p].to /\ peer'[p].says = "Hello" /\ peer'[p].welcomed
  BY DEF WelcomesOwn
<1> USE IpcAssumption
<1>1. CASE peer'[p] = peer[p]
  BY <1>1 DEF WelcomesOwn
<1>2. ASSUME NEW s \in {"refused", "timed out", "talking"}, peer'[p] = [peer[p] EXCEPT !.at = s]
      PROVE  peer'[p].token = peer'[p].to /\ peer'[p].says = "Hello" /\ peer'[p].welcomed
  BY <1>2 DEF WelcomesOwn, IpcTyped, Connection
<1>3. ASSUME NEW l \in Listeners, Bind(l) \/ Rebind(l) \/ WriteToken(l)
      PROVE  peer'[p].token = peer'[p].to /\ peer'[p].says = "Hello" /\ peer'[p].welcomed
  BY <1>1, <1>3 DEF Bind, Rebind, WriteToken
<1>4. ASSUME NEW l \in Listeners, ListenerEnds(l)
      PROVE  peer'[p].token = peer'[p].to /\ peer'[p].says = "Hello" /\ peer'[p].welcomed
  <2>1. peer'[p] = peer[p] \/ peer'[p] = [peer[p] EXCEPT !.at = "refused"]
    BY <1>4 DEF ListenerEnds
  <2> QED BY <1>1, <1>2, <2>1
<1>5. ASSUME NEW q \in Peers, NEW says \in Says, NEW knows \in {0, 1} \union {tokenFile}, Connect(q, says, knows)
      PROVE  peer'[p].token = peer'[p].to /\ peer'[p].says = "Hello" /\ peer'[p].welcomed
  <2>1. peer'[p] = peer[p] \/ (~peer'[p].welcomed /\ peer'[p].at = "queued")
    BY <1>5 DEF Connect, IpcTyped
  <2> QED BY <1>1, <2>1
<1>6. ASSUME NEW l \in Listeners, Accept(l)
      PROVE  peer'[p].token = peer'[p].to /\ peer'[p].says = "Hello" /\ peer'[p].welcomed
  <2> DEFINE h == Head(queue[l])
  <2>1. peer' = [peer EXCEPT ![h].at = IF @ = "queued" THEN "talking" ELSE @]
    BY <1>6 DEF Accept
  <2> HIDE DEF h
  <2>2. peer'[p] = [peer[p] EXCEPT !.at = "talking"] \/ peer'[p] = peer[p]
    BY <2>1 DEF IpcTyped, Connection
  <2> QED BY <1>1, <1>2, <2>2
<1>7. ASSUME NEW l \in Listeners, Handshake(l)
      PROVE  peer'[p].token = peer'[p].to /\ peer'[p].says = "Hello" /\ peer'[p].welcomed
  <2>1. CASE p = serving[l] /\ Passes(l, p) /\ \E s : peer'[p] = [peer[p] EXCEPT !.at = s, !.welcomed = TRUE]
    <3>1. peer'[p].token = peer[p].token /\ peer'[p].to = peer[p].to /\ peer'[p].says = peer[p].says /\ peer'[p].welcomed = TRUE
      BY <2>1 DEF IpcTyped, Connection
    <3>2. peer[p].to = l
      BY <1>7, <2>1 DEF Handshake, ServesOwn
    <3> QED BY <2>1, <3>1, <3>2 DEF Passes
  <2> QED BY <1>1, <1>2, <1>7, <2>1, HandshakeDoes
<1>8. ASSUME NEW q \in Peers, GiveUp(q)
      PROVE  peer'[p].token = peer'[p].to /\ peer'[p].says = "Hello" /\ peer'[p].welcomed
  <2>1. peer'[p] = peer[p] \/ peer'[p] = [peer[p] EXCEPT !.at = "timed out"]
    BY <1>8 DEF GiveUp, IpcTyped
  <2> QED BY <1>1, <1>2, <2>1
<1> QED BY <1>3, <1>4, <1>5, <1>6, <1>7, <1>8 DEF IpcNext

(* Each step of the endpoint keeps its invariant. *)
LEMMA IpcStep == IpcInv /\ IpcNext => IpcInv'
BY IpcTypes, NameStep, OnceStep, QueueStep, ServesStep, WelcomeStep DEF IpcInv

(* The invariant gives what is checked of the endpoint. *)
LEMMA IpcImplies == IpcInv => IpcTypeOK /\ EndpointSound
<1> SUFFICES ASSUME IpcInv PROVE IpcTypeOK /\ EndpointSound
  OBVIOUS
<1>1. IpcTypeOK
  <2>1. \A l \in Listeners : \A i \in 1..Len(queue[l]) : peer[queue[l][i]].at \in {"queued", "timed out"}
    BY DEF IpcInv, QueueIsOwn
  <2> QED BY <2>1 DEF IpcInv, IpcTyped, ServesOwn, IpcTypeOK
<1>2. ASSUME ~replaced PROVE Cardinality({l \in Listeners : listener[l] = "listening"}) <= 1
  <2> DEFINE Live == {l \in Listeners : listener[l] = "listening"}
  <2>1. Live \subseteq {name}
    BY <1>2 DEF IpcInv, NameLeads
  <2>2. IsFiniteSet({name}) /\ Cardinality({name}) = 1
    BY FS_Singleton
  <2>3. Cardinality(Live) <= Cardinality({name})
    BY <2>1, <2>2, FS_Subset
  <2> QED BY <2>2, <2>3
<1> QED BY <1>1, <1>2 DEF IpcInv, WelcomesOwn, EndpointSound

(***************************************************************************)
(* The process and its single instance                                     *)
(***************************************************************************)

Holding == {"locked", "discarded", "first", "running"}
Places == Holding \union {"not started", "claiming", "leaving 1", "leaving 2", "signalling", "handed over", "failed", "ended"}
Files == {"quit", "show", "compose"}
Request == [file : Files, by : SUBSET Launches, old : BOOLEAN]
Message == [file : Files \union {"open account"}, by : SUBSET Launches, old : BOOLEAN]
WindowState == [open : BOOLEAN, hidden : BOOLEAN, tray : BOOLEAN, poll : BOOLEAN, system : BOOLEAN, toTray : BOOLEAN]

ProcessTyped ==
  /\ at \in [Launches -> Places] /\ flags \in [Launches -> Flags] /\ lock \in Launches \union {Nobody}
  /\ event \in {"none", "unset", "set"} /\ forwarder \in {"none", "waiting"} \union Files

(* Who has the lock, who made the event, whose window and thread these are. *)
Owners ==
  /\ \A p \in Launches : at[p] \in Holding <=> lock = p
  /\ event = "none" <=> \A p \in Launches : at[p] \notin {"first", "running"}
  /\ window.open <=> \E p \in Launches : at[p] = "running"
  /\ forwarder = "none" <=> ~window.open

(* The window watches the theme while it is seen, and can be brought back. *)
WindowSound ==
  /\ window \in WindowState
  /\ window.hidden => window.open /\ window.tray /\ ~window.poll
  /\ window.open /\ ~window.hidden => window.poll = window.system

(* Request files, one of each name; what the thread took and the window has yet to do. *)
RequestsTyped ==
  /\ requests \subseteq Request /\ taken \in Seq(Message) /\ windowQ \in Seq(Message)
  /\ owed \subseteq Launches \X Files
  /\ \A r, s \in requests : r.file = s.file => r = s
  /\ ~window.open => taken = <<>> /\ windowQ = <<>>
  /\ forwarder = "waiting" => taken = <<>>

(* Nothing that was left for an earlier instance is left once one has discarded it. *)
Fresh ==
  /\ \A r \in requests : r.old => \A p \in Launches : at[p] \notin Holding \ {"locked"}
  /\ \A r \in ToSet(taken) \union ToSet(windowQ) : ~r.old
  /\ staleQuit = FALSE

(* What is owed is in a file, in the thread's hands or in the window's queue. *)
Carried == requests \union ToSet(taken) \union ToSet(windowQ)
Accounted == \A x \in owed : \E r \in Carried : x[1] \in r.by /\ x[2] = r.file

(* A file the thread has yet to come to on this round. *)
ToCome(file) ==
  forwarder = "quit" \/ (forwarder = "show" /\ file # "quit") \/ (forwarder = "compose" /\ file = "compose")

(* A launch that handed over has set the event after its last file was
   there, so the thread is on a round that finds it, or will make one. *)
WillBeFound ==
  window.open => \A r \in requests : \A p \in r.by : at[p] = "handed over" => event = "set" \/ ToCome(r.file)

ProcessInv == ProcessTyped /\ Owners /\ WindowSound /\ RequestsTyped /\ Fresh /\ Accounted /\ WillBeFound

(* What a sequence holds. *)
LEMMA ToSetEmpty == ToSet(<<>>) = {}
BY DEF ToSet

(* What a queue holds when something is added. *)
LEMMA ToSetAppend ==
  ASSUME NEW S, NEW q \in Seq(S), NEW e PROVE ToSet(Append(q, e)) = ToSet(q) \union {e}
<1>1. /\ Len(Append(q, e)) = Len(q) + 1 /\ Append(q, e)[Len(q) + 1] = e
      /\ \A i \in 1..Len(q) : Append(q, e)[i] = q[i]
  OBVIOUS
<1>2. DOMAIN q = 1..Len(q) /\ DOMAIN Append(q, e) = 1..(Len(q) + 1) /\ Len(q) \in Nat
  OBVIOUS
<1>3. 1..(Len(q) + 1) = 1..Len(q) \union {Len(q) + 1}
  BY <1>2
<1> QED BY <1>1, <1>2, <1>3 DEF ToSet

(* What two queues hold together. *)
LEMMA ToSetConcat ==
  ASSUME NEW S, NEW q \in Seq(S), NEW r \in Seq(S) PROVE ToSet(q \o r) = ToSet(q) \union ToSet(r)
<1>1. /\ Len(q) \in Nat /\ Len(r) \in Nat /\ Len(q \o r) = Len(q) + Len(r)
      /\ DOMAIN q = 1..Len(q) /\ DOMAIN r = 1..Len(r) /\ DOMAIN (q \o r) = 1..(Len(q) + Len(r))
  OBVIOUS
<1>2. \A i \in 1..Len(q) : (q \o r)[i] = q[i] /\ i \in 1..(Len(q) + Len(r))
  BY <1>1
<1>3. \A i \in 1..Len(r) : (q \o r)[Len(q) + i] = r[i] /\ Len(q) + i \in 1..(Len(q) + Len(r))
  BY <1>1
<1>4. \A i \in 1..(Len(q) + Len(r)) : i \in 1..Len(q) \/ \E j \in 1..Len(r) : i = Len(q) + j
  <2> SUFFICES ASSUME NEW i \in 1..(Len(q) + Len(r)), i \notin 1..Len(q) PROVE \E j \in 1..Len(r) : i = Len(q) + j
    OBVIOUS
  <2>1. i - Len(q) \in 1..Len(r) /\ i = Len(q) + (i - Len(q))
    BY <1>1
  <2> QED BY <2>1
<1> HIDE DEF ToSet
<1>5. ASSUME NEW e \in ToSet(q \o r) PROVE e \in ToSet(q) \union ToSet(r)
  <2>1. PICK i \in 1..(Len(q) + Len(r)) : e = (q \o r)[i]
    BY <1>1, <1>5 DEF ToSet
  <2> QED BY <1>1, <1>2, <1>3, <1>4, <2>1 DEF ToSet
<1>6. ASSUME NEW e \in ToSet(q) \union ToSet(r) PROVE e \in ToSet(q \o r)
  BY <1>1, <1>2, <1>3, <1>6 DEF ToSet
<1> QED BY <1>5, <1>6

(* What is left when the oldest is taken. *)
LEMMA ToSetTail ==
  ASSUME NEW S, NEW q \in Seq(S), q # <<>>
  PROVE  ToSet(q) = {Head(q)} \union ToSet(Tail(q)) /\ Head(q) \in ToSet(q) /\ ToSet(Tail(q)) \subseteq ToSet(q)
<1>1. /\ Len(q) \in Nat \ {0} /\ Head(q) = q[1] /\ DOMAIN q = 1..Len(q) /\ DOMAIN Tail(q) = 1..(Len(q) - 1)
  OBVIOUS
<1>2. \A i \in 1..(Len(q) - 1) : Tail(q)[i] = q[i + 1] /\ i + 1 \in 1..Len(q)
  BY <1>1
<1>3. \A i \in 1..Len(q) : i = 1 \/ (i - 1 \in 1..(Len(q) - 1) /\ i = (i - 1) + 1)
  BY <1>1
<1>4. ASSUME NEW e \in ToSet(q) PROVE e = Head(q) \/ e \in ToSet(Tail(q))
  <2>1. PICK i \in 1..Len(q) : e = q[i]
    BY <1>1 DEF ToSet
  <2>2. CASE i = 1
    BY <1>1, <2>1, <2>2
  <2>3. CASE i # 1
    <3>1. i - 1 \in 1..(Len(q) - 1) /\ Tail(q)[i - 1] = e
      BY <1>2, <1>3, <2>1, <2>3
    <3> QED BY <1>1, <3>1 DEF ToSet
  <2> QED BY <2>2, <2>3
<1>5. 1 \in 1..Len(q)
  BY <1>1
<1>6. Head(q) \in ToSet(q)
  BY <1>1, <1>5 DEF ToSet
<1>7. ToSet(Tail(q)) \subseteq ToSet(q)
  BY <1>1, <1>2 DEF ToSet
<1> QED BY <1>4, <1>6, <1>7

(* What a queue holds is of its type. *)
LEMMA ToSetTyped == ASSUME NEW S, NEW q \in Seq(S) PROVE ToSet(q) \subseteq S
BY DEF ToSet

(* The order in which the thread looks for files (take_request). *)
LEMMA FilesInOrder == RequestFiles[1] = "quit" /\ RequestFiles[2] = "show" /\ RequestFiles[3] = "compose"
BY DEF RequestFiles

(* Nobody is no launch. *)
LEMMA NobodyLaunches == Nobody \notin Launches
BY ProcessAssumption DEF Nobody, Launches

(* What a launch leaves is one file, and it goes on to the next or to signalling. *)
LEMMA LeaveDoes ==
  ASSUME ProcessTyped, NEW p \in Launches, NEW i \in 1..2, LeaveRequest(p, i)
  PROVE  \E file \in Files, s \in {"leaving 2", "signalling"} :
           /\ at[p] \in {"leaving 1", "leaving 2"} /\ at' = [at EXCEPT ![p] = s]
           /\ requests' = Left(file, p) /\ owed' = owed \union {<<p, file>>}
<1>1. flags[p] \in Flags
  BY DEF ProcessTyped
<1>2. Wanted(p) = <<"quit">> \/ Wanted(p) = <<"compose", "show">> \/ Wanted(p) = <<"show">>
  BY <1>1 DEF Wanted, Flags
<1>3. i = 1 \/ i = 2
  OBVIOUS
<1>4. Wanted(p)[i] \in Files
  <2>1. i <= Len(Wanted(p))
    BY DEF LeaveRequest
  <2>2. CASE Wanted(p) = <<"quit">>
    <3>1. Len(Wanted(p)) = 1 /\ Wanted(p)[1] = "quit"
      BY <2>2
    <3> QED BY <1>3, <2>1, <3>1 DEF Files
  <2>3. CASE Wanted(p) = <<"show">>
    <3>1. Len(Wanted(p)) = 1 /\ Wanted(p)[1] = "show"
      BY <2>3
    <3> QED BY <1>3, <2>1, <3>1 DEF Files
  <2>4. CASE Wanted(p) = <<"compose", "show">>
    <3>1. Wanted(p)[1] = "compose" /\ Wanted(p)[2] = "show"
      BY <2>4
    <3> QED BY <1>3, <3>1 DEF Files
  <2> QED BY <1>2, <2>2, <2>3, <2>4
<1>5. at[p] \in {"leaving 1", "leaving 2"}
  <2>1. <<"leaving 1", "leaving 2">>[1] = "leaving 1" /\ <<"leaving 1", "leaving 2">>[2] = "leaving 2"
    OBVIOUS
  <2>2. at[p] = <<"leaving 1", "leaving 2">>[i]
    BY DEF LeaveRequest
  <2>3. CASE i = 1
    BY <2>1, <2>2, <2>3
  <2>4. CASE i = 2
    BY <2>1, <2>2, <2>4
  <2> QED BY <1>3, <2>3, <2>4
<1>6. (IF i < Len(Wanted(p)) THEN "leaving 2" ELSE "signalling") \in {"leaving 2", "signalling"}
  OBVIOUS
<1> DEFINE s == IF i < Len(Wanted(p)) THEN "leaving 2" ELSE "signalling"
           f == Wanted(p)[i]
<1>7. at' = [at EXCEPT ![p] = s] /\ requests' = Left(f, p) /\ owed' = owed \union {<<p, f>>}
  BY DEF LeaveRequest, Goto
<1>8. f \in Files /\ s \in {"leaving 2", "signalling"}
  BY <1>4, <1>6
<1> HIDE DEF f, s
<1> QED BY <1>5, <1>7, <1>8

(* A process ends: the lock, and with an instance all it had, goes with it. *)
LEMMA GoneDoes ==
  ASSUME ProcessTyped, Owners, NEW p \in Launches, Gone(p)
  PROVE  /\ at' = [at EXCEPT ![p] = "ended"]
         /\ \/ /\ at[p] \in {"first", "running"} /\ lock = p /\ lock' = Nobody
               /\ event' = "none" /\ forwarder' = "none" /\ taken' = <<>> /\ windowQ' = <<>> /\ window' = NoWindow
               /\ requests' = {[r EXCEPT !.old = TRUE] : r \in requests}
               /\ owed' = owed \ Of(requests \union {(windowQ \o taken)[i] : i \in 1..Len(windowQ \o taken)})
            \/ /\ at[p] \notin {"first", "running"} /\ lock' = (IF lock = p THEN Nobody ELSE lock)
               /\ UNCHANGED <<event, forwarder, taken, windowQ, window, requests, owed>>
<1>1. at' = [at EXCEPT ![p] = "ended"]
  BY DEF Gone, Goto
<1>2. CASE at[p] \in {"first", "running"}
  <2>1. lock = p
    BY <1>2 DEF Owners, Holding
  <2> QED BY <1>1, <1>2, <2>1 DEF Gone
<1>3. CASE at[p] \notin {"first", "running"}
  BY <1>1, <1>3 DEF Gone, Still
<1> QED BY <1>2, <1>3

(* The instance is the launch that has the lock. *)
LEMMA InstanceIs == ProcessTyped /\ Owners /\ window.open => lock \in Launches /\ at[lock] = "running"
BY DEF ProcessTyped, Owners, Holding

(* Nothing was started; files of an earlier session may lie about. *)
LEMMA ProcessStarts == ProcessInit => ProcessInv
<1> SUFFICES ASSUME ProcessInit PROVE ProcessInv
  OBVIOUS
<1>1. ProcessTyped
  BY DEF ProcessInit, ProcessTyped, Places, Flags, Files
<1>2. Owners
  BY NobodyLaunches DEF ProcessInit, Owners, Holding, NoWindow
<1>3. WindowSound
  BY DEF ProcessInit, WindowSound, WindowState, NoWindow
<1>4. RequestsTyped
  <2>1. requests \subseteq Request /\ \A x, y \in requests : x.file = y.file => x = y
    BY DEF ProcessInit
  <2>2. taken = <<>> /\ windowQ = <<>>
    BY DEF ProcessInit
  <2>3. <<>> \in Seq(Message)
    OBVIOUS
  <2>4. owed \subseteq Launches \X Files
    BY DEF ProcessInit
  <2> QED BY <2>1, <2>2, <2>3, <2>4 DEF RequestsTyped
<1>5. Fresh /\ Accounted /\ WillBeFound
  <2>1. taken = <<>> /\ windowQ = <<>> /\ requests = {} /\ owed = {} /\ staleQuit = FALSE /\ ~window.open
    BY DEF ProcessInit, NoWindow
  <2>2. ToSet(taken) = {} /\ ToSet(windowQ) = {}
    BY <2>1, ToSetEmpty
  <2> QED BY <2>1, <2>2 DEF Fresh, Accounted, WillBeFound
<1> QED BY <1>1, <1>2, <1>3, <1>4, <1>5 DEF ProcessInv

(* Types, and who has the lock, the event, the window and the thread. *)
LEMMA ProcessTypes == ProcessTyped /\ Owners /\ WindowSound /\ ProcessNext => ProcessTyped' /\ Owners'
<1> SUFFICES ASSUME ProcessTyped, Owners, WindowSound, ProcessNext PROVE ProcessTyped' /\ Owners'
  OBVIOUS
<1> USE NobodyLaunches
<1>1. CASE UNCHANGED <<at, flags, lock, event, forwarder, window>>
  BY <1>1 DEF ProcessTyped, Owners
<1>2. ASSUME NEW p \in Launches, NEW s \in Places \ Holding, at[p] \notin Holding, at' = [at EXCEPT ![p] = s],
             flags' \in [Launches -> Flags], event' = event \/ (event # "none" /\ event' = "set"),
             UNCHANGED <<lock, forwarder, window>>
      PROVE  ProcessTyped' /\ Owners'
  <2>1. ProcessTyped'
    BY <1>2 DEF ProcessTyped
  <2>2. s \notin {"first", "running"} /\ at[p] \notin {"first", "running"}
    BY <1>2 DEF Holding
  <2>3. \A q \in Launches : at'[q] = (IF q = p THEN s ELSE at[q])
    BY <1>2 DEF ProcessTyped
  <2>4. Owners'
    BY <1>2, <2>2, <2>3 DEF Owners
  <2> QED BY <2>1, <2>4
<1>3. ASSUME NEW p \in Launches, NEW f \in Flags, StartLaunch(p, f) PROVE ProcessTyped' /\ Owners'
  <2>1. flags' \in [Launches -> Flags]
    BY <1>3 DEF StartLaunch, ProcessTyped
  <2> QED BY <1>2, <1>3, <2>1 DEF StartLaunch, Goto, Still, Places, Holding
<1>4. ASSUME NEW p \in Launches, TryLock(p) PROVE ProcessTyped' /\ Owners'
  <2>1. CASE lock = Nobody
    <3>1. lock' = p /\ at' = [at EXCEPT ![p] = "locked"] /\ at[p] = "claiming" /\ UNCHANGED <<flags, event, forwarder, window>>
      BY <1>4, <2>1 DEF TryLock, Goto, Still
    <3>2. ProcessTyped'
      BY <3>1 DEF ProcessTyped, Places, Holding
    <3>3. \A q \in Launches : at'[q] = (IF q = p THEN "locked" ELSE at[q])
      BY <3>1 DEF ProcessTyped
    <3>4. Owners'
      BY <2>1, <3>1, <3>3 DEF Owners, Holding
    <3> QED BY <3>2, <3>4
  <2>2. CASE lock # Nobody
    <3>1. flags' \in [Launches -> Flags]
      BY <1>4 DEF TryLock, Still, ProcessTyped
    <3> QED BY <1>2, <1>4, <2>2, <3>1 DEF TryLock, Goto, Still, Places, Holding
  <2> QED BY <2>1, <2>2
<1>5. ASSUME NEW p \in Launches, Discard(p) PROVE ProcessTyped' /\ Owners'
  <2>1. PICK s \in {"ended", "discarded"} : /\ at[p] = "locked" /\ at' = [at EXCEPT ![p] = s] /\ lock' = (IF s = "ended" THEN Nobody ELSE lock)
                                           /\ flags' = [flags EXCEPT ![p] = "plain"] /\ UNCHANGED <<event, forwarder, window>>
    BY <1>5 DEF Discard, Goto, Still, Forget
  <2>2. ProcessTyped'
    BY <2>1 DEF ProcessTyped, Places, Holding, Flags
  <2>3. \A q \in Launches : at'[q] = (IF q = p THEN s ELSE at[q])
    BY <2>1 DEF ProcessTyped
  <2>4. lock = p
    BY <2>1 DEF Owners, Holding
  <2>5. Owners'
    BY <2>1, <2>3, <2>4 DEF Owners, Holding
  <2> QED BY <2>2, <2>5
<1>6. ASSUME NEW p \in Launches, CreateEvent(p) PROVE ProcessTyped' /\ Owners'
  <2>1. /\ at[p] = "discarded" /\ at' = [at EXCEPT ![p] = "first"] /\ event' = "unset" /\ UNCHANGED <<lock, flags, forwarder, window>>
    BY <1>6 DEF CreateEvent, Goto, Still
  <2>2. ProcessTyped'
    BY <2>1 DEF ProcessTyped, Places, Holding
  <2>3. \A q \in Launches : at'[q] = (IF q = p THEN "first" ELSE at[q])
    BY <2>1 DEF ProcessTyped
  <2>4. Owners'
    BY <2>1, <2>3 DEF Owners, Holding
  <2> QED BY <2>2, <2>4
<1>7. ASSUME NEW p \in Launches, NEW tray \in BOOLEAN, BuildWindow(p, tray) PROVE ProcessTyped' /\ Owners'
  <2>1. /\ at[p] = "first" /\ at' = [at EXCEPT ![p] = "running"] /\ forwarder' = "quit" /\ window'.open /\ UNCHANGED <<lock, flags, event>>
    BY <1>7, FilesInOrder DEF BuildWindow, Goto, Still
  <2>2. ProcessTyped'
    BY <2>1 DEF ProcessTyped, Places, Holding, Files
  <2>3. \A q \in Launches : at'[q] = (IF q = p THEN "running" ELSE at[q])
    BY <2>1 DEF ProcessTyped
  <2>4. Owners'
    BY <2>1, <2>3 DEF Owners, Holding
  <2> QED BY <2>2, <2>4
<1>8. ASSUME NEW p \in Launches, NEW i \in 1..2, LeaveRequest(p, i) PROVE ProcessTyped' /\ Owners'
  <2>1. PICK s \in {"leaving 2", "signalling"} : at[p] \in {"leaving 1", "leaving 2"} /\ at' = [at EXCEPT ![p] = s]
    BY <1>8, LeaveDoes
  <2>2. UNCHANGED <<flags, event, lock, forwarder, window>> /\ flags \in [Launches -> Flags]
    BY <1>8 DEF LeaveRequest, Still, ProcessTyped
  <2>3. s \in Places \ Holding /\ at[p] \notin Holding
    BY <2>1 DEF Places, Holding
  <2> QED BY <1>2, <2>1, <2>2, <2>3
<1>9. ASSUME NEW p \in Launches, Signal(p) PROVE ProcessTyped' /\ Owners'
  <2>1. flags' \in [Launches -> Flags]
    BY <1>9 DEF Signal, Forget, ProcessTyped, Flags
  <2>2. \E s \in {"handed over", "failed"} : at' = [at EXCEPT ![p] = s]
    BY <1>9 DEF Signal, Goto
  <2>3. at[p] = "signalling" /\ (event' = event \/ (event # "none" /\ event' = "set")) /\ UNCHANGED <<lock, forwarder, window>>
    BY <1>9 DEF Signal, Still
  <2>4. at[p] \notin Holding /\ {"handed over", "failed"} \subseteq Places \ Holding
    BY <2>3 DEF Holding, Places
  <2> QED BY <1>2, <2>1, <2>2, <2>3, <2>4
<1>10. ASSUME NEW p \in Launches, Gone(p), flags' \in [Launches -> Flags] PROVE ProcessTyped' /\ Owners'
  <2>1. \A q \in Launches : at'[q] = (IF q = p THEN "ended" ELSE at[q])
    BY <1>10, GoneDoes DEF ProcessTyped
  <2>2. at' \in [Launches -> Places]
    BY <1>10, GoneDoes DEF ProcessTyped, Places
  <2>3. CASE at[p] \in {"first", "running"}
    <3>1. lock = p /\ lock' = Nobody /\ event' = "none" /\ forwarder' = "none" /\ window' = NoWindow
      BY <1>10, <2>3, GoneDoes
    <3>2. ProcessTyped'
      BY <1>10, <2>2, <3>1 DEF ProcessTyped
    <3>3. \A q \in Launches : q # p => at[q] \notin Holding
      BY <3>1 DEF Owners
    <3>4. ~window'.open
      BY <3>1 DEF NoWindow
    <3>5. \A q \in Launches : at'[q] \notin Holding
      BY <2>1, <3>3 DEF Holding
    <3>6. \A q \in Launches : q # Nobody
      OBVIOUS
    <3>7. Owners'
      BY <3>1, <3>4, <3>5, <3>6 DEF Owners, Holding
    <3> QED BY <3>2, <3>7
  <2>4. CASE at[p] \notin {"first", "running"}
    <3>1. lock' = (IF lock = p THEN Nobody ELSE lock) /\ UNCHANGED <<event, forwarder, window>>
      BY <1>10, <2>4, GoneDoes
    <3>2. ProcessTyped'
      BY <1>10, <2>2, <3>1 DEF ProcessTyped
    <3>3. \A q \in Launches : at'[q] \in Holding <=> lock' = q
      BY <2>1, <3>1 DEF Owners, Holding
    <3>4. \A q \in Launches : at'[q] \in {"first", "running"} <=> at[q] \in {"first", "running"}
      BY <2>1, <2>4
    <3>5. \A q \in Launches : at'[q] = "running" <=> at[q] = "running"
      BY <2>1, <2>4
    <3> QED BY <3>1, <3>2, <3>3, <3>4, <3>5 DEF Owners
  <2> QED BY <2>3, <2>4
<1>11. ASSUME NEW p \in Launches, LaunchDies(p) PROVE ProcessTyped' /\ Owners'
  BY <1>10, <1>11 DEF LaunchDies, Forget, ProcessTyped, Flags
<1>12. ASSUME UNCHANGED <<at, flags, lock, event>>, forwarder' = forwarder \/ (forwarder # "none" /\ forwarder' \in {"waiting"} \union Files),
              window'.open = window.open
       PROVE  ProcessTyped' /\ Owners'
  BY <1>12 DEF ProcessTyped, Owners, Files
<1>13. ASSUME NEW i \in 1..3, Look(i) PROVE ProcessTyped' /\ Owners'
  <2>1. i = 1 \/ i = 2 \/ i = 3
    OBVIOUS
  <2>2. forwarder # "none" /\ forwarder' \in {"waiting"} \union Files
    BY <1>13, <2>1, FilesInOrder DEF Look, Files
  <2> QED BY <1>12, <1>13, <2>2 DEF Look, Still
<1>14. CASE Woken
  <2>1. forwarder = "waiting" /\ event = "set" /\ forwarder' = "quit" /\ event' = "unset" /\ UNCHANGED <<at, flags, lock, window>>
    BY <1>14, FilesInOrder DEF Woken, Still
  <2> QED BY <2>1 DEF ProcessTyped, Owners, Files
<1>15. CASE Launch
  <2>1. lock \in Launches /\ UNCHANGED flags /\ flags' \in [Launches -> Flags]
    BY <1>15, InstanceIs DEF Launch, Still, ProcessTyped
  <2>2. Gone(lock) \/ (UNCHANGED <<at, lock, event, forwarder>> /\ window' = Shown(window))
    BY <1>15 DEF Launch, Still
  <2>3. CASE UNCHANGED <<at, lock, event, forwarder>> /\ window' = Shown(window)
    <3>1. window'.open = window.open
      BY <2>3 DEF Shown, WindowSound, WindowState
    <3> QED BY <1>12, <2>1, <2>3, <3>1
  <2> QED BY <1>10, <2>1, <2>2, <2>3
<1>16. CASE CloseWindow
  <2>1. lock \in Launches /\ UNCHANGED flags /\ flags' \in [Launches -> Flags]
    BY <1>16, InstanceIs DEF CloseWindow, Poke, Still, ProcessTyped
  <2>2. Gone(lock) \/ (UNCHANGED <<at, lock, event, forwarder>> /\ window' = Hidden(window))
    BY <1>16 DEF CloseWindow, Still
  <2>3. CASE UNCHANGED <<at, lock, event, forwarder>> /\ window' = Hidden(window)
    <3>1. window'.open = window.open
      BY <2>3 DEF Hidden
    <3> QED BY <1>12, <2>1, <2>3, <3>1
  <2> QED BY <1>10, <2>1, <2>2, <2>3
<1>17. CASE Toast \/ ClickToast
  BY <1>1, <1>17 DEF Toast, ClickToast, Still
<1>18. ASSUME NEW what \in {"show", "compose", "quit"}, TrayClick(what) PROVE ProcessTyped' /\ Owners'
  BY <1>1, <1>18 DEF TrayClick, Still
<1>19. ASSUME NEW on \in BOOLEAN, ChooseTheme(on) \/ SetCloseToTray(on) PROVE ProcessTyped' /\ Owners'
  <2>1. window'.open = window.open
    BY <1>19 DEF ChooseTheme, SetCloseToTray, WindowSound, WindowState
  <2> QED BY <1>12, <1>19, <2>1 DEF ChooseTheme, SetCloseToTray, Still
<1> QED BY <1>3, <1>4, <1>5, <1>6, <1>7, <1>8, <1>9, <1>11, <1>13, <1>14, <1>15, <1>16, <1>17, <1>18, <1>19 DEF ProcessNext

(* The window keeps its theme poll in step with being seen (shell.rs). *)
LEMMA WindowStep == ProcessTyped /\ Owners /\ WindowSound /\ ProcessNext => WindowSound'
<1> SUFFICES ASSUME ProcessTyped, Owners, WindowSound, ProcessNext PROVE WindowSound'
  OBVIOUS
<1>1. CASE UNCHANGED window
  BY <1>1 DEF WindowSound
<1>2. CASE window' = NoWindow
  BY <1>2 DEF WindowSound, WindowState, NoWindow
<1>3. ASSUME NEW p \in Launches, Gone(p) PROVE WindowSound'
  BY <1>1, <1>2, <1>3, GoneDoes
<1>4. ASSUME NEW p \in Launches, NEW tray \in BOOLEAN, BuildWindow(p, tray) PROVE WindowSound'
  BY <1>4 DEF BuildWindow, WindowSound, WindowState
<1>5. CASE Launch
  <2>1. Gone(lock) \/ window' = Shown(window)
    BY <1>5 DEF Launch
  <2>2. lock \in Launches
    BY <1>5, InstanceIs DEF Launch
  <2>3. CASE window' = Shown(window)
    BY <1>5, <2>3 DEF Launch, Shown, WindowSound, WindowState
  <2> QED BY <1>3, <2>1, <2>2, <2>3
<1>6. CASE CloseWindow
  <2>1. Gone(lock) \/ (window.tray /\ window' = Hidden(window))
    BY <1>6 DEF CloseWindow
  <2>2. lock \in Launches /\ window.open
    BY <1>6, InstanceIs DEF CloseWindow, Poke
  <2>3. CASE window.tray /\ window' = Hidden(window)
    BY <2>2, <2>3 DEF Hidden, WindowSound, WindowState
  <2> QED BY <1>3, <2>1, <2>2, <2>3
<1>7. ASSUME NEW on \in BOOLEAN, ChooseTheme(on) PROVE WindowSound'
  BY <1>7 DEF ChooseTheme, WindowSound, WindowState
<1>8. ASSUME NEW on \in BOOLEAN, SetCloseToTray(on) PROVE WindowSound'
  BY <1>8 DEF SetCloseToTray, WindowSound, WindowState
<1>9. ASSUME NEW p \in Launches, LaunchDies(p) PROVE WindowSound'
  BY <1>3, <1>9 DEF LaunchDies
<1>10. ASSUME NEW p \in Launches, NEW f \in Flags, StartLaunch(p, f) PROVE WindowSound'
  BY <1>1, <1>10 DEF StartLaunch, Still
<1>11. ASSUME NEW p \in Launches, TryLock(p) \/ Discard(p) \/ CreateEvent(p) \/ Signal(p) PROVE WindowSound'
  BY <1>1, <1>11 DEF TryLock, Discard, CreateEvent, Signal, Still
<1>12. ASSUME NEW p \in Launches, NEW i \in 1..2, LeaveRequest(p, i) PROVE WindowSound'
  BY <1>1, <1>12 DEF LeaveRequest, Still
<1>13. ASSUME NEW i \in 1..3, Look(i) PROVE WindowSound'
  BY <1>1, <1>13 DEF Look, Still
<1>14. CASE Woken \/ Toast \/ ClickToast
  BY <1>1, <1>14 DEF Woken, Toast, ClickToast, Still
<1>15. ASSUME NEW what \in {"show", "compose", "quit"}, TrayClick(what) PROVE WindowSound'
  BY <1>1, <1>15 DEF TrayClick, Still
<1> QED BY <1>4, <1>5, <1>6, <1>7, <1>8, <1>9, <1>10, <1>11, <1>12, <1>13, <1>14, <1>15 DEF ProcessNext

(* The file that a launch leaves takes the place of one of its name, for both launches. *)
LEMMA LeftDoes ==
  ASSUME RequestsTyped, NEW file \in Files, NEW p \in Launches
  PROVE  \E new \in Request :
           /\ Left(file, p) = {r \in requests : r.file # file} \union {new}
           /\ new.file = file /\ ~new.old /\ p \in new.by
           /\ \A r \in requests : r.file = file => new.by = r.by \union {p}
           /\ (\A r \in requests : r.file # file) => new.by = {p}
<1> DEFINE by == IF Present(file) THEN Found(file).by \union {p} ELSE {p}
           new == [file |-> file, by |-> by, old |-> FALSE]
<1>1. ASSUME NEW r \in requests, r.file = file PROVE Found(file) = r
  <2>1. \E s \in requests : s.file = file
    BY <1>1
  <2>2. Found(file) \in requests /\ Found(file).file = file
    BY <2>1 DEF Found
  <2> QED BY <1>1, <2>2 DEF RequestsTyped
<1>2. CASE Present(file)
  <2>1. PICK r \in requests : r.file = file
    BY <1>2 DEF Present
  <2>2. by = r.by \union {p}
    BY <1>1, <1>2, <2>1
  <2>3. by \in SUBSET Launches
    BY <2>1, <2>2 DEF RequestsTyped, Request
  <2>4. new \in Request /\ new.file = file /\ ~new.old /\ new.by = by
    <3> HIDE DEF by
    <3> QED BY <2>3 DEF Request
  <2>5. Left(file, p) = {s \in requests : s.file # file} \union {new}
    BY DEF Left
  <2>6. \A s \in requests : s.file = file => s = r
    BY <2>1 DEF RequestsTyped
  <2> HIDE DEF new, by
  <2> QED BY <2>1, <2>2, <2>4, <2>5, <2>6
<1>3. CASE ~Present(file)
  <2>1. by = {p}
    BY <1>3
  <2>2. \A r \in requests : r.file # file
    BY <1>3 DEF Present
  <2>4. new \in Request /\ new.file = file /\ ~new.old /\ new.by = by
    <3>1. by \in SUBSET Launches
      BY <2>1
    <3> HIDE DEF by
    <3> QED BY <3>1 DEF Request
  <2>5. Left(file, p) = {s \in requests : s.file # file} \union {new}
    BY DEF Left
  <2> HIDE DEF new, by
  <2> QED BY <2>1, <2>2, <2>4, <2>5
<1> QED BY <1>2, <1>3

(* One look of the thread. *)
LEMMA LookDoes ==
  ASSUME RequestsTyped, NEW i \in 1..3, Look(i)
  PROVE  /\ forwarder \in Files /\ requests' = {r \in requests : r.file # forwarder}
         /\ \E now \in Seq(Message) :
              /\ \/ now = taken /\ \A r \in requests : r.file # forwarder
                 \/ \E r \in requests : r.file = forwarder /\ now = Append(taken, r)
              /\ \/ forwarder = "compose" /\ forwarder' = "waiting" /\ taken' = <<>> /\ windowQ' = windowQ \o now
                 \/ /\ taken' = now /\ windowQ' = windowQ
                    /\ \/ forwarder' = "quit"
                       \/ (forwarder = "quit" /\ forwarder' = "show") \/ (forwarder = "show" /\ forwarder' = "compose")
<1> DEFINE file == RequestFiles[i]
           now == IF Present(file) THEN Append(taken, Found(file)) ELSE taken
<1>0. i = 1 \/ i = 2 \/ i = 3
  OBVIOUS
<1>1. file \in Files /\ forwarder = file /\ (i = 1 => file = "quit") /\ (i = 2 => file = "show") /\ (i = 3 => file = "compose")
  BY <1>0, FilesInOrder DEF Look, Files
<1>2. requests' = {r \in requests : r.file # file}
      /\ forwarder' = (IF i = 3 THEN "waiting" ELSE IF Present(file) THEN RequestFiles[1] ELSE RequestFiles[i + 1])
      /\ taken' = (IF i = 3 THEN <<>> ELSE now) /\ windowQ' = (IF i = 3 THEN windowQ \o now ELSE windowQ)
  BY DEF Look
<1>3. /\ now \in Seq(Message)
      /\ \/ now = taken /\ \A r \in requests : r.file # file
         \/ \E r \in requests : r.file = file /\ now = Append(taken, r)
  <2>1. taken \in Seq(Message)
    BY DEF RequestsTyped
  <2>2. CASE Present(file)
    <3>1. Found(file) \in requests /\ Found(file).file = file
      BY <2>2 DEF Present, Found
    <3>2. Found(file) \in Message
      BY <3>1 DEF RequestsTyped, Request, Message
    <3>3. now = Append(taken, Found(file))
      BY <2>2
    <3>4. Append(taken, Found(file)) \in Seq(Message)
      BY <2>1, <3>2
    <3> QED BY <3>1, <3>3, <3>4
  <2>3. CASE ~Present(file)
    <3>1. now = taken /\ \A r \in requests : r.file # file
      BY <2>3 DEF Present
    <3> QED BY <2>1, <3>1
  <2> QED BY <2>2, <2>3
<1>4. CASE i = 3
  <2>1. forwarder = "compose" /\ forwarder' = "waiting" /\ taken' = <<>> /\ windowQ' = windowQ \o now
    BY <1>1, <1>2, <1>4
  <2> HIDE DEF now
  <2> QED BY <1>1, <1>2, <1>3, <2>1
<1>5. CASE i # 3
  <2>1. taken' = now /\ windowQ' = windowQ
    BY <1>2, <1>5
  <2>2. \/ forwarder' = "quit"
        \/ (forwarder = "quit" /\ forwarder' = "show") \/ (forwarder = "show" /\ forwarder' = "compose")
    <3>1. i + 1 = 2 \/ i + 1 = 3
      BY <1>0, <1>5
    <3> QED BY <1>0, <1>1, <1>2, <1>5, <3>1, FilesInOrder
  <2> HIDE DEF now
  <2> QED BY <1>1, <1>2, <1>3, <2>1, <2>2
<1> QED BY <1>4, <1>5

(* There is one file of each name; a closed window leaves nothing to do. *)
LEMMA RequestsStep ==
  ProcessTyped /\ Owners /\ WindowSound /\ RequestsTyped /\ ProcessNext => RequestsTyped'
<1> SUFFICES ASSUME ProcessTyped, Owners, WindowSound, RequestsTyped, ProcessNext PROVE RequestsTyped'
  OBVIOUS
<1>e. <<>> \in Seq(Message)
  OBVIOUS
<1>0. requests \subseteq Request /\ taken \in Seq(Message) /\ windowQ \in Seq(Message) /\ owed \subseteq Launches \X Files
  BY DEF RequestsTyped
<1>1. CASE UNCHANGED <<requests, taken, windowQ, owed, window, forwarder>>
  BY <1>1 DEF RequestsTyped
<1>2. ASSUME NEW p \in Launches, Gone(p) PROVE RequestsTyped'
  <2>1. CASE at[p] \in {"first", "running"}
    <3>1. /\ taken' = <<>> /\ windowQ' = <<>> /\ requests' = {[r EXCEPT !.old = TRUE] : r \in requests} /\ owed' \subseteq owed
      BY <1>2, <2>1, GoneDoes
    <3>2. requests' \subseteq Request
      BY <1>0, <3>1 DEF Request
    <3>3. ASSUME NEW r \in requests', NEW s \in requests', r.file = s.file PROVE r = s
      <4>1. PICK a \in requests : r = [a EXCEPT !.old = TRUE]
        BY <3>1
      <4>2. PICK b \in requests : s = [b EXCEPT !.old = TRUE]
        BY <3>1
      <4>3. a.file = r.file /\ b.file = s.file
        BY <1>0, <4>1, <4>2 DEF Request
      <4>4. a = b
        BY <3>3, <4>3 DEF RequestsTyped
      <4> QED BY <4>1, <4>2, <4>4
    <3> QED BY <1>0, <1>e, <3>1, <3>2, <3>3 DEF RequestsTyped
  <2>2. CASE at[p] \notin {"first", "running"}
    BY <1>1, <1>2, <2>2, GoneDoes
  <2> QED BY <2>1, <2>2
<1>3. ASSUME NEW p \in Launches, Discard(p) PROVE RequestsTyped'
  <2>1. requests' \subseteq requests /\ owed' \subseteq owed /\ UNCHANGED <<taken, windowQ, window, forwarder>>
    BY <1>3 DEF Discard, Still
  <2> QED BY <1>0, <2>1 DEF RequestsTyped
<1>4. ASSUME NEW p \in Launches, NEW i \in 1..2, LeaveRequest(p, i) PROVE RequestsTyped'
  <2>1. PICK file \in Files : requests' = Left(file, p) /\ owed' = owed \union {<<p, file>>}
    BY <1>4, LeaveDoes
  <2>2. PICK new \in Request :
           /\ Left(file, p) = {r \in requests : r.file # file} \union {new}
           /\ new.file = file /\ ~new.old /\ p \in new.by
           /\ \A r \in requests : r.file = file => new.by = r.by \union {p}
           /\ (\A r \in requests : r.file # file) => new.by = {p}
    BY LeftDoes
  <2>3. UNCHANGED <<taken, windowQ, window, forwarder>>
    BY <1>4 DEF LeaveRequest, Still
  <2>4. requests' \subseteq Request /\ \A r, s \in requests' : r.file = s.file => r = s
    BY <1>0, <2>1, <2>2 DEF RequestsTyped
  <2>5. owed' \subseteq Launches \X Files
    <3>1. <<p, file>> \in Launches \X Files
      OBVIOUS
    <3> QED BY <1>0, <2>1, <3>1
  <2> QED BY <1>0, <2>3, <2>4, <2>5 DEF RequestsTyped
<1>5. ASSUME NEW i \in 1..3, Look(i) PROVE RequestsTyped'
  <2>0. forwarder \in Files
    BY <1>5, LookDoes
  <2>1. PICK now \in Seq(Message) :
              \/ forwarder' = "waiting" /\ taken' = <<>> /\ windowQ' = windowQ \o now
              \/ taken' = now /\ windowQ' = windowQ /\ forwarder' \in Files
    BY <1>5, LookDoes DEF Files
  <2>2. taken' \in Seq(Message) /\ windowQ' \in Seq(Message)
    <3>1. CASE taken' = <<>> /\ windowQ' = windowQ \o now
      BY <1>0, <1>e, <3>1
    <3>2. CASE taken' = now /\ windowQ' = windowQ
      BY <1>0, <3>2
    <3> QED BY <2>1, <3>1, <3>2
  <2>3. requests' \subseteq requests /\ UNCHANGED <<window, owed>>
    BY <1>5 DEF Look, Still
  <2>4. window.open
    BY <2>0 DEF Owners, Files
  <2>5. forwarder' = "waiting" => taken' = <<>>
    BY <2>1 DEF Files
  <2> QED BY <1>0, <2>2, <2>3, <2>4, <2>5 DEF RequestsTyped
<1>6. ASSUME window.open, windowQ' \in Seq(Message), owed' \subseteq owed, UNCHANGED <<requests, taken, forwarder>>, window'.open PROVE RequestsTyped'
  BY <1>0, <1>6 DEF RequestsTyped
<1>7. CASE Launch
  <2>1. lock \in Launches
    BY <1>7, InstanceIs DEF Launch
  <2>2. Gone(lock) \/ (window' = Shown(window) /\ windowQ' = Tail(windowQ) /\ owed' \subseteq owed /\ UNCHANGED <<requests, taken, forwarder>>)
    BY <1>7 DEF Launch, Still
  <2>3. CASE window' = Shown(window) /\ windowQ' = Tail(windowQ) /\ owed' \subseteq owed /\ UNCHANGED <<requests, taken, forwarder>>
    <3>1. windowQ # <<>> /\ window.open
      BY <1>7 DEF Launch
    <3>2. Tail(windowQ) \in Seq(Message)
      BY <1>0, <3>1
    <3>3. window'.open
      BY <2>3, <3>1 DEF Shown, WindowSound, WindowState
    <3> QED BY <1>6, <2>3, <3>1, <3>2, <3>3
  <2> QED BY <1>2, <2>1, <2>2, <2>3
<1>8. CASE CloseWindow
  <2>1. lock \in Launches /\ window.open
    BY <1>8, InstanceIs DEF CloseWindow, Poke
  <2>2. Gone(lock) \/ (window' = Hidden(window) /\ UNCHANGED <<requests, taken, windowQ, owed, forwarder>>)
    BY <1>8 DEF CloseWindow, Still
  <2>3. CASE window' = Hidden(window) /\ UNCHANGED <<requests, taken, windowQ, owed, forwarder>>
    <3>1. window'.open
      BY <2>1, <2>3 DEF Hidden, WindowSound, WindowState
    <3> QED BY <1>0, <1>6, <2>1, <2>3, <3>1
  <2> QED BY <1>2, <2>1, <2>2, <2>3
<1>9. ASSUME NEW what \in {"show", "compose", "quit"}, TrayClick(what) PROVE RequestsTyped'
  <2>1. Own(what) \in Message
    BY DEF Own, Message, Files
  <2>2. Append(windowQ, Own(what)) \in Seq(Message)
    BY <1>0, <2>1
  <2> QED BY <1>6, <1>9, <2>2 DEF TrayClick, Poke, Still
<1>10. CASE ClickToast
  <2>1. Own("open account") \in Message
    BY DEF Own, Message, Files
  <2>2. Append(windowQ, Own("open account")) \in Seq(Message)
    <3>1. \A m \in Message : Append(windowQ, m) \in Seq(Message)
      BY <1>0
    <3> QED BY <2>1, <3>1
  <2> QED BY <1>6, <1>10, <2>2 DEF ClickToast, Still
<1>11. ASSUME NEW on \in BOOLEAN, ChooseTheme(on) \/ SetCloseToTray(on) PROVE RequestsTyped'
  <2>1. window.open
    BY <1>11 DEF ChooseTheme, SetCloseToTray, Poke
  <2>2. window'.open
    BY <1>11, <2>1 DEF ChooseTheme, SetCloseToTray, WindowSound, WindowState
  <2> QED BY <1>0, <1>6, <1>11, <2>1, <2>2 DEF ChooseTheme, SetCloseToTray, Still
<1>12. ASSUME NEW p \in Launches, LaunchDies(p) PROVE RequestsTyped'
  BY <1>2, <1>12 DEF LaunchDies
<1>13. ASSUME NEW p \in Launches, NEW f \in Flags, StartLaunch(p, f) PROVE RequestsTyped'
  BY <1>1, <1>13 DEF StartLaunch, Still
<1>14. ASSUME NEW p \in Launches, TryLock(p) \/ CreateEvent(p) \/ Signal(p) PROVE RequestsTyped'
  BY <1>1, <1>14 DEF TryLock, CreateEvent, Signal, Still
<1>15. ASSUME NEW p \in Launches, NEW tray \in BOOLEAN, BuildWindow(p, tray) PROVE RequestsTyped'
  <2>1. forwarder' = "quit" /\ window'.open /\ UNCHANGED <<requests, taken, windowQ, owed>>
    BY <1>15, FilesInOrder DEF BuildWindow, Still
  <2> QED BY <1>0, <2>1 DEF RequestsTyped
<1>16. CASE Woken
  <2>1. forwarder' = "quit" /\ UNCHANGED <<requests, taken, windowQ, owed, window>>
    BY <1>16, FilesInOrder DEF Woken, Still
  <2> QED BY <1>0, <2>1 DEF RequestsTyped
<1>17. CASE Toast
  BY <1>1, <1>17 DEF Toast, Still
<1> QED BY <1>3, <1>4, <1>5, <1>7, <1>8, <1>9, <1>10, <1>11, <1>12, <1>13, <1>14, <1>15, <1>16, <1>17 DEF ProcessNext

(* One launch at a time holds the lock. *)
LEMMA OneHolds ==
  ASSUME ProcessTyped, Owners, NEW p \in Launches, at[p] \in Holding, NEW q \in Launches, at[q] \in Holding
  PROVE  q = p
BY DEF Owners

(* What an earlier instance left is not found by one that has cleared it away (claim). *)
LEMMA FreshStep == ProcessInv /\ ProcessNext => Fresh'
<1> SUFFICES ASSUME ProcessTyped, Owners, WindowSound, RequestsTyped, Fresh, ProcessNext PROVE Fresh'
  BY DEF ProcessInv
<1> DEFINE Past(p) == at[p] \in Holding \ {"locked"}
<1>0. taken \in Seq(Message) /\ windowQ \in Seq(Message) /\ requests \subseteq Request
  BY DEF RequestsTyped
<1>1. ASSUME requests' \subseteq requests, ToSet(taken') \union ToSet(windowQ') \subseteq ToSet(taken) \union ToSet(windowQ), UNCHANGED staleQuit,
             \A q \in Launches : at'[q] \in Holding \ {"locked"} => at[q] \in Holding \ {"locked"}
      PROVE  Fresh'
  BY <1>1 DEF Fresh
<1>2. ASSUME NEW p \in Launches, NEW s \in Places, s \notin Holding \ {"locked"}, at' = [at EXCEPT ![p] = s],
             UNCHANGED <<requests, taken, windowQ, staleQuit>>
      PROVE  Fresh'
  <2>1. \A q \in Launches : at'[q] = (IF q = p THEN s ELSE at[q])
    BY <1>2 DEF ProcessTyped
  <2> QED BY <1>1, <1>2, <2>1
<1>3. ASSUME NEW p \in Launches, Gone(p), UNCHANGED staleQuit PROVE Fresh'
  <2>1. \A q \in Launches : at'[q] = (IF q = p THEN "ended" ELSE at[q])
    BY <1>3, GoneDoes DEF ProcessTyped
  <2>2. CASE at[p] \in {"first", "running"}
    <3>1. taken' = <<>> /\ windowQ' = <<>>
      BY <1>3, <2>2, GoneDoes
    <3>2. at[p] \in Holding
      BY <2>2 DEF Holding
    <3>3. \A q \in Launches : at'[q] \notin Holding
      BY <2>1, <3>2, OneHolds DEF Holding
    <3> QED BY <1>3, <3>1, <3>3, ToSetEmpty DEF Fresh
  <2>3. CASE at[p] \notin {"first", "running"}
    <3>1. UNCHANGED <<requests, taken, windowQ>>
      BY <1>3, <2>3, GoneDoes
    <3>2. \A q \in Launches : at'[q] \in Holding \ {"locked"} => at[q] \in Holding \ {"locked"}
      BY <2>1 DEF Holding
    <3> QED BY <1>1, <1>3, <3>1, <3>2
  <2> QED BY <2>2, <2>3
<1>4. ASSUME NEW p \in Launches, Discard(p) PROVE Fresh'
  <2>1. at[p] = "locked" /\ requests' \subseteq requests /\ UNCHANGED <<taken, windowQ, staleQuit>>
    BY <1>4 DEF Discard, Still
  <2>2. CASE flags[p] = "quit"
    <3>1. at' = [at EXCEPT ![p] = "ended"]
      BY <1>4, <2>2 DEF Discard, Goto
    <3>2. \A q \in Launches : at'[q] \in Holding \ {"locked"} => at[q] \in Holding \ {"locked"}
      BY <3>1 DEF ProcessTyped, Holding
    <3> QED BY <1>1, <2>1, <3>2
  <2>3. CASE flags[p] # "quit"
    <3>1. requests' = {}
      BY <1>4, <2>3 DEF Discard
    <3> QED BY <2>1, <3>1 DEF Fresh
  <2> QED BY <2>2, <2>3
<1>5. ASSUME NEW p \in Launches, CreateEvent(p) PROVE Fresh'
  <2>1. at[p] = "discarded" /\ at' = [at EXCEPT ![p] = "first"] /\ UNCHANGED <<requests, taken, windowQ, staleQuit>>
    BY <1>5 DEF CreateEvent, Goto, Still
  <2>2. \A r \in requests : ~r.old
    BY <2>1 DEF Fresh, Holding
  <2> QED BY <2>1, <2>2 DEF Fresh
<1>6. ASSUME NEW p \in Launches, NEW tray \in BOOLEAN, BuildWindow(p, tray) PROVE Fresh'
  <2>1. at[p] = "first" /\ UNCHANGED <<requests, taken, windowQ, staleQuit>>
    BY <1>6 DEF BuildWindow, Still
  <2>2. \A r \in requests : ~r.old
    BY <2>1 DEF Fresh, Holding
  <2> QED BY <2>1, <2>2 DEF Fresh
<1>7. ASSUME NEW p \in Launches, NEW i \in 1..2, LeaveRequest(p, i) PROVE Fresh'
  <2>1. PICK file \in Files, s \in {"leaving 2", "signalling"} : requests' = Left(file, p) /\ at' = [at EXCEPT ![p] = s]
    BY <1>7, LeaveDoes
  <2>2. PICK new \in Request :
           /\ Left(file, p) = {r \in requests : r.file # file} \union {new}
           /\ new.file = file /\ ~new.old /\ p \in new.by
           /\ \A r \in requests : r.file = file => new.by = r.by \union {p}
           /\ (\A r \in requests : r.file # file) => new.by = {p}
    BY LeftDoes
  <2>3. UNCHANGED <<taken, windowQ, staleQuit>>
    BY <1>7 DEF LeaveRequest, Still
  <2>4. \A q \in Launches : at'[q] \in Holding \ {"locked"} => at[q] \in Holding \ {"locked"}
    BY <2>1 DEF ProcessTyped, Holding
  <2>5. \A r \in requests' : r.old => r \in requests
    BY <2>1, <2>2
  <2> QED BY <2>3, <2>4, <2>5 DEF Fresh
<1>8. ASSUME NEW i \in 1..3, Look(i) PROVE Fresh'
  <2>1. PICK now \in Seq(Message) :
          /\ now = taken \/ \E r \in requests : now = Append(taken, r)
          /\ \/ taken' = <<>> /\ windowQ' = windowQ \o now
             \/ taken' = now /\ windowQ' = windowQ
    BY <1>8, LookDoes
  <2>2. forwarder # "none"
    BY <1>8, LookDoes DEF Files
  <2>3. \A r \in requests : ~r.old
    BY <2>2 DEF Owners, Fresh, Holding
  <2>4. \A r \in ToSet(now) : ~r.old
    <3>1. CASE now = taken
      BY <3>1 DEF Fresh
    <3>2. CASE \E r \in requests : now = Append(taken, r)
      <4>1. PICK r \in requests : now = Append(taken, r)
        BY <3>2
      <4>2. ToSet(now) = ToSet(taken) \union {r}
        BY <1>0, <4>1, ToSetAppend
      <4> QED BY <2>3, <4>2 DEF Fresh
    <3> QED BY <2>1, <3>1, <3>2
  <2>5. \A r \in ToSet(taken') \union ToSet(windowQ') : ~r.old
    <3>1. CASE taken' = <<>> /\ windowQ' = windowQ \o now
      <4>1. ToSet(windowQ') = ToSet(windowQ) \union ToSet(now)
        BY <1>0, <3>1, ToSetConcat
      <4> QED BY <2>4, <3>1, <4>1, ToSetEmpty DEF Fresh
    <3>2. CASE taken' = now /\ windowQ' = windowQ
      BY <2>4, <3>2 DEF Fresh
    <3> QED BY <2>1, <3>1, <3>2
  <2>6. requests' \subseteq requests /\ UNCHANGED <<at, staleQuit>>
    BY <1>8 DEF Look, Still
  <2> QED BY <2>5, <2>6 DEF Fresh
<1>9. ASSUME NEW m \in Message, ~m.old, windowQ' = Append(windowQ, m), UNCHANGED <<at, requests, taken, staleQuit>> PROVE Fresh'
  <2>1. ToSet(windowQ') = ToSet(windowQ) \union {m}
    BY <1>0, <1>9, ToSetAppend
  <2> QED BY <1>9, <2>1 DEF Fresh
<1>10. CASE Launch
  <2>1. lock \in Launches /\ windowQ # <<>>
    BY <1>10, InstanceIs DEF Launch
  <2>2. Head(windowQ) \in ToSet(windowQ) /\ ToSet(Tail(windowQ)) \subseteq ToSet(windowQ)
    BY <1>0, <2>1, ToSetTail
  <2>3. CASE Head(windowQ).file = "quit"
    <3>1. Gone(lock) /\ staleQuit' = (staleQuit \/ Head(windowQ).old)
      BY <1>10, <2>3 DEF Launch
    <3>2. ~Head(windowQ).old /\ staleQuit = FALSE
      BY <2>2 DEF Fresh
    <3>3. UNCHANGED staleQuit
      BY <3>1, <3>2
    <3> QED BY <1>3, <2>1, <3>1, <3>3
  <2>4. CASE Head(windowQ).file # "quit"
    <3>1. windowQ' = Tail(windowQ) /\ UNCHANGED <<at, requests, taken, staleQuit>>
      BY <1>10, <2>4 DEF Launch, Still
    <3> QED BY <1>1, <2>2, <3>1
  <2> QED BY <2>3, <2>4
<1>11. CASE CloseWindow
  <2>1. lock \in Launches /\ UNCHANGED staleQuit
    BY <1>11, InstanceIs DEF CloseWindow, Poke, Still
  <2>2. Gone(lock) \/ UNCHANGED <<at, requests, taken, windowQ>>
    BY <1>11 DEF CloseWindow, Still
  <2> QED BY <1>1, <1>3, <2>1, <2>2
<1>12. ASSUME NEW what \in {"show", "compose", "quit"}, TrayClick(what) PROVE Fresh'
  <2>1. Own(what) \in Message /\ ~Own(what).old
    BY DEF Own, Message, Files
  <2> QED BY <1>9, <1>12, <2>1 DEF TrayClick, Still
<1>13. CASE ClickToast
  <2>1. Own("open account") \in Message /\ ~Own("open account").old
    BY DEF Own, Message, Files
  <2> QED BY <1>9, <1>13, <2>1 DEF ClickToast, Still
<1>14. ASSUME NEW p \in Launches, LaunchDies(p) PROVE Fresh'
  BY <1>3, <1>14 DEF LaunchDies, Still
<1>15. ASSUME NEW p \in Launches, NEW f \in Flags, StartLaunch(p, f) PROVE Fresh'
  BY <1>2, <1>15 DEF StartLaunch, Goto, Still, Places, Holding
<1>16. ASSUME NEW p \in Launches, TryLock(p) PROVE Fresh'
  <2>1. \E s \in {"locked", "leaving 1"} : at' = [at EXCEPT ![p] = s]
    BY <1>16 DEF TryLock, Goto
  <2> QED BY <1>2, <1>16, <2>1 DEF TryLock, Still, Places, Holding
<1>17. ASSUME NEW p \in Launches, Signal(p) PROVE Fresh'
  <2>1. \E s \in {"handed over", "failed"} : at' = [at EXCEPT ![p] = s]
    BY <1>17 DEF Signal, Goto
  <2> QED BY <1>2, <1>17, <2>1 DEF Signal, Still, Places, Holding
<1>18. CASE Woken \/ Toast
  BY <1>1, <1>18 DEF Woken, Toast, Still
<1>19. ASSUME NEW on \in BOOLEAN, ChooseTheme(on) \/ SetCloseToTray(on) PROVE Fresh'
  BY <1>1, <1>19 DEF ChooseTheme, SetCloseToTray, Still
<1> QED BY <1>4, <1>5, <1>6, <1>7, <1>8, <1>10, <1>11, <1>12, <1>13, <1>14, <1>15, <1>16, <1>17, <1>18, <1>19 DEF ProcessNext

(* Ownership of what is carried: a pair is Of a set of requests when one of them has it. *)
LEMMA OfMembers ==
  ASSUME NEW rs, NEW r \in rs, NEW p \in r.by PROVE <<p, r.file>> \in Of(rs)
BY DEF Of

(* What is owed is always somewhere: writing a file again keeps those who wrote it before. *)
LEMMA AccountedStep == ProcessInv /\ ProcessNext => Accounted'
<1> SUFFICES ASSUME ProcessTyped, Owners, WindowSound, RequestsTyped, Accounted, ProcessNext PROVE Accounted'
  BY DEF ProcessInv
<1>0. taken \in Seq(Message) /\ windowQ \in Seq(Message) /\ requests \subseteq Request /\ owed \subseteq Launches \X Files
  BY DEF RequestsTyped
<1>p. \A x \in owed : x = <<x[1], x[2]>>
  BY <1>0
<1>1. ASSUME owed' \subseteq owed, requests \subseteq requests', ToSet(taken) \subseteq ToSet(taken'), ToSet(windowQ) \subseteq ToSet(windowQ')
      PROVE  Accounted'
  BY <1>1 DEF Accounted, Carried
<1>2. ASSUME NEW p \in Launches, Gone(p) PROVE Accounted'
  <2>1. CASE at[p] \in {"first", "running"}
    <3>1. owed' = owed \ Of(requests \union {(windowQ \o taken)[i] : i \in 1..Len(windowQ \o taken)})
      BY <1>2, <2>1, GoneDoes
    <3>2. {(windowQ \o taken)[i] : i \in 1..Len(windowQ \o taken)} = ToSet(windowQ \o taken)
      <4>1. windowQ \o taken \in Seq(Message)
        BY <1>0
      <4>2. DOMAIN (windowQ \o taken) = 1..Len(windowQ \o taken)
        BY <4>1
      <4> QED BY <4>2 DEF ToSet
    <3>3. ToSet(windowQ \o taken) = ToSet(windowQ) \union ToSet(taken)
      BY <1>0, ToSetConcat
    <3>4. owed' = owed \ Of(Carried)
      <4>1. requests \union (ToSet(windowQ) \union ToSet(taken)) = Carried
        BY DEF Carried
      <4> QED BY <3>1, <3>2, <3>3, <4>1
    <3>5. \A x \in owed : x \in Of(Carried)
      <4> SUFFICES ASSUME NEW x \in owed PROVE x \in Of(Carried)
        OBVIOUS
      <4>1. PICK r \in Carried : x[1] \in r.by /\ x[2] = r.file
        BY DEF Accounted
      <4>2. <<x[1], r.file>> \in Of(Carried)
        BY <4>1, OfMembers
      <4> QED BY <1>p, <4>1, <4>2
    <3>6. owed' = {}
      BY <3>4, <3>5
    <3> QED BY <3>6 DEF Accounted
  <2>2. CASE at[p] \notin {"first", "running"}
    BY <1>1, <1>2, <2>2, GoneDoes
  <2> QED BY <2>1, <2>2
<1>3. ASSUME NEW p \in Launches, Discard(p) PROVE Accounted'
  <2> DEFINE gone == {r \in requests : r.file # "compose" \/ flags[p] # "quit"}
  <2>1. at[p] = "locked" /\ requests' = requests \ gone /\ owed' = owed \ Of(gone) /\ UNCHANGED <<taken, windowQ>>
    BY <1>3 DEF Discard, Still
  <2>2. ~window.open
    BY <2>1, OneHolds DEF Owners, Holding
  <2>3. ToSet(taken) = {} /\ ToSet(windowQ) = {}
    BY <2>2, ToSetEmpty DEF RequestsTyped
  <2> HIDE DEF gone
  <2>4. ASSUME NEW x \in owed' PROVE \E r \in requests' : x[1] \in r.by /\ x[2] = r.file
    <3>1. x \in owed /\ x \notin Of(gone)
      BY <2>1, <2>4
    <3>2. PICK r \in requests : x[1] \in r.by /\ x[2] = r.file
      BY <2>3, <3>1 DEF Accounted, Carried
    <3>3. r \notin gone
      <4>1. ASSUME r \in gone PROVE FALSE
        <5>1. <<x[1], r.file>> \in Of(gone)
          BY <3>2, <4>1, OfMembers
        <5>2. x = <<x[1], r.file>>
          BY <1>p, <3>1, <3>2
        <5> QED BY <3>1, <5>1, <5>2
      <4> QED BY <4>1
    <3> QED BY <2>1, <3>2, <3>3
  <2> QED BY <2>4 DEF Accounted, Carried
<1>4. ASSUME NEW p \in Launches, NEW i \in 1..2, LeaveRequest(p, i) PROVE Accounted'
  <2>1. PICK file \in Files : requests' = Left(file, p) /\ owed' = owed \union {<<p, file>>}
    BY <1>4, LeaveDoes
  <2>2. PICK new \in Request :
           /\ Left(file, p) = {r \in requests : r.file # file} \union {new}
           /\ new.file = file /\ ~new.old /\ p \in new.by
           /\ \A r \in requests : r.file = file => new.by = r.by \union {p}
           /\ (\A r \in requests : r.file # file) => new.by = {p}
    BY LeftDoes
  <2>3. UNCHANGED <<taken, windowQ>>
    BY <1>4 DEF LeaveRequest, Still
  <2>4. ASSUME NEW x \in owed' PROVE \E r \in Carried' : x[1] \in r.by /\ x[2] = r.file
    <3>0. new \in Carried' /\ \A r \in requests : r.file # file => r \in Carried'
      BY <2>1, <2>2 DEF Carried
    <3>1. CASE x = <<p, file>>
      <4>1. x[1] = p /\ x[2] = file
        BY <3>1
      <4> QED BY <2>2, <3>0, <4>1
    <3>2. CASE x \in owed
      <4>1. PICK r \in Carried : x[1] \in r.by /\ x[2] = r.file
        BY <3>2 DEF Accounted
      <4>2. CASE r \notin requests
        <5>1. r \in Carried'
          BY <2>3, <4>1, <4>2 DEF Carried
        <5> QED BY <4>1, <5>1
      <4>3. CASE r \in requests /\ r.file # file
        BY <3>0, <4>1, <4>3
      <4>4. CASE r \in requests /\ r.file = file
        <5>1. x[1] \in new.by /\ x[2] = new.file
          BY <2>2, <4>1, <4>4
        <5> QED BY <3>0, <5>1
      <4> QED BY <4>2, <4>3, <4>4
    <3> QED BY <2>1, <2>4, <3>1, <3>2
  <2> QED BY <2>4 DEF Accounted
<1>5. ASSUME NEW i \in 1..3, Look(i) PROVE Accounted'
  <2>1. PICK now \in Seq(Message) :
          /\ \/ now = taken /\ \A r \in requests : r.file # forwarder
             \/ \E r \in requests : r.file = forwarder /\ now = Append(taken, r)
          /\ \/ taken' = <<>> /\ windowQ' = windowQ \o now
             \/ taken' = now /\ windowQ' = windowQ
    BY <1>5, LookDoes
  <2>2. requests' = {r \in requests : r.file # forwarder} /\ UNCHANGED owed
    BY <1>5, LookDoes DEF Look, Still
  <2>3. ToSet(taken) \subseteq ToSet(now) /\ \A r \in requests : r.file = forwarder => r \in ToSet(now)
    <3>1. CASE now = taken /\ \A r \in requests : r.file # forwarder
      BY <3>1
    <3>2. CASE \E r \in requests : r.file = forwarder /\ now = Append(taken, r)
      <4>1. PICK r \in requests : r.file = forwarder /\ now = Append(taken, r)
        BY <3>2
      <4>2. ToSet(now) = ToSet(taken) \union {r}
        BY <1>0, <4>1, ToSetAppend
      <4>3. \A s \in requests : s.file = forwarder => s = r
        BY <4>1 DEF RequestsTyped
      <4> QED BY <4>2, <4>3
    <3> QED BY <2>1, <3>1, <3>2
  <2>4. ToSet(now) \union ToSet(windowQ) \subseteq ToSet(taken') \union ToSet(windowQ')
    <3>1. CASE taken' = <<>> /\ windowQ' = windowQ \o now
      BY <1>0, <3>1, ToSetConcat
    <3>2. CASE taken' = now /\ windowQ' = windowQ
      BY <3>2
    <3> QED BY <2>1, <3>1, <3>2
  <2>5. Carried \subseteq Carried'
    BY <2>2, <2>3, <2>4 DEF Carried
  <2> QED BY <2>2, <2>5 DEF Accounted
<1>6. CASE Launch
  <2>1. lock \in Launches /\ windowQ # <<>>
    BY <1>6, InstanceIs DEF Launch
  <2>2. CASE Head(windowQ).file = "quit"
    <3>1. Gone(lock)
      BY <1>6, <2>2 DEF Launch
    <3> QED BY <1>2, <2>1, <3>1
  <2>3. CASE Head(windowQ).file # "quit"
    <3>1. windowQ' = Tail(windowQ) /\ owed' = owed \ Of({Head(windowQ)}) /\ UNCHANGED <<requests, taken>>
      BY <1>6, <2>3 DEF Launch, Still
    <3>2. ToSet(windowQ) = {Head(windowQ)} \union ToSet(Tail(windowQ))
      BY <1>0, <2>1, ToSetTail
    <3>3. ASSUME NEW x \in owed' PROVE \E r \in Carried' : x[1] \in r.by /\ x[2] = r.file
      <4>1. x \in owed /\ x \notin Of({Head(windowQ)})
        BY <3>1, <3>3
      <4>2. PICK r \in Carried : x[1] \in r.by /\ x[2] = r.file
        BY <4>1 DEF Accounted
      <4>3. r # Head(windowQ)
        <5>1. ASSUME r = Head(windowQ) PROVE FALSE
          <6>1. <<x[1], r.file>> \in Of({Head(windowQ)})
            BY <4>2, <5>1, OfMembers
          <6>2. x = <<x[1], r.file>>
            BY <1>p, <4>1, <4>2
          <6> QED BY <4>1, <6>1, <6>2
        <5> QED BY <5>1
      <4>4. r \in Carried'
        BY <3>1, <3>2, <4>2, <4>3 DEF Carried
      <4> QED BY <4>2, <4>4
    <3> QED BY <3>3 DEF Accounted
  <2> QED BY <2>2, <2>3
<1>7. CASE CloseWindow
  <2>1. lock \in Launches
    BY <1>7, InstanceIs DEF CloseWindow, Poke
  <2>2. Gone(lock) \/ UNCHANGED <<requests, taken, windowQ, owed>>
    BY <1>7 DEF CloseWindow, Still
  <2> QED BY <1>1, <1>2, <2>1, <2>2
<1>8. ASSUME NEW m, windowQ' = Append(windowQ, m), UNCHANGED <<requests, taken, owed>> PROVE Accounted'
  <2>1. ToSet(windowQ') = ToSet(windowQ) \union {m}
    BY <1>0, <1>8, ToSetAppend
  <2> QED BY <1>1, <1>8, <2>1
<1>9. ASSUME NEW what \in {"show", "compose", "quit"}, TrayClick(what) PROVE Accounted'
  BY <1>8, <1>9 DEF TrayClick, Still
<1>10. CASE ClickToast
  BY <1>8, <1>10 DEF ClickToast, Still
<1>11. ASSUME NEW p \in Launches, LaunchDies(p) PROVE Accounted'
  BY <1>2, <1>11 DEF LaunchDies
<1>12. ASSUME NEW p \in Launches, NEW f \in Flags, StartLaunch(p, f) PROVE Accounted'
  BY <1>1, <1>12 DEF StartLaunch, Still
<1>13. ASSUME NEW p \in Launches, TryLock(p) \/ CreateEvent(p) \/ Signal(p) PROVE Accounted'
  BY <1>1, <1>13 DEF TryLock, CreateEvent, Signal, Still
<1>14. ASSUME NEW p \in Launches, NEW tray \in BOOLEAN, BuildWindow(p, tray) PROVE Accounted'
  BY <1>1, <1>14 DEF BuildWindow, Still
<1>15. CASE Woken \/ Toast
  BY <1>1, <1>15 DEF Woken, Toast, Still
<1>16. ASSUME NEW on \in BOOLEAN, ChooseTheme(on) \/ SetCloseToTray(on) PROVE Accounted'
  BY <1>1, <1>16 DEF ChooseTheme, SetCloseToTray, Still
<1> QED BY <1>3, <1>4, <1>5, <1>6, <1>7, <1>9, <1>10, <1>11, <1>12, <1>13, <1>14, <1>15, <1>16 DEF ProcessNext

(* A file of somebody who has signalled is found: the thread is before it on its round, or the event is set for another. *)
LEMMA FoundStep == ProcessInv /\ ProcessNext => WillBeFound'
<1> SUFFICES ASSUME ProcessTyped, Owners, WindowSound, RequestsTyped, WillBeFound, ProcessNext PROVE WillBeFound'
  BY DEF ProcessInv
<1>0. requests \subseteq Request
  BY DEF RequestsTyped
<1>1. ASSUME window.open \/ ~window'.open, requests' \subseteq requests, UNCHANGED <<event, forwarder>>,
             \A q \in Launches : at'[q] = "handed over" => at[q] = "handed over"
      PROVE  WillBeFound'
  <2>1. \A r \in requests : r.by \subseteq Launches
    BY <1>0 DEF Request
  <2> QED BY <1>1, <2>1 DEF WillBeFound, ToCome
<1>2. ASSUME ~window'.open PROVE WillBeFound'
  BY <1>2 DEF WillBeFound
<1>3. ASSUME event' = "set" \/ forwarder' = "quit" PROVE WillBeFound'
  BY <1>3 DEF WillBeFound, ToCome
<1>4. ASSUME NEW p \in Launches, NEW s, s # "handed over", at' = [at EXCEPT ![p] = s], requests' \subseteq requests,
             UNCHANGED <<event, forwarder, window>>
      PROVE  WillBeFound'
  <2>1. \A q \in Launches : at'[q] = "handed over" => at[q] = "handed over"
    BY <1>4 DEF ProcessTyped
  <2>2. window'.open = window.open
    BY <1>4
  <2> QED BY <1>1, <1>2, <1>4, <2>1, <2>2
<1>5. ASSUME NEW p \in Launches, Gone(p) PROVE WillBeFound'
  <2>1. CASE at[p] \in {"first", "running"}
    <3>1. ~window'.open
      BY <1>5, <2>1, GoneDoes DEF NoWindow
    <3> QED BY <1>2, <3>1
  <2>2. CASE at[p] \notin {"first", "running"}
    <3>1. at' = [at EXCEPT ![p] = "ended"] /\ UNCHANGED <<event, forwarder, window, requests>>
      BY <1>5, <2>2, GoneDoes
    <3> QED BY <1>4, <3>1
  <2> QED BY <2>1, <2>2
<1>6. ASSUME NEW p \in Launches, Discard(p) PROVE WillBeFound'
  <2>1. \E s \in {"ended", "discarded"} : at' = [at EXCEPT ![p] = s]
    BY <1>6 DEF Discard, Goto
  <2>2. requests' \subseteq requests /\ UNCHANGED <<event, forwarder, window>>
    BY <1>6 DEF Discard, Still
  <2> QED BY <1>4, <2>1, <2>2
<1>7. ASSUME NEW p \in Launches, CreateEvent(p) PROVE WillBeFound'
  <2>1. at[p] = "discarded" /\ UNCHANGED window
    BY <1>7 DEF CreateEvent, Still
  <2>2. ~window.open
    BY <2>1, OneHolds DEF Owners, Holding
  <2> QED BY <1>2, <2>1, <2>2
<1>8. ASSUME NEW p \in Launches, NEW tray \in BOOLEAN, BuildWindow(p, tray) PROVE WillBeFound'
  BY <1>3, <1>8, FilesInOrder DEF BuildWindow
<1>9. ASSUME NEW p \in Launches, NEW i \in 1..2, LeaveRequest(p, i) PROVE WillBeFound'
  <2>1. PICK file \in Files, s \in {"leaving 2", "signalling"} : requests' = Left(file, p) /\ at' = [at EXCEPT ![p] = s]
    BY <1>9, LeaveDoes
  <2>2. PICK new \in Request :
           /\ Left(file, p) = {r \in requests : r.file # file} \union {new}
           /\ new.file = file /\ ~new.old /\ p \in new.by
           /\ \A r \in requests : r.file = file => new.by = r.by \union {p}
           /\ (\A r \in requests : r.file # file) => new.by = {p}
    BY LeftDoes
  <2>3. UNCHANGED <<event, forwarder, window>>
    BY <1>9 DEF LeaveRequest, Still
  <2>4. ASSUME window.open, NEW r \in requests', NEW q \in r.by, at'[q] = "handed over" PROVE event = "set" \/ ToCome(r.file)
    <3>1. r \in Request
      BY <1>0, <2>1, <2>2
    <3>2. q \in Launches
      BY <3>1 DEF Request
    <3>3. q # p /\ at[q] = "handed over"
      BY <2>1, <2>4, <3>2 DEF ProcessTyped
    <3>4. \E o \in requests : o.file = r.file /\ q \in o.by
      <4>1. CASE r = new
        <5>1. \E o \in requests : o.file = file
          BY <2>2, <2>4, <3>3, <4>1
        <5>2. PICK o \in requests : o.file = file
          BY <5>1
        <5>3. q \in o.by
          BY <2>2, <2>4, <3>3, <4>1, <5>2
        <5> QED BY <2>2, <4>1, <5>2, <5>3
      <4>2. CASE r \in requests
        BY <2>4, <4>2
      <4> QED BY <2>1, <2>2, <2>4, <4>1, <4>2
    <3> QED BY <2>4, <3>3, <3>4 DEF WillBeFound
  <2> QED BY <2>3, <2>4 DEF WillBeFound, ToCome
<1>10. ASSUME NEW p \in Launches, Signal(p) PROVE WillBeFound'
  <2>1. CASE event = "none"
    <3>1. ~window.open /\ UNCHANGED window
      BY <1>10, <2>1 DEF Signal, Still, Owners
    <3> QED BY <1>2, <3>1
  <2>2. CASE event # "none"
    BY <1>3, <1>10, <2>2 DEF Signal
  <2> QED BY <2>1, <2>2
<1>11. ASSUME NEW i \in 1..3, Look(i) PROVE WillBeFound'
  <2>1. /\ forwarder \in Files /\ requests' = {r \in requests : r.file # forwarder}
        /\ \/ forwarder = "compose" /\ forwarder' = "waiting"
           \/ forwarder' = "quit"
           \/ (forwarder = "quit" /\ forwarder' = "show") \/ (forwarder = "show" /\ forwarder' = "compose")
    BY <1>11, LookDoes
  <2>2. UNCHANGED <<at, event, window>>
    BY <1>11 DEF Look, Still
  <2>3. \A r \in requests : r.file \in Files
    BY <1>0 DEF Request
  <2> QED BY <2>1, <2>2, <2>3 DEF WillBeFound, ToCome, Files
<1>12. CASE Woken
  BY <1>3, <1>12, FilesInOrder DEF Woken
<1>13. CASE Launch
  <2>1. lock \in Launches /\ window.open
    BY <1>13, InstanceIs DEF Launch
  <2>2. Gone(lock) \/ UNCHANGED <<requests, event, forwarder, at>>
    BY <1>13 DEF Launch, Still
  <2> QED BY <1>1, <1>5, <2>1, <2>2
<1>14. CASE CloseWindow
  <2>1. lock \in Launches /\ window.open
    BY <1>14, InstanceIs DEF CloseWindow, Poke
  <2>2. Gone(lock) \/ UNCHANGED <<requests, event, forwarder, at>>
    BY <1>14 DEF CloseWindow, Still
  <2> QED BY <1>1, <1>5, <2>1, <2>2
<1>15. ASSUME NEW p \in Launches, LaunchDies(p) PROVE WillBeFound'
  BY <1>5, <1>15 DEF LaunchDies
<1>16. ASSUME NEW p \in Launches, NEW f \in Flags, StartLaunch(p, f) PROVE WillBeFound'
  BY <1>4, <1>16 DEF StartLaunch, Goto, Still
<1>17. ASSUME NEW p \in Launches, TryLock(p) PROVE WillBeFound'
  <2>1. \E s \in {"locked", "leaving 1"} : at' = [at EXCEPT ![p] = s]
    BY <1>17 DEF TryLock, Goto
  <2> QED BY <1>4, <1>17, <2>1 DEF TryLock, Still
<1>18. CASE Toast \/ ClickToast
  <2>1. window.open
    BY <1>18 DEF Toast, ClickToast, Poke
  <2> QED BY <1>1, <1>18, <2>1 DEF Toast, ClickToast, Still
<1>19. ASSUME NEW what \in {"show", "compose", "quit"}, TrayClick(what) PROVE WillBeFound'
  BY <1>1, <1>19 DEF TrayClick, Poke, Still
<1>20. ASSUME NEW on \in BOOLEAN, ChooseTheme(on) \/ SetCloseToTray(on) PROVE WillBeFound'
  <2>1. window.open
    BY <1>20 DEF ChooseTheme, SetCloseToTray, Poke
  <2> QED BY <1>1, <1>20, <2>1 DEF ChooseTheme, SetCloseToTray, Still
<1> QED BY <1>6, <1>7, <1>8, <1>9, <1>10, <1>11, <1>12, <1>13, <1>14, <1>15, <1>16, <1>17, <1>18, <1>19, <1>20 DEF ProcessNext

(* Each step of the process keeps its invariant. *)
LEMMA ProcessStep == ProcessInv /\ ProcessNext => ProcessInv'
BY ProcessTypes, WindowStep, RequestsStep, FreshStep, AccountedStep, FoundStep DEF ProcessInv

(* The invariant gives what is checked of the process. *)
LEMMA ProcessImplies == ProcessInv => ProcessTypeOK /\ HandedOverIsServed /\ InstanceSound
<1> SUFFICES ASSUME ProcessInv PROVE ProcessTypeOK /\ HandedOverIsServed /\ InstanceSound
  OBVIOUS
<1>1. ProcessTypeOK
  <2>1. window.open => lock # Nobody /\ at[lock] = "running"
    BY InstanceIs, NobodyLaunches DEF ProcessInv
  <2> QED BY <2>1 DEF ProcessInv, ProcessTyped, ProcessTypeOK, Files
<1>2. HandedOverIsServed
  <2> SUFFICES ASSUME window.open, forwarder = "waiting", event = "unset", windowQ = <<>>, NEW x \in owed, at[x[1]] = "handed over" PROVE FALSE
    BY DEF HandedOverIsServed
  <2>1. taken = <<>>
    BY DEF ProcessInv, RequestsTyped
  <2>2. PICK r \in requests : x[1] \in r.by
    BY <2>1, ToSetEmpty DEF ProcessInv, Accounted, Carried
  <2> QED BY <2>2 DEF ProcessInv, WillBeFound, ToCome
<1>3. InstanceSound
  BY DEF ProcessInv, Fresh, WindowSound, InstanceSound
<1> QED BY <1>1, <1>2, <1>3

(* However launches interleave at every file operation, and whichever of them
   dies where: a launch that handed over is served or its request is on its
   way, no instance obeys a quit left for another, a hidden window can be
   brought back (instance.rs: acquire_in, claim, drain, forward); and at the
   endpoint one listener is reached and welcomes its own session's token
   only (ipc/local.rs: bind, accept, handshake). *)
THEOREM OneInstance == MCSpec => []InstanceIsOne
<1> DEFINE I == (part = "process" => ProcessInv) /\ (part = "ipc" => IpcInv)
<1>1. MCInit => I
  BY ProcessStarts, IpcStarts DEF MCInit
<1>2. I /\ [MCNext]_setupVars => I'
  <2> SUFFICES ASSUME I, [MCNext]_setupVars PROVE I'
    OBVIOUS
  <2>1. ASSUME part = "process", ProcessInv PROVE ProcessInv'
    <3>1. CASE ProcessNext
      BY <2>1, <3>1, ProcessStep
    <3>2. CASE UNCHANGED processVars
      BY <2>1, <3>2 DEF processVars, ProcessInv, ProcessTyped, Owners, WindowSound, RequestsTyped, Fresh, Accounted, Carried, WillBeFound, ToCome
    <3> QED BY <2>1, <3>1, <3>2 DEF MCNext, setupVars
  <2>2. ASSUME part = "ipc", IpcInv PROVE IpcInv'
    <3>1. CASE IpcNext
      BY <2>2, <3>1, IpcStep
    <3>2. CASE UNCHANGED ipcVars
      <4>1. IpcTyped' /\ NameLeads'
        BY <2>2, <3>2 DEF ipcVars, IpcInv, IpcTyped, NameLeads
      <4>2. QueueIsOwn'
        BY <2>2, <3>2 DEF ipcVars, IpcInv, QueueIsOwn
      <4>3. QueuedOnce'
        BY <2>2, <3>2 DEF ipcVars, IpcInv, QueuedOnce
      <4>4. ServesOwn' /\ WelcomesOwn'
        BY <2>2, <3>2 DEF ipcVars, IpcInv, ServesOwn, WelcomesOwn
      <4> QED BY <4>1, <4>2, <4>3, <4>4 DEF IpcInv
    <3> QED BY <2>2, <3>1, <3>2 DEF MCNext, setupVars
  <2>3. part' = part
    BY DEF MCNext, setupVars
  <2> QED BY <2>1, <2>2, <2>3
<1>3. I => InstanceIsOne
  BY ProcessImplies, IpcImplies DEF InstanceIsOne
<1> QED BY <1>1, <1>2, <1>3, PTL DEF MCSpec

(***************************************************************************)
(* The mail server                                                         *)
(***************************************************************************)

MailRecord == [uid : Nat \ {0}, mail : Nat, flags : SUBSET SystemFlags]
MailboxRecord == [next : Nat, msgs : Seq(MailRecord)]
ServerStates == {"off", "ready", "token", "rejected", "literal", "copying", "subscribing", "idling"}
ClientRecord ==
  [at : ServerStates, user : BOOLEAN, box : Boxes \union {NoBox}, known : SUBSET Nat, uid : Nat, copied : Nat,
   news : Seq(Boxes), told : Nat, missed : BOOLEAN, lagged : BOOLEAN]

(* No UID is used twice, and UIDNEXT is above them. *)
UidsOnce(box) ==
  /\ \A i \in 1..Len(box.msgs) : box.msgs[i].uid < box.next
  /\ \A i, j \in 1..Len(box.msgs) : box.msgs[i].uid = box.msgs[j].uid => i = j

(* A mailbox that is there has handed out more UIDs than it has messages. *)
SoundBox(box) ==
  /\ box \in MailboxRecord /\ UidsOnce(box)
  /\ Len(box.msgs) < box.next \/ (box.next = 0 /\ Len(box.msgs) = 0)

BoxesSound == boxes \in [Boxes -> MailboxRecord] /\ \A b \in Boxes : SoundBox(boxes[b]) /\ boxes[b].next <= MaxMail + 1

(* What the idling client still is to be told, or was not to be told. *)
Expects(r) == r.missed \/ \E i \in 1..Len(r.news) : r.news[i] = r.box

(* What a client copied is of the mailbox it has selected, and its queue is
   within the capacity. *)
ClientSound(r, bs) ==
  /\ r \in ClientRecord
  /\ r.box # NoBox => r.copied < bs[r.box].next
  /\ Len(r.news) <= NotifyCap /\ (r.news # <<>> => r.at = "idling")
  /\ r.at \in {"copying", "subscribing", "idling"} => r.box # NoBox
  /\ r.at = "idling" => r.told = bs[r.box].next \/ Expects(r)

ConnsSound(conns, bs) == conns \in [Clients -> ClientRecord] /\ \A c \in Clients : ClientSound(conns[c], bs)
ClientsSound == ConnsSound(imap, boxes)

(* The message m of mailbox b is this mail, not marked as deleted, and no client may mark it. *)
IsLeft(m, b, conns, mail) ==
  m.mail = mail /\ "Deleted" \notin m.flags /\ \A c \in Clients : conns[c].box = b => conns[c].copied # m.uid

LeftIn(box, b, conns, mail) == \E i \in 1..Len(box.msgs) : IsLeft(box.msgs[i], b, conns, mail)
Survives(bs, conns, mail) == \E b \in Boxes : LeftIn(bs[b], b, conns, mail)
AllLeft == delivered \in Nat /\ \A mail \in 1..delivered : Survives(boxes, imap, mail)

EnvelopeRecord == [at : {"off", "ready", "data"}, auth : BOOLEAN, rcpts : 0..2]
CountsSound == smtp \in EnvelopeRecord /\ copies \in 0..MaxCopies

ServerInv == BoxesSound /\ ClientsSound /\ AllLeft /\ CountsSound

(* A UID that was handed out names the same mail as before, if any. *)
Lasts(box, new) ==
  /\ new.next >= box.next
  /\ \A i \in 1..Len(new.msgs) : new.msgs[i].uid < box.next =>
       \E j \in 1..Len(box.msgs) : box.msgs[j].uid = new.msgs[i].uid /\ box.msgs[j].mail = new.msgs[i].mail

-----------------------------------------------------------------------------
(* What becomes of a mailbox *)

(* A message has come to the mailbox, last and with a UID of its own. *)
Grown(box, new, mail, marks) ==
  /\ SoundBox(new) /\ Lasts(box, new) /\ new.next > box.next
  /\ Len(new.msgs) = Len(box.msgs) + 1 /\ \A i \in 1..Len(box.msgs) : new.msgs[i] = box.msgs[i]
  /\ new.msgs[Len(new.msgs)].mail = mail /\ new.msgs[Len(new.msgs)].flags = marks /\ new.msgs[Len(new.msgs)].uid >= box.next
  /\ new.msgs[Len(new.msgs)].uid > 0

(* What a sound mailbox is made of. *)
LEMMA BoxIs ==
  ASSUME NEW box, SoundBox(box)
  PROVE  /\ box.next \in Nat /\ box.msgs \in Seq(MailRecord) /\ Len(box.msgs) \in Nat
         /\ \A i \in 1..Len(box.msgs) : /\ box.msgs[i] \in MailRecord /\ box.msgs[i].uid \in Nat \ {0} /\ box.msgs[i].mail \in Nat
                                        /\ box.msgs[i].flags \subseteq SystemFlags /\ box.msgs[i].uid < box.next
<1>1. box.next \in Nat /\ box.msgs \in Seq(MailRecord) /\ Len(box.msgs) \in Nat
  BY DEF SoundBox, MailboxRecord
<1>2. \A i \in 1..Len(box.msgs) : box.msgs[i] \in MailRecord
  BY <1>1
<1>3. \A m \in MailRecord : m.uid \in Nat \ {0} /\ m.mail \in Nat /\ m.flags \subseteq SystemFlags
  BY DEF MailRecord
<1> QED BY <1>1, <1>2, <1>3 DEF SoundBox, UidsOnce

(* A message appended has the next UID, so that no UID names two (Append_). *)
LEMMA AppendGrows ==
  ASSUME NEW box, SoundBox(box), NEW mail \in Nat, NEW marks \in SUBSET SystemFlags
  PROVE  Grown(box, Append_(box, mail, marks), mail, marks)
<1> DEFINE n == IF box.next = 0 THEN 1 ELSE box.next
           m == [uid |-> n, mail |-> mail, flags |-> marks]
           s == Append(box.msgs, m)
           new == [next |-> n + 1, msgs |-> s]
<1>1. /\ box.next \in Nat /\ box.msgs \in Seq(MailRecord) /\ Len(box.msgs) \in Nat
      /\ \A i \in 1..Len(box.msgs) : box.msgs[i].uid < box.next /\ box.msgs[i].uid \in Nat /\ box.msgs[i] \in MailRecord
  BY BoxIs
<1>2. n \in Nat \ {0} /\ n >= box.next /\ (box.next = 0 => n = 1) /\ (box.next > 0 => n = box.next)
  BY <1>1
<1>3. Append_(box, mail, marks) = new
  BY DEF Append_
<1> HIDE DEF n
<1>4. m \in MailRecord /\ m.uid = n /\ m.mail = mail /\ m.flags = marks
  BY <1>2 DEF MailRecord
<1>5. /\ s \in Seq(MailRecord) /\ Len(s) = Len(box.msgs) + 1 /\ s[Len(box.msgs) + 1] = m
      /\ \A i \in 1..Len(box.msgs) : s[i] = box.msgs[i]
  BY <1>1, <1>4, AppendIs
<1>6. new \in MailboxRecord /\ new.next = n + 1 /\ new.msgs = s
  BY <1>2, <1>5 DEF MailboxRecord
<1> HIDE DEF m, s, new
<1>7. \A i \in 1..Len(s) : i \in 1..Len(box.msgs) \/ i = Len(s)
  BY <1>1, <1>5
<1>8. \A i \in 1..Len(s) : s[i].uid < n + 1 /\ (i # Len(s) => s[i].uid < box.next)
  <2> SUFFICES ASSUME NEW i \in 1..Len(s) PROVE s[i].uid < n + 1 /\ (i # Len(s) => s[i].uid < box.next)
    OBVIOUS
  <2>1. CASE i \in 1..Len(box.msgs)
    <3>1. s[i] = box.msgs[i] /\ box.msgs[i].uid < box.next /\ box.msgs[i].uid \in Nat
      BY <1>1, <1>5, <2>1
    <3> QED BY <1>1, <1>2, <3>1
  <2>2. CASE i = Len(s)
    BY <1>2, <1>4, <1>5, <2>2
  <2> QED BY <1>7, <2>1, <2>2
<1>9. UidsOnce(new)
  <2>1. ASSUME NEW i \in 1..Len(s), NEW j \in 1..Len(s), s[i].uid = s[j].uid PROVE i = j
    <3>1. CASE i # Len(s) /\ j # Len(s)
      BY <1>5, <1>7, <2>1, <3>1 DEF SoundBox, UidsOnce
    <3>2. CASE i = Len(s) /\ j # Len(s)
      BY <1>1, <1>2, <1>4, <1>5, <1>7, <2>1, <3>2
    <3>3. CASE i # Len(s) /\ j = Len(s)
      BY <1>1, <1>2, <1>4, <1>5, <1>7, <2>1, <3>3
    <3> QED BY <3>1, <3>2, <3>3
  <2> QED BY <1>6, <1>8, <2>1 DEF UidsOnce
<1>10. Len(s) < n + 1
  BY <1>1, <1>2, <1>5 DEF SoundBox
<1>11. SoundBox(new)
  BY <1>6, <1>9, <1>10 DEF SoundBox
<1>12. Lasts(box, new)
  <2>1. ASSUME NEW i \in 1..Len(s), s[i].uid < box.next PROVE i \in 1..Len(box.msgs)
    BY <1>1, <1>2, <1>4, <1>5, <1>7, <2>1
  <2>2. new.next >= box.next
    BY <1>1, <1>2, <1>6
  <2>3. ASSUME NEW i \in 1..Len(new.msgs), new.msgs[i].uid < box.next
        PROVE  \E j \in 1..Len(box.msgs) : box.msgs[j].uid = new.msgs[i].uid /\ box.msgs[j].mail = new.msgs[i].mail
    <3>1. i \in 1..Len(box.msgs)
      BY <1>6, <2>1, <2>3
    <3> QED BY <1>5, <1>6, <3>1
  <2> QED BY <2>2, <2>3 DEF Lasts
<1> QED BY <1>1, <1>2, <1>3, <1>4, <1>5, <1>6, <1>11, <1>12 DEF Grown

(* Flags are taken away, and `marks` at most are added. *)
LEMMA StoreFlagsAre ==
  ASSUME NEW f \in SUBSET SystemFlags, NEW marks \in SUBSET SystemFlags, NEW mode \in {"+", "-", "="}
  PROVE  /\ StoreFlags(f, AddOf(mode, marks), RemoveOf(mode, marks)) \in SUBSET SystemFlags
         /\ ("Deleted" \notin f /\ ("Deleted" \notin marks \/ mode = "-")) => "Deleted" \notin StoreFlags(f, AddOf(mode, marks), RemoveOf(mode, marks))
BY DEF StoreFlags, AddOf, RemoveOf

(* t are the messages ms with other marks; STORE marks as deleted where it is told to. *)
Remarked(ms, t, hit, mode, marks) ==
  /\ t \in Seq(MailRecord) /\ Len(t) = Len(ms)
  /\ \A i \in 1..Len(ms) :
       /\ t[i].uid = ms[i].uid /\ t[i].mail = ms[i].mail
       /\ ("Deleted" \notin ms[i].flags /\ (i \notin hit \/ "Deleted" \notin marks \/ mode = "-")) => "Deleted" \notin t[i].flags

(* What STORE makes of the mailbox. *)
LEMMA MarkedIs ==
  ASSUME NEW ms \in Seq(MailRecord), NEW hit, NEW mode \in {"+", "-", "="}, NEW marks \in SUBSET SystemFlags
  PROVE  Remarked(ms, Marked(ms, hit, mode, marks), hit, mode, marks)
<1> DEFINE t == Marked(ms, hit, mode, marks)
<1>1. Len(ms) \in Nat /\ \A i \in 1..Len(ms) : ms[i] \in MailRecord
  OBVIOUS
<1>2. ASSUME NEW i \in 1..Len(ms)
      PROVE  /\ t[i] \in MailRecord /\ t[i].uid = ms[i].uid /\ t[i].mail = ms[i].mail
             /\ ("Deleted" \notin ms[i].flags /\ (i \notin hit \/ "Deleted" \notin marks \/ mode = "-")) => "Deleted" \notin t[i].flags
  <2>1. ms[i] \in MailRecord /\ ms[i].flags \in SUBSET SystemFlags
    BY <1>1 DEF MailRecord
  <2>2. CASE i \in hit
    <3> DEFINE f == StoreFlags(ms[i].flags, AddOf(mode, marks), RemoveOf(mode, marks))
    <3>1. t[i] = [ms[i] EXCEPT !.flags = f]
      BY <2>2 DEF Marked
    <3>2. f \in SUBSET SystemFlags /\ (("Deleted" \notin ms[i].flags /\ ("Deleted" \notin marks \/ mode = "-")) => "Deleted" \notin f)
      BY <2>1, StoreFlagsAre
    <3> HIDE DEF f, t
    <3>3. t[i] \in MailRecord /\ t[i].uid = ms[i].uid /\ t[i].mail = ms[i].mail /\ t[i].flags = f
      BY <2>1, <3>1, <3>2 DEF MailRecord
    <3> QED BY <2>2, <3>2, <3>3
  <2>3. CASE i \notin hit
    BY <2>1, <2>3 DEF Marked
  <2> QED BY <2>2, <2>3
<1>3. t \in [1..Len(ms) -> MailRecord]
  <2>1. DOMAIN t = 1..Len(ms) /\ t = [i \in 1..Len(ms) |-> t[i]]
    BY DEF Marked
  <2> HIDE DEF t
  <2> QED BY <1>2, <2>1
<1>4. t \in Seq(MailRecord) /\ Len(t) = Len(ms)
  <2> HIDE DEF t
  <2> QED BY <1>1, <1>3
<1>5. Remarked(ms, t, hit, mode, marks)
  BY <1>2, <1>4 DEF Remarked
<1> QED BY <1>5

(* The mailbox is as it was but for the marks of its messages. *)
Restored(box, new) ==
  /\ SoundBox(new) /\ Lasts(box, new) /\ new.next = box.next /\ Len(new.msgs) = Len(box.msgs)
  /\ \A i \in 1..Len(box.msgs) : new.msgs[i].uid = box.msgs[i].uid /\ new.msgs[i].mail = box.msgs[i].mail

(* A mailbox with the UIDs it had is sound, and its UIDs last. *)
LEMMA SameUids ==
  ASSUME NEW box, SoundBox(box), NEW new \in MailboxRecord, new.next = box.next, Len(new.msgs) = Len(box.msgs),
         \A i \in 1..Len(box.msgs) : new.msgs[i].uid = box.msgs[i].uid /\ new.msgs[i].mail = box.msgs[i].mail
  PROVE  Restored(box, new)
<1>1. box.next \in Nat /\ Len(box.msgs) \in Nat
  BY BoxIs
<1>2. UidsOnce(new)
  BY DEF SoundBox, UidsOnce
<1>3. Lasts(box, new)
  BY <1>1 DEF Lasts
<1> QED BY <1>2, <1>3 DEF SoundBox, Restored

(* EXPUNGE keeps what is not marked. *)
Swept(box, new) ==
  /\ SoundBox(new) /\ Lasts(box, new) /\ new.next = box.next
  /\ \A i \in 1..Len(box.msgs) : "Deleted" \notin box.msgs[i].flags => \E j \in 1..Len(new.msgs) : new.msgs[j] = box.msgs[i]

(* What EXPUNGE leaves is every message that is not marked, in its order (Kept). *)
LEMMA KeptIs ==
  ASSUME NEW box, SoundBox(box)
  PROVE  Swept(box, Kept(box))
<1> DEFINE s == box.msgs
           K == {i \in 1..Len(s) : "Deleted" \notin s[i].flags}
           p == Picked(s, K)
           new == Kept(box)
<1>1. /\ box \in MailboxRecord /\ box.next \in Nat /\ s \in Seq(MailRecord) /\ Len(s) \in Nat
      /\ \A i \in 1..Len(s) : s[i] \in MailRecord /\ s[i].uid < box.next /\ s[i].uid \in Nat
  BY BoxIs DEF SoundBox
<1>2. p \in Seq(MailRecord) /\ Len(p) <= Len(s) /\ Drawn(p, s, K)
  <2> HIDE DEF K, s
  <2> QED BY <1>1, PickedKeeps
<1>3. new = [box EXCEPT !.msgs = p]
  BY DEF Kept
<1> HIDE DEF p, new
<1>4. new \in MailboxRecord /\ new.next = box.next /\ new.msgs = p /\ Len(p) \in Nat
  BY <1>1, <1>2, <1>3 DEF MailboxRecord
<1>5. \A j \in 1..Len(p) : \E i \in 1..Len(s) : p[j] = s[i]
  BY <1>2 DEF Drawn
<1>6. \A j, k \in 1..Len(p) : j < k => p[j].uid # p[k].uid
  <2> SUFFICES ASSUME NEW j \in 1..Len(p), NEW k \in 1..Len(p), j < k PROVE p[j].uid # p[k].uid
    OBVIOUS
  <2>1. PICK a \in K \cap 1..Len(s), b \in K \cap 1..Len(s) : a < b /\ p[j] = s[a] /\ p[k] = s[b]
    BY <1>2 DEF Drawn
  <2>2. a \in 1..Len(s) /\ b \in 1..Len(s) /\ a # b
    BY <2>1
  <2> QED BY <2>1, <2>2 DEF SoundBox, UidsOnce
<1>7. UidsOnce(new)
  <2>1. ASSUME NEW i \in 1..Len(p), NEW j \in 1..Len(p), p[i].uid = p[j].uid PROVE i = j
    <3>1. ~(i < j) /\ ~(j < i)
      BY <1>6, <2>1
    <3> QED BY <1>4, <3>1
  <2>2. \A j \in 1..Len(p) : p[j].uid < box.next
    BY <1>1, <1>5
  <2> QED BY <1>4, <2>1, <2>2 DEF UidsOnce
<1>8. SoundBox(new)
  BY <1>1, <1>2, <1>4, <1>7 DEF SoundBox
<1>9. Lasts(box, new)
  <2>1. ASSUME NEW i \in 1..Len(p) PROVE \E j \in 1..Len(box.msgs) : box.msgs[j].uid = p[i].uid /\ box.msgs[j].mail = p[i].mail
    BY <1>5
  <2> QED BY <1>1, <1>4, <2>1 DEF Lasts
<1>10. \A i \in 1..Len(s) : "Deleted" \notin s[i].flags => \E j \in 1..Len(p) : p[j] = s[i]
  BY <1>2 DEF Drawn
<1>11. Swept(box, new)
  BY <1>4, <1>8, <1>9, <1>10 DEF Swept
<1> QED BY <1>11 DEF new

-----------------------------------------------------------------------------
(* What becomes of a client *)

(* The fields of a client. *)
LEMMA ClientIs ==
  ASSUME NEW r \in ClientRecord
  PROVE  /\ r.at \in ServerStates /\ r.user \in BOOLEAN /\ r.box \in Boxes \union {NoBox} /\ r.known \in SUBSET Nat /\ r.uid \in Nat
         /\ r.copied \in Nat /\ r.news \in Seq(Boxes) /\ r.told \in Nat /\ r.missed \in BOOLEAN /\ r.lagged \in BOOLEAN
         /\ Len(r.news) \in Nat
BY DEF ClientRecord

(* The broadcast of b has come to client r, who now is s. *)
Informed(r, s, b) ==
  /\ s \in ClientRecord /\ s.at = r.at /\ s.box = r.box /\ s.copied = r.copied /\ s.told = r.told
  /\ Len(s.news) <= NotifyCap /\ (s.news # <<>> => s.at = "idling")
  /\ r.at = "idling" => (Expects(r) \/ r.box = b => Expects(s))

(* Each idling client has the name of the mailbox in its queue, or is told that
   it lagged, and what it was to be told of its own mailbox before still is
   on its way or has been missed (Notified). *)
LEMMA NotifiedIs ==
  ASSUME NEW conns \in [Clients -> ClientRecord], NEW b \in Boxes, NEW c \in Clients,
         Len(conns[c].news) <= NotifyCap, conns[c].news # <<>> => conns[c].at = "idling"
  PROVE  Informed(conns[c], Notified(conns, b)[c], b)
<1> DEFINE r == conns[c]
           s == Notified(conns, b)[c]
<1> SUFFICES Informed(r, s, b)
  OBVIOUS
<1>1. r \in ClientRecord /\ Len(r.news) <= NotifyCap /\ (r.news # <<>> => r.at = "idling")
  OBVIOUS
<1>2. s = IF r.at # "idling" THEN r
          ELSE IF Len(r.news) < NotifyCap THEN [r EXCEPT !.news = Append(@, b)]
          ELSE [r EXCEPT !.news = Append(Tail(@), b), !.lagged = TRUE, !.missed = @ \/ r.news[1] = r.box]
  BY DEF Notified
<1> HIDE DEF r, s
<1>3. r.news \in Seq(Boxes) /\ Len(r.news) \in Nat /\ NotifyCap \in Nat \ {0} /\ r.missed \in BOOLEAN
  BY <1>1, ClientIs, MockAssumption
<1>4. CASE r.at # "idling"
  BY <1>1, <1>2, <1>4 DEF Informed
<1>5. CASE r.at = "idling" /\ Len(r.news) < NotifyCap
  <2> DEFINE t == Append(r.news, b)
  <2>1. /\ t \in Seq(Boxes) /\ Len(t) = Len(r.news) + 1 /\ t[Len(r.news) + 1] = b
        /\ \A i \in 1..Len(r.news) : t[i] = r.news[i]
    BY <1>3, AppendIs
  <2>2. s = [r EXCEPT !.news = t]
    BY <1>2, <1>5
  <2> HIDE DEF t
  <2>3. /\ s \in ClientRecord /\ s.at = r.at /\ s.box = r.box /\ s.copied = r.copied /\ s.told = r.told /\ s.missed = r.missed
        /\ s.news = t
    BY <1>1, <2>1, <2>2 DEF ClientRecord
  <2>4. Expects(r) \/ r.box = b => Expects(s)
    <3>1. CASE r.missed
      BY <2>3, <3>1 DEF Expects
    <3>2. ASSUME NEW i \in 1..Len(r.news), r.news[i] = r.box PROVE Expects(s)
      <4>1. i \in 1..Len(t) /\ t[i] = r.box
        BY <1>3, <2>1, <3>2
      <4> QED BY <2>3, <4>1 DEF Expects
    <3>3. CASE r.box = b
      <4>1. Len(r.news) + 1 \in 1..Len(t)
        BY <1>3, <2>1
      <4> QED BY <2>1, <2>3, <3>3, <4>1 DEF Expects
    <3> QED BY <3>1, <3>2, <3>3 DEF Expects
  <2>5. Len(t) <= NotifyCap
    BY <1>3, <1>5, <2>1
  <2> QED BY <1>5, <2>3, <2>4, <2>5 DEF Informed
<1>6. CASE r.at = "idling" /\ ~(Len(r.news) < NotifyCap)
  <2> DEFINE u == Tail(r.news)
             t == Append(u, b)
             m == r.missed \/ r.news[1] = r.box
  <2>1. Len(r.news) = NotifyCap /\ r.news # <<>>
    BY <1>1, <1>3, <1>6
  <2>2. u \in Seq(Boxes) /\ Len(u) = Len(r.news) - 1 /\ \A i \in 1..Len(r.news) - 1 : u[i] = r.news[i + 1]
    BY <1>3, <2>1, TailIs
  <2> HIDE DEF u
  <2>3. t \in Seq(Boxes) /\ Len(t) = Len(u) + 1 /\ t[Len(u) + 1] = b /\ \A i \in 1..Len(u) : t[i] = u[i]
    BY <2>2, AppendIs
  <2>4. s = [r EXCEPT !.news = t, !.lagged = TRUE, !.missed = m]
    BY <1>2, <1>6 DEF u
  <2>5. m \in BOOLEAN
    BY <1>3
  <2> HIDE DEF t, m
  <2>6. s \in ClientRecord /\ s.at = r.at /\ s.box = r.box /\ s.copied = r.copied /\ s.told = r.told /\ s.missed = m /\ s.news = t
    BY <1>1, <2>3, <2>4, <2>5 DEF ClientRecord
  <2>7. Expects(r) \/ r.box = b => Expects(s)
    <3>1. CASE r.missed
      BY <2>6, <3>1 DEF Expects, m
    <3>2. ASSUME NEW i \in 1..Len(r.news), r.news[i] = r.box PROVE Expects(s)
      <4>1. CASE i = 1
        BY <2>6, <3>2, <4>1 DEF Expects, m
      <4>2. CASE i # 1
        <5>1. i - 1 \in 1..Len(r.news) - 1 /\ (i - 1) + 1 = i
          BY <1>3, <4>2
        <5>2. u[i - 1] = r.box /\ i - 1 \in 1..Len(u)
          BY <2>2, <3>2, <5>1
        <5>3. t[i - 1] = r.box /\ i - 1 \in 1..Len(t)
          BY <1>3, <2>2, <2>3, <5>2
        <5> QED BY <2>6, <5>3 DEF Expects
      <4> QED BY <4>1, <4>2
    <3>3. CASE r.box = b
      <4>1. Len(u) + 1 \in 1..Len(t)
        BY <1>3, <2>1, <2>2, <2>3
      <4> QED BY <2>3, <2>6, <3>3, <4>1 DEF Expects
    <3> QED BY <3>1, <3>2, <3>3 DEF Expects
  <2>8. Len(t) <= NotifyCap
    BY <1>3, <2>1, <2>2, <2>3
  <2> QED BY <1>6, <2>6, <2>7, <2>8 DEF Informed
<1> QED BY <1>4, <1>5, <1>6

(* Only mailbox b has handed out UIDs. *)
HandsOut(bs, new, b) ==
  \A x \in Boxes : bs[x].next \in Nat /\ new[x].next \in Nat /\ new[x].next >= bs[x].next /\ (x # b => new[x].next = bs[x].next)

(* No client has come to a right to mark a message. *)
Harmless(conns, new) ==
  \A c \in Clients : \/ new[c].box = conns[c].box /\ new[c].copied = conns[c].copied
                     \/ new[c].box \in Boxes /\ new[c].copied = 0
                     \/ new[c].box = NoBox

(* No mailbox is the one of a client that has none selected. *)
LEMMA NoBoxIs == NoBox \notin Boxes
BY DEF NoBox, Boxes

(* After the broadcast of b the clients are in order with what b handed out. *)
LEMMA NotifiedSound ==
  ASSUME NEW conns, NEW bs, NEW new, NEW b \in Boxes, ConnsSound(conns, bs), HandsOut(bs, new, b)
  PROVE  ConnsSound(Notified(conns, b), new) /\ Harmless(conns, Notified(conns, b))
<1> DEFINE told == Notified(conns, b)
<1>1. conns \in [Clients -> ClientRecord] /\ \A c \in Clients : ClientSound(conns[c], bs)
  BY DEF ConnsSound
<1>2. ASSUME NEW c \in Clients PROVE Informed(conns[c], told[c], b)
  <2>1. Len(conns[c].news) <= NotifyCap /\ (conns[c].news # <<>> => conns[c].at = "idling")
    BY <1>1 DEF ClientSound
  <2> QED BY <1>1, <2>1, NotifiedIs
<1>3. told \in [Clients -> ClientRecord]
  <2>1. told = [c \in Clients |-> told[c]]
    BY DEF Notified
  <2> HIDE DEF told
  <2>2. \A c \in Clients : told[c] \in ClientRecord
    BY <1>2 DEF Informed
  <2> QED BY <2>1, <2>2
<1> HIDE DEF told
<1>4. ASSUME NEW c \in Clients PROVE ClientSound(told[c], new)
  <2> DEFINE r == conns[c]
             s == told[c]
  <2>1. Informed(r, s, b) /\ ClientSound(r, bs) /\ r \in ClientRecord
    BY <1>1, <1>2
  <2> HIDE DEF r, s
  <2>2. s \in ClientRecord /\ s.at = r.at /\ s.box = r.box /\ s.copied = r.copied /\ s.told = r.told
    BY <2>1 DEF Informed
  <2>3. s.box # NoBox => s.copied < new[s.box].next
    <3> SUFFICES ASSUME s.box # NoBox PROVE s.copied < new[s.box].next
      OBVIOUS
    <3>1. s.box \in Boxes /\ s.copied \in Nat
      BY <2>2, ClientIs
    <3>2. s.copied < bs[s.box].next
      BY <2>1, <2>2 DEF ClientSound
    <3> QED BY <3>1, <3>2 DEF HandsOut
  <2>4. s.at = "idling" => s.told = new[s.box].next \/ Expects(s)
    <3> SUFFICES ASSUME s.at = "idling", ~Expects(s) PROVE s.told = new[s.box].next
      OBVIOUS
    <3>1. r.box # b /\ ~Expects(r)
      BY <2>1, <2>2 DEF Informed
    <3>2. r.told = bs[r.box].next /\ r.box # NoBox
      BY <2>1, <2>2, <3>1 DEF ClientSound
    <3>3. r.box \in Boxes
      BY <2>1, <3>2, ClientIs
    <3> QED BY <2>2, <3>1, <3>2, <3>3 DEF HandsOut
  <2>5. s.at \in {"copying", "subscribing", "idling"} => s.box # NoBox
    BY <2>1, <2>2 DEF ClientSound
  <2>6. Len(s.news) <= NotifyCap /\ (s.news # <<>> => s.at = "idling")
    BY <2>1 DEF Informed
  <2>7. ClientSound(s, new)
    BY <2>2, <2>3, <2>4, <2>5, <2>6 DEF ClientSound
  <2> QED BY <2>7 DEF s
<1>5. Harmless(conns, told)
  BY <1>2 DEF Harmless, Informed
<1> QED BY <1>3, <1>4, <1>5 DEF ConnsSound, told

(* A message that is left stays so when no client comes to a right to mark it. *)
LEMMA HarmlessLeaves ==
  ASSUME NEW m, NEW b \in Boxes, NEW conns, NEW new, NEW mail, IsLeft(m, b, conns, mail), Harmless(conns, new), m.uid # 0
  PROVE  IsLeft(m, b, new, mail)
BY NoBoxIs DEF IsLeft, Harmless

(* A message with a fresh UID is one no client may mark. *)
LEMMA FreshIsFree ==
  ASSUME NEW m, NEW b \in Boxes, NEW bs, NEW conns, NEW mail, ConnsSound(conns, bs), bs[b].next \in Nat, m.uid \in Nat,
         m.uid >= bs[b].next, m.mail = mail, "Deleted" \notin m.flags
  PROVE  IsLeft(m, b, conns, mail)
<1> SUFFICES ASSUME NEW c \in Clients, conns[c].box = b PROVE conns[c].copied # m.uid
  BY DEF IsLeft
<1>1. ClientSound(conns[c], bs) /\ conns[c] \in ClientRecord
  BY DEF ConnsSound, ClientSound
<1>2. conns[c].copied < bs[b].next /\ conns[c].copied \in Nat
  BY <1>1, NoBoxIs, ClientIs DEF ClientSound
<1> QED BY <1>2

-----------------------------------------------------------------------------
(* Deliveries *)

(* Messages of this mail have come to the mailbox. *)
Received(box, new, mail) ==
  /\ SoundBox(new) /\ Lasts(box, new) /\ new.next > box.next
  /\ \A i \in 1..Len(box.msgs) : \E j \in 1..Len(new.msgs) : new.msgs[j] = box.msgs[i]
  /\ \E j \in 1..Len(new.msgs) : new.msgs[j].mail = mail /\ "Deleted" \notin new.msgs[j].flags /\ new.msgs[j].uid >= box.next

(* One message appended. *)
LEMMA GrownReceived ==
  ASSUME NEW box, NEW new, NEW mail, SoundBox(box), Grown(box, new, mail, {})
  PROVE  Received(box, new, mail)
<1>1. Len(box.msgs) \in Nat /\ Len(new.msgs) = Len(box.msgs) + 1
  BY BoxIs DEF Grown
<1>2. Len(new.msgs) \in 1..Len(new.msgs) /\ \A i \in 1..Len(box.msgs) : i \in 1..Len(new.msgs)
  BY <1>1
<1> QED BY <1>2 DEF Grown, Received

(* UIDs last from one mailbox to the next but one. *)
LEMMA LastsOn ==
  ASSUME NEW x, NEW y, NEW z, SoundBox(x), SoundBox(y), SoundBox(z), Lasts(x, y), Lasts(y, z)
  PROVE  Lasts(x, z)
<1>1. x.next \in Nat /\ y.next \in Nat /\ z.next \in Nat /\ \A i \in 1..Len(z.msgs) : z.msgs[i].uid \in Nat
  BY BoxIs
<1>2. z.next >= x.next
  BY <1>1 DEF Lasts
<1>3. ASSUME NEW i \in 1..Len(z.msgs), z.msgs[i].uid < x.next
      PROVE  \E j \in 1..Len(x.msgs) : x.msgs[j].uid = z.msgs[i].uid /\ x.msgs[j].mail = z.msgs[i].mail
  <2>1. z.msgs[i].uid < y.next
    BY <1>1, <1>3 DEF Lasts
  <2>2. PICK k \in 1..Len(y.msgs) : y.msgs[k].uid = z.msgs[i].uid /\ y.msgs[k].mail = z.msgs[i].mail
    BY <2>1 DEF Lasts
  <2>3. PICK j \in 1..Len(x.msgs) : x.msgs[j].uid = y.msgs[k].uid /\ x.msgs[j].mail = y.msgs[k].mail
    BY <1>3, <2>2 DEF Lasts
  <2> QED BY <2>2, <2>3
<1> QED BY <1>2, <1>3 DEF Lasts

(* The UIDs of a mailbox that stays what it is last. *)
LEMMA LastsSame ==
  ASSUME NEW box, SoundBox(box)
  PROVE  Lasts(box, box)
<1>1. box.next \in Nat
  BY BoxIs
<1> QED BY <1>1 DEF Lasts

(* Two recipients' copies of one mail. *)
LEMMA ReceivedTwice ==
  ASSUME NEW x, NEW y, NEW z, NEW mail, SoundBox(x), Received(x, y, mail), Received(y, z, mail)
  PROVE  Received(x, z, mail)
<1>1. SoundBox(y) /\ SoundBox(z) /\ Lasts(x, y) /\ Lasts(y, z) /\ z.next > y.next /\ y.next > x.next
  BY DEF Received
<1>2. x.next \in Nat /\ y.next \in Nat /\ z.next \in Nat /\ \A j \in 1..Len(z.msgs) : z.msgs[j].uid \in Nat
  BY <1>1, BoxIs
<1>3. Lasts(x, z) /\ z.next > x.next
  BY <1>1, <1>2, LastsOn
<1>4. ASSUME NEW i \in 1..Len(x.msgs) PROVE \E j \in 1..Len(z.msgs) : z.msgs[j] = x.msgs[i]
  <2>1. PICK k \in 1..Len(y.msgs) : y.msgs[k] = x.msgs[i]
    BY DEF Received
  <2>2. PICK j \in 1..Len(z.msgs) : z.msgs[j] = y.msgs[k]
    BY DEF Received
  <2> QED BY <2>1, <2>2
<1>5. \E j \in 1..Len(z.msgs) : z.msgs[j].mail = mail /\ "Deleted" \notin z.msgs[j].flags /\ z.msgs[j].uid >= x.next
  <2>1. PICK j \in 1..Len(z.msgs) : z.msgs[j].mail = mail /\ "Deleted" \notin z.msgs[j].flags /\ z.msgs[j].uid >= y.next
    BY DEF Received
  <2>2. z.msgs[j].uid >= x.next
    BY <1>1, <1>2, <2>1
  <2> QED BY <2>1, <2>2
<1> QED BY <1>1, <1>3, <1>4, <1>5 DEF Received

(* The UIDs of all mailboxes last. *)
BoxesLast(bs, new) == \A b \in Boxes : Lasts(bs[b], new[b])

(* The boxes but b, whose place new takes. *)
LEMMA Replaced ==
  ASSUME NEW bs \in [Boxes -> MailboxRecord], NEW b \in Boxes, NEW x, \A d \in Boxes : SoundBox(bs[d]), SoundBox(x), Lasts(bs[b], x)
  PROVE  /\ [bs EXCEPT ![b] = x] \in [Boxes -> MailboxRecord] /\ \A d \in Boxes : SoundBox([bs EXCEPT ![b] = x][d])
         /\ BoxesLast(bs, [bs EXCEPT ![b] = x]) /\ HandsOut(bs, [bs EXCEPT ![b] = x], b)
         /\ [bs EXCEPT ![b] = x][b] = x /\ \A d \in Boxes \ {b} : [bs EXCEPT ![b] = x][d] = bs[d]
<1> DEFINE new == [bs EXCEPT ![b] = x]
<1>1. x \in MailboxRecord
  BY DEF SoundBox
<1>2. new \in [Boxes -> MailboxRecord] /\ new[b] = x /\ \A d \in Boxes \ {b} : new[d] = bs[d]
  BY <1>1
<1> HIDE DEF new
<1>3. \A d \in Boxes : SoundBox(new[d]) /\ Lasts(bs[d], new[d])
  BY <1>2, LastsSame
<1>4. HandsOut(bs, new, b)
  <2> SUFFICES ASSUME NEW d \in Boxes PROVE bs[d].next \in Nat /\ new[d].next \in Nat /\ new[d].next >= bs[d].next /\ (d # b => new[d].next = bs[d].next)
    BY DEF HandsOut
  <2>1. bs[d].next \in Nat /\ new[d].next \in Nat
    BY <1>3, BoxIs
  <2> QED BY <1>2, <1>3, <2>1 DEF Lasts
<1> QED BY <1>2, <1>3, <1>4 DEF BoxesLast, new

(* What was left still is when only b changed, whose messages are all still there. *)
LEMMA StillLeft ==
  ASSUME NEW bs, NEW new, NEW b \in Boxes, NEW conns, NEW after, NEW mail, Survives(bs, conns, mail), Harmless(conns, after),
         \A d \in Boxes : SoundBox(bs[d]),
         \A d \in Boxes \ {b} : new[d] = bs[d],
         \A i \in 1..Len(bs[b].msgs) : "Deleted" \notin bs[b].msgs[i].flags => \E j \in 1..Len(new[b].msgs) : new[b].msgs[j] = bs[b].msgs[i]
  PROVE  Survives(new, after, mail)
<1>1. PICK d \in Boxes : LeftIn(bs[d], d, conns, mail)
  BY DEF Survives
<1>2. PICK i \in 1..Len(bs[d].msgs) : IsLeft(bs[d].msgs[i], d, conns, mail)
  BY <1>1 DEF LeftIn
<1>3. bs[d].msgs[i].uid # 0
  BY BoxIs
<1>4. IsLeft(bs[d].msgs[i], d, after, mail)
  BY <1>2, <1>3, HarmlessLeaves
<1>5. "Deleted" \notin bs[d].msgs[i].flags
  BY <1>4 DEF IsLeft
<1>6. PICK j \in 1..Len(new[d].msgs) : new[d].msgs[j] = bs[d].msgs[i]
  BY <1>5
<1>7. LeftIn(new[d], d, after, mail)
  BY <1>4, <1>6 DEF LeftIn
<1> QED BY <1>7 DEF Survives

(* Deliver is of the clients in order, and leaves the bound on UIDs to its guard. *)
LEMMA DeliverDoes ==
  ASSUME BoxesSound, AllLeft, NEW conns, ConnsSound(conns, boxes), Harmless(imap, conns), NEW b \in Boxes, NEW times,
         Deliver(conns, b, delivered + 1, times), delivered' = delivered + 1
  PROVE  BoxesSound' /\ ClientsSound' /\ AllLeft' /\ BoxesLast(boxes, boxes')
<1> DEFINE mail == delivered + 1
           once == Append_(boxes[b], mail, {})
           twice == Append_(once, mail, {})
           x == IF times = 2 THEN twice ELSE once
           mid == [boxes EXCEPT ![b] = once]
<1>1. /\ boxes \in [Boxes -> MailboxRecord] /\ \A d \in Boxes : SoundBox(boxes[d]) /\ boxes[d].next <= MaxMail + 1
      /\ delivered \in Nat /\ mail \in Nat /\ {} \in SUBSET SystemFlags
  BY DEF BoxesSound, AllLeft
<1>2. boxes' = [boxes EXCEPT ![b] = x] /\ boxes'[b].next <= MaxMail + 1
  BY DEF Deliver
<1>3. imap' = IF times = 2 THEN Notified(Notified(conns, b), b) ELSE Notified(conns, b)
  BY DEF Deliver
<1>4. SoundBox(once) /\ Received(boxes[b], once, mail)
  BY <1>1, AppendGrows, GrownReceived DEF Grown
<1>5. SoundBox(twice) /\ Received(once, twice, mail)
  <2> HIDE DEF once, mail
  <2> QED BY <1>1, <1>4, AppendGrows, GrownReceived DEF Grown
<1> HIDE DEF once, twice, mail, x
<1>6. Received(boxes[b], x, mail) /\ SoundBox(x) /\ Lasts(boxes[b], x)
  <2>1. Received(boxes[b], x, mail)
    BY <1>1, <1>4, <1>5, ReceivedTwice DEF x
  <2> QED BY <2>1 DEF Received
<1>7. /\ boxes' \in [Boxes -> MailboxRecord] /\ \A d \in Boxes : SoundBox(boxes'[d])
      /\ BoxesLast(boxes, boxes') /\ HandsOut(boxes, boxes', b)
      /\ boxes'[b] = x /\ \A d \in Boxes \ {b} : boxes'[d] = boxes[d]
  BY <1>1, <1>2, <1>6, Replaced
<1>8. BoxesSound'
  BY <1>1, <1>2, <1>7 DEF BoxesSound
<1>9. ConnsSound(imap', boxes') /\ Harmless(conns, imap')
  <2>1. CASE times # 2
    BY <1>3, <1>7, <2>1, NotifiedSound
  <2>2. CASE times = 2
    <3>1. /\ mid \in [Boxes -> MailboxRecord] /\ \A d \in Boxes : SoundBox(mid[d])
          /\ HandsOut(boxes, mid, b)
          /\ mid[b] = once /\ \A d \in Boxes \ {b} : mid[d] = boxes[d]
      <4>1. Lasts(boxes[b], once)
        BY <1>4 DEF Received
      <4> QED BY <1>1, <1>4, <4>1, Replaced
    <3>2. x = twice /\ Lasts(once, twice)
      BY <1>5, <2>2 DEF x, Received
    <3> HIDE DEF mid
    <3>3. HandsOut(mid, boxes', b)
      <4> SUFFICES ASSUME NEW d \in Boxes
                   PROVE  mid[d].next \in Nat /\ boxes'[d].next \in Nat /\ boxes'[d].next >= mid[d].next /\ (d # b => boxes'[d].next = mid[d].next)
        BY DEF HandsOut
      <4>1. mid[d].next \in Nat /\ boxes'[d].next \in Nat
        BY <1>7, <3>1, BoxIs
      <4>2. CASE d = b
        BY <1>7, <3>1, <3>2, <4>1, <4>2 DEF Lasts
      <4>3. CASE d # b
        BY <1>7, <3>1, <4>1, <4>3
      <4> QED BY <4>2, <4>3
    <3> DEFINE first == Notified(conns, b)
    <3>4. ConnsSound(first, mid) /\ Harmless(conns, first)
      BY <3>1, NotifiedSound
    <3> HIDE DEF first
    <3>5. ConnsSound(Notified(first, b), boxes') /\ Harmless(first, Notified(first, b))
      BY <3>3, <3>4, NotifiedSound
    <3>6. imap' = Notified(first, b)
      BY <1>3, <2>2 DEF first
    <3>7. ConnsSound(imap', boxes') /\ Harmless(first, imap')
      BY <3>5, <3>6
    <3>8. Harmless(conns, imap')
      BY <3>4, <3>7, NoBoxIs DEF Harmless
    <3> QED BY <3>7, <3>8
  <2> QED BY <2>1, <2>2
<1>10. Harmless(imap, imap')
  BY <1>9, NoBoxIs DEF Harmless
<1>11. AllLeft'
  <2> SUFFICES ASSUME NEW k \in 1..delivered + 1 PROVE Survives(boxes', imap', k)
    BY <1>1 DEF AllLeft, mail
  <2>1. CASE k = mail
    <3>1. PICK j \in 1..Len(x.msgs) : x.msgs[j].mail = mail /\ "Deleted" \notin x.msgs[j].flags /\ x.msgs[j].uid >= boxes[b].next
      BY <1>6 DEF Received
    <3>2. x.msgs[j].uid \in Nat /\ boxes[b].next \in Nat
      BY <1>1, <1>6, BoxIs
    <3>3. IsLeft(x.msgs[j], b, conns, mail)
      BY <3>1, <3>2, FreshIsFree
    <3>4. x.msgs[j].uid # 0
      BY <1>6, BoxIs
    <3>5. IsLeft(x.msgs[j], b, imap', mail)
      BY <1>9, <3>3, <3>4, HarmlessLeaves
    <3>6. LeftIn(boxes'[b], b, imap', mail)
      BY <1>7, <3>5 DEF LeftIn
    <3> QED BY <2>1, <3>6 DEF Survives
  <2>2. CASE k # mail
    <3>1. k \in 1..delivered
      BY <1>1, <2>2 DEF mail
    <3>2. Survives(boxes, imap, k)
      BY <3>1 DEF AllLeft
    <3>3. \A i \in 1..Len(boxes[b].msgs) : \E j \in 1..Len(boxes'[b].msgs) : boxes'[b].msgs[j] = boxes[b].msgs[i]
      BY <1>6, <1>7 DEF Received
    <3> QED BY <1>1, <1>7, <1>10, <3>2, <3>3, StillLeft
  <2> QED BY <2>1, <2>2
<1> QED BY <1>7, <1>8, <1>9, <1>11 DEF ClientsSound

-----------------------------------------------------------------------------
(* Commands *)

(* What each step does: the invariant holds after it, and UIDs last. *)
Advances == BoxesSound' /\ ClientsSound' /\ AllLeft' /\ BoxesLast(boxes, boxes')

(* A step of one client that leaves the mailboxes alone. *)
LEMMA ClientMoves ==
  ASSUME BoxesSound, ClientsSound, AllLeft, NEW c \in Clients, NEW r, ClientSound(r, boxes),
         \/ r.box = imap[c].box /\ r.copied = imap[c].copied
         \/ r.box \in Boxes /\ r.copied = 0
         \/ r.box = NoBox,
         Becomes(c, r), UNCHANGED boxes, UNCHANGED delivered
  PROVE  Advances
<1>1. imap \in [Clients -> ClientRecord] /\ r \in ClientRecord /\ imap' = [imap EXCEPT ![c] = r] /\ boxes' = boxes
  BY DEF ClientsSound, ConnsSound, ClientSound, Becomes
<1>2. imap' \in [Clients -> ClientRecord] /\ imap'[c] = r /\ \A d \in Clients \ {c} : imap'[d] = imap[d]
  BY <1>1
<1>3. ClientsSound'
  <2>1. \A d \in Clients : ClientSound(imap'[d], boxes)
    BY <1>2 DEF ClientsSound, ConnsSound
  <2> QED BY <1>1, <1>2, <2>1 DEF ClientsSound, ConnsSound
<1>4. Harmless(imap, imap')
  BY <1>2 DEF Harmless
<1>5. BoxesSound' /\ \A b \in Boxes : SoundBox(boxes[b])
  BY <1>1 DEF BoxesSound
<1>6. AllLeft'
  <2> SUFFICES ASSUME NEW mail \in 1..delivered PROVE Survives(boxes, imap', mail)
    BY <1>1 DEF AllLeft
  <2>1. PICK b \in Boxes : LeftIn(boxes[b], b, imap, mail)
    BY DEF AllLeft, Survives
  <2>2. LeftIn(boxes[b], b, imap', mail)
    BY <1>4, <1>5, <2>1, HarmlessLeaves, BoxIs DEF LeftIn
  <2> QED BY <2>2 DEF Survives
<1>7. BoxesLast(boxes, boxes')
  BY <1>1, <1>5, LastsSame DEF BoxesLast
<1> QED BY <1>3, <1>5, <1>6, <1>7 DEF Advances

(* COPY: the copy is left of the mail whose message the client may mark now. *)
LEMMA CopyDoes ==
  ASSUME BoxesSound, ClientsSound, AllLeft, NEW c \in Clients, NEW dest \in Boxes, NEW i \in 1..Len(Msgs(imap[c].box)),
         imap[c].at = "copying", CopyMessage(c, Msgs(imap[c].box)[i], dest), boxes'[dest].next <= MaxMail + 1, UNCHANGED delivered
  PROVE  Advances
<1> DEFINE home == imap[c].box
           m == boxes[home].msgs[i]
           conns == [imap EXCEPT ![c].at = "ready", ![c].copied = m.uid]
           x == Append_(boxes[dest], m.mail, m.flags)
           r == [imap[c] EXCEPT !.at = "ready", !.copied = m.uid]
<1>1. /\ boxes \in [Boxes -> MailboxRecord] /\ \A d \in Boxes : SoundBox(boxes[d]) /\ boxes[d].next <= MaxMail + 1
      /\ imap \in [Clients -> ClientRecord] /\ \A d \in Clients : ClientSound(imap[d], boxes)
  BY DEF BoxesSound, ClientsSound, ConnsSound
<1>2. home \in Boxes /\ imap[c] \in ClientRecord /\ ClientSound(imap[c], boxes)
  <2>1. home # NoBox /\ imap[c] \in ClientRecord
    BY <1>1 DEF ClientSound
  <2> QED BY <1>1, <2>1, ClientIs
<1>3. boxes' = [boxes EXCEPT ![dest] = x] /\ imap' = Notified(conns, dest)
  BY DEF CopyMessage, Msgs
<1>4. /\ i \in 1..Len(boxes[home].msgs) /\ m.mail \in Nat /\ m.flags \in SUBSET SystemFlags /\ m.uid \in Nat \ {0}
      /\ m.uid < boxes[home].next
  BY <1>1, <1>2, BoxIs DEF Msgs
<1>5. conns = [imap EXCEPT ![c] = r]
  BY <1>1
<1> HIDE DEF conns, x, m
<1>6. Grown(boxes[dest], x, m.mail, m.flags)
  BY <1>1, <1>4, AppendGrows DEF x
<1>7. SoundBox(x) /\ Lasts(boxes[dest], x)
  BY <1>6 DEF Grown
<1>8. /\ boxes' \in [Boxes -> MailboxRecord] /\ \A d \in Boxes : SoundBox(boxes'[d])
      /\ BoxesLast(boxes, boxes') /\ HandsOut(boxes, boxes', dest)
      /\ boxes'[dest] = x /\ \A d \in Boxes \ {dest} : boxes'[d] = boxes[d]
  BY <1>1, <1>3, <1>7, Replaced
<1>9. BoxesSound'
  BY <1>1, <1>8 DEF BoxesSound
<1>10. /\ r \in ClientRecord /\ r.at = "ready" /\ r.copied = m.uid /\ r.box = home /\ r.news = imap[c].news
  BY <1>2, <1>4 DEF ClientRecord, ServerStates
<1> HIDE DEF r
<1>11. ClientSound(r, boxes)
  BY <1>2, <1>4, <1>10 DEF ClientSound
<1>12. ConnsSound(conns, boxes)
  <2>1. conns \in [Clients -> ClientRecord] /\ conns[c] = r /\ \A d \in Clients \ {c} : conns[d] = imap[d]
    BY <1>1, <1>5, <1>10
  <2> QED BY <1>1, <1>11, <2>1 DEF ConnsSound
<1>13. ConnsSound(imap', boxes') /\ Harmless(conns, imap')
  BY <1>3, <1>8, <1>12, NotifiedSound
<1>14. conns[c] = r /\ \A d \in Clients \ {c} : conns[d] = imap[d]
  BY <1>1, <1>5
<1>15. AllLeft'
  <2> SUFFICES ASSUME NEW mail \in 1..delivered PROVE Survives(boxes', imap', mail)
    BY DEF AllLeft
  <2>1. PICK b \in Boxes : LeftIn(boxes[b], b, imap, mail)
    BY DEF AllLeft, Survives
  <2>2. PICK k \in 1..Len(boxes[b].msgs) : IsLeft(boxes[b].msgs[k], b, imap, mail)
    BY <2>1 DEF LeftIn
  <2>3. \A j \in 1..Len(boxes[dest].msgs) : \E l \in 1..Len(boxes'[dest].msgs) : boxes'[dest].msgs[l] = boxes[dest].msgs[j]
    <3>1. Len(boxes[dest].msgs) \in Nat /\ Len(x.msgs) = Len(boxes[dest].msgs) + 1
      BY <1>1, <1>6, BoxIs DEF Grown
    <3> QED BY <1>6, <1>8, <3>1 DEF Grown
  <2>4. CASE b = home /\ boxes[b].msgs[k].uid = m.uid
    <3>1. k = i
      BY <1>1, <1>2, <1>4, <2>4 DEF SoundBox, UidsOnce, m
    <3>2. m.mail = mail /\ "Deleted" \notin m.flags
      BY <2>2, <2>4, <3>1 DEF IsLeft, m
    <3> DEFINE last == x.msgs[Len(x.msgs)]
    <3>3. /\ last.mail = mail /\ "Deleted" \notin last.flags /\ last.uid >= boxes[dest].next /\ last.uid > 0
          /\ Len(x.msgs) \in 1..Len(x.msgs)
      <4>1. Len(boxes[dest].msgs) \in Nat /\ Len(x.msgs) = Len(boxes[dest].msgs) + 1
        BY <1>1, <1>6, BoxIs DEF Grown
      <4> QED BY <1>6, <3>2, <4>1 DEF Grown
    <3>4. last.uid \in Nat /\ boxes[dest].next \in Nat
      BY <1>1, <1>7, <3>3, BoxIs
    <3> HIDE DEF last
    <3>5. IsLeft(last, dest, conns, mail)
      BY <1>12, <3>3, <3>4, FreshIsFree
    <3>6. last.uid # 0
      BY <3>3, <3>4
    <3>7. IsLeft(last, dest, imap', mail)
      BY <1>13, <3>5, <3>6, HarmlessLeaves
    <3>8. LeftIn(boxes'[dest], dest, imap', mail)
      BY <1>8, <3>3, <3>7 DEF LeftIn, last
    <3> QED BY <3>8 DEF Survives
  <2>5. CASE ~(b = home /\ boxes[b].msgs[k].uid = m.uid)
    <3>1. IsLeft(boxes[b].msgs[k], b, conns, mail)
      BY <1>10, <1>14, <2>2, <2>5 DEF IsLeft
    <3>2. Survives(boxes, conns, mail)
      BY <3>1 DEF Survives, LeftIn
    <3> QED BY <1>1, <1>8, <1>13, <2>3, <3>2, StillLeft
  <2> QED BY <2>4, <2>5
<1> QED BY <1>8, <1>9, <1>13, <1>15 DEF Advances, ClientsSound

(* A mailbox changes, no client does. *)
LEMMA BoxChanges ==
  ASSUME BoxesSound, ClientsSound, NEW b \in Boxes, NEW x, SoundBox(x), Lasts(boxes[b], x), x.next = boxes[b].next,
         boxes' = [boxes EXCEPT ![b] = x], UNCHANGED imap
  PROVE  /\ BoxesSound' /\ ClientsSound' /\ BoxesLast(boxes, boxes')
         /\ boxes'[b] = x /\ \A d \in Boxes \ {b} : boxes'[d] = boxes[d]
<1>1. boxes \in [Boxes -> MailboxRecord] /\ \A d \in Boxes : SoundBox(boxes[d]) /\ boxes[d].next <= MaxMail + 1
  BY DEF BoxesSound
<1>2. /\ boxes' \in [Boxes -> MailboxRecord] /\ \A d \in Boxes : SoundBox(boxes'[d])
      /\ BoxesLast(boxes, boxes') /\ HandsOut(boxes, boxes', b)
      /\ boxes'[b] = x /\ \A d \in Boxes \ {b} : boxes'[d] = boxes[d]
  BY <1>1, Replaced
<1>3. \A d \in Boxes : boxes'[d].next = boxes[d].next
  BY <1>2
<1>4. BoxesSound'
  BY <1>1, <1>2, <1>3 DEF BoxesSound
<1>5. ClientsSound'
  <2> SUFFICES ASSUME NEW c \in Clients PROVE ClientSound(imap[c], boxes')
    BY DEF ClientsSound, ConnsSound
  <2>1. ClientSound(imap[c], boxes) /\ imap[c].box \in Boxes \union {NoBox}
    BY ClientIs DEF ClientsSound, ConnsSound
  <2> QED BY <1>3, <2>1 DEF ClientSound
<1> QED BY <1>2, <1>4, <1>5

(* STORE marks only what the client copied. *)
LEMMA StoreDoes ==
  ASSUME BoxesSound, ClientsSound, AllLeft, NEW c \in Clients, NEW isUid \in BOOLEAN, NEW set \in Sets, NEW mode \in {"+", "-", "="},
         NEW marks \in SUBSET SystemFlags, StoreCommand(c, isUid, set, mode, marks)
  PROVE  Advances
<1> DEFINE home == imap[c].box
           ms == boxes[home].msgs
           hit == Candidates(ms, isUid, set)
           t == Marked(ms, hit, mode, marks)
           x == [boxes[home] EXCEPT !.msgs = t]
<1>1. /\ boxes \in [Boxes -> MailboxRecord] /\ \A d \in Boxes : SoundBox(boxes[d])
      /\ imap[c] \in ClientRecord /\ imap' = imap /\ delivered' = delivered
  BY DEF BoxesSound, ClientsSound, ConnsSound, StoreCommand, Stays
<1>2. home \in Boxes
  BY <1>1, ClientIs DEF StoreCommand
<1>3. boxes' = [boxes EXCEPT ![home] = x]
  <2>1. boxes' = [boxes EXCEPT ![home].msgs = t]
    BY DEF StoreCommand, Msgs
  <2> HIDE DEF t
  <2> QED BY <1>1, <1>2, <2>1
<1>4. boxes[home] \in MailboxRecord /\ ms \in Seq(MailRecord) /\ SoundBox(boxes[home]) /\ Len(ms) \in Nat
  BY <1>1, <1>2, BoxIs
<1>5. ASSUME "Deleted" \in marks, mode # "-", NEW i \in hit PROVE ms[i].uid = imap[c].copied
  <2>1. isUid /\ set = <<imap[c].copied, imap[c].copied>>
    BY <1>5 DEF StoreCommand
  <2>2. ms[i].uid = ParseRange(set)[1]
    BY <1>5, <2>1 DEF Candidates
  <2> QED BY <2>1, <2>2 DEF ParseRange
<1> HIDE DEF ms, hit
<1>6. /\ t \in Seq(MailRecord) /\ Len(t) = Len(ms)
      /\ \A i \in 1..Len(ms) :
           /\ t[i].uid = ms[i].uid /\ t[i].mail = ms[i].mail
           /\ ("Deleted" \notin ms[i].flags /\ (i \notin hit \/ "Deleted" \notin marks \/ mode = "-")) => "Deleted" \notin t[i].flags
  <2>1. Remarked(ms, t, hit, mode, marks)
    BY <1>4, MarkedIs
  <2> QED BY <2>1 DEF Remarked
<1> HIDE DEF t
<1>7. x \in MailboxRecord /\ x.next = boxes[home].next /\ x.msgs = t
  BY <1>4, <1>6 DEF MailboxRecord
<1> HIDE DEF x
<1>8. Restored(boxes[home], x)
  BY <1>4, <1>6, <1>7, SameUids DEF ms
<1>9. SoundBox(x) /\ Lasts(boxes[home], x)
  BY <1>8 DEF Restored
<1>10. /\ BoxesSound' /\ ClientsSound' /\ BoxesLast(boxes, boxes')
       /\ boxes'[home] = x /\ \A d \in Boxes \ {home} : boxes'[d] = boxes[d]
  BY <1>1, <1>2, <1>3, <1>7, <1>9, BoxChanges
<1>11. AllLeft'
  <2> SUFFICES ASSUME NEW mail \in 1..delivered PROVE Survives(boxes', imap, mail)
    BY <1>1 DEF AllLeft
  <2>1. PICK b \in Boxes : LeftIn(boxes[b], b, imap, mail)
    BY DEF AllLeft, Survives
  <2>2. CASE b # home
    BY <1>10, <2>1, <2>2 DEF Survives
  <2>3. CASE b = home
    <3>1. PICK k \in 1..Len(ms) : IsLeft(ms[k], home, imap, mail)
      BY <2>1, <2>3 DEF LeftIn, ms
    <3>2. k \notin hit \/ "Deleted" \notin marks \/ mode = "-"
      BY <1>5, <3>1 DEF IsLeft
    <3>3. IsLeft(t[k], home, imap, mail)
      BY <1>6, <3>1, <3>2 DEF IsLeft
    <3>4. LeftIn(boxes'[home], home, imap, mail)
      BY <1>6, <1>7, <1>10, <3>3 DEF LeftIn
    <3> QED BY <1>2, <3>4 DEF Survives
  <2> QED BY <2>2, <2>3
<1> QED BY <1>10, <1>11 DEF Advances

(* EXPUNGE takes away marked messages only. *)
LEMMA ExpungeDoes ==
  ASSUME BoxesSound, ClientsSound, AllLeft, NEW c \in Clients, Expunge(c)
  PROVE  Advances
<1> DEFINE home == imap[c].box
           x == Kept(boxes[home])
<1>1. /\ boxes \in [Boxes -> MailboxRecord] /\ \A d \in Boxes : SoundBox(boxes[d])
      /\ imap[c] \in ClientRecord /\ imap' = imap /\ delivered' = delivered
  BY DEF BoxesSound, ClientsSound, ConnsSound, Expunge, Stays
<1>2. home \in Boxes
  BY <1>1, ClientIs DEF Expunge
<1>3. boxes' = [boxes EXCEPT ![home] = x]
  BY DEF Expunge
<1>4. Swept(boxes[home], x)
  BY <1>1, <1>2, KeptIs
<1> HIDE DEF x
<1>5. SoundBox(x) /\ Lasts(boxes[home], x) /\ x.next = boxes[home].next
  BY <1>4 DEF Swept
<1>6. /\ BoxesSound' /\ ClientsSound' /\ BoxesLast(boxes, boxes')
      /\ boxes'[home] = x /\ \A d \in Boxes \ {home} : boxes'[d] = boxes[d]
  BY <1>1, <1>2, <1>3, <1>5, BoxChanges
<1>7. AllLeft'
  <2> SUFFICES ASSUME NEW mail \in 1..delivered PROVE Survives(boxes', imap, mail)
    BY <1>1 DEF AllLeft
  <2>1. Survives(boxes, imap, mail) /\ Harmless(imap, imap)
    BY DEF AllLeft, Harmless
  <2>2. \A i \in 1..Len(boxes[home].msgs) : "Deleted" \notin boxes[home].msgs[i].flags =>
          \E j \in 1..Len(boxes'[home].msgs) : boxes'[home].msgs[j] = boxes[home].msgs[i]
    BY <1>4, <1>6 DEF Swept
  <2> QED BY <1>1, <1>2, <1>6, <2>1, <2>2, StillLeft
<1> QED BY <1>6, <1>7 DEF Advances

(* A command that changes no more than where the client's connection stands. *)
LEMMA StandsElsewhere ==
  ASSUME BoxesSound, ClientsSound, AllLeft, NEW c \in Clients, NEW r \in ClientRecord,
         r.box = imap[c].box, r.copied = imap[c].copied, r.news = imap[c].news, imap[c].at # "idling", r.at # "idling",
         r.at \in {"copying", "subscribing"} => r.box # NoBox,
         Becomes(c, r), UNCHANGED boxes, UNCHANGED delivered
  PROVE  Advances
<1>1. ClientSound(imap[c], boxes)
  BY DEF ClientsSound, ConnsSound
<1>2. ClientSound(r, boxes)
  BY <1>1 DEF ClientSound
<1> QED BY <1>2, ClientMoves

(* Off is a client. *)
LEMMA OffTyped == Off \in ClientRecord /\ Off.box = NoBox /\ Off.news = <<>> /\ Off.at = "off"
<1>1. <<>> \in Seq(Boxes) /\ {} \in SUBSET Nat
  OBVIOUS
<1> QED BY <1>1 DEF Off, ClientRecord, ServerStates

(* A client that has just connected, or is gone. *)
LEMMA OffIs ==
  ASSUME NEW p \in {"off", "ready"}
  PROVE  LET r == [Off EXCEPT !.at = p] IN ClientSound(r, boxes) /\ r.box = NoBox
<1> DEFINE r == [Off EXCEPT !.at = p]
<1>1. Len(<<>>) = 0
  OBVIOUS
<1>2. Off \in ClientRecord /\ Off.box = NoBox /\ Off.news = <<>>
  BY OffTyped
<1>3. r \in ClientRecord /\ r.box = NoBox /\ r.news = <<>> /\ r.at = p
  BY <1>2 DEF ClientRecord, ServerStates
<1> HIDE DEF r
<1>4. ClientSound(r, boxes)
  BY <1>1, <1>3, MockAssumption DEF ClientSound
<1> QED BY <1>3, <1>4 DEF r

(* The commands that change the client only. *)
LEMMA ClientStep ==
  ASSUME BoxesSound, ClientsSound, AllLeft, NEW c \in Clients,
         \/ Accept_(c) \/ Close(c) \/ Authenticate(c) \/ Acknowledge(c)
         \/ \E cred \in Credentials : Login(c, cred) \/ Token(c, cred)
         \/ \E b \in Boxes : Select(c, b)
         \/ \E set \in Sets : Fetch(c, set) \/ UidFetch(c, set)
         \/ \E n \in 1..2, isUid \in BOOLEAN : Copy(c, isUid, n)
         \/ UidFetchDropped(c) \/ AppendLiteral(c) \/ Idle(c) \/ Subscribe(c) \/ Recv(c) \/ Done(c)
  PROVE  Advances
<1> DEFINE i == imap[c]
<1>1. i \in ClientRecord /\ ClientSound(i, boxes) /\ \A b \in Boxes : SoundBox(boxes[b]) /\ boxes[b].next \in Nat
  BY BoxIs DEF ClientsSound, ConnsSound, BoxesSound
<1>2. i.box # NoBox => i.box \in Boxes /\ boxes[i.box].next \in Nat /\ Msgs(i.box) = boxes[i.box].msgs
  BY <1>1, ClientIs DEF Msgs
<1>3. ASSUME Accept_(c) \/ Close(c) \/ UidFetchDropped(c) PROVE Advances
  <2>1. PICK p \in {"off", "ready"} : Becomes(c, [Off EXCEPT !.at = p])
    <3>1. Becomes(c, [Off EXCEPT !.at = "ready"]) \/ Becomes(c, Off)
      BY <1>3 DEF Accept_, Close, UidFetchDropped
    <3>2. Off = [Off EXCEPT !.at = "off"]
      BY OffTyped DEF ClientRecord
    <3> QED BY <3>1, <3>2
  <2>2. UNCHANGED boxes /\ UNCHANGED delivered
    BY <1>3 DEF Accept_, Close, UidFetchDropped, Stays
  <2> QED BY <2>1, <2>2, OffIs, ClientMoves
<1>4. ASSUME NEW p \in {"token", "ready", "rejected", "literal", "subscribing"}, NEW u \in BOOLEAN,
             Becomes(c, [i EXCEPT !.at = p, !.user = u]), i.at # "idling", p = "subscribing" => i.box # NoBox,
             UNCHANGED boxes, UNCHANGED delivered
      PROVE  Advances
  <2> DEFINE r == [i EXCEPT !.at = p, !.user = u]
  <2>1. r \in ClientRecord /\ r.box = i.box /\ r.copied = i.copied /\ r.news = i.news /\ r.at = p
    BY <1>1 DEF ClientRecord, ServerStates
  <2> HIDE DEF r
  <2> QED BY <1>4, <2>1, StandsElsewhere DEF r
<1>5. i.user \in BOOLEAN /\ i = [i EXCEPT !.user = i.user] /\ \A p : [i EXCEPT !.at = p] = [i EXCEPT !.at = p, !.user = i.user]
  BY <1>1 DEF ClientRecord
<1>6. ASSUME Authenticate(c) \/ Acknowledge(c) \/ AppendLiteral(c) \/ Idle(c) PROVE Advances
  <2>1. PICK p \in {"token", "ready", "literal", "subscribing"} :
          Becomes(c, [i EXCEPT !.at = p]) /\ i.at # "idling" /\ (p = "subscribing" => i.box # NoBox)
    BY <1>6 DEF Authenticate, Acknowledge, AppendLiteral, Idle, Ready
  <2>2. UNCHANGED boxes /\ UNCHANGED delivered
    BY <1>6 DEF Authenticate, Acknowledge, AppendLiteral, Idle, Stays
  <2>3. Becomes(c, [i EXCEPT !.at = p, !.user = i.user])
    BY <1>5, <2>1
  <2> QED BY <1>4, <1>5, <2>1, <2>2, <2>3
<1>7. ASSUME NEW cred \in Credentials, Login(c, cred) \/ Token(c, cred) PROVE Advances
  <2>1. UNCHANGED boxes /\ UNCHANGED delivered
    BY <1>7 DEF Login, Token, Stays
  <2>2. CASE Login(c, cred)
    <3> DEFINE u == i.user \/ CheckLogin(cred)
    <3>1. i.at = "ready" /\ Becomes(c, [i EXCEPT !.user = u])
      BY <2>2 DEF Login, Ready
    <3>2. u \in BOOLEAN
      BY <1>5 DEF CheckLogin
    <3> HIDE DEF u
    <3>3. [i EXCEPT !.user = u] = [i EXCEPT !.at = "ready", !.user = u]
      BY <1>1, <3>1 DEF ClientRecord
    <3>4. Becomes(c, [i EXCEPT !.at = "ready", !.user = u])
      BY <3>1, <3>3
    <3> QED BY <1>4, <2>1, <3>1, <3>2, <3>4
  <2>3. CASE Token(c, cred)
    <3>1. i.at = "token" /\ \E p \in {"ready", "rejected"}, u \in BOOLEAN : Becomes(c, [i EXCEPT !.at = p, !.user = u])
      BY <1>5, <2>3 DEF Token
    <3> QED BY <1>4, <2>1, <3>1
  <2> QED BY <1>7, <2>2, <2>3
<1>8. ASSUME NEW b \in Boxes, Select(c, b) PROVE Advances
  <2> DEFINE r == [i EXCEPT !.box = b, !.known = {}, !.copied = 0]
  <2>1. UNCHANGED boxes /\ UNCHANGED delivered /\ Becomes(c, r) /\ i.at = "ready" /\ boxes[b].next # 0
    BY <1>8 DEF Select, Stays, Ready, Exists
  <2>2. r \in ClientRecord /\ r.box = b /\ r.copied = 0 /\ r.news = i.news /\ r.at = i.at
    BY <1>1 DEF ClientRecord
  <2> HIDE DEF r
  <2>3. ClientSound(r, boxes)
    BY <1>1, <2>1, <2>2, NoBoxIs DEF ClientSound
  <2> QED BY <2>1, <2>2, <2>3, ClientMoves
<1>9. ASSUME NEW set \in Sets, Fetch(c, set) \/ UidFetch(c, set) PROVE Advances
  <2>1. UNCHANGED boxes /\ UNCHANGED delivered /\ i.at = "ready" /\ i.box \in Boxes
    BY <1>2, <1>9 DEF Fetch, UidFetch, Stays, Ready
  <2>2. \A k \in 1..Len(Msgs(i.box)) : Msgs(i.box)[k].uid \in Nat
    <3>1. SoundBox(boxes[i.box]) /\ Msgs(i.box) = boxes[i.box].msgs
      BY <1>1, <2>1 DEF Msgs
    <3> QED BY <3>1, BoxIs
  <2>3. PICK known \in SUBSET Nat : Becomes(c, [i EXCEPT !.known = known])
    <3>1. CASE Fetch(c, set)
      BY <2>2, <3>1 DEF Fetch
    <3>2. CASE UidFetch(c, set)
      BY <2>2, <3>2 DEF UidFetch, Uids
    <3> QED BY <1>9, <3>1, <3>2
  <2> DEFINE r == [i EXCEPT !.known = known]
  <2>4. r \in ClientRecord /\ r.box = i.box /\ r.copied = i.copied /\ r.news = i.news /\ r.at = i.at
    BY <1>1 DEF ClientRecord
  <2> HIDE DEF r
  <2> QED BY <2>1, <2>3, <2>4, StandsElsewhere DEF r
<1>10. ASSUME NEW n \in 1..2, NEW isUid \in BOOLEAN, Copy(c, isUid, n) PROVE Advances
  <2>1. UNCHANGED boxes /\ UNCHANGED delivered /\ i.at = "ready" /\ i.box \in Boxes /\ i.box # NoBox
    BY <1>2, <1>10 DEF Copy, Stays, Ready
  <2> DEFINE u == IF isUid THEN n ELSE Msgs(i.box)[n].uid
             r == [i EXCEPT !.at = "copying", !.uid = u]
  <2>2. u \in Nat
    <3>1. CASE isUid
      BY <3>1
    <3>2. CASE ~isUid
      <4>1. SoundBox(boxes[i.box]) /\ Msgs(i.box) = boxes[i.box].msgs
        BY <1>1, <2>1 DEF Msgs
      <4>2. n <= Len(Msgs(i.box))
        BY <1>10, <3>2 DEF Copy
      <4>3. n \in 1..Len(boxes[i.box].msgs)
        BY <4>1, <4>2, BoxIs
      <4> QED BY <3>2, <4>1, <4>3, BoxIs
    <3> QED BY <3>1, <3>2
  <2>3. Becomes(c, r)
    BY <1>10 DEF Copy
  <2> HIDE DEF u
  <2>4. r \in ClientRecord /\ r.box = i.box /\ r.copied = i.copied /\ r.news = i.news /\ r.at = "copying"
    BY <1>1, <2>2 DEF ClientRecord, ServerStates
  <2> HIDE DEF r
  <2> QED BY <2>1, <2>3, <2>4, StandsElsewhere
<1>11. ASSUME Subscribe(c) PROVE Advances
  <2> DEFINE r == [i EXCEPT !.at = "idling", !.told = boxes[i.box].next, !.missed = FALSE, !.lagged = FALSE]
  <2>1. UNCHANGED boxes /\ UNCHANGED delivered /\ i.at = "subscribing" /\ Becomes(c, r)
    BY <1>11 DEF Subscribe, Stays
  <2>2. i.box \in Boxes /\ i.box # NoBox /\ boxes[i.box].next \in Nat
    BY <1>1, <1>2, <2>1 DEF ClientSound
  <2>3. r \in ClientRecord /\ r.box = i.box /\ r.copied = i.copied /\ r.news = i.news /\ r.at = "idling" /\ r.told = boxes[i.box].next
    BY <1>1, <2>2 DEF ClientRecord, ServerStates
  <2> HIDE DEF r
  <2>4. ClientSound(r, boxes)
    BY <1>1, <2>2, <2>3 DEF ClientSound
  <2> QED BY <2>1, <2>3, <2>4, ClientMoves
<1>12. ASSUME Done(c) PROVE Advances
  <2> DEFINE r == [i EXCEPT !.at = "ready", !.news = <<>>, !.told = 0, !.missed = FALSE, !.lagged = FALSE]
  <2>1. UNCHANGED boxes /\ UNCHANGED delivered /\ Becomes(c, r) /\ i.at = "idling"
    BY <1>12 DEF Done, Stays
  <2>2. <<>> \in Seq(Boxes) /\ Len(<<>>) = 0
    OBVIOUS
  <2>3. r \in ClientRecord /\ r.box = i.box /\ r.copied = i.copied /\ r.news = <<>> /\ r.at = "ready"
    BY <1>1, <2>2 DEF ClientRecord, ServerStates
  <2> HIDE DEF r
  <2>4. ClientSound(r, boxes)
    BY <1>1, <2>2, <2>3, MockAssumption DEF ClientSound
  <2> QED BY <2>1, <2>3, <2>4, ClientMoves
<1>13. ASSUME Recv(c) PROVE Advances
  <2>1. UNCHANGED boxes /\ UNCHANGED delivered /\ i.at = "idling" /\ i.box \in Boxes /\ i.box # NoBox
    BY <1>1, <1>2, <1>13 DEF Recv, Stays, ClientSound
  <2>2. CASE i.lagged /\ Becomes(c, [i EXCEPT !.lagged = FALSE])
    <3> DEFINE r == [i EXCEPT !.lagged = FALSE]
    <3>1. /\ r \in ClientRecord /\ r.box = i.box /\ r.copied = i.copied /\ r.news = i.news /\ r.at = i.at /\ r.told = i.told
          /\ r.missed = i.missed
      BY <1>1 DEF ClientRecord
    <3> HIDE DEF r
    <3>2. ClientSound(r, boxes)
      BY <1>1, <3>1 DEF ClientSound, Expects
    <3> QED BY <2>1, <2>2, <3>1, <3>2, ClientMoves DEF r
  <2>3. CASE i.news # <<>>
    <3> DEFINE own == i.news[1] = i.box
               told == IF own THEN boxes[i.box].next ELSE i.told
               missed == i.missed /\ ~own
               news == Tail(i.news)
               r == [i EXCEPT !.news = news, !.told = told, !.missed = missed]
    <3>1. CASE ~Becomes(c, r)
      BY <1>13, <2>2, <3>1 DEF Recv
    <3>2. CASE Becomes(c, r)
      <4>1. i.news \in Seq(Boxes) /\ i.told \in Nat /\ i.missed \in BOOLEAN /\ Len(i.news) <= NotifyCap
        BY <1>1, ClientIs DEF ClientSound
      <4>2. /\ news \in Seq(Boxes) /\ Len(i.news) \in Nat \ {0} /\ Len(news) = Len(i.news) - 1
            /\ \A k \in 1..Len(i.news) - 1 : news[k] = i.news[k + 1] /\ k + 1 \in 1..Len(i.news)
        BY <2>3, <4>1, TailIs
      <4>3. told \in Nat /\ missed \in BOOLEAN
        BY <1>1, <2>1, <4>1
      <4>4. own => told = boxes[i.box].next
        OBVIOUS
      <4>5. ~own => told = i.told /\ missed = i.missed
        BY <4>1
      <4> HIDE DEF told, missed, news
      <4>6. /\ r \in ClientRecord /\ r.box = i.box /\ r.copied = i.copied /\ r.news = news /\ r.at = "idling" /\ r.told = told
            /\ r.missed = missed
        BY <1>1, <2>1, <4>2, <4>3 DEF ClientRecord
      <4> HIDE DEF r
      <4>7. r.told = boxes[r.box].next \/ Expects(r)
        <5>1. CASE own
          BY <4>4, <4>6, <5>1
        <5>2. CASE ~own
          <6>1. CASE i.told = boxes[i.box].next
            BY <4>5, <4>6, <5>2, <6>1
          <6>2. CASE i.missed
            BY <4>5, <4>6, <5>2, <6>2 DEF Expects
          <6>3. ASSUME NEW k \in 1..Len(i.news), i.news[k] = i.box PROVE Expects(r)
            <7>1. k # 1 /\ k - 1 \in 1..Len(i.news) - 1 /\ (k - 1) + 1 = k
              BY <4>2, <5>2, <6>3
            <7>2. news[k - 1] = i.box /\ k - 1 \in 1..Len(news)
              BY <4>2, <6>3, <7>1
            <7> QED BY <4>6, <7>2 DEF Expects
          <6> QED BY <1>1, <2>1, <6>1, <6>2, <6>3 DEF ClientSound, Expects
        <5> QED BY <5>1, <5>2
      <4>8. Len(news) <= NotifyCap
        BY <4>1, <4>2, MockAssumption
      <4>9. ClientSound(r, boxes)
        BY <1>1, <2>1, <4>6, <4>7, <4>8 DEF ClientSound
      <4> QED BY <2>1, <3>2, <4>6, <4>9, ClientMoves
    <3> QED BY <3>1, <3>2
  <2> QED BY <1>13, <2>2, <2>3 DEF Recv
<1> QED BY <1>3, <1>6, <1>7, <1>8, <1>9, <1>10, <1>11, <1>12, <1>13

(* The commands with a lemma of their own, and those that change a client. *)
LEMMA CommandStep ==
  ASSUME BoxesSound, ClientsSound, AllLeft, NEW c \in Clients, Command(c)
  PROVE  Advances
<1>1. ASSUME NEW b \in Boxes, AppendEnd(c, b) PROVE Advances
  <2> DEFINE r == [imap[c] EXCEPT !.at = "ready"]
             conns == [imap EXCEPT ![c].at = "ready"]
  <2>1. /\ imap \in [Clients -> ClientRecord] /\ imap[c] \in ClientRecord /\ imap[c].at = "literal" /\ ClientSound(imap[c], boxes)
        /\ \A d \in Clients : ClientSound(imap[d], boxes)
    BY <1>1 DEF AppendEnd, ClientsSound, ConnsSound
  <2>2. Deliver(conns, b, delivered + 1, 1) /\ delivered' = delivered + 1
    BY <1>1 DEF AppendEnd
  <2>3. r \in ClientRecord /\ r.box = imap[c].box /\ r.copied = imap[c].copied /\ r.news = imap[c].news /\ r.at = "ready"
    BY <2>1 DEF ClientRecord, ServerStates
  <2>4. conns = [imap EXCEPT ![c] = r]
    BY <2>1
  <2> HIDE DEF r, conns
  <2>5. ClientSound(r, boxes)
    BY <2>1, <2>3 DEF ClientSound
  <2>6. conns \in [Clients -> ClientRecord] /\ conns[c] = r /\ \A d \in Clients \ {c} : conns[d] = imap[d]
    BY <2>1, <2>3, <2>4
  <2>7. ConnsSound(conns, boxes) /\ Harmless(imap, conns)
    BY <2>1, <2>3, <2>5, <2>6 DEF ConnsSound, Harmless
  <2> QED BY <2>2, <2>7, DeliverDoes DEF Advances
<1>2. ASSUME NEW dest \in Boxes, CopyEnd(c, dest) PROVE Advances
  <2>1. imap[c].at = "copying" /\ UNCHANGED delivered /\ boxes'[dest].next <= MaxMail + 1
    BY <1>2 DEF CopyEnd
  <2>2. CASE imap[c].uid \in Uids(imap[c].box)
    <3>1. PICK i \in 1..Len(Msgs(imap[c].box)) : CopyMessage(c, Msgs(imap[c].box)[i], dest)
      BY <1>2, <2>2 DEF CopyEnd
    <3> QED BY <2>1, <3>1, CopyDoes
  <2>3. CASE imap[c].uid \notin Uids(imap[c].box)
    <3> DEFINE r == [imap[c] EXCEPT !.at = "ready"]
    <3>1. Becomes(c, r) /\ UNCHANGED boxes
      BY <1>2, <2>3 DEF CopyEnd
    <3>2. imap[c] \in ClientRecord
      BY DEF ClientsSound, ConnsSound
    <3>3. r \in ClientRecord /\ r.box = imap[c].box /\ r.copied = imap[c].copied /\ r.news = imap[c].news /\ r.at = "ready"
      BY <3>2 DEF ClientRecord, ServerStates
    <3> HIDE DEF r
    <3> QED BY <2>1, <3>1, <3>3, StandsElsewhere
  <2> QED BY <2>2, <2>3
<1>3. ASSUME NEW set \in Sets, NEW isUid \in BOOLEAN, NEW mode \in {"+", "-", "="}, NEW marks \in {{"Seen"}, {"Deleted"}},
             StoreCommand(c, isUid, set, mode, marks)
      PROVE  Advances
  <2>1. marks \in SUBSET SystemFlags
    BY DEF SystemFlags
  <2> QED BY <1>3, <2>1, StoreDoes
<1>4. ASSUME Expunge(c) PROVE Advances
  BY <1>4, ExpungeDoes
<1>5. CASE \/ Accept_(c) \/ Close(c) \/ Authenticate(c) \/ Acknowledge(c)
           \/ \E cred \in Credentials : Login(c, cred) \/ Token(c, cred)
           \/ \E b \in Boxes : Select(c, b)
           \/ \E set \in Sets : Fetch(c, set) \/ UidFetch(c, set)
           \/ \E n \in 1..2, isUid \in BOOLEAN : Copy(c, isUid, n)
           \/ UidFetchDropped(c) \/ AppendLiteral(c) \/ Idle(c) \/ Subscribe(c) \/ Recv(c) \/ Done(c)
  BY <1>5, ClientStep
<1> QED BY <1>1, <1>2, <1>3, <1>4, <1>5 DEF Command

(* A step that touches neither mailboxes nor connections. *)
LEMMA NothingMoves ==
  ASSUME BoxesSound, ClientsSound, AllLeft, UNCHANGED <<boxes, imap, delivered>>
  PROVE  Advances
<1>1. boxes' = boxes /\ imap' = imap /\ delivered' = delivered
  OBVIOUS
<1>2. BoxesSound' /\ ClientsSound' /\ AllLeft'
  BY <1>1 DEF BoxesSound, ClientsSound, AllLeft
<1>3. BoxesLast(boxes, boxes')
  BY <1>1, LastsSame DEF BoxesSound, BoxesLast
<1> QED BY <1>2, <1>3 DEF Advances

(* The recipients and the copies are within their bounds. *)
LEMMA CountsStep ==
  ASSUME CountsSound, ServerNext
  PROVE  CountsSound'
<1>1. smtp \in EnvelopeRecord /\ copies \in 0..MaxCopies
  BY DEF CountsSound
<1>2. smtp' \in EnvelopeRecord
  <2>1. CASE UNCHANGED smtp
    BY <1>1, <2>1
  <2>2. ASSUME SmtpOpen \/ SmtpClose \/ MailFrom \/ Rset \/ Data \/ DataCut \/ DataEnd PROVE smtp' \in EnvelopeRecord
    <3>1. NoMail \in EnvelopeRecord /\ NoMail.at = "off"
      BY DEF NoMail, EnvelopeRecord
    <3>2. ASSUME SmtpOpen PROVE smtp' \in EnvelopeRecord
      BY <3>1, <3>2 DEF SmtpOpen, EnvelopeRecord
    <3>3. ASSUME SmtpClose \/ DataCut PROVE smtp' \in EnvelopeRecord
      BY <3>1, <3>3 DEF SmtpClose, DataCut
    <3>4. ASSUME MailFrom \/ Rset PROVE smtp' \in EnvelopeRecord
      BY <1>1, <3>4 DEF MailFrom, Rset, EnvelopeRecord
    <3>5. ASSUME Data \/ DataEnd PROVE smtp' \in EnvelopeRecord
      BY <1>1, <3>5 DEF Data, DataEnd, EnvelopeRecord
    <3> QED BY <2>2, <3>2, <3>3, <3>4, <3>5
  <2>3. ASSUME RcptTo PROVE smtp' \in EnvelopeRecord
    <3>1. smtp.rcpts \in 0..2 /\ smtp.rcpts < 2 /\ smtp' = [smtp EXCEPT !.rcpts = smtp.rcpts + 1]
      BY <1>1, <2>3 DEF RcptTo, EnvelopeRecord
    <3>2. smtp.rcpts + 1 \in 0..2
      BY <3>1
    <3> QED BY <1>1, <3>1, <3>2 DEF EnvelopeRecord
  <2>4. ASSUME NEW xoauth2 \in BOOLEAN, NEW cred \in Credentials, SmtpAuth(xoauth2, cred) PROVE smtp' \in EnvelopeRecord
    BY <1>1, <2>4 DEF SmtpAuth, CheckXoauth2, AuthenticatePlain, CheckLogin, EnvelopeRecord
  <2>5. ASSUME ArmDrop \/ \E c \in Clients : Command(c) PROVE UNCHANGED smtp
    <3>1. CASE ArmDrop
      BY <3>1 DEF ArmDrop
    <3>2. ASSUME NEW c \in Clients, NEW b \in Boxes, AppendEnd(c, b) \/ CopyEnd(c, b) PROVE UNCHANGED smtp
      BY <3>2 DEF AppendEnd, CopyEnd
    <3>3. ASSUME NEW c \in Clients, Command(c), \A b \in Boxes : ~AppendEnd(c, b) /\ ~CopyEnd(c, b) PROVE UNCHANGED smtp
      BY <3>3 DEF Command, Accept_, Close, Authenticate, Acknowledge, Login, Token, Select, Fetch, UidFetch,
           StoreCommand, Copy, UidFetchDropped, AppendLiteral, Expunge, Idle, Subscribe, Recv, Done, Stays
    <3> QED BY <2>5, <3>1, <3>2, <3>3
  <2> QED BY <2>1, <2>2, <2>3, <2>4, <2>5 DEF ServerNext, SmtpCommand
<1>3. copies' \in 0..MaxCopies
  <2>1. CASE UNCHANGED copies
    BY <1>1, <2>1
  <2>2. ASSUME NEW c \in Clients, NEW b \in Boxes, CopyEnd(c, b) PROVE copies' \in 0..MaxCopies
    BY <1>1, <2>2, MockAssumption DEF CopyEnd
  <2>3. ASSUME SmtpCommand \/ ArmDrop PROVE UNCHANGED copies
    BY <2>3 DEF ArmDrop, SmtpCommand, SmtpOpen, SmtpClose, SmtpAuth, MailFrom, Rset, RcptTo, Data, DataCut, DataEnd, SmtpOnly
  <2>4. ASSUME NEW c \in Clients, Command(c), \A b \in Boxes : ~CopyEnd(c, b) PROVE UNCHANGED copies
    BY <2>4 DEF Command, Accept_, Close, Authenticate, Acknowledge, Login, Token, Select, AppendEnd, Fetch, UidFetch,
         StoreCommand, Copy, UidFetchDropped, AppendLiteral, Expunge, Idle, Subscribe, Recv, Done, Stays
  <2> QED BY <2>1, <2>2, <2>3, <2>4 DEF ServerNext
<1> QED BY <1>2, <1>3 DEF CountsSound

(* Each step of the server keeps its invariant, and UIDs last. *)
LEMMA ServerStep ==
  ASSUME ServerInv, ServerNext
  PROVE  ServerInv' /\ BoxesLast(boxes, boxes')
<1>1. BoxesSound /\ ClientsSound /\ AllLeft /\ CountsSound
  BY DEF ServerInv
<1>2. ASSUME NEW c \in Clients, Command(c) PROVE Advances
  BY <1>1, <1>2, CommandStep
<1>3. ASSUME DataEnd PROVE Advances
  <2>1. Deliver(imap, "INBOX", delivered + 1, smtp.rcpts) /\ delivered' = delivered + 1
    BY <1>3 DEF DataEnd
  <2>2. "INBOX" \in Boxes /\ ConnsSound(imap, boxes) /\ Harmless(imap, imap)
    BY <1>1 DEF Boxes, ClientsSound, Harmless
  <2> QED BY <1>1, <2>1, <2>2, DeliverDoes DEF Advances
<1>4. ASSUME \/ ArmDrop \/ SmtpOpen \/ SmtpClose \/ MailFrom \/ Rset \/ RcptTo \/ Data \/ DataCut
             \/ \E xoauth2 \in BOOLEAN, cred \in Credentials : SmtpAuth(xoauth2, cred)
      PROVE  Advances
  <2>1. UNCHANGED <<boxes, imap, delivered>>
    BY <1>4 DEF ArmDrop, SmtpOpen, SmtpClose, SmtpAuth, MailFrom, Rset, RcptTo, Data, DataCut, SmtpOnly
  <2> QED BY <1>1, <2>1, NothingMoves
<1>5. Advances
  BY <1>2, <1>3, <1>4 DEF ServerNext, SmtpCommand
<1>6. CountsSound'
  BY <1>1, CountsStep
<1> QED BY <1>5, <1>6 DEF Advances, ServerInv

(* The seeded server. *)
LEMMA ServerStarts == ServerInit => ServerInv
<1> SUFFICES ASSUME ServerInit PROVE ServerInv
  OBVIOUS
<1> DEFINE m == [uid |-> 1, mail |-> 1, flags |-> {}]
           inbox == [next |-> 2, msgs |-> <<m>>]
           trash == [next |-> 1, msgs |-> <<>>]
           other == [next |-> 0, msgs |-> <<>>]
<1>1. m \in MailRecord /\ m.uid = 1 /\ m.mail = 1 /\ m.flags = {}
  BY DEF MailRecord
<1>2. boxes \in [Boxes -> {inbox, trash, other}] /\ boxes["INBOX"] = inbox /\ boxes["Trash"] = trash /\ boxes["Other"] = other
  BY DEF ServerInit, Boxes
<1> HIDE DEF m
<1>3. inbox \in MailboxRecord /\ trash \in MailboxRecord /\ other \in MailboxRecord
  <2>1. <<m>> \in Seq(MailRecord) /\ <<>> \in Seq(MailRecord)
    BY <1>1
  <2> QED BY <2>1 DEF MailboxRecord
<1>4. SoundBox(inbox) /\ SoundBox(trash) /\ SoundBox(other)
  BY <1>1, <1>3 DEF SoundBox, UidsOnce
<1>5. inbox.next = 2 /\ trash.next = 1 /\ other.next = 0 /\ inbox.msgs = <<m>>
  OBVIOUS
<1> HIDE DEF inbox, trash, other
<1>6. BoxesSound
  <2>1. 2 <= MaxMail + 1 /\ MaxMail \in Nat
    BY MockAssumption
  <2> QED BY <1>2, <1>3, <1>4, <1>5, <2>1 DEF BoxesSound
<1> DEFINE early == [Off EXCEPT !.at = "ready", !.user = TRUE, !.box = "INBOX", !.known = {1}]
<1>7. Off \in ClientRecord /\ ClientSound(Off, boxes) /\ Off.box = NoBox
  <2>1. Off = [Off EXCEPT !.at = "off"]
    BY OffTyped DEF ClientRecord
  <2> QED BY <2>1, OffTyped, OffIs
<1>8. early \in ClientRecord /\ ClientSound(early, boxes) /\ early.copied = 0
  <2>1. early \in ClientRecord /\ early.at = "ready" /\ early.box = "INBOX" /\ early.copied = Off.copied /\ early.news = Off.news
    <3>1. Off \in ClientRecord /\ {1} \in SUBSET Nat /\ "INBOX" \in Boxes /\ "ready" \in ServerStates
      BY OffTyped DEF ServerStates, Boxes
    <3> QED BY ONLY <3>1 DEF ClientRecord
  <2>2. Off.copied = 0 /\ Off.news = <<>> /\ Len(Off.news) = 0
    BY DEF Off
  <2> HIDE DEF early
  <2>3. ClientSound(early, boxes)
    BY <1>2, <1>5, <2>1, <2>2, MockAssumption DEF ClientSound
  <2> QED BY <2>1, <2>2, <2>3
<1> HIDE DEF early
<1>9. imap = [c \in Clients |-> Off] \/ imap = [c \in Clients |-> early]
  BY DEF ServerInit, early
<1>10. ClientsSound
  BY <1>7, <1>8, <1>9 DEF ClientsSound, ConnsSound
<1>11. AllLeft
  <2>1. \A c \in Clients : imap[c].box = "INBOX" => imap[c].copied # 1
    BY <1>7, <1>8, <1>9 DEF NoBox
  <2>2. IsLeft(m, "INBOX", imap, 1)
    BY <1>1, <2>1 DEF IsLeft
  <2>3. LeftIn(inbox, "INBOX", imap, 1)
    BY <1>5, <2>2 DEF LeftIn
  <2>4. Survives(boxes, imap, 1)
    BY <1>2, <2>3 DEF Survives, Boxes
  <2> QED BY <2>4 DEF AllLeft, ServerInit
<1>12. CountsSound
  <2>1. smtp \in {NoMail, [at |-> "ready", auth |-> TRUE, rcpts |-> 1]} /\ copies = 0 /\ 0 \in 0..MaxCopies
    BY MockAssumption DEF ServerInit
  <2>2. NoMail \in EnvelopeRecord /\ [at |-> "ready", auth |-> TRUE, rcpts |-> 1] \in EnvelopeRecord
    BY DEF NoMail, EnvelopeRecord
  <2> QED BY <2>1, <2>2 DEF CountsSound
<1> QED BY <1>6, <1>10, <1>11, <1>12 DEF ServerInv

(* The invariant gives what is checked of the server. *)
LEMMA ServerImplies == ServerInv => ServerTypeOK /\ MovedMailSurvives /\ IdleHears
<1> SUFFICES ASSUME ServerInv PROVE ServerTypeOK /\ MovedMailSurvives /\ IdleHears
  OBVIOUS
<1>1. BoxesSound /\ ClientsSound /\ AllLeft /\ CountsSound
  BY DEF ServerInv
<1>2. \A b \in Boxes : boxes[b].next \in 0..(MaxMail + 1) /\ Len(Msgs(b)) <= MaxMail
  <2> SUFFICES ASSUME NEW b \in Boxes PROVE boxes[b].next \in 0..(MaxMail + 1) /\ Len(boxes[b].msgs) <= MaxMail
    BY DEF Msgs
  <2>1. SoundBox(boxes[b]) /\ boxes[b].next <= MaxMail + 1 /\ MaxMail \in Nat
    BY <1>1, MockAssumption DEF BoxesSound
  <2>2. boxes[b].next \in Nat /\ Len(boxes[b].msgs) \in Nat
    BY <2>1, BoxIs
  <2> QED BY <2>1, <2>2 DEF SoundBox
<1>3. \A c \in Clients : ClientSound(imap[c], boxes)
  BY <1>1 DEF ClientsSound, ConnsSound
<1>4. ServerTypeOK
  BY <1>1, <1>2, <1>3 DEF ServerTypeOK, ClientSound, CountsSound, EnvelopeRecord
<1>5. MovedMailSurvives
  <2> SUFFICES ASSUME NEW mail \in 1..delivered
               PROVE  \E b \in Boxes : \E i \in 1..Len(Msgs(b)) : Msgs(b)[i].mail = mail /\ "Deleted" \notin Msgs(b)[i].flags
    BY DEF MovedMailSurvives
  <2>1. PICK b \in Boxes : LeftIn(boxes[b], b, imap, mail)
    BY <1>1 DEF AllLeft, Survives
  <2> QED BY <2>1 DEF LeftIn, IsLeft, Msgs
<1>6. IdleHears
  BY <1>3 DEF IdleHears, ClientSound, Expects
<1> QED BY <1>4, <1>5, <1>6

(* Each step of the model is a step of the server, or none. *)
LEMMA SetupKeepsServer ==
  ASSUME ServerInv, [MCNext]_setupVars
  PROVE  ServerInv' /\ BoxesLast(boxes, boxes')
<1>1. CASE ServerNext
  BY <1>1, ServerStep
<1>2. CASE UNCHANGED serverVars
  <2>1. boxes' = boxes /\ imap' = imap /\ delivered' = delivered /\ smtp' = smtp /\ copies' = copies
    BY <1>2 DEF serverVars
  <2>2. BoxesSound /\ ClientsSound /\ AllLeft
    BY DEF ServerInv
  <2>3. Advances
    BY <2>1, <2>2, NothingMoves
  <2>4. CountsSound'
    BY <2>1 DEF ServerInv, CountsSound
  <2> QED BY <2>3, <2>4 DEF Advances, ServerInv
<1> QED BY <1>1, <1>2 DEF MCNext, setupVars

(* Whatever connections deliver, copy, mark and expunge between each other's
   steps, a message that is not marked is left of every mail the server took
   in, and an idling client is told of the last one that came to its mailbox
   unless its receiver lagged (imap_server.rs: COPY, STORE, EXPUNGE, IDLE). *)
THEOREM ServerIsSound == MCSpec => []ServerSound
<1>1. MCInit => ServerInv
  BY ServerStarts DEF MCInit
<1>2. ServerInv /\ [MCNext]_setupVars => ServerInv'
  BY SetupKeepsServer
<1>3. ServerInv => ServerSound
  BY ServerImplies DEF ServerSound
<1> QED BY <1>1, <1>2, <1>3, PTL DEF MCSpec

(* A UID that was handed out names one mail for good, through deliveries,
   copies and expunges (store.rs: append, copy_message, expunge). *)
THEOREM UidsLast == MCSpec => UidsAreForever
<1>1. MCInit => ServerInv
  BY ServerStarts DEF MCInit
<1>2. ServerInv /\ [MCNext]_setupVars => ServerInv'
  BY SetupKeepsServer
<1>3. ServerInv /\ [MCNext]_setupVars =>
        [\A b \in Boxes :
           /\ boxes'[b].next >= boxes[b].next
           /\ \A i \in 1..Len(boxes'[b].msgs) : boxes'[b].msgs[i].uid < boxes[b].next =>
                \E j \in 1..Len(Msgs(b)) : Msgs(b)[j].uid = boxes'[b].msgs[i].uid /\ Msgs(b)[j].mail = boxes'[b].msgs[i].mail]_boxes
  BY SetupKeepsServer DEF BoxesLast, Lasts, Msgs
<1> QED BY <1>1, <1>2, <1>3, PTL DEF MCSpec, UidsAreForever

(***************************************************************************)
(* The fields of the form                                                  *)
(***************************************************************************)

FieldValues == {"", "gmail", "outlook", "imap.example", "smtp.example", "typed", "0", "465", "587", "Ssl", "StartTls", "None", "not typed"}
Hows == {"Password", "GoogleOAuth"}

FieldsTyped ==
  /\ servers \in [ServerFields -> FieldValues] /\ filled \in [ServerFields -> FieldValues] /\ typed \in [ServerFields -> FieldValues]
  /\ auth \in Hows /\ edited \in BOOLEAN /\ password \in BOOLEAN /\ refilled \in BOOLEAN
  /\ view \in [password : BOOLEAN, servers : BOOLEAN] /\ view.password = (auth = "Password")

(* Until the user edits a server field the fields are as filled in, so that the first edit is noticed. *)
EditsNoticed == ~edited => servers = filled /\ typed = NotTyped

FormInv == FieldsTyped /\ EditsNoticed /\ TypedServersKept

(* Four field values make the fields of a form. *)
LEMMA FieldsAre == \A a, b, c, d \in FieldValues : Fields(a, b, c, d) \in [ServerFields -> FieldValues]
BY DEF Fields, ServerFields

(* What is known of a provider fills the fields. *)
LEMMA PresetTyped == ASSUME NEW e PROVE Provider(e).servers \in [ServerFields -> FieldValues] /\ Provider(e).auth \in Hows
<1>1. \A a, b, c, d \in FieldValues : Fields(a, b, c, d) \in [ServerFields -> FieldValues]
  BY FieldsAre
<1>2. {"gmail", "outlook", "imap.example", "smtp.example", "465", "587", "Ssl", "StartTls"} \subseteq FieldValues
  BY DEF FieldValues
<1>3. CASE e = "me@gmail"
  BY <1>1, <1>2, <1>3 DEF Provider, Hows
<1>4. CASE e = "me@outlook"
  BY <1>1, <1>2, <1>4 DEF Provider, Hows
<1>5. CASE e # "me@gmail" /\ e # "me@outlook"
  BY <1>1, <1>2, <1>5 DEF Provider, Hows
<1> QED BY <1>3, <1>4, <1>5

(* An empty form: nothing was typed and nothing sent. *)
LEMMA FormStarts == FormInit => FormInv
<1> SUFFICES ASSUME FormInit PROVE FormInv
  OBVIOUS
<1>1. servers \in [ServerFields -> FieldValues] /\ filled \in [ServerFields -> FieldValues]
  <2>1. {"", "465", "Ssl"} \subseteq FieldValues
    BY DEF FieldValues
  <2> QED BY <2>1, FieldsAre DEF FormInit, EmptyServers
<1>2. typed \in [ServerFields -> FieldValues]
  BY DEF FormInit, NotTyped, FieldValues
<1>3. FieldsTyped
  BY <1>1, <1>2 DEF FormInit, FieldsTyped, Hows
<1>4. EditsNoticed
  BY DEF FormInit, EditsNoticed
<1>5. \A f \in ServerFields : typed[f] = "not typed"
  BY DEF FormInit, NotTyped
<1>6. sent.problem # "ok"
  BY DEF FormInit
<1> QED BY <1>3, <1>4, <1>5, <1>6 DEF FormInv, TypedServersKept

(* A preset changes the fields only while the user has typed none of them. *)
LEMMA AppliedKeeps ==
  ASSUME FormInv, NEW p, p.servers \in [ServerFields -> FieldValues], p.auth \in Hows, Applied(p)
  PROVE  /\ servers' \in [ServerFields -> FieldValues] /\ filled' \in [ServerFields -> FieldValues] /\ servers' = filled'
         /\ auth' \in Hows /\ view' \in [password : BOOLEAN, servers : BOOLEAN] /\ view'.password = (auth' = "Password")
<1>1. view \in [password : BOOLEAN, servers : BOOLEAN]
  BY DEF FormInv, FieldsTyped
<1>2. view' = [view EXCEPT !.password = (p.auth = "Password"), !.servers = view.servers \/ ~p.known] /\ auth' = p.auth
  BY DEF Applied
<1>3. (p.auth = "Password") \in BOOLEAN /\ (view.servers \/ ~p.known) \in BOOLEAN
  OBVIOUS
<1>4. view' \in [password : BOOLEAN, servers : BOOLEAN] /\ view'.password = (auth' = "Password")
  BY <1>1, <1>2, <1>3
<1> QED BY <1>4 DEF Applied

(* What the check lets through can be tried. *)
LEMMA ProblemFinds ==
  ASSUME NEW e, NEW how, NEW pass, NEW s, Problem(e, how, pass, s) = "ok"
  PROVE  s.imapHost # "" /\ s.smtpHost # "" /\ s.smtpPort # "0" /\ (how = "GoogleOAuth" => s.imapHost = "gmail")
BY DEF Problem

(* Each thing the user does with the fields keeps the invariant. *)
LEMMA FormStep == FormInv /\ FormNext => FormInv'
<1> SUFFICES ASSUME FormInv, FormNext PROVE FormInv'
  OBVIOUS
<1>0. FieldsTyped /\ EditsNoticed /\ TypedServersKept
  BY DEF FormInv
<1>1. ASSUME NEW e, NEW settled, EmailChanged(e, settled), UNCHANGED <<password, edited, sent, typed, refilled>> PROVE FormInv'
  <2>1. CASE UNCHANGED <<servers, filled, auth, view>>
    BY <1>0, <1>1, <2>1 DEF FormInv, FieldsTyped, EditsNoticed, TypedServersKept
  <2>2. CASE ~edited /\ \E p \in {q \in Detect(e) : q.known \/ settled} : Applied(p)
    <3>1. PICK p \in Detect(e) : Applied(p)
      BY <2>2
    <3>2. p = Provider(e)
      BY DEF Detect
    <3>3. /\ servers' \in [ServerFields -> FieldValues] /\ filled' \in [ServerFields -> FieldValues] /\ servers' = filled'
          /\ auth' \in Hows /\ view' \in [password : BOOLEAN, servers : BOOLEAN] /\ view'.password = (auth' = "Password")
      BY <3>1, <3>2, PresetTyped, AppliedKeeps
    <3>4. FieldsTyped'
      BY <1>0, <1>1, <3>3 DEF FieldsTyped
    <3>5. typed' = NotTyped
      BY <1>0, <1>1, <2>2 DEF EditsNoticed
    <3>6. \A f \in ServerFields : typed'[f] = "not typed"
      BY <3>5 DEF NotTyped
    <3>7. EditsNoticed' /\ TypedServersKept'
      BY <1>0, <1>1, <3>3, <3>5, <3>6 DEF EditsNoticed, TypedServersKept
    <3> QED BY <3>4, <3>7 DEF FormInv
  <2> QED BY <1>1, <2>1, <2>2 DEF EmailChanged
<1>2. ASSUME NEW e \in Emails, TypeEmail(e) PROVE FormInv'
  BY <1>1, <1>2 DEF TypeEmail
<1>3. CASE LeaveEmail
  BY <1>1, <1>3 DEF LeaveEmail
<1>4. CASE TypePassword
  <2>1. password' \in BOOLEAN
    BY <1>4 DEF TypePassword
  <2> QED BY <1>0, <1>4, <2>1 DEF TypePassword, FormInv, FieldsTyped, EditsNoticed, TypedServersKept
<1>5. ASSUME NEW how \in Hows, ChooseAuth(how) PROVE FormInv'
  <2>1. view' = [view EXCEPT !.password = (how = "Password")] /\ auth' = how
    BY <1>5 DEF ChooseAuth
  <2>2. view' \in [password : BOOLEAN, servers : BOOLEAN] /\ view'.password = (auth' = "Password")
    BY <1>0, <2>1 DEF FieldsTyped
  <2> QED BY <1>0, <1>5, <2>1, <2>2 DEF ChooseAuth, FormInv, FieldsTyped, EditsNoticed, TypedServersKept
<1>6. CASE ShowServers
  <2>1. view' \in [password : BOOLEAN, servers : BOOLEAN] /\ view'.password = view.password
    BY <1>0, <1>6 DEF ShowServers, FieldsTyped
  <2> QED BY <1>0, <1>6, <2>1 DEF ShowServers, FormInv, FieldsTyped, EditsNoticed, TypedServersKept
<1>7. ASSUME NEW f \in ServerFields, NEW value \in FieldValues, TypeServer(f, value) PROVE FormInv'
  <2> DEFINE now == [servers EXCEPT ![f] = value]
             sec == IF f = "smtpPort" THEN SecurityFor(value, now.tls) ELSE now.tls
             was == IF f = "smtpPort" THEN "not typed" ELSE IF f = "tls" THEN value ELSE typed.tls
  <2>0. "tls" \in ServerFields /\ servers \in [ServerFields -> FieldValues] /\ typed \in [ServerFields -> FieldValues]
    BY <1>0 DEF ServerFields, FieldsTyped
  <2>1. now \in [ServerFields -> FieldValues] /\ now # servers /\ now[f] = value /\ \A g \in ServerFields : g # f => now[g] = servers[g]
    BY <1>7, <2>0 DEF TypeServer
  <2>2. servers' = [now EXCEPT !["tls"] = sec] /\ edited' = (edited \/ now # filled) /\ filled' = now
    BY <1>7 DEF TypeServer
  <2>3. UNCHANGED <<auth, password, view, sent, refilled>>
    BY <1>7 DEF TypeServer
  <2>4. sec \in FieldValues
    <3>1. SecurityFor(value, now.tls) \in {"Ssl", "StartTls", now["tls"]}
      BY DEF SecurityFor
    <3>2. now["tls"] \in FieldValues /\ {"Ssl", "StartTls"} \subseteq FieldValues
      BY <2>0, <2>1 DEF FieldValues
    <3> QED BY <3>1, <3>2
  <2>5. typed' \in [ServerFields -> FieldValues] /\ typed'["tls"] = was
        /\ \A g \in ServerFields : g # "tls" => typed'[g] = (IF g = f THEN value ELSE typed[g])
    <3> DEFINE first == [typed EXCEPT ![f] = value]
    <3>1. typed' = [first EXCEPT !["tls"] = IF f = "smtpPort" THEN "not typed" ELSE IF f = "tls" THEN value ELSE first["tls"]]
      BY <1>7, <2>0 DEF TypeServer
    <3>2. first \in [ServerFields -> FieldValues] /\ \A g \in ServerFields : first[g] = (IF g = f THEN value ELSE typed[g])
      BY <2>0
    <3>3. (IF f = "smtpPort" THEN "not typed" ELSE IF f = "tls" THEN value ELSE first["tls"]) = was
      BY <2>0, <3>2
    <3>4. was \in FieldValues
      <4>1. typed["tls"] \in FieldValues /\ "not typed" \in FieldValues
        BY <2>0 DEF FieldValues
      <4> QED BY <4>1
    <3> HIDE DEF first, was
    <3>5. typed' = [first EXCEPT !["tls"] = was]
      BY <3>1, <3>3
    <3> QED BY <2>0, <3>2, <3>4, <3>5
  <2>6. edited' = TRUE
    <3>1. CASE edited = TRUE
      BY <2>2, <3>1
    <3>2. CASE edited = FALSE
      <4>1. now # filled
        BY <1>0, <2>1, <3>2 DEF EditsNoticed
      <4> HIDE DEF now
      <4> QED BY <2>2, <4>1
    <3> QED BY <1>0, <3>1, <3>2 DEF FieldsTyped
  <2>7. servers'["tls"] = sec /\ \A g \in ServerFields : g # "tls" => servers'[g] = now[g]
    <3> HIDE DEF now, sec
    <3> QED BY <2>0, <2>1, <2>2
  <2>8. ASSUME ~refilled, NEW g \in ServerFields, typed'[g] # "not typed" PROVE servers'[g] = typed'[g]
    <3>0. \A h \in ServerFields : typed[h] # "not typed" => servers[h] = typed[h]
      BY <1>0, <2>8 DEF TypedServersKept
    <3>1. CASE g = "tls"
      <4>1. f # "smtpPort"
        BY <2>5, <2>8, <3>1
      <4>2. servers'["tls"] = now["tls"]
        BY <2>7, <4>1
      <4>3. CASE f = "tls"
        BY <2>1, <2>5, <3>1, <4>1, <4>2, <4>3
      <4>4. CASE f # "tls"
        BY <2>0, <2>1, <2>5, <2>8, <3>0, <3>1, <4>1, <4>2, <4>4
      <4> QED BY <4>3, <4>4
    <3>2. CASE g # "tls"
      <4> HIDE DEF now, sec, was
      <4>1. servers'[g] = now[g] /\ typed'[g] = (IF g = f THEN value ELSE typed[g])
        BY <2>5, <2>7, <3>2
      <4> QED BY <2>1, <2>8, <3>0, <4>1
    <3> QED BY <3>1, <3>2
  <2>9. FieldsTyped'
    <3>1. servers' \in [ServerFields -> FieldValues] /\ filled' \in [ServerFields -> FieldValues]
      <4> HIDE DEF now, sec
      <4> QED BY <2>0, <2>1, <2>2, <2>4
    <3> QED BY <1>0, <2>3, <2>5, <2>6, <3>1 DEF FieldsTyped
  <2> QED BY <1>0, <2>3, <2>6, <2>8, <2>9 DEF FormInv, EditsNoticed, TypedServersKept
<1>8. CASE SubmitForm
  <2>1. CASE /\ UNCHANGED <<servers, filled, auth, view, refilled>>
             /\ sent' = [problem |-> Problem(email, auth, password, servers), servers |-> servers, auth |-> auth]
    <3>1. FieldsTyped' /\ EditsNoticed'
      BY <1>0, <1>8, <2>1 DEF SubmitForm, FieldsTyped, EditsNoticed
    <3>2. ~refilled' => \A f \in ServerFields : typed'[f] # "not typed" => servers'[f] = typed'[f]
      BY <1>0, <1>8, <2>1 DEF SubmitForm, TypedServersKept
    <3>3. sent'.problem = Problem(email, auth, password, servers) /\ sent'.servers = servers /\ sent'.auth = auth
      BY <2>1
    <3>4. TypedServersKept'
      <4>1. ASSUME sent'.problem = "ok"
            PROVE  /\ sent'.servers.imapHost # "" /\ sent'.servers.smtpHost # "" /\ sent'.servers.smtpPort # "0"
                   /\ (sent'.auth = "GoogleOAuth" => sent'.servers.imapHost = "gmail")
        <5>1. Problem(email, auth, password, servers) = "ok"
          BY <3>3, <4>1
        <5>2. servers.imapHost # "" /\ servers.smtpHost # "" /\ servers.smtpPort # "0" /\ (auth = "GoogleOAuth" => servers.imapHost = "gmail")
          BY <5>1, ProblemFinds
        <5> QED BY <3>3, <5>2
      <4> QED BY <3>2, <4>1 DEF TypedServersKept
    <3> QED BY <3>1, <3>4 DEF FormInv
  <2>2. CASE /\ \E p \in Detect(email) :
                  /\ Applied(p)
                  /\ sent' = [problem |-> Problem(email, p.auth, password, p.servers), servers |-> p.servers, auth |-> p.auth]
             /\ refilled' = TRUE
    <3>1. PICK p \in Detect(email) :
                  /\ Applied(p)
                  /\ sent' = [problem |-> Problem(email, p.auth, password, p.servers), servers |-> p.servers, auth |-> p.auth]
      BY <2>2
    <3>2. p = Provider(email)
      BY DEF Detect
    <3>3. /\ servers' \in [ServerFields -> FieldValues] /\ filled' \in [ServerFields -> FieldValues] /\ servers' = filled'
          /\ auth' \in Hows /\ view' \in [password : BOOLEAN, servers : BOOLEAN] /\ view'.password = (auth' = "Password")
      BY <3>1, <3>2, PresetTyped, AppliedKeeps
    <3>4. UNCHANGED <<password, edited, typed>> /\ refilled' = TRUE
      BY <1>8, <2>2 DEF SubmitForm
    <3>5. FieldsTyped' /\ EditsNoticed'
      BY <1>0, <3>3, <3>4 DEF FieldsTyped, EditsNoticed
    <3>6. sent'.problem = Problem(email, p.auth, password, p.servers) /\ sent'.servers = p.servers /\ sent'.auth = p.auth
      BY <3>1
    <3>7. TypedServersKept'
      <4>1. ASSUME sent'.problem = "ok"
            PROVE  /\ sent'.servers.imapHost # "" /\ sent'.servers.smtpHost # "" /\ sent'.servers.smtpPort # "0"
                   /\ (sent'.auth = "GoogleOAuth" => sent'.servers.imapHost = "gmail")
        <5>1. Problem(email, p.auth, password, p.servers) = "ok"
          BY <3>6, <4>1
        <5>2. p.servers.imapHost # "" /\ p.servers.smtpHost # "" /\ p.servers.smtpPort # "0" /\ (p.auth = "GoogleOAuth" => p.servers.imapHost = "gmail")
          BY <5>1, ProblemFinds
        <5> QED BY <3>6, <5>2
      <4> QED BY <3>4, <4>1 DEF TypedServersKept
    <3> QED BY <3>5, <3>7 DEF FormInv
  <2> QED BY <1>8, <2>1, <2>2 DEF SubmitForm
<1>9. {"", "typed", "0", "465", "587", "Ssl", "None"} \subseteq FieldValues /\ {"imapHost", "smtpHost", "smtpPort", "tls"} = ServerFields
  BY DEF FieldValues, ServerFields
<1>10. ASSUME NEW f \in {"imapHost", "smtpHost"}, NEW value \in {"", "typed"}, TypeServer(f, value) PROVE FormInv'
  BY <1>7, <1>9, <1>10
<1>11. ASSUME NEW value \in {"0", "465", "587"}, TypeServer("smtpPort", value) PROVE FormInv'
  BY <1>7, <1>9, <1>11
<1>12. ASSUME NEW value \in {"Ssl", "None"}, TypeServer("tls", value) PROVE FormInv'
  BY <1>7, <1>9, <1>12
<1> QED BY <1>2, <1>3, <1>4, <1>5, <1>6, <1>8, <1>10, <1>11, <1>12 DEF FormNext, Hows

(* The invariant gives what is checked of the fields. *)
LEMMA FormImplies == FormInv => FormTypeOK /\ TypedServersKept
BY DEF FormInv, FieldsTyped, FormTypeOK, Hows

(***************************************************************************)
(* The accounts                                                            *)
(***************************************************************************)

Conf == [acc : [Ids -> Methods \union {NoAccount}], pref : Nat]
Whats == {"Connect", "Remove", "Abort", "Closed", "Working", "Failed", "Saved", "Removed"}
AccountMsg == [what : Whats, id : Ids, how : Methods \union {NoAccount}, conf : Conf]
Works == [no : Nat \ {0}, what : {"Connect", "Remove"}, id : Ids, how : Methods \union {NoAccount}, conf : Conf, step : 1..6, cut : BOOLEAN]
FormState == [open : BOOLEAN, busy : BOOLEAN, id : Ids \union {NoAccount}, how : Methods \union {NoAccount}]

ConfsTyped == cfg \in Conf /\ disk \in Conf /\ ring \in [Ids -> SUBSET Kinds] /\ saves \in Seq(Conf)

(* The form asks for a method, and so does the work that it asks for. *)
MessagesTyped(q) ==
  /\ q \in Seq(AccountMsg)
  /\ \A i \in 1..Len(q) : q[i].what \in {"Connect", "Saved"} => q[i].how \in Methods
QueueTyped == MessagesTyped(mainQ)

(* Each work has its own number; Abort is for the newest Connect. *)
WorkTyped ==
  /\ works \subseteq Works /\ began \in Nat /\ handle \in 0..began
  /\ \A w \in works : w.no <= began
  /\ \A w \in works : w.what = "Connect" => w.how \in Methods
  /\ \A w \in works : w.what = "Remove" => w.step \in 2..6 /\ w.no # handle

FormTyped ==
  /\ form \in FormState /\ (form.busy => form.open) /\ (form.open => form.id \in Ids /\ form.how \in Methods)
  /\ formQ \in Seq({"Working", "Failed"})

Statuses == {NoAccount, "Connecting", "Connected", "Reconnecting", "Failed"}
StatusTyped == status \in [Ids -> Statuses] /\ \A i \in Ids : status[i] = NoAccount <=> cfg.acc[i] = NoAccount

Snags == {"keyring", "disturbed"}

AccountsTyped == ConfsTyped /\ QueueTyped /\ WorkTyped /\ FormTyped /\ StatusTyped /\ snags \subseteq Snags

(* An open form is known, none is said to be closed, and after an Abort a
   locked form has asked again. *)
Has(q, kinds) == \E i \in 1..Len(q) : q[i].what \in kinds
AskedAgain(q) == \A i \in 1..Len(q) : q[i].what = "Abort" => \E j \in 1..Len(q) : i < j /\ q[j].what = "Connect"

FormIsKnown ==
  /\ form.open => formKnown /\ ~Has(mainQ, {"Closed"})
  /\ form.busy => AskedAgain(mainQ)

(* LockedFormHasWork, in those words. *)
FormIsAwaited ==
  form.busy => \/ Has(mainQ, {"Connect", "Failed", "Saved"})
               \/ \E w \in works : w.what = "Connect" /\ ~w.cut
               \/ \E i \in 1..Len(formQ) : formQ[i] = "Failed"

(* Reports on their way, in the order in which the main window will hear them. *)
Result(m, conf) == IF m.what \in {"Connect", "Saved"} THEN Upsert(conf, m.id, m.how) ELSE Without(conf, m.id)
Reports(q) == {i \in 1..Len(q) : q[i].what \in {"Saved", "Removed"}}

(* Each report is of a change to the configuration that the one before leaves. *)
Chained(q, c) ==
  /\ \A i \in Reports(q) : (\A k \in Reports(q) : i <= k) => q[i].conf = Result(q[i], c)
  /\ \A i, j \in Reports(q) : i < j /\ (\A k \in Reports(q) : k <= i \/ j <= k) => q[j].conf = Result(q[j], q[i].conf)

(* The configuration that all the reports leave. *)
Latest(q, c, conf) ==
  \/ Reports(q) = {} /\ conf = c
  \/ \E i \in Reports(q) : (\A k \in Reports(q) : k <= i) /\ conf = q[i].conf

(* Nothing went wrong, or only the keyring did. *)
Undisturbed == snags \subseteq {"keyring"}

(* The secrets wanted are there, and as long as the keyring obeys no other. *)
Fits(have, want) == want \subseteq have /\ (snags = {} => have = want)

(* The kinds for which work has called the keyring, and what is there of kinds by then. *)
Called(w) == {Secrets(w)[k] : k \in {i \in 1..3 : i + 2 < w.step}}
After(w, kinds) == (kinds \ Called(w)) \union (Called(w) \cap SignsInWith(w))

(* config.toml and the keyring are as in conf, but for what work that runs has written. *)
Settled(conf) ==
  /\ saves = <<>> /\ (\A w \in works : w.what = "Remove" => w.step = 2) => disk = conf
  /\ \A w \in works : w.what = "Remove" /\ w.step > 2 => disk = Without(w.conf, w.id)
  /\ \A i \in Ids : (\A w \in works : w.id # i) => Fits(ring[i], KindsOf(conf.acc[i]))
  /\ \A w \in works : Fits(ring[w.id], After(w, KindsOf(conf.acc[w.id])))

(* Until something interferes: one work at a time, and a preference is written with none. *)
OneAtATime ==
  Undisturbed =>
    /\ \A v, w \in works : v = w
    /\ \A w \in works : ~w.cut
    /\ saves # <<>> => works = {} /\ Reports(mainQ) = {} /\ saves[Len(saves)] = cfg

SettledAtLast ==
  Undisturbed /\ Chained(mainQ, cfg) => \E conf : Latest(mainQ, cfg, conf) /\ Settled(conf)

(* Sequences, place by place. *)
LEMMA AppendAt ==
  ASSUME NEW S, NEW q \in Seq(S), NEW e \in S
  PROVE  /\ Append(q, e) \in Seq(S) /\ Len(q) \in Nat /\ Len(Append(q, e)) = Len(q) + 1 /\ Append(q, e)[Len(q) + 1] = e
         /\ \A i \in 1..Len(q) : Append(q, e)[i] = q[i] /\ q[i] \in S
         /\ \A i \in 1..Len(Append(q, e)) : i \in 1..Len(q) \/ i = Len(q) + 1
OBVIOUS

(* What is left of a sequence, place by place. *)
LEMMA TailAt ==
  ASSUME NEW S, NEW q \in Seq(S), q # <<>>
  PROVE  /\ Tail(q) \in Seq(S) /\ Len(q) \in Nat /\ Head(q) = q[1] /\ q[1] \in S /\ 1 \in 1..Len(q) /\ Len(Tail(q)) = Len(q) - 1
         /\ \A i \in 1..Len(Tail(q)) : i + 1 \in 1..Len(q) /\ Tail(q)[i] = q[i + 1]
         /\ \A i \in 1..Len(q) : i # 1 => i - 1 \in 1..Len(Tail(q)) /\ Tail(q)[i - 1] = q[i]
<1>1. Tail(q) \in Seq(S) /\ Len(q) \in Nat /\ Head(q) = q[1] /\ q[1] \in S /\ 1 \in 1..Len(q) /\ Len(Tail(q)) = Len(q) - 1
  OBVIOUS
<1>2. \A i \in 1..Len(Tail(q)) : i + 1 \in 1..Len(q) /\ Tail(q)[i] = q[i + 1]
  BY <1>1
<1>3. ASSUME NEW i \in 1..Len(q), i # 1 PROVE i - 1 \in 1..Len(Tail(q)) /\ Tail(q)[i - 1] = q[i]
  <2>1. i - 1 \in 1..Len(Tail(q)) /\ (i - 1) + 1 = i
    BY <1>1, <1>3
  <2> QED BY <1>2, <2>1
<1> QED BY <1>1, <1>2, <1>3

(* upsert_account and remove_account make configurations. *)
LEMMA ConfTyped ==
  /\ NoConf \in Conf
  /\ \A conf \in Conf, id \in Ids, how \in Methods \union {NoAccount} : Upsert(conf, id, how) \in Conf /\ Without(conf, id) \in Conf
<1>1. NoConf \in Conf
  BY DEF NoConf, Conf
<1>2. ASSUME NEW conf \in Conf, NEW id \in Ids, NEW how \in Methods \union {NoAccount}
      PROVE  Upsert(conf, id, how) \in Conf /\ Without(conf, id) \in Conf
  BY DEF Conf, Upsert, Without
<1> QED BY <1>1, <1>2

(* A message has the parts it was made of. *)
LEMMA MsgTyped ==
  ASSUME NEW what \in Whats, NEW id \in Ids, NEW how \in Methods \union {NoAccount}, NEW conf \in Conf
  PROVE  /\ Msg(what, id, how, conf) \in AccountMsg
         /\ Msg(what, id, how, conf).what = what /\ Msg(what, id, how, conf).id = id
         /\ Msg(what, id, how, conf).how = how /\ Msg(what, id, how, conf).conf = conf
BY DEF Msg, AccountMsg

(* What leaves the main window's queue when it hears, and what the form's closing adds. *)
LEMMA HearsQueue ==
  ASSUME AccountsTyped, MainHears
  PROVE  /\ mainQ # <<>>
         /\ \/ mainQ' = Tail(mainQ)
            \/ \E m \in AccountMsg : /\ m.what = "Closed" /\ mainQ' = Append(Tail(mainQ), m)
                                     /\ Head(mainQ).what = "Saved" /\ formKnown /\ form.open
<1>0. mainQ \in Seq(AccountMsg) /\ mainQ # <<>>
  BY DEF AccountsTyped, QueueTyped, MessagesTyped, MainHears
<1>1. Tail(mainQ) \in Seq(AccountMsg)
  BY <1>0
<1>2. CASE Head(mainQ).what = "Saved" /\ formKnown /\ form.open
  <2> DEFINE m == Msg("Closed", form.id, NoAccount, NoConf)
  <2>1. form.id \in Ids
    BY <1>2 DEF AccountsTyped, FormTyped
  <2>2. m \in AccountMsg /\ m.what = "Closed"
    <3>1. "Closed" \in Whats /\ NoAccount \in Methods \union {NoAccount} /\ NoConf \in Conf
      BY ConfTyped DEF Whats
    <3> QED BY ONLY <2>1, <3>1, MsgTyped
  <2>3. mainQ' = Tail(mainQ) \o <<m>>
    BY <1>2 DEF MainHears
  <2> HIDE DEF m
  <2>4. mainQ' = Append(Tail(mainQ), m)
    BY <1>1, <2>2, <2>3
  <2> QED BY <1>0, <1>2, <2>2, <2>4
<1>3. CASE ~(Head(mainQ).what = "Saved" /\ formKnown /\ form.open)
  <2>1. mainQ' = Tail(mainQ) \o <<>>
    BY <1>3 DEF MainHears
  <2> QED BY <1>0, <1>1, <2>1
<1> QED BY <1>2, <1>3

(* What closing the form says. *)
LEMMA CloseQueue ==
  ASSUME AccountsTyped, CloseForm
  PROVE  \E c \in AccountMsg :
           /\ c.what = "Closed"
           /\ \/ mainQ' = Append(mainQ, c)
              \/ \E a \in AccountMsg : a.what = "Abort" /\ mainQ' = Append(Append(mainQ, a), c)
<1> DEFINE c == Msg("Closed", form.id, NoAccount, NoConf)
           a == Msg("Abort", form.id, NoAccount, NoConf)
<1>1. form.id \in Ids
  BY DEF AccountsTyped, FormTyped, CloseForm
<1>2. c \in AccountMsg /\ c.what = "Closed" /\ a \in AccountMsg /\ a.what = "Abort"
  <2>1. "Closed" \in Whats /\ "Abort" \in Whats
    BY DEF Whats
  <2>2. c \in AccountMsg /\ c.what = "Closed"
    BY <1>1, <2>1, MsgTyped, ConfTyped
  <2>3. a \in AccountMsg /\ a.what = "Abort"
    BY <1>1, <2>1, MsgTyped, ConfTyped
  <2> QED BY <2>2, <2>3
<1>3. mainQ' = mainQ \o (IF form.busy THEN <<a>> ELSE <<>>) \o <<c>>
  BY DEF CloseForm
<1>4. mainQ \in Seq(AccountMsg)
  BY DEF AccountsTyped, QueueTyped, MessagesTyped
<1> HIDE DEF c, a
<1>5. CASE form.busy
  <2>1. mainQ \o <<a>> = Append(mainQ, a) /\ Append(mainQ, a) \in Seq(AccountMsg)
    BY <1>2, <1>4
  <2>2. mainQ' = Append(mainQ, a) \o <<c>>
    BY <1>3, <1>5, <2>1
  <2>3. mainQ' = Append(Append(mainQ, a), c)
    BY <1>2, <2>1, <2>2
  <2> QED BY <1>2, <2>3
<1>6. CASE ~form.busy
  <2>1. mainQ \o <<>> = mainQ
    BY <1>4
  <2>2. mainQ' = mainQ \o <<c>>
    BY <1>3, <1>6, <2>1
  <2>3. mainQ' = Append(mainQ, c)
    BY <1>2, <1>4, <2>2
  <2> QED BY <1>2, <2>3
<1> QED BY <1>5, <1>6

(* What work does when it ends. *)
LEMMA EndsQueue ==
  ASSUME AccountsTyped, NEW w \in works, NEW what \in Whats, NEW conf \in Conf, Ends(w, what, conf)
  PROVE  /\ works' = works \ {w}
         /\ \/ w.cut /\ mainQ' = mainQ
            \/ /\ ~w.cut
               /\ \E m \in AccountMsg : m.what = what /\ m.id = w.id /\ m.how = w.how /\ m.conf = conf /\ mainQ' = Append(mainQ, m)
<1>1. w.id \in Ids /\ w.how \in Methods \union {NoAccount}
  BY DEF AccountsTyped, WorkTyped, Works
<1> DEFINE m == Msg(what, w.id, w.how, conf)
<1>2. m \in AccountMsg /\ m.what = what /\ m.id = w.id /\ m.how = w.how /\ m.conf = conf
  BY <1>1, MsgTyped
<1>3. mainQ' = (IF w.cut THEN mainQ ELSE Append(mainQ, m)) /\ works' = works \ {w}
  BY DEF Ends
<1> HIDE DEF m
<1> QED BY <1>2, <1>3

(* What a step leaves alone, by who takes it. *)
FormMoves ==
  \/ PressConnect \/ CancelSignIn \/ CloseForm \/ FormHears
  \/ \E id \in Ids : OpenForm(id)
  \/ \E how \in Methods : ChooseMethod(how)

(* Who may take a step, and what it leaves alone. *)
LEMMA StepIs ==
  ASSUME AccountsNext
  PROVE  \/ FormMoves /\ UNCHANGED <<cfg, disk, ring, works, handle, saves, status, snags, began>>
         \/ \E id \in Ids : AskRemove(id) /\ UNCHANGED <<cfg, disk, ring, form, formKnown, formQ, works, handle, saves, status, snags, began>>
         \/ MainHears /\ UNCHANGED <<disk, ring, saves>>
         \/ ChangePref /\ UNCHANGED <<disk, ring, form, formKnown, formQ, mainQ, works, handle, status, began>>
         \/ SaverWrites /\ UNCHANGED <<cfg, ring, form, formKnown, formQ, mainQ, works, handle, status, began>>
         \/ ProcessEnds /\ UNCHANGED <<ring, began>>
         \/ \E w \in works : WorkSteps(w) /\ UNCHANGED <<cfg, form, formKnown, formQ, handle, saves, status, snags, began>>
         \/ \E w \in works : SecretStays(w) /\ UNCHANGED <<cfg, disk, ring, form, formKnown, formQ, mainQ, handle, saves, status, began>>
         \/ \E w \in works : WorkFails(w) /\ UNCHANGED <<cfg, ring, form, formKnown, formQ, handle, saves, status, began>>
         \/ \E id \in Ids, e \in {"Connected", "Disconnected", "Error", "sign-in error"} :
              TrackStatus(id, e) /\ UNCHANGED <<cfg, disk, ring, form, formKnown, formQ, mainQ, works, handle, saves, snags, began>>
<1>1. ASSUME NEW id \in Ids, OpenForm(id) PROVE FormMoves /\ UNCHANGED <<cfg, disk, ring, works, handle, saves, status, snags, began>>
  BY <1>1 DEF FormMoves, OpenForm
<1>2. ASSUME NEW how \in Methods, ChooseMethod(how) PROVE FormMoves /\ UNCHANGED <<cfg, disk, ring, works, handle, saves, status, snags, began>>
  BY <1>2 DEF FormMoves, ChooseMethod
<1>3. CASE PressConnect
  BY <1>3 DEF FormMoves, PressConnect
<1>4. CASE CancelSignIn
  BY <1>4 DEF FormMoves, CancelSignIn
<1>5. CASE CloseForm
  BY <1>5 DEF FormMoves, CloseForm
<1>6. CASE FormHears
  BY <1>6 DEF FormMoves, FormHears
<1>7. ASSUME NEW id \in Ids, AskRemove(id) PROVE UNCHANGED <<cfg, disk, ring, form, formKnown, formQ, works, handle, saves, status, snags, began>>
  BY <1>7 DEF AskRemove
<1>8. CASE MainHears
  BY <1>8 DEF MainHears
<1>9. CASE ChangePref
  BY <1>9 DEF ChangePref
<1>10. CASE SaverWrites
  BY <1>10 DEF SaverWrites
<1>11. CASE ProcessEnds
  BY <1>11 DEF ProcessEnds
<1>12. ASSUME NEW w \in works, WorkSteps(w) PROVE UNCHANGED <<cfg, form, formKnown, formQ, handle, saves, status, snags, began>>
  BY <1>12 DEF WorkSteps
<1>15. ASSUME NEW w \in works, SecretStays(w) PROVE UNCHANGED <<cfg, disk, ring, form, formKnown, formQ, mainQ, handle, saves, status, began>>
  BY <1>15 DEF SecretStays
<1>13. ASSUME NEW w \in works, WorkFails(w) PROVE UNCHANGED <<cfg, ring, form, formKnown, formQ, handle, saves, status, began>>
  BY <1>13 DEF WorkFails
<1>14. ASSUME NEW id \in Ids, NEW e \in {"Connected", "Disconnected", "Error", "sign-in error"}, TrackStatus(id, e)
       PROVE  UNCHANGED <<cfg, disk, ring, form, formKnown, formQ, mainQ, works, handle, saves, snags, began>>
  BY <1>14 DEF TrackStatus
<1> QED BY <1>1, <1>2, <1>3, <1>4, <1>5, <1>6, <1>7, <1>8, <1>9, <1>10, <1>11, <1>12, <1>13, <1>14, <1>15 DEF AccountsNext

(* What the main window does with what it hears. *)
LEMMA HearsWhat ==
  ASSUME AccountsTyped, MainHears
  PROVE  LET m == mainQ[1] IN
         /\ m = Head(mainQ) /\ m \in AccountMsg /\ 1 \in 1..Len(mainQ)
         /\ \/ m.what \in {"Connect", "Remove"} /\ StartWork(m)
            \/ m.what = "Abort" /\ AbortWork
            \/ m.what = "Closed" /\ formKnown' = FALSE /\ UNCHANGED <<cfg, form, formQ, works, handle, status, snags, began>>
            \/ m.what = "Working" /\ Tell("Working") /\ UNCHANGED <<cfg, form, formKnown, works, handle, status, snags, began>>
            \/ m.what = "Failed" /\ Fails
            \/ m.what = "Saved" /\ Saves(m)
            \/ m.what = "Removed" /\ Removes(m)
<1>1. mainQ \in Seq(AccountMsg) /\ mainQ # <<>>
  BY DEF AccountsTyped, QueueTyped, MessagesTyped, MainHears
<1>2. mainQ[1] = Head(mainQ) /\ mainQ[1] \in AccountMsg /\ 1 \in 1..Len(mainQ)
  BY <1>1
<1> QED BY <1>2 DEF MainHears

(* What a work's step does to the configuration file and the keyring. *)
LEMMA WorkDoes ==
  ASSUME AccountsTyped, NEW w \in works, WorkSteps(w)
  PROVE  \/ w.what = "Connect" /\ w.step = 1 /\ Steps(w) /\ UNCHANGED <<ring, disk, mainQ>>
         \/ w.what = "Connect" /\ w.step = 2 /\ Steps(w) /\ mainQ' = Append(mainQ, Msg("Working", w.id, w.how, NoConf)) /\ UNCHANGED <<ring, disk>>
         \/ KeyringStep(w)
         \/ w.what = "Connect" /\ w.step = 6 /\ disk' = Upsert(w.conf, w.id, w.how) /\ Ends(w, "Saved", Upsert(w.conf, w.id, w.how)) /\ UNCHANGED ring
         \/ w.what = "Remove" /\ w.step = 2 /\ disk' = Without(w.conf, w.id) /\ Steps(w) /\ UNCHANGED <<ring, mainQ>>
         \/ w.what = "Remove" /\ w.step = 6 /\ Ends(w, "Removed", Without(w.conf, w.id)) /\ UNCHANGED <<ring, disk>>
<1>1. w.what \in {"Connect", "Remove"}
  BY DEF AccountsTyped, WorkTyped, Works
<1>2. CASE w.what = "Connect"
  BY <1>2 DEF WorkSteps, ConnectStep
<1>3. CASE w.what = "Remove"
  BY <1>3 DEF WorkSteps, RemoveStep
<1> QED BY <1>1, <1>2, <1>3

(* No other step is a call to the keyring. *)
LEMMA NoCall == \A w : w.step \in {1, 2, 6} => ~KeyringStep(w)
<1> SUFFICES ASSUME NEW w, w.step \in {1, 2, 6} PROVE ~(w.step \in 3..5)
  BY DEF KeyringStep, CallsKeyring
<1> QED OBVIOUS

(* Each of an account's three kinds of secret is called for once, in some order. *)
LEMMA SecretsAre ==
  ASSUME NEW w
  PROVE  /\ Kinds = {Secrets(w)[1], Secrets(w)[2], Secrets(w)[3]}
         /\ \A k \in 1..3 : Secrets(w)[k] \in Kinds
         /\ SignsInWith(w) \subseteq Kinds
<1>1. Kinds = {Secrets(w)[1], Secrets(w)[2], Secrets(w)[3]}
  BY DEF Kinds, Secrets
<1>2. \A k \in 1..3 : Secrets(w)[k] \in Kinds
  <2>1. \A k \in 1..3 : k = 1 \/ k = 2 \/ k = 3
    OBVIOUS
  <2> QED BY <1>1, <2>1
<1>3. SignsInWith(w) \subseteq Kinds
  BY DEF SignsInWith, KindsOf, Kinds
<1> QED BY <1>1, <1>2, <1>3

(* What a call is for. *)
LEMMA SecretIs ==
  ASSUME NEW w, w.step \in 3..5
  PROVE  Secret(w) \in Kinds
<1>1. Secret(w) = Secrets(w)[w.step - 2] /\ w.step - 2 \in 1..3
  BY DEF Secret
<1> QED BY <1>1, SecretsAre

(* Which kinds the keyring has been called for, step by step. *)
LEMMA CalledIs ==
  ASSUME NEW w, w.step \in 1..6
  PROVE  /\ w.step <= 3 => Called(w) = {}
         /\ w.step = 4 => Called(w) = {Secrets(w)[1]}
         /\ w.step = 5 => Called(w) = {Secrets(w)[1], Secrets(w)[2]}
         /\ w.step = 6 => Called(w) = {Secrets(w)[1], Secrets(w)[2], Secrets(w)[3]}
<1>1. w.step <= 3 => {i \in 1..3 : i + 2 < w.step} = {}
  OBVIOUS
<1>2. w.step = 4 => {i \in 1..3 : i + 2 < w.step} = {1}
  OBVIOUS
<1>3. w.step = 5 => {i \in 1..3 : i + 2 < w.step} = {1, 2}
  OBVIOUS
<1>4. w.step = 6 => {i \in 1..3 : i + 2 < w.step} = {1, 2, 3}
  OBVIOUS
<1> QED BY <1>1, <1>2, <1>3, <1>4 DEF Called

(* Before the first call nothing has changed, and after the last all is as wanted. *)
LEMMA AfterEnds ==
  ASSUME NEW w, w.step \in 1..6, NEW kinds, kinds \subseteq Kinds
  PROVE  /\ w.step <= 3 => After(w, kinds) = kinds
         /\ w.step = 6 => After(w, kinds) = SignsInWith(w)
<1>1. CASE w.step <= 3
  <2>1. Called(w) = {}
    BY <1>1, CalledIs
  <2> QED BY <1>1, <2>1 DEF After
<1>2. CASE w.step = 6
  <2>1. Called(w) = Kinds
    BY <1>2, CalledIs, SecretsAre
  <2> QED BY <1>2, <2>1, SecretsAre DEF After
<1> QED BY <1>1, <1>2

(* A call adds what the account signs in with and takes anything else away. *)
LEMMA AfterCall ==
  ASSUME NEW w, NEW v, w.step \in 3..5, v.step = w.step + 1, v.what = w.what, v.how = w.how, NEW kinds
  PROVE  /\ Secret(w) \in Kinds
         /\ After(v, kinds) = IF Secret(w) \in SignsInWith(w) THEN After(w, kinds) \union {Secret(w)} ELSE After(w, kinds) \ {Secret(w)}
<1>1. Secret(w) = Secrets(w)[w.step - 2]
  BY DEF Secret
<1>2. Secret(w) \in Kinds
  BY SecretIs
<1>3. Secrets(v) = Secrets(w) /\ SignsInWith(v) = SignsInWith(w)
  BY DEF Secrets, SignsInWith
<1>4. Called(v) = Called(w) \union {Secret(w)}
  <2>1. w.step = 3 \/ w.step = 4 \/ w.step = 5
    OBVIOUS
  <2>2. w.step \in 1..6 /\ v.step \in 1..6
    BY <2>1
  <2>3. CASE w.step = 3
    <3>1. v.step = 4 /\ Secret(w) = Secrets(w)[1] /\ w.step <= 3
      BY <1>1, <2>3
    <3>2. Called(v) = {Secrets(v)[1]} /\ Called(w) = {}
      BY <2>2, <3>1, CalledIs
    <3> QED BY <1>3, <3>1, <3>2
  <2>4. CASE w.step = 4
    <3>1. v.step = 5 /\ Secret(w) = Secrets(w)[2]
      BY <1>1, <2>4
    <3>2. Called(v) = {Secrets(v)[1], Secrets(v)[2]} /\ Called(w) = {Secrets(w)[1]}
      BY <2>2, <2>4, <3>1, CalledIs
    <3> QED BY <1>3, <3>1, <3>2
  <2>5. CASE w.step = 5
    <3>1. v.step = 6 /\ Secret(w) = Secrets(w)[3]
      BY <1>1, <2>5
    <3>2. Called(v) = {Secrets(v)[1], Secrets(v)[2], Secrets(v)[3]} /\ Called(w) = {Secrets(w)[1], Secrets(w)[2]}
      BY <2>2, <2>5, <3>1, CalledIs
    <3> QED BY <1>3, <3>1, <3>2
  <2> QED BY <2>1, <2>3, <2>4, <2>5
<1> QED BY <1>2, <1>3, <1>4 DEF After

(* save_account sets its secrets before it deletes any: when one is refused
   all that was there still is. *)
LEMMA AfterRefusal ==
  ASSUME NEW w, w.step \in 3..5, w.how \in Methods, w.what = "Connect", Secret(w) \in SignsInWith(w), NEW kinds
  PROVE  kinds \subseteq After(w, kinds)
<1>1. w.step = 3 \/ (w.step = 4 /\ w.how = "Password")
  <2>1. w.step = 3 \/ w.step = 4 \/ w.step = 5
    OBVIOUS
  <2>2. CASE w.how = "Password"
    <3>1. Secrets(w) = <<"imap", "smtp", "oauth">> /\ SignsInWith(w) = {"imap", "smtp"}
      BY <2>2 DEF Secrets, SignsInWith, KindsOf
    <3>2. w.step = 5 => Secret(w) = "oauth"
      BY <3>1 DEF Secret
    <3> QED BY <2>1, <2>2, <3>1, <3>2
  <2>3. CASE w.how = "GoogleOAuth"
    <3>1. Secrets(w) = <<"oauth", "imap", "smtp">> /\ SignsInWith(w) = {"oauth"}
      BY <2>3 DEF Secrets, SignsInWith, KindsOf
    <3>2. (w.step = 4 => Secret(w) = "imap") /\ (w.step = 5 => Secret(w) = "smtp")
      BY <3>1 DEF Secret
    <3> QED BY <2>1, <3>1, <3>2
  <2> QED BY <2>2, <2>3 DEF Methods
<1>2. w.step \in 1..6
  OBVIOUS
<1>3. CASE w.step = 3
  <2>1. Called(w) = {}
    BY <1>2, <1>3, CalledIs
  <2> QED BY <2>1 DEF After
<1>4. CASE w.step = 4 /\ w.how = "Password"
  <2>1. Secrets(w)[1] = "imap" /\ "imap" \in SignsInWith(w)
    BY <1>4 DEF Secrets, SignsInWith, KindsOf
  <2>2. Called(w) = {Secrets(w)[1]}
    BY <1>2, <1>4, CalledIs
  <2>3. Called(w) \subseteq SignsInWith(w)
    BY <2>1, <2>2
  <2> QED BY <2>3 DEF After
<1> QED BY <1>1, <1>3, <1>4

(* Configurations are written by the saver, by work and by the end of work. *)
LEMMA ConfsStep ==
  ASSUME AccountsTyped, AccountsNext
  PROVE  ConfsTyped'
<1>0. ConfsTyped /\ QueueTyped /\ WorkTyped
  BY DEF AccountsTyped
<1>1. CASE UNCHANGED <<cfg, disk, ring, saves>>
  BY <1>0, <1>1 DEF ConfsTyped
<1>2. CASE MainHears /\ UNCHANGED <<disk, ring, saves>>
  <2>1. mainQ[1].conf \in Conf
    BY <1>2, HearsWhat DEF AccountMsg
  <2>2. cfg' = cfg \/ cfg' = mainQ[1].conf
    BY <1>2, HearsWhat DEF StartWork, AbortWork, Fails, Saves, Removes, Reload
  <2> QED BY <1>0, <1>2, <2>1, <2>2 DEF ConfsTyped
<1>3. CASE ChangePref /\ UNCHANGED <<disk, ring>>
  <2>1. cfg' \in Conf
    <3>1. cfg.pref + 1 \in Nat
      BY <1>0 DEF ConfsTyped, Conf
    <3> QED BY <1>0, <1>3, <3>1 DEF ChangePref, ConfsTyped, Conf
  <2>2. saves' \in Seq(Conf)
    BY <1>0, <1>3, <2>1 DEF ChangePref, ConfsTyped
  <2> QED BY <1>0, <1>3, <2>1, <2>2 DEF ConfsTyped
<1>4. CASE SaverWrites /\ UNCHANGED <<cfg, ring>>
  <2>1. disk' \in {saves[Len(saves)], disk, NoConf} /\ saves' = <<>> /\ saves \in Seq(Conf) /\ saves # <<>>
    BY <1>0, <1>4 DEF SaverWrites, ConfsTyped, Last, HalfWritten
  <2>2. saves[Len(saves)] \in Conf
    BY <2>1
  <2> QED BY <1>0, <1>4, <2>1, <2>2, ConfTyped DEF ConfsTyped
<1>5. CASE ProcessEnds /\ UNCHANGED ring
  <2>1. disk' \in {disk, NoConf} /\ cfg' = disk' /\ saves' = <<>>
    BY <1>5 DEF ProcessEnds, HalfWritten
  <2> QED BY <1>0, <1>5, <2>1, ConfTyped DEF ConfsTyped
<1>6. ASSUME NEW w \in works, WorkSteps(w), UNCHANGED <<cfg, saves>> PROVE ConfsTyped'
  <2>1. w.id \in Ids /\ w.how \in Methods \union {NoAccount} /\ w.conf \in Conf
    BY <1>0 DEF WorkTyped, Works
  <2>2. Upsert(w.conf, w.id, w.how) \in Conf /\ Without(w.conf, w.id) \in Conf
    BY <2>1, ConfTyped
  <2>3. disk' \in Conf
    BY <1>0, <1>6, <2>2, WorkDoes DEF ConfsTyped, Ends, KeyringStep
  <2>4. ring' = ring \/ \E s \in SUBSET Kinds : ring' = [ring EXCEPT ![w.id] = s]
    <3>1. CASE KeyringStep(w)
      <4>1. Secret(w) \in Kinds
        BY <3>1, SecretIs DEF KeyringStep, CallsKeyring
      <4>2. ring[w.id] \subseteq Kinds
        BY <1>0, <2>1 DEF ConfsTyped
      <4>3. ring[w.id] \union {Secret(w)} \in SUBSET Kinds /\ ring[w.id] \ {Secret(w)} \in SUBSET Kinds
        BY <4>1, <4>2
      <4>4. ring' = [ring EXCEPT ![w.id] = IF Secret(w) \in SignsInWith(w) THEN ring[w.id] \union {Secret(w)} ELSE ring[w.id] \ {Secret(w)}]
        BY <3>1 DEF KeyringStep
      <4> QED BY <4>3, <4>4
    <3> QED BY <1>6, <3>1, WorkDoes
  <2> QED BY <1>0, <1>6, <2>1, <2>3, <2>4 DEF ConfsTyped
<1>7. ASSUME NEW w \in works, WorkFails(w), UNCHANGED <<cfg, ring, saves>> PROVE ConfsTyped'
  <2>1. disk' \in {disk, NoConf}
    BY <1>7 DEF WorkFails, Refused, HalfWritten
  <2> QED BY <1>0, <1>7, <2>1, ConfTyped DEF ConfsTyped
<1> QED BY <1>1, <1>2, <1>3, <1>4, <1>5, <1>6, <1>7, StepIs

(* A message is added or the oldest is taken. *)
LEMMA AddedIsTyped ==
  ASSUME NEW q, MessagesTyped(q), NEW m \in AccountMsg, m.what \in {"Connect", "Saved"} => m.how \in Methods
  PROVE  MessagesTyped(Append(q, m))
BY AppendAt DEF MessagesTyped

(* What is left when the oldest is taken. *)
LEMMA TakenIsTyped ==
  ASSUME NEW q, MessagesTyped(q), q # <<>>
  PROVE  MessagesTyped(Tail(q))
BY TailAt DEF MessagesTyped

(* Every message of the main window's queue is well made. *)
LEMMA QueueStepTyped ==
  ASSUME AccountsTyped, AccountsNext
  PROVE  QueueTyped'
<1>0. ConfsTyped /\ QueueTyped /\ WorkTyped /\ FormTyped
  BY DEF AccountsTyped
<1>w. "Connect" \in Whats /\ "Remove" \in Whats /\ "Abort" \in Whats /\ "Closed" \in Whats /\ "Working" \in Whats /\ "Failed" \in Whats
      /\ "Saved" \in Whats /\ "Removed" \in Whats /\ NoAccount \in Methods \union {NoAccount} /\ NoConf \in Conf
  BY ConfTyped DEF Whats
<1>1. CASE mainQ' = mainQ
  BY <1>0, <1>1 DEF QueueTyped
<1>2. CASE FormMoves
  <2>1. CASE PressConnect
    <3>1. form.id \in Ids /\ form.how \in Methods
      BY <1>0, <2>1 DEF FormTyped, PressConnect
    <3>2. Msg("Connect", form.id, form.how, NoConf) \in AccountMsg /\ Msg("Connect", form.id, form.how, NoConf).how = form.how
      BY <1>w, <3>1, MsgTyped
    <3> QED BY <1>0, <2>1, <3>1, <3>2, AddedIsTyped DEF QueueTyped, PressConnect
  <2>2. CASE CancelSignIn
    <3>1. form.id \in Ids
      BY <1>0, <2>2 DEF FormTyped, CancelSignIn
    <3>2. Msg("Abort", form.id, NoAccount, NoConf) \in AccountMsg /\ Msg("Abort", form.id, NoAccount, NoConf).what = "Abort"
      BY <1>w, <3>1, MsgTyped
    <3> QED BY <1>0, <2>2, <3>2, AddedIsTyped DEF QueueTyped, CancelSignIn
  <2>3. CASE CloseForm
    <3>1. PICK c \in AccountMsg :
             /\ c.what = "Closed"
             /\ \/ mainQ' = Append(mainQ, c)
                \/ \E a \in AccountMsg : a.what = "Abort" /\ mainQ' = Append(Append(mainQ, a), c)
      BY <2>3, CloseQueue
    <3>2. CASE mainQ' = Append(mainQ, c)
      BY <1>0, <3>1, <3>2, AddedIsTyped DEF QueueTyped
    <3>3. ASSUME NEW a \in AccountMsg, a.what = "Abort", mainQ' = Append(Append(mainQ, a), c) PROVE QueueTyped'
      <4>1. MessagesTyped(Append(mainQ, a))
        BY <1>0, <3>3, AddedIsTyped DEF QueueTyped
      <4> QED BY <3>1, <3>3, <4>1, AddedIsTyped DEF QueueTyped
    <3> QED BY <3>1, <3>2, <3>3
  <2> QED BY <1>1, <1>2, <2>1, <2>2, <2>3 DEF FormMoves, OpenForm, ChooseMethod, FormHears
<1>3. ASSUME NEW id \in Ids, AskRemove(id) PROVE QueueTyped'
  <2>1. Msg("Remove", id, NoAccount, NoConf) \in AccountMsg /\ Msg("Remove", id, NoAccount, NoConf).what = "Remove"
    BY <1>w, MsgTyped
  <2> QED BY <1>0, <1>3, <2>1, AddedIsTyped DEF QueueTyped, AskRemove
<1>4. CASE MainHears
  <2>1. mainQ # <<>> /\ \/ mainQ' = Tail(mainQ)
                        \/ \E m \in AccountMsg : m.what = "Closed" /\ mainQ' = Append(Tail(mainQ), m)
    BY <1>4, HearsQueue
  <2>2. CASE mainQ' = Tail(mainQ)
    BY <1>0, <2>1, <2>2, TakenIsTyped DEF QueueTyped
  <2>3. ASSUME NEW m \in AccountMsg, m.what = "Closed", mainQ' = Append(Tail(mainQ), m) PROVE QueueTyped'
    <3>1. MessagesTyped(Tail(mainQ))
      BY <1>0, <2>1, TakenIsTyped DEF QueueTyped
    <3> QED BY <2>3, <3>1, AddedIsTyped DEF QueueTyped
  <2> QED BY <2>1, <2>2, <2>3
<1>5. CASE ProcessEnds
  <2>1. mainQ' = <<>>
    BY <1>5 DEF ProcessEnds
  <2> QED BY <2>1 DEF QueueTyped, MessagesTyped
<1>6. ASSUME NEW w \in works, NEW what \in Whats, NEW conf \in Conf, Ends(w, what, conf), what = "Saved" => w.how \in Methods, what # "Connect" PROVE QueueTyped'
  <2>1. \/ w.cut /\ mainQ' = mainQ
        \/ /\ ~w.cut
           /\ \E m \in AccountMsg : m.what = what /\ m.id = w.id /\ m.how = w.how /\ m.conf = conf /\ mainQ' = Append(mainQ, m)
    BY <1>6, EndsQueue
  <2> QED BY <1>0, <1>1, <1>6, <2>1, AddedIsTyped DEF QueueTyped
<1>7. ASSUME NEW w \in works, WorkSteps(w) PROVE QueueTyped'
  <2>1. w.id \in Ids /\ w.how \in Methods \union {NoAccount} /\ w.conf \in Conf /\ (w.what = "Connect" => w.how \in Methods)
    BY <1>0 DEF WorkTyped, Works
  <2>2. Upsert(w.conf, w.id, w.how) \in Conf /\ Without(w.conf, w.id) \in Conf
    BY <2>1, ConfTyped
  <2>3. CASE mainQ' = Append(mainQ, Msg("Working", w.id, w.how, NoConf))
    <3>1. Msg("Working", w.id, w.how, NoConf) \in AccountMsg /\ Msg("Working", w.id, w.how, NoConf).what = "Working"
      BY ONLY <1>w, <2>1, MsgTyped
    <3> QED BY <1>0, <2>3, <3>1, AddedIsTyped DEF QueueTyped
  <2>4. \/ mainQ' = mainQ
        \/ mainQ' = Append(mainQ, Msg("Working", w.id, w.how, NoConf))
        \/ w.what = "Connect" /\ Ends(w, "Saved", Upsert(w.conf, w.id, w.how))
        \/ Ends(w, "Removed", Without(w.conf, w.id))
    BY <1>7, WorkDoes DEF KeyringStep
  <2>5. CASE w.what = "Connect" /\ Ends(w, "Saved", Upsert(w.conf, w.id, w.how))
    BY <1>6, <1>w, <2>1, <2>2, <2>5
  <2>6. CASE Ends(w, "Removed", Without(w.conf, w.id))
    BY <1>6, <1>w, <2>2, <2>6
  <2> QED BY <1>1, <2>3, <2>4, <2>5, <2>6
<1>8. ASSUME NEW w \in works, WorkFails(w) PROVE QueueTyped'
  BY <1>6, <1>8, <1>w DEF WorkFails
<1> QED BY <1>1, <1>2, <1>3, <1>4, <1>5, <1>7, <1>8, StepIs

(* The next step of a work is the same work. *)
LEMMA StepsTo ==
  ASSUME WorkTyped, NEW w \in works, w.step < 6, Steps(w)
  PROVE  \E v \in Works : /\ works' = (works \ {w}) \union {v} /\ v.step = w.step + 1 /\ v.no = w.no /\ v.what = w.what
                          /\ v.id = w.id /\ v.how = w.how /\ v.conf = w.conf /\ v.cut = w.cut
<1> DEFINE v == [w EXCEPT !.step = w.step + 1]
<1>1. w \in Works
  BY DEF WorkTyped
<1>2. w.step + 1 \in 1..6
  BY <1>1 DEF Works
<1>3. v \in Works /\ v.step = w.step + 1 /\ v.no = w.no /\ v.what = w.what
      /\ v.id = w.id /\ v.how = w.how /\ v.conf = w.conf /\ v.cut = w.cut
  BY <1>1, <1>2 DEF Works
<1>4. works' = (works \ {w}) \union {v}
  BY DEF Steps
<1> HIDE DEF v
<1> QED BY <1>3, <1>4

(* Abort marks the work that it cannot stop, or stops it. *)
LEMMA AbortsTo ==
  ASSUME WorkTyped, AbortWork
  PROVE  /\ \A v \in works' : v \in Works /\ \E w \in works : /\ v.no = w.no /\ v.what = w.what /\ v.id = w.id /\ v.how = w.how
                                                /\ v.conf = w.conf /\ v.step = w.step /\ (w.no # handle => v = w)
                                                /\ (w.no = handle => w.step > 2)
         /\ \A w \in works : w.no # handle => w \in works'
<1>1. ASSUME NEW w \in works, NEW v, v = IF w.no = handle THEN [w EXCEPT !.cut = TRUE] ELSE w
      PROVE  v \in Works /\ v.no = w.no /\ v.what = w.what /\ v.id = w.id /\ v.how = w.how
             /\ v.conf = w.conf /\ v.step = w.step /\ (w.no # handle => v = w)
  BY <1>1 DEF WorkTyped, Works
<1>2. works' = {IF w.no = handle THEN [w EXCEPT !.cut = TRUE] ELSE w : w \in {x \in works : x.no # handle \/ x.step > 2}}
  BY DEF AbortWork
<1>3. ASSUME NEW v \in works'
      PROVE  \E w \in works : (w.no = handle => w.step > 2) /\ v = IF w.no = handle THEN [w EXCEPT !.cut = TRUE] ELSE w
  BY <1>2
<1>4. ASSUME NEW w \in works, w.no # handle PROVE w \in works'
  <2>1. w = IF w.no = handle THEN [w EXCEPT !.cut = TRUE] ELSE w
    BY <1>4
  <2>2. w \in {x \in works : x.no # handle \/ x.step > 2}
    BY <1>4
  <2> QED BY <1>2, <2>1, <2>2
<1> QED BY <1>1, <1>3, <1>4

(* What work is started on. *)
LEMMA StartsWork ==
  ASSUME AccountsTyped, NEW m \in AccountMsg, m.what \in {"Connect", "Remove"}, StartWork(m)
  PROVE  \E v \in Works : /\ works' = works \union {v} /\ v.no = began + 1 /\ v.what = m.what /\ v.id = m.id /\ v.how = m.how
                          /\ v.conf = cfg /\ v.step = (IF m.what = "Connect" THEN 1 ELSE 2) /\ v.cut = FALSE
<1>1. began + 1 \in Nat \ {0} /\ cfg \in Conf /\ 1 \in 1..6 /\ 2 \in 1..6 /\ FALSE \in BOOLEAN
  <2>1. began \in Nat
    BY DEF AccountsTyped, WorkTyped
  <2> QED BY <2>1 DEF AccountsTyped, ConfsTyped
<1>2. m.id \in Ids /\ m.how \in Methods \union {NoAccount}
  BY DEF AccountMsg
<1> DEFINE v == Work(m.what, m.id, m.how)
<1>3. v \in Works /\ v.no = began + 1 /\ v.what = m.what /\ v.id = m.id /\ v.how = m.how /\ v.conf = cfg
      /\ v.step = (IF m.what = "Connect" THEN 1 ELSE 2) /\ v.cut = FALSE
  BY <1>1, <1>2 DEF Work, Works
<1>4. works' = works \union {v}
  BY DEF StartWork
<1> HIDE DEF v
<1> QED BY <1>3, <1>4

(* Work keeps its number, and a removal is never what Abort stops (connect.rs). *)
LEMMA WorksStep ==
  ASSUME AccountsTyped, AccountsNext
  PROVE  WorkTyped'
<1>0. WorkTyped /\ QueueTyped
  BY DEF AccountsTyped
<1>1. CASE UNCHANGED <<works, handle, began>>
  BY <1>0, <1>1 DEF WorkTyped
<1>2. CASE UNCHANGED <<handle, began>> /\ works' \subseteq works
  BY <1>0, <1>2 DEF WorkTyped
<1>3. CASE UNCHANGED <<works, began>> /\ handle' = 0
  BY <1>0, <1>3 DEF WorkTyped, Works
<1>4. CASE MainHears
  <2> DEFINE m == mainQ[1]
  <2>1. m \in AccountMsg /\ 1 \in 1..Len(mainQ)
    BY <1>4, HearsWhat
  <2>2. CASE m.what \in {"Connect", "Remove"} /\ StartWork(m)
    <3>1. PICK v \in Works : /\ works' = works \union {v} /\ v.no = began + 1 /\ v.what = m.what /\ v.id = m.id /\ v.how = m.how
                             /\ v.conf = cfg /\ v.step = (IF m.what = "Connect" THEN 1 ELSE 2) /\ v.cut = FALSE
      BY <2>1, <2>2, StartsWork
    <3>2. began' = began + 1 /\ handle' = IF m.what = "Connect" THEN began + 1 ELSE handle
      BY <2>2 DEF StartWork
    <3>3. m.what = "Connect" => m.how \in Methods
      BY <1>0, <2>1 DEF QueueTyped, MessagesTyped
    <3> HIDE DEF m
    <3>4. began \in Nat /\ handle \in 0..began /\ \A w \in works : w \in Works /\ w.no \in Nat /\ w.no <= began
      BY <1>0 DEF WorkTyped, Works
    <3>5. began' \in Nat /\ handle' \in 0..began'
      BY <3>2, <3>4
    <3>6. \A w \in works' : w \in Works /\ w.no <= began'
      BY <3>1, <3>2, <3>4
    <3>7. \A w \in works' : w.what = "Connect" => w.how \in Methods
      BY <1>0, <3>1, <3>3 DEF WorkTyped
    <3>8. \A w \in works' : w.what = "Remove" => w.step \in 2..6 /\ w.no # handle'
      BY <1>0, <3>1, <3>2, <3>4 DEF WorkTyped
    <3> QED BY <3>5, <3>6, <3>7, <3>8 DEF WorkTyped
  <2>3. CASE AbortWork
    <3>1. handle' = 0 /\ began' = began
      BY <2>3 DEF AbortWork
    <3>2. \A v \in works' : v \in Works /\ \E w \in works : v.no = w.no /\ v.what = w.what /\ v.how = w.how /\ v.step = w.step
      BY <1>0, <2>3, AbortsTo
    <3>3. \A w \in works : w.no \in Nat \ {0}
      BY <1>0 DEF WorkTyped, Works
    <3> QED BY <1>0, <3>1, <3>2, <3>3 DEF WorkTyped
  <2> QED BY <1>1, <1>3, <1>4, <2>2, <2>3, HearsWhat DEF Fails, Saves, Removes
<1>5. CASE ProcessEnds
  <2>1. works' = {} /\ handle' = 0 /\ began' = began
    BY <1>5 DEF ProcessEnds
  <2> QED BY <1>0, <2>1 DEF WorkTyped
<1>8. ASSUME NEW w \in works, Steps(w), w.step < 6, UNCHANGED <<handle, began>> PROVE WorkTyped'
  <2>1. PICK v \in Works : /\ works' = (works \ {w}) \union {v} /\ v.step = w.step + 1 /\ v.no = w.no /\ v.what = w.what
                           /\ v.id = w.id /\ v.how = w.how /\ v.conf = w.conf /\ v.cut = w.cut
    BY <1>0, <1>8, StepsTo
  <2>2. v.what = "Remove" => v.step \in 2..6 /\ v.no # handle
    <3>1. w.step \in 1..6 /\ (w.what = "Remove" => w.step \in 2..6 /\ w.no # handle)
      BY <1>0 DEF WorkTyped, Works
    <3> QED BY <1>8, <2>1, <3>1
  <2> QED BY <1>0, <1>8, <2>1, <2>2 DEF WorkTyped
<1>6. ASSUME NEW w \in works, WorkSteps(w), UNCHANGED <<handle, began>> PROVE WorkTyped'
  <2>1. (Steps(w) /\ w.step \in {1, 2}) \/ KeyringStep(w) \/ (\E what, conf : Ends(w, what, conf))
    BY <1>6, WorkDoes
  <2>2. CASE Steps(w) /\ w.step \in {1, 2}
    BY <1>6, <1>8, <2>2
  <2>3. CASE KeyringStep(w)
    BY <1>6, <1>8, <2>3 DEF KeyringStep, CallsKeyring
  <2>4. CASE \E what, conf : Ends(w, what, conf)
    BY <1>2, <1>6, <2>4 DEF Ends
  <2> QED BY <2>1, <2>2, <2>3, <2>4
<1>7. ASSUME NEW w \in works, WorkFails(w), UNCHANGED <<handle, began>> PROVE WorkTyped'
  BY <1>2, <1>7 DEF WorkFails, Ends
<1>9. ASSUME NEW w \in works, SecretStays(w), UNCHANGED <<handle, began>> PROVE WorkTyped'
  BY <1>8, <1>9 DEF SecretStays, CallsKeyring
<1> QED BY <1>1, <1>4, <1>5, <1>6, <1>7, <1>9, StepIs

(* The form has an account and a method while it is open. *)
LEMMA FormStepTyped ==
  ASSUME AccountsTyped, AccountsNext
  PROVE  FormTyped'
<1>0. FormTyped /\ ConfsTyped
  BY DEF AccountsTyped
<1>1. CASE UNCHANGED <<form, formQ>>
  BY <1>0, <1>1 DEF FormTyped
<1>2. CASE form' = ClosedForm /\ formQ' = <<>>
  <2>1. ClosedForm \in FormState /\ ClosedForm.open = FALSE /\ ClosedForm.busy = FALSE
    BY DEF ClosedForm, FormState
  <2>2. formQ' \in Seq({"Working", "Failed"})
    BY <1>2
  <2> QED BY <1>2, <2>1, <2>2 DEF FormTyped
<1>3. CASE form' = form /\ formQ' = <<>>
  <2>1. formQ' \in Seq({"Working", "Failed"})
    BY <1>3
  <2> QED BY <1>0, <1>3, <2>1 DEF FormTyped
<1>4. ASSUME NEW what \in {"Working", "Failed"}, Tell(what), form' = form PROVE FormTyped'
  <2>1. formQ' \in Seq({"Working", "Failed"})
    BY <1>0, <1>4 DEF FormTyped, Tell
  <2> QED BY <1>0, <1>4, <2>1 DEF FormTyped
<1>5. CASE FormMoves
  <2>1. ASSUME NEW id \in Ids, OpenForm(id) PROVE FormTyped'
    <3> DEFINE how == IF cfg.acc[id] = NoAccount THEN "Password" ELSE cfg.acc[id]
    <3>1. how \in Methods
      BY <1>0 DEF ConfsTyped, Conf, Methods
    <3>2. form' = [open |-> TRUE, busy |-> FALSE, id |-> id, how |-> how] /\ formQ' = <<>>
      BY <2>1 DEF OpenForm
    <3> HIDE DEF how
    <3>3. form' \in FormState /\ form'.busy = FALSE /\ form'.open = TRUE /\ form'.id = id /\ form'.how = how
      BY <3>1, <3>2 DEF FormState
    <3>4. formQ' \in Seq({"Working", "Failed"})
      BY <3>2
    <3> QED BY <3>1, <3>3, <3>4 DEF FormTyped
  <2>2. ASSUME NEW how \in Methods, ChooseMethod(how) PROVE FormTyped'
    <3>1. form' = [form EXCEPT !.how = how] /\ formQ' = formQ
      BY <2>2 DEF ChooseMethod
    <3>2. form' \in FormState /\ form'.busy = form.busy /\ form'.open = form.open /\ form'.id = form.id /\ form'.how = how
      BY <1>0, <3>1 DEF FormTyped, FormState
    <3> QED BY <1>0, <3>1, <3>2 DEF FormTyped
  <2>3. ASSUME NEW busy \in BOOLEAN, form' = [form EXCEPT !.busy = busy], form.open, formQ' \in Seq({"Working", "Failed"}) PROVE FormTyped'
    <3>1. form' \in FormState /\ form'.busy = busy /\ form'.open = form.open /\ form'.id = form.id /\ form'.how = form.how
      BY <1>0, <2>3 DEF FormTyped, FormState
    <3> QED BY <1>0, <2>3, <3>1 DEF FormTyped
  <2>4. formQ \in Seq({"Working", "Failed"})
    BY <1>0 DEF FormTyped
  <2>5. CASE PressConnect
    <3>1. form' = [form EXCEPT !.busy = TRUE] /\ form.open /\ formQ' \in Seq({"Working", "Failed"})
      BY <2>4, <2>5 DEF PressConnect
    <3> QED BY <2>3, <3>1
  <2>6. CASE CancelSignIn
    <3>1. form' = [form EXCEPT !.busy = FALSE] /\ form.open /\ formQ' \in Seq({"Working", "Failed"})
      BY <2>4, <2>6 DEF CancelSignIn
    <3> QED BY <2>3, <3>1
  <2>7. CASE FormHears
    <3> DEFINE busy == form.busy /\ Head(formQ) # "Failed"
    <3>1. form' = [form EXCEPT !.busy = busy] /\ form.open
      BY <2>7 DEF FormHears
    <3>2. formQ' \in Seq({"Working", "Failed"})
      BY <2>4, <2>7 DEF FormHears
    <3>3. busy \in BOOLEAN
      OBVIOUS
    <3> HIDE DEF busy
    <3> QED BY <2>3, <3>1, <3>2, <3>3
  <2>8. CASE CloseForm
    BY <1>2, <2>8 DEF CloseForm
  <2> QED BY <1>5, <2>1, <2>2, <2>5, <2>6, <2>7, <2>8 DEF FormMoves
<1>6. CASE MainHears
  BY <1>1, <1>2, <1>3, <1>4, <1>6, HearsWhat DEF StartWork, AbortWork, Fails, Saves, Removes
<1>7. CASE ProcessEnds
  BY <1>2, <1>7 DEF ProcessEnds
<1> QED BY <1>1, <1>5, <1>6, <1>7, StepIs

(* A session is opened for each configured account. *)
LEMMA StatusStep ==
  ASSUME AccountsTyped, AccountsNext
  PROVE  StatusTyped' /\ (snags \subseteq Snags)'
<1>0. StatusTyped /\ ConfsTyped /\ snags \subseteq Snags
  BY DEF AccountsTyped
<1>s. "Connecting" # NoAccount /\ "Failed" # NoAccount /\ "Connected" # NoAccount /\ "Reconnecting" # NoAccount
  BY DEF NoAccount
<1>1. ASSUME UNCHANGED <<cfg, status>> PROVE StatusTyped'
  BY <1>0, <1>1 DEF StatusTyped
<1>2. ASSUME NEW conf, Reload(conf) PROVE StatusTyped'
  BY <1>2, <1>s DEF Reload, StatusTyped, Statuses
<1>3. CASE ChangePref
  <2>1. \A i \in Ids : cfg'.acc[i] = cfg.acc[i]
    BY <1>0, <1>3 DEF ChangePref, ConfsTyped, Conf
  <2>2. status' = status
    BY <1>3 DEF ChangePref
  <2>3. StatusTyped'
    BY <1>0, <2>1, <2>2 DEF StatusTyped
  <2>4. snags' \subseteq Snags
    BY <1>0, <1>3 DEF ChangePref, Snags
  <2> QED BY <2>3, <2>4
<1>4. CASE MainHears
  <2>1. StatusTyped'
    BY <1>1, <1>2, <1>4, HearsWhat DEF StartWork, AbortWork, Fails, Saves, Removes
  <2>2. snags' \subseteq snags \union Snags
    BY <1>4, HearsWhat DEF StartWork, AbortWork, Fails, Saves, Removes, Overlap, Snags
  <2> QED BY <1>0, <2>1, <2>2
<1>5. CASE ProcessEnds
  <2>1. cfg' = disk' /\ status' = [i \in Ids |-> IF disk'.acc[i] = NoAccount THEN NoAccount ELSE "Connecting"] /\ snags' = snags \union {"disturbed"}
    BY <1>5 DEF ProcessEnds, Misery
  <2> QED BY <1>0, <1>s, <2>1 DEF StatusTyped, Statuses, Snags
<1>6. ASSUME NEW id \in Ids, NEW e \in {"Connected", "Disconnected", "Error", "sign-in error"}, TrackStatus(id, e), UNCHANGED <<cfg, snags>>
      PROVE  StatusTyped' /\ (snags \subseteq Snags)'
  <2>1. StatusAfter(status[id], e) \in {"Connected", "Reconnecting", "Failed", status[id]}
    BY DEF StatusAfter
  <2>2. status' = [status EXCEPT ![id] = StatusAfter(status[id], e)] /\ status[id] # NoAccount
    BY <1>6 DEF TrackStatus
  <2>3. status \in [Ids -> Statuses] /\ StatusAfter(status[id], e) \in Statuses /\ StatusAfter(status[id], e) # NoAccount
    BY <1>0, <1>s, <2>1, <2>2 DEF StatusTyped, Statuses
  <2>4. status' \in [Ids -> Statuses] /\ \A i \in Ids : status'[i] = NoAccount <=> status[i] = NoAccount
    BY <2>2, <2>3
  <2> QED BY <1>0, <1>6, <2>4 DEF StatusTyped
<1>7. ASSUME NEW w \in works, WorkFails(w), UNCHANGED <<cfg, status>> PROVE StatusTyped' /\ (snags \subseteq Snags)'
  <2>1. snags' \subseteq snags \union Snags
    BY <1>7 DEF WorkFails, Refused, Misery, Snags
  <2> QED BY <1>0, <1>1, <1>7, <2>1
<1>8. CASE SaverWrites /\ UNCHANGED <<cfg, status>>
  <2>1. snags' \subseteq snags \union Snags
    BY <1>8 DEF SaverWrites, Snags
  <2> QED BY <1>0, <1>1, <1>8, <2>1
<1>9. ASSUME NEW w \in works, SecretStays(w), UNCHANGED <<cfg, status>> PROVE StatusTyped' /\ (snags \subseteq Snags)'
  <2>1. snags' \subseteq snags \union Snags
    BY <1>9 DEF SecretStays, Snags
  <2> QED BY <1>0, <1>1, <1>9, <2>1
<1> QED BY <1>0, <1>1, <1>3, <1>4, <1>5, <1>6, <1>7, <1>8, <1>9, StepIs

(* The types are kept. *)
LEMMA AccountsTypes == AccountsTyped /\ AccountsNext => AccountsTyped'
BY ConfsStep, QueueStepTyped, WorksStep, FormStepTyped, StatusStep DEF AccountsTyped

(* What a queue holds when a message is added. *)
LEMMA AddedHas ==
  ASSUME NEW q \in Seq(AccountMsg), NEW m \in AccountMsg, NEW kinds
  PROVE  /\ Has(Append(q, m), kinds) <=> Has(q, kinds) \/ m.what \in kinds
         /\ AskedAgain(q) /\ m.what # "Abort" => AskedAgain(Append(q, m))
         /\ m.what = "Connect" => AskedAgain(Append(q, m))
<1> DEFINE r == Append(q, m)
<1>1. /\ Len(q) \in Nat /\ Len(r) = Len(q) + 1 /\ r[Len(q) + 1] = m /\ \A i \in 1..Len(q) : r[i] = q[i]
      /\ \A i \in 1..Len(r) : i \in 1..Len(q) \/ i = Len(q) + 1
  BY AppendAt
<1> HIDE DEF r
<1>2. Len(q) + 1 \in 1..Len(r) /\ \A i \in 1..Len(q) : i \in 1..Len(r) /\ i < Len(q) + 1
  BY <1>1
<1>3. Has(r, kinds) <=> Has(q, kinds) \/ m.what \in kinds
  BY <1>1, <1>2 DEF Has
<1>4. ASSUME AskedAgain(q), m.what # "Abort", NEW i \in 1..Len(r), r[i].what = "Abort" PROVE \E j \in 1..Len(r) : i < j /\ r[j].what = "Connect"
  <2>1. i \in 1..Len(q) /\ q[i].what = "Abort"
    BY <1>1, <1>4
  <2>2. PICK j \in 1..Len(q) : i < j /\ q[j].what = "Connect"
    BY <1>4, <2>1 DEF AskedAgain
  <2> QED BY <1>1, <1>2, <2>2
<1>5. ASSUME m.what = "Connect", NEW i \in 1..Len(r), r[i].what = "Abort" PROVE \E j \in 1..Len(r) : i < j /\ r[j].what = "Connect"
  BY <1>1, <1>2, <1>5
<1> QED BY <1>3, <1>4, <1>5 DEF AskedAgain, r

(* What a queue holds when the oldest is taken; an Abort leaves a Connect behind. *)
LEMMA TakenHas ==
  ASSUME NEW q \in Seq(AccountMsg), q # <<>>, NEW kinds
  PROVE  /\ Has(q, kinds) <=> Has(Tail(q), kinds) \/ q[1].what \in kinds
         /\ AskedAgain(q) => AskedAgain(Tail(q))
         /\ AskedAgain(q) /\ q[1].what = "Abort" => Has(Tail(q), {"Connect"})
<1> DEFINE r == Tail(q)
<1>1. /\ Len(q) \in Nat /\ 1 \in 1..Len(q) /\ Len(r) = Len(q) - 1
      /\ \A i \in 1..Len(r) : i + 1 \in 1..Len(q) /\ r[i] = q[i + 1]
      /\ \A i \in 1..Len(q) : i # 1 => i - 1 \in 1..Len(r) /\ r[i - 1] = q[i]
  BY TailAt
<1> HIDE DEF r
<1>2. Has(q, kinds) <=> Has(r, kinds) \/ q[1].what \in kinds
  BY <1>1 DEF Has
<1>3. ASSUME AskedAgain(q), NEW i \in 1..Len(r), r[i].what = "Abort" PROVE \E j \in 1..Len(r) : i < j /\ r[j].what = "Connect"
  <2>1. i + 1 \in 1..Len(q) /\ q[i + 1].what = "Abort"
    BY <1>1, <1>3
  <2>2. PICK j \in 1..Len(q) : i + 1 < j /\ q[j].what = "Connect"
    BY <1>3, <2>1 DEF AskedAgain
  <2>3. j - 1 \in 1..Len(r) /\ r[j - 1] = q[j] /\ i < j - 1
    BY <1>1, <2>2
  <2> QED BY <2>2, <2>3
<1>4. ASSUME AskedAgain(q), q[1].what = "Abort" PROVE Has(r, {"Connect"})
  <2>1. PICK j \in 1..Len(q) : 1 < j /\ q[j].what = "Connect"
    BY <1>1, <1>4 DEF AskedAgain
  <2>2. j - 1 \in 1..Len(r) /\ r[j - 1] = q[j]
    BY <1>1, <2>1
  <2> QED BY <2>1, <2>2 DEF Has
<1> QED BY <1>2, <1>3, <1>4 DEF AskedAgain, r

(* What the user does with the form: it is known, and awaited while it is locked. *)
LEMMA FormMovesKnown ==
  ASSUME AccountsTyped, FormIsKnown, FormIsAwaited, FormMoves, UNCHANGED works
  PROVE  FormIsKnown' /\ FormIsAwaited'
<1>0. mainQ \in Seq(AccountMsg) /\ form \in FormState /\ formQ \in Seq({"Working", "Failed"}) /\ (form.busy => form.open)
      /\ (form.open => form.id \in Ids /\ form.how \in Methods)
  BY DEF AccountsTyped, QueueTyped, MessagesTyped, FormTyped
<1>w. "Connect" \in Whats /\ "Abort" \in Whats /\ NoAccount \in Methods \union {NoAccount} /\ NoConf \in Conf
  BY ConfTyped DEF Whats
<1>1. ASSUME NEW id \in Ids, OpenForm(id) PROVE FormIsKnown' /\ FormIsAwaited'
  <2>1. form'.busy = FALSE /\ formKnown' = TRUE /\ ~Has(mainQ', {"Closed"})
    BY <1>1 DEF OpenForm, Has
  <2> QED BY <2>1 DEF FormIsKnown, FormIsAwaited
<1>2. ASSUME NEW how \in Methods, ChooseMethod(how) PROVE FormIsKnown' /\ FormIsAwaited'
  <2>1. form'.busy = form.busy /\ form'.open = form.open /\ UNCHANGED <<formKnown, mainQ, formQ, works>>
    BY <1>0, <1>2 DEF ChooseMethod, FormState
  <2> QED BY <2>1 DEF FormIsKnown, FormIsAwaited
<1>3. CASE PressConnect
  <2> DEFINE m == Msg("Connect", form.id, form.how, NoConf)
  <2>1. m \in AccountMsg /\ m.what = "Connect"
    <3>1. form.id \in Ids /\ form.how \in Methods
      BY <1>0, <1>3 DEF PressConnect
    <3> QED BY ONLY <1>w, <3>1, MsgTyped
  <2>2. mainQ' = Append(mainQ, m) /\ formKnown' = formKnown /\ form.open /\ form'.open = form.open
    BY <1>0, <1>3 DEF PressConnect, FormState
  <2> HIDE DEF m
  <2>3. ~Has(mainQ', {"Closed"}) /\ AskedAgain(mainQ') /\ Has(mainQ', {"Connect", "Failed", "Saved"})
    BY <1>0, <2>1, <2>2, AddedHas DEF FormIsKnown
  <2> QED BY <2>2, <2>3 DEF FormIsKnown, FormIsAwaited
<1>4. CASE CancelSignIn
  <2> DEFINE m == Msg("Abort", form.id, NoAccount, NoConf)
  <2>1. m \in AccountMsg /\ m.what = "Abort"
    <3>1. form.id \in Ids
      BY <1>0, <1>4 DEF CancelSignIn
    <3> QED BY ONLY <1>w, <3>1, MsgTyped
  <2>2. mainQ' = Append(mainQ, m) /\ formKnown' = formKnown /\ form.open /\ form'.open = form.open /\ form'.busy = FALSE
    BY <1>0, <1>4 DEF CancelSignIn, FormState
  <2> HIDE DEF m
  <2>3. ~Has(mainQ', {"Closed"})
    BY <1>0, <2>1, <2>2, AddedHas DEF FormIsKnown
  <2> QED BY <2>2, <2>3 DEF FormIsKnown, FormIsAwaited
<1>5. CASE CloseForm
  <2>1. form'.open = FALSE /\ form'.busy = FALSE
    BY <1>5 DEF CloseForm, ClosedForm
  <2> QED BY <2>1 DEF FormIsKnown, FormIsAwaited
<1>6. CASE FormHears
  <2>1. form'.open = form.open /\ (form'.busy => form.busy /\ Head(formQ) # "Failed") /\ UNCHANGED <<formKnown, mainQ, works>>
    BY <1>0, <1>6 DEF FormHears, FormState
  <2>2. formQ # <<>> /\ formQ' = Tail(formQ)
    BY <1>6 DEF FormHears
  <2>3. ASSUME Head(formQ) # "Failed", NEW i \in 1..Len(formQ), formQ[i] = "Failed" PROVE \E j \in 1..Len(formQ') : formQ'[j] = "Failed"
    BY <1>0, <2>2, <2>3, TailAt
  <2> QED BY <2>1, <2>3 DEF FormIsKnown, FormIsAwaited
<1> QED BY <1>1, <1>2, <1>3, <1>4, <1>5, <1>6 DEF FormMoves

(* The main window unlocks the form, closes it, or has something to come for it. *)
LEMMA HearsKnown ==
  ASSUME AccountsTyped, FormIsKnown, FormIsAwaited, MainHears
  PROVE  FormIsKnown' /\ FormIsAwaited'
<1> DEFINE m == mainQ[1]
<1>0. mainQ \in Seq(AccountMsg) /\ mainQ # <<>> /\ form \in FormState /\ formQ \in Seq({"Working", "Failed"}) /\ (form.busy => form.open)
  BY DEF AccountsTyped, QueueTyped, MessagesTyped, FormTyped, MainHears
<1>1. /\ m = Head(mainQ) /\ m \in AccountMsg
      /\ \/ m.what \in {"Connect", "Remove"} /\ StartWork(m)
         \/ m.what = "Abort" /\ AbortWork
         \/ m.what = "Closed" /\ formKnown' = FALSE /\ UNCHANGED <<cfg, form, formQ, works, handle, status, snags, began>>
         \/ m.what = "Working" /\ Tell("Working") /\ UNCHANGED <<cfg, form, formKnown, works, handle, status, snags, began>>
         \/ m.what = "Failed" /\ Fails
         \/ m.what = "Saved" /\ Saves(m)
         \/ m.what = "Removed" /\ Removes(m)
  BY HearsWhat
<1>2. m.what # "Saved" => mainQ' = Tail(mainQ)
  BY <1>1, HearsQueue
<1>3. /\ Has(mainQ, {"Closed"}) <=> Has(Tail(mainQ), {"Closed"}) \/ m.what \in {"Closed"}
      /\ Has(mainQ, {"Connect", "Failed", "Saved"}) <=> Has(Tail(mainQ), {"Connect", "Failed", "Saved"}) \/ m.what \in {"Connect", "Failed", "Saved"}
      /\ AskedAgain(mainQ) => AskedAgain(Tail(mainQ))
      /\ AskedAgain(mainQ) /\ m.what = "Abort" => Has(Tail(mainQ), {"Connect"})
  BY <1>0, TakenHas
<1> HIDE DEF m
<1>4. CASE m.what = "Saved" /\ Saves(m)
  <2>1. form' = ClosedForm \/ (~formKnown /\ form' = form)
    BY <1>4 DEF Saves
  <2>2. form'.open = FALSE /\ form'.busy = FALSE
    <3>1. CASE form' = ClosedForm
      BY <3>1 DEF ClosedForm
    <3>2. CASE ~formKnown /\ form' = form
      BY <1>0, <3>2 DEF FormIsKnown, FormState
    <3> QED BY <2>1, <3>1, <3>2
  <2> QED BY <2>2 DEF FormIsKnown, FormIsAwaited
<1>5. ASSUME m.what # "Saved", form' = form, formKnown' = formKnown PROVE FormIsKnown'
  BY <1>2, <1>3, <1>5 DEF FormIsKnown
<1>6. CASE m.what \in {"Connect", "Remove"} /\ StartWork(m)
  <2>1. form' = form /\ formKnown' = formKnown /\ formQ' = formQ
    BY <1>6 DEF StartWork
  <2>2. PICK v \in Works : /\ works' = works \union {v} /\ v.no = began + 1 /\ v.what = m.what /\ v.id = m.id /\ v.how = m.how
                           /\ v.conf = cfg /\ v.step = (IF m.what = "Connect" THEN 1 ELSE 2) /\ v.cut = FALSE
    BY <1>1, <1>6, StartsWork
  <2>3. m.what # "Saved" /\ m.what # "Failed"
    BY <1>6
  <2>4. FormIsAwaited'
    <3>1. CASE m.what = "Connect"
      BY <2>2, <3>1 DEF FormIsAwaited
    <3>2. CASE m.what # "Connect"
      BY <1>2, <1>3, <2>1, <2>2, <2>3, <3>2 DEF FormIsAwaited
    <3> QED BY <3>1, <3>2
  <2> QED BY <1>5, <2>1, <2>3, <2>4
<1>7. CASE m.what = "Abort" /\ AbortWork
  <2>1. form' = form /\ formKnown' = formKnown
    BY <1>7 DEF AbortWork
  <2>2. form.busy => Has(mainQ', {"Connect"})
    BY <1>2, <1>3, <1>7 DEF FormIsKnown
  <2>3. FormIsAwaited'
    BY <2>1, <2>2 DEF FormIsAwaited, Has
  <2> QED BY <1>5, <1>7, <2>1, <2>3
<1>8. CASE m.what = "Closed" /\ formKnown' = FALSE /\ UNCHANGED <<cfg, form, formQ, works, handle, status, snags, began>>
  <2>1. ~form.open /\ ~form.busy
    BY <1>0, <1>3, <1>8 DEF FormIsKnown
  <2> QED BY <1>8, <2>1 DEF FormIsKnown, FormIsAwaited
<1>9. ASSUME NEW what \in {"Working", "Failed"}, m.what = what, Tell(what), UNCHANGED <<form, formKnown, works>>
      PROVE  FormIsKnown' /\ FormIsAwaited'
  <2>1. m.what # "Saved" /\ m.what # "Connect"
    BY <1>9
  <2>2. ASSUME form.busy PROVE formQ' = Append(formQ, what)
    BY <1>0, <1>9, <2>2 DEF Tell
  <2>3. ASSUME form.busy, what = "Failed" PROVE \E j \in 1..Len(formQ') : formQ'[j] = "Failed"
    BY <1>0, <2>2, <2>3, AppendAt
  <2>4. ASSUME form.busy, NEW i \in 1..Len(formQ), formQ[i] = "Failed" PROVE \E j \in 1..Len(formQ') : formQ'[j] = "Failed"
    <3>1. i \in 1..Len(formQ') /\ formQ'[i] = formQ[i]
      BY <1>0, <1>9, <2>2, <2>4
    <3> QED BY <2>4, <3>1
  <2>5. FormIsAwaited'
    BY <1>2, <1>3, <1>9, <2>1, <2>3, <2>4 DEF FormIsAwaited
  <2> QED BY <1>5, <1>9, <2>1, <2>5
<1>10. CASE m.what = "Failed" /\ Fails
  BY <1>9, <1>10 DEF Fails
<1>11. CASE m.what = "Removed" /\ Removes(m)
  <2>1. UNCHANGED <<form, formKnown, formQ, works>> /\ m.what \notin {"Connect", "Failed", "Saved"} /\ m.what # "Saved"
    BY <1>11 DEF Removes
  <2>2. FormIsAwaited'
    BY <1>2, <1>3, <2>1 DEF FormIsAwaited
  <2> QED BY <1>5, <2>1, <2>2
<1> QED BY <1>1, <1>4, <1>6, <1>7, <1>8, <1>9, <1>10, <1>11

(* A locked form stays awaited: work that ends says so unless it was aborted, and an aborted form was unlocked or closed. *)
LEMMA KnownStep ==
  ASSUME AccountsTyped, FormIsKnown, FormIsAwaited, AccountsNext
  PROVE  FormIsKnown' /\ FormIsAwaited'
<1>0. mainQ \in Seq(AccountMsg) /\ WorkTyped
  BY DEF AccountsTyped, QueueTyped, MessagesTyped
<1>w. "Remove" \in Whats /\ "Working" \in Whats /\ "Failed" \in Whats /\ "Saved" \in Whats /\ "Removed" \in Whats
      /\ NoAccount \in Methods \union {NoAccount} /\ NoConf \in Conf
  BY ConfTyped DEF Whats
<1>1. CASE UNCHANGED <<form, formKnown, formQ, mainQ, works>>
  BY <1>1 DEF FormIsKnown, FormIsAwaited
<1>2. ASSUME NEW m \in AccountMsg, m.what \notin {"Closed", "Abort"}, mainQ' = Append(mainQ, m), UNCHANGED <<form, formKnown, formQ>>,
             \A w \in works : w.what = "Connect" /\ ~w.cut => (\E v \in works' : v.what = "Connect" /\ ~v.cut) \/ m.what \in {"Connect", "Failed", "Saved"}
      PROVE  FormIsKnown' /\ FormIsAwaited'
  <2>1. /\ Has(mainQ', {"Closed"}) <=> Has(mainQ, {"Closed"})
        /\ Has(mainQ', {"Connect", "Failed", "Saved"}) <=> Has(mainQ, {"Connect", "Failed", "Saved"}) \/ m.what \in {"Connect", "Failed", "Saved"}
        /\ AskedAgain(mainQ) => AskedAgain(mainQ')
    BY <1>0, <1>2, AddedHas
  <2> QED BY <1>2, <2>1 DEF FormIsKnown, FormIsAwaited
<1>3. ASSUME NEW id \in Ids, AskRemove(id), UNCHANGED <<form, formKnown, formQ, works>> PROVE FormIsKnown' /\ FormIsAwaited'
  <2> DEFINE m == Msg("Remove", id, NoAccount, NoConf)
  <2>1. m \in AccountMsg /\ m.what = "Remove"
    BY ONLY <1>w, MsgTyped
  <2>2. mainQ' = Append(mainQ, m)
    BY <1>3 DEF AskRemove
  <2> HIDE DEF m
  <2> QED BY <1>2, <1>3, <2>1, <2>2
<1>4. CASE ProcessEnds
  <2>1. form'.open = FALSE /\ form'.busy = FALSE
    BY <1>4 DEF ProcessEnds, ClosedForm
  <2> QED BY <2>1 DEF FormIsKnown, FormIsAwaited
<1>5. ASSUME NEW w \in works, NEW what \in Whats, NEW conf \in Conf, Ends(w, what, conf), UNCHANGED <<form, formKnown, formQ>>,
             what \in {"Failed", "Saved"} \/ (what = "Removed" /\ w.what = "Remove")
      PROVE  FormIsKnown' /\ FormIsAwaited'
  <2>1. /\ works' = works \ {w}
        /\ \/ w.cut /\ mainQ' = mainQ
           \/ /\ ~w.cut
              /\ \E m \in AccountMsg : m.what = what /\ m.id = w.id /\ m.how = w.how /\ m.conf = conf /\ mainQ' = Append(mainQ, m)
    BY <1>5, EndsQueue
  <2>2. CASE w.cut /\ mainQ' = mainQ
    <3>1. \A v \in works : v.what = "Connect" /\ ~v.cut => v \in works'
      BY <2>1, <2>2
    <3> QED BY <1>5, <2>2, <3>1 DEF FormIsKnown, FormIsAwaited
  <2>3. ASSUME NEW m \in AccountMsg, m.what = what, mainQ' = Append(mainQ, m) PROVE FormIsKnown' /\ FormIsAwaited'
    <3>1. \A v \in works : v.what = "Connect" /\ ~v.cut => (\E x \in works' : x.what = "Connect" /\ ~x.cut) \/ m.what \in {"Connect", "Failed", "Saved"}
      BY <1>5, <2>1, <2>3
    <3> QED BY <1>2, <1>5, <2>3, <3>1
  <2> QED BY <2>1, <2>2, <2>3
<1>s. ASSUME NEW w \in works, Steps(w), w.step < 6 PROVE \A x \in works : x.what = "Connect" /\ ~x.cut => \E v \in works' : v.what = "Connect" /\ ~v.cut
  <2>1. PICK v \in Works : /\ works' = (works \ {w}) \union {v} /\ v.step = w.step + 1 /\ v.no = w.no /\ v.what = w.what
                           /\ v.id = w.id /\ v.how = w.how /\ v.conf = w.conf /\ v.cut = w.cut
    BY <1>0, <1>s, StepsTo
  <2> QED BY <2>1
<1>8. ASSUME NEW w \in works, Steps(w), w.step < 6, UNCHANGED <<form, formKnown, formQ, mainQ>> PROVE FormIsKnown' /\ FormIsAwaited'
  BY <1>s, <1>8 DEF FormIsKnown, FormIsAwaited
<1>6. ASSUME NEW w \in works, WorkSteps(w), UNCHANGED <<form, formKnown, formQ>> PROVE FormIsKnown' /\ FormIsAwaited'
  <2>0. w.id \in Ids /\ w.how \in Methods \union {NoAccount} /\ w.conf \in Conf
    BY <1>0 DEF WorkTyped, Works
  <2>1. Upsert(w.conf, w.id, w.how) \in Conf /\ Without(w.conf, w.id) \in Conf
    BY <2>0, ConfTyped
  <2>2. ASSUME Steps(w), w.step < 6 PROVE \A x \in works : x.what = "Connect" /\ ~x.cut => \E v \in works' : v.what = "Connect" /\ ~v.cut
    BY <1>s, <2>2
  <2>3. CASE Steps(w) /\ w.step < 6 /\ mainQ' = mainQ
    BY <1>8, <1>6, <2>3
  <2>4. CASE Steps(w) /\ w.step = 2 /\ mainQ' = Append(mainQ, Msg("Working", w.id, w.how, NoConf))
    <3> DEFINE m == Msg("Working", w.id, w.how, NoConf)
    <3>1. m \in AccountMsg /\ m.what = "Working"
      BY ONLY <1>w, <2>0, MsgTyped
    <3>2. mainQ' = Append(mainQ, m)
      BY <2>4
    <3> HIDE DEF m
    <3> QED BY <1>2, <1>6, <2>2, <2>4, <3>1, <3>2
  <2>5. CASE Ends(w, "Saved", Upsert(w.conf, w.id, w.how))
    BY <1>5, <1>6, <1>w, <2>1, <2>5
  <2>6. CASE w.what = "Remove" /\ Ends(w, "Removed", Without(w.conf, w.id))
    BY <1>5, <1>6, <1>w, <2>1, <2>6
  <2>7. CASE KeyringStep(w)
    <3>1. Steps(w) /\ w.step < 6 /\ mainQ' = mainQ
      BY <2>7 DEF KeyringStep, CallsKeyring
    <3> QED BY <2>3, <3>1
  <2>8. CASE Steps(w) /\ w.step \in {1, 2} /\ mainQ' = mainQ
    BY <2>3, <2>8
  <2> QED BY <1>6, <2>4, <2>5, <2>6, <2>7, <2>8, WorkDoes
<1>7. ASSUME NEW w \in works, WorkFails(w), UNCHANGED <<form, formKnown, formQ>> PROVE FormIsKnown' /\ FormIsAwaited'
  BY <1>5, <1>7, <1>w DEF WorkFails
<1>9. ASSUME NEW w \in works, SecretStays(w), UNCHANGED <<form, formKnown, formQ, mainQ>> PROVE FormIsKnown' /\ FormIsAwaited'
  <2>1. Steps(w) /\ w.step < 6
    BY <1>9 DEF SecretStays, CallsKeyring
  <2> QED BY <1>8, <1>9, <2>1
<1> QED BY <1>1, <1>3, <1>4, <1>6, <1>7, <1>9, FormMovesKnown, HearsKnown, StepIs

(* Where the reports are after the oldest message is taken, or one is added. *)
LEMMA TakenReports ==
  ASSUME NEW q \in Seq(AccountMsg), q # <<>>
  PROVE  /\ \A k \in Reports(Tail(q)) : k \in Nat /\ 1 <= k /\ k + 1 \in Reports(q) /\ Tail(q)[k] = q[k + 1]
         /\ \A i \in Reports(q) : i \in Nat /\ 1 <= i /\ (i # 1 => i - 1 \in Reports(Tail(q)) /\ Tail(q)[i - 1] = q[i])
         /\ 1 \in Reports(q) <=> q[1].what \in {"Saved", "Removed"}
<1> DEFINE r == Tail(q)
<1>1. /\ Len(q) \in Nat /\ 1 \in 1..Len(q) /\ Len(r) = Len(q) - 1
      /\ \A i \in 1..Len(r) : i + 1 \in 1..Len(q) /\ r[i] = q[i + 1]
      /\ \A i \in 1..Len(q) : i # 1 => i - 1 \in 1..Len(r) /\ r[i - 1] = q[i]
  BY TailAt
<1> HIDE DEF r
<1>2. \A k \in Reports(r) : k \in Nat /\ 1 <= k /\ k + 1 \in Reports(q) /\ r[k] = q[k + 1]
  BY <1>1 DEF Reports
<1>3. \A i \in Reports(q) : i \in Nat /\ 1 <= i /\ (i # 1 => i - 1 \in Reports(r) /\ r[i - 1] = q[i])
  BY <1>1 DEF Reports
<1>4. 1 \in Reports(q) <=> q[1].what \in {"Saved", "Removed"}
  BY <1>1 DEF Reports
<1> QED BY <1>2, <1>3, <1>4 DEF r

(* Where the reports are when a message is added. *)
LEMMA AddedReports ==
  ASSUME NEW q \in Seq(AccountMsg), NEW m \in AccountMsg
  PROVE  /\ \A k \in Reports(q) : k \in Nat /\ k < Len(q) + 1 /\ k \in Reports(Append(q, m)) /\ Append(q, m)[k] = q[k]
         /\ \A i \in Reports(Append(q, m)) : i \in Reports(q) \/ i = Len(q) + 1
         /\ Append(q, m)[Len(q) + 1] = m /\ Len(q) \in Nat
         /\ Len(q) + 1 \in Reports(Append(q, m)) <=> m.what \in {"Saved", "Removed"}
<1> DEFINE r == Append(q, m)
<1>1. /\ Len(q) \in Nat /\ Len(r) = Len(q) + 1 /\ r[Len(q) + 1] = m /\ \A i \in 1..Len(q) : r[i] = q[i]
      /\ \A i \in 1..Len(r) : i \in 1..Len(q) \/ i = Len(q) + 1
  BY AppendAt
<1> HIDE DEF r
<1>2. \A k \in Reports(q) : k \in Nat /\ k < Len(q) + 1 /\ k \in Reports(r) /\ r[k] = q[k]
  BY <1>1 DEF Reports
<1>3. \A i \in Reports(r) : i \in Reports(q) \/ i = Len(q) + 1
  BY <1>1 DEF Reports
<1>4. Len(q) + 1 \in Reports(r) <=> m.what \in {"Saved", "Removed"}
  BY <1>1 DEF Reports
<1> QED BY <1>1, <1>2, <1>3, <1>4 DEF r

(* A message that is no report changes nothing of the chain. *)
LEMMA AddedOther ==
  ASSUME NEW q \in Seq(AccountMsg), NEW m \in AccountMsg, m.what \notin {"Saved", "Removed"}, NEW c
  PROVE  /\ Chained(Append(q, m), c) <=> Chained(q, c)
         /\ \A conf : Latest(Append(q, m), c, conf) <=> Latest(q, c, conf)
         /\ Reports(Append(q, m)) = Reports(q)
<1> DEFINE r == Append(q, m)
<1>1. Reports(r) = Reports(q) /\ \A i \in Reports(q) : r[i] = q[i]
  <2>1. /\ \A k \in Reports(q) : k \in Nat /\ k < Len(q) + 1 /\ k \in Reports(Append(q, m)) /\ Append(q, m)[k] = q[k]
        /\ \A i \in Reports(Append(q, m)) : i \in Reports(q) \/ i = Len(q) + 1
        /\ Append(q, m)[Len(q) + 1] = m /\ Len(q) \in Nat
        /\ Len(q) + 1 \in Reports(Append(q, m)) <=> m.what \in {"Saved", "Removed"}
    BY AddedReports
  <2>2. Reports(r) \subseteq Reports(q)
    BY ONLY <2>1, m.what \notin {"Saved", "Removed"}
  <2> QED BY <2>1, <2>2
<1> HIDE DEF r
<1>2. Chained(r, c) <=> Chained(q, c)
  BY <1>1 DEF Chained
<1>3. \A conf : Latest(r, c, conf) <=> Latest(q, c, conf)
  BY <1>1 DEF Latest
<1> QED BY <1>1, <1>2, <1>3 DEF r

(* Taking a message that is no report changes nothing of the chain either. *)
LEMMA TakenOther ==
  ASSUME NEW q \in Seq(AccountMsg), q # <<>>, q[1].what \notin {"Saved", "Removed"}, NEW c
  PROVE  /\ Chained(Tail(q), c) => Chained(q, c)
         /\ \A conf : Latest(q, c, conf) => Latest(Tail(q), c, conf)
         /\ Reports(q) = {} => Reports(Tail(q)) = {}
<1> DEFINE r == Tail(q)
<1>1. /\ \A k \in Reports(r) : k \in Nat /\ 1 <= k /\ k + 1 \in Reports(q) /\ r[k] = q[k + 1]
      /\ \A i \in Reports(q) : i \in Nat /\ 1 <= i /\ i - 1 \in Reports(r) /\ r[i - 1] = q[i]
  BY TakenReports
<1> HIDE DEF r
<1>2. ASSUME Chained(r, c) PROVE Chained(q, c)
  <2>1. ASSUME NEW i \in Reports(q), \A k \in Reports(q) : i <= k PROVE q[i].conf = Result(q[i], c)
    <3>1. i - 1 \in Reports(r) /\ r[i - 1] = q[i]
      BY <1>1
    <3>2. ASSUME NEW k \in Reports(r) PROVE i - 1 <= k
      <4>1. k + 1 \in Reports(q) /\ k \in Nat /\ i \in Nat
        BY <1>1
      <4>2. i <= k + 1
        BY <2>1, <4>1
      <4> QED BY <4>1, <4>2
    <3>3. r[i - 1].conf = Result(r[i - 1], c)
      BY <1>2, <3>1, <3>2 DEF Chained
    <3> QED BY <3>1, <3>3
  <2>2. ASSUME NEW i \in Reports(q), NEW j \in Reports(q), i < j, \A k \in Reports(q) : k <= i \/ j <= k
        PROVE  q[j].conf = Result(q[j], q[i].conf)
    <3>1. i - 1 \in Reports(r) /\ r[i - 1] = q[i] /\ j - 1 \in Reports(r) /\ r[j - 1] = q[j] /\ i \in Nat /\ j \in Nat
      BY <1>1
    <3>2. ASSUME NEW k \in Reports(r) PROVE k <= i - 1 \/ j - 1 <= k
      <4>1. k + 1 \in Reports(q) /\ k \in Nat
        BY <1>1
      <4>2. k + 1 <= i \/ j <= k + 1
        BY <2>2, <4>1
      <4> QED BY <3>1, <4>1, <4>2
    <3>3. i - 1 < j - 1
      BY <2>2, <3>1
    <3>4. r[j - 1].conf = Result(r[j - 1], r[i - 1].conf)
      BY <1>2, <3>1, <3>2, <3>3 DEF Chained
    <3> QED BY <3>1, <3>4
  <2> QED BY <2>1, <2>2 DEF Chained
<1>3. ASSUME NEW conf, Latest(q, c, conf) PROVE Latest(r, c, conf)
  <2>1. CASE Reports(q) = {} /\ conf = c
    BY <1>1, <2>1 DEF Latest
  <2>2. ASSUME NEW i \in Reports(q), \A k \in Reports(q) : k <= i, conf = q[i].conf PROVE Latest(r, c, conf)
    <3>1. i - 1 \in Reports(r) /\ r[i - 1] = q[i] /\ i \in Nat
      BY <1>1
    <3>2. \A k \in Reports(r) : k <= i - 1
      BY <1>1, <2>2, <3>1
    <3> QED BY <2>2, <3>1, <3>2 DEF Latest
  <2> QED BY <1>3, <2>1, <2>2 DEF Latest
<1>4. Reports(q) = {} => Reports(r) = {}
  BY <1>1
<1> QED BY <1>2, <1>3, <1>4 DEF r

(* Hearing a report of a change to the present configuration takes one link off the chain. *)
LEMMA TakenReport ==
  ASSUME NEW q \in Seq(AccountMsg), q # <<>>, q[1].what \in {"Saved", "Removed"}, NEW c, q[1].conf = Result(q[1], c)
  PROVE  /\ Chained(Tail(q), q[1].conf) => Chained(q, c)
         /\ \A conf : Latest(q, c, conf) => Latest(Tail(q), q[1].conf, conf)
<1> DEFINE r == Tail(q)
<1>1. /\ \A k \in Reports(r) : k \in Nat /\ 1 <= k /\ k + 1 \in Reports(q) /\ r[k] = q[k + 1]
      /\ \A i \in Reports(q) : i \in Nat /\ 1 <= i /\ (i # 1 => i - 1 \in Reports(r) /\ r[i - 1] = q[i])
      /\ 1 \in Reports(q)
  BY TakenReports
<1> HIDE DEF r
<1>2. ASSUME Chained(r, q[1].conf) PROVE Chained(q, c)
  <2>1. ASSUME NEW i \in Reports(q), \A k \in Reports(q) : i <= k PROVE q[i].conf = Result(q[i], c)
    <3>1. i = 1
      BY <1>1, <2>1
    <3> QED BY <3>1
  <2>2. ASSUME NEW i \in Reports(q), NEW j \in Reports(q), i < j, \A k \in Reports(q) : k <= i \/ j <= k
        PROVE  q[j].conf = Result(q[j], q[i].conf)
    <3>0. i \in Nat /\ 1 <= i /\ j \in Nat
      BY <1>1
    <3>1. j - 1 \in Reports(r) /\ r[j - 1] = q[j]
      <4>1. j # 1
        BY <2>2, <3>0
      <4> QED BY <1>1, <4>1
    <3>2. CASE i = 1
      <4>1. ASSUME NEW k \in Reports(r) PROVE j - 1 <= k
        <5>1. k + 1 \in Reports(q) /\ k \in Nat /\ 1 <= k
          BY <1>1
        <5>2. k + 1 <= i \/ j <= k + 1
          BY <2>2, <5>1
        <5> QED BY <3>0, <3>2, <5>1, <5>2
      <4>2. r[j - 1].conf = Result(r[j - 1], q[1].conf)
        BY <1>2, <3>1, <4>1 DEF Chained
      <4> QED BY <3>1, <3>2, <4>2
    <3>3. CASE i # 1
      <4>1. i - 1 \in Reports(r) /\ r[i - 1] = q[i]
        BY <1>1, <3>3
      <4>2. ASSUME NEW k \in Reports(r) PROVE k <= i - 1 \/ j - 1 <= k
        <5>1. k + 1 \in Reports(q) /\ k \in Nat
          BY <1>1
        <5>2. k + 1 <= i \/ j <= k + 1
          BY <2>2, <5>1
        <5> QED BY <3>0, <5>1, <5>2
      <4>3. i - 1 < j - 1
        BY <2>2, <3>0
      <4>4. r[j - 1].conf = Result(r[j - 1], r[i - 1].conf)
        BY <1>2, <3>1, <4>1, <4>2, <4>3 DEF Chained
      <4> QED BY <3>1, <4>1, <4>4
    <3> QED BY <3>2, <3>3
  <2> QED BY <2>1, <2>2 DEF Chained
<1>3. ASSUME NEW conf, Latest(q, c, conf) PROVE Latest(r, q[1].conf, conf)
  <2>1. PICK i \in Reports(q) : (\A k \in Reports(q) : k <= i) /\ conf = q[i].conf
    BY <1>1, <1>3 DEF Latest
  <2>2. CASE i = 1
    <3>1. ASSUME NEW k \in Reports(r) PROVE FALSE
      <4>1. k + 1 \in Reports(q) /\ k \in Nat /\ 1 <= k
        BY <1>1
      <4>2. k + 1 <= 1
        BY <2>1, <2>2, <4>1
      <4> QED BY <4>1, <4>2
    <3> QED BY <2>1, <2>2, <3>1 DEF Latest
  <2>3. CASE i # 1
    <3>1. i - 1 \in Reports(r) /\ r[i - 1] = q[i] /\ i \in Nat
      BY <1>1, <2>3
    <3>2. \A k \in Reports(r) : k <= i - 1
      BY <1>1, <2>1, <3>1
    <3> QED BY <2>1, <3>1, <3>2 DEF Latest
  <2> QED BY <2>2, <2>3
<1> QED BY <1>2, <1>3 DEF r

(* A report added to a chain is of a change to what the chain leaves. *)
LEMMA AddedReport ==
  ASSUME NEW q \in Seq(AccountMsg), NEW m \in AccountMsg, m.what \in {"Saved", "Removed"}, NEW c, Chained(Append(q, m), c)
  PROVE  /\ Chained(q, c)
         /\ Latest(Append(q, m), c, m.conf)
         /\ \A conf : Latest(q, c, conf) => m.conf = Result(m, conf)
<1> DEFINE r == Append(q, m)
           n == Len(q) + 1
<1>1. /\ \A k \in Reports(q) : k \in Nat /\ k < n /\ k \in Reports(r) /\ r[k] = q[k]
      /\ \A i \in Reports(r) : i \in Reports(q) \/ i = n
      /\ r[n] = m /\ n \in Reports(r) /\ n \in Nat
  <2>1. /\ \A k \in Reports(q) : k \in Nat /\ k < Len(q) + 1 /\ k \in Reports(Append(q, m)) /\ Append(q, m)[k] = q[k]
        /\ \A i \in Reports(Append(q, m)) : i \in Reports(q) \/ i = Len(q) + 1
        /\ Append(q, m)[Len(q) + 1] = m /\ Len(q) \in Nat
        /\ Len(q) + 1 \in Reports(Append(q, m)) <=> m.what \in {"Saved", "Removed"}
    BY AddedReports
  <2>2. n \in Nat
    BY <2>1
  <2> QED BY ONLY <2>1, <2>2, m.what \in {"Saved", "Removed"}
<1>0. Chained(r, c)
  OBVIOUS
<1> HIDE DEF r, n
<1>2. Chained(q, c)
  <2>1. ASSUME NEW i \in Reports(q), \A k \in Reports(q) : i <= k PROVE q[i].conf = Result(q[i], c)
    <3>1. i \in Reports(r) /\ r[i] = q[i] /\ i \in Nat /\ i < n
      BY <1>1
    <3>2. ASSUME NEW k \in Reports(r) PROVE i <= k
      BY <1>1, <2>1, <3>1
    <3> QED BY <1>0, <3>1, <3>2 DEF Chained
  <2>2. ASSUME NEW i \in Reports(q), NEW j \in Reports(q), i < j, \A k \in Reports(q) : k <= i \/ j <= k
        PROVE  q[j].conf = Result(q[j], q[i].conf)
    <3>1. i \in Reports(r) /\ r[i] = q[i] /\ j \in Reports(r) /\ r[j] = q[j]
      BY <1>1
    <3>2. \A k \in Reports(r) : k <= i \/ j <= k
      BY <1>1, <2>2
    <3>3. r[j].conf = Result(r[j], r[i].conf)
      BY <1>0, <2>2, <3>1, <3>2 DEF Chained
    <3> QED BY <3>1, <3>3
  <2> QED BY <2>1, <2>2 DEF Chained
<1>3. Latest(r, c, m.conf)
  <2>1. \A k \in Reports(r) : k <= n
    BY <1>1
  <2> QED BY <1>1, <2>1 DEF Latest
<1>4. ASSUME NEW conf, Latest(q, c, conf) PROVE m.conf = Result(m, conf)
  <2>1. CASE Reports(q) = {} /\ conf = c
    <3>1. \A k \in Reports(r) : n <= k
      BY <1>1, <2>1
    <3>2. r[n].conf = Result(r[n], c)
      BY <1>0, <1>1, <3>1 DEF Chained
    <3> QED BY <1>1, <2>1, <3>2
  <2>2. ASSUME NEW i \in Reports(q), \A k \in Reports(q) : k <= i, conf = q[i].conf PROVE m.conf = Result(m, conf)
    <3>1. i \in Reports(r) /\ r[i] = q[i] /\ i < n
      BY <1>1
    <3>2. \A k \in Reports(r) : k <= i \/ n <= k
      BY <1>1, <2>2
    <3>3. r[n].conf = Result(r[n], r[i].conf)
      BY <1>0, <1>1, <3>1, <3>2 DEF Chained
    <3> QED BY <1>1, <2>2, <3>1, <3>3
  <2> QED BY <1>4, <2>1, <2>2 DEF Latest
<1> QED BY <1>2, <1>3, <1>4 DEF r

(* The same reports are on their way in both queues. *)
SameChain(q, r) ==
  /\ \A c : Chained(r, c) => Chained(q, c)
  /\ \A c, conf : Latest(q, c, conf) => Latest(r, c, conf)
  /\ Reports(q) = {} => Reports(r) = {}

(* Adding a message that is no report. *)
LEMMA AddedSame ==
  ASSUME NEW q \in Seq(AccountMsg), NEW m \in AccountMsg, m.what \notin {"Saved", "Removed"}
  PROVE  SameChain(q, Append(q, m))
BY AddedOther DEF SameChain

(* Taking a message that is no report. *)
LEMMA TakenSame ==
  ASSUME NEW q \in Seq(AccountMsg), q # <<>>, q[1].what \notin {"Saved", "Removed"}
  PROVE  SameChain(q, Tail(q))
BY TakenOther DEF SameChain

(* Having the same reports carries over. *)
LEMMA SameSame == \A q, r, s : SameChain(q, q) /\ (SameChain(q, r) /\ SameChain(r, s) => SameChain(q, s))
BY DEF SameChain

(* The form and the user say nothing of what was saved. *)
LEMMA FormSaysNothing ==
  ASSUME AccountsTyped, FormMoves
  PROVE  SameChain(mainQ, mainQ')
<1>0. mainQ \in Seq(AccountMsg) /\ (form.busy => form.open) /\ (form.open => form.id \in Ids /\ form.how \in Methods)
  BY DEF AccountsTyped, QueueTyped, MessagesTyped, FormTyped
<1>w. "Connect" \in Whats /\ "Abort" \in Whats /\ NoAccount \in Methods \union {NoAccount} /\ NoConf \in Conf
  BY ConfTyped DEF Whats
<1>1. CASE PressConnect
  <2> DEFINE m == Msg("Connect", form.id, form.how, NoConf)
  <2>1. m \in AccountMsg /\ m.what = "Connect"
    <3>1. form.id \in Ids /\ form.how \in Methods
      BY <1>0, <1>1 DEF PressConnect
    <3> QED BY ONLY <1>w, <3>1, MsgTyped
  <2>2. mainQ' = Append(mainQ, m)
    BY <1>1 DEF PressConnect
  <2> HIDE DEF m
  <2> QED BY <1>0, <2>1, <2>2, AddedSame
<1>2. CASE CancelSignIn
  <2> DEFINE m == Msg("Abort", form.id, NoAccount, NoConf)
  <2>1. m \in AccountMsg /\ m.what = "Abort"
    <3>1. form.id \in Ids
      BY <1>0, <1>2 DEF CancelSignIn
    <3> QED BY ONLY <1>w, <3>1, MsgTyped
  <2>2. mainQ' = Append(mainQ, m)
    BY <1>2 DEF CancelSignIn
  <2> HIDE DEF m
  <2> QED BY <1>0, <2>1, <2>2, AddedSame
<1>3. CASE CloseForm
  <2>1. PICK c \in AccountMsg :
           /\ c.what = "Closed"
           /\ \/ mainQ' = Append(mainQ, c)
              \/ \E a \in AccountMsg : a.what = "Abort" /\ mainQ' = Append(Append(mainQ, a), c)
    BY <1>3, CloseQueue
  <2>2. CASE mainQ' = Append(mainQ, c)
    BY <1>0, <2>1, <2>2, AddedSame
  <2>3. ASSUME NEW a \in AccountMsg, a.what = "Abort", mainQ' = Append(Append(mainQ, a), c) PROVE SameChain(mainQ, mainQ')
    <3>1. Append(mainQ, a) \in Seq(AccountMsg) /\ SameChain(mainQ, Append(mainQ, a))
      BY <1>0, <2>3, AddedSame
    <3>2. SameChain(Append(mainQ, a), mainQ')
      BY <2>1, <2>3, <3>1, AddedSame
    <3> QED BY <3>1, <3>2, SameSame
  <2> QED BY <2>1, <2>2, <2>3
<1>4. CASE mainQ' = mainQ
  BY <1>4, SameSame
<1> QED BY <1>1, <1>2, <1>3, <1>4 DEF FormMoves, OpenForm, ChooseMethod, FormHears

(* Nor does asking for a removal. *)
LEMMA RemoveSaysNothing ==
  ASSUME AccountsTyped, NEW id \in Ids, AskRemove(id)
  PROVE  SameChain(mainQ, mainQ')
<1> DEFINE m == Msg("Remove", id, NoAccount, NoConf)
<1>1. "Remove" \in Whats /\ NoAccount \in Methods \union {NoAccount} /\ NoConf \in Conf
  BY ConfTyped DEF Whats
<1>2. m \in AccountMsg /\ m.what = "Remove"
  BY ONLY <1>1, MsgTyped
<1>3. mainQ' = Append(mainQ, m) /\ mainQ \in Seq(AccountMsg)
  BY DEF AskRemove, AccountsTyped, QueueTyped, MessagesTyped
<1> HIDE DEF m
<1> QED BY <1>2, <1>3, AddedSame

(* What the main window hears is taken; of a save, the closing of the form is added. *)
LEMMA HearsChain ==
  ASSUME AccountsTyped, MainHears
  PROVE  /\ mainQ[1].what \notin {"Saved", "Removed"} => SameChain(mainQ, mainQ')
         /\ SameChain(Tail(mainQ), mainQ')
<1>1. /\ mainQ # <<>> /\ mainQ \in Seq(AccountMsg) /\ Tail(mainQ) \in Seq(AccountMsg)
      /\ \/ mainQ' = Tail(mainQ)
         \/ \E m \in AccountMsg : m.what = "Closed" /\ mainQ' = Append(Tail(mainQ), m)
  <2>1. mainQ # <<>> /\ mainQ \in Seq(AccountMsg)
    BY DEF AccountsTyped, QueueTyped, MessagesTyped, MainHears
  <2>2. Tail(mainQ) \in Seq(AccountMsg)
    BY <2>1
  <2> QED BY <2>1, <2>2, HearsQueue
<1>2. SameChain(Tail(mainQ), mainQ')
  <2>1. CASE mainQ' = Tail(mainQ)
    BY <2>1, SameSame
  <2>2. ASSUME NEW m \in AccountMsg, m.what = "Closed", mainQ' = Append(Tail(mainQ), m) PROVE SameChain(Tail(mainQ), mainQ')
    BY <1>1, <2>2, AddedSame
  <2> QED BY <1>1, <2>1, <2>2
<1> QED BY <1>1, <1>2, TakenSame, SameSame

(* An Abort that interferes with nothing stops work that has written nothing. *)
LEMMA AbortsNothing ==
  ASSUME AccountsTyped, AbortWork, Undisturbed'
  PROVE  works' = {w \in works : w.no # handle} /\ \A w \in works : w.no = handle => w.what = "Connect" /\ w.step <= 2
<1>0. WorkTyped
  BY DEF AccountsTyped
<1>1. \A w \in works : w.step \in 1..6 /\ w.what \in {"Connect", "Remove"}
  BY <1>0 DEF WorkTyped, Works
<1>2. ~ \E w \in works : w.no = handle /\ w.step > 2
  BY DEF AbortWork, Undisturbed
<1>3. \A w \in works : w.no = handle => w.what = "Connect" /\ w.step <= 2
  BY <1>0, <1>1, <1>2 DEF WorkTyped
<1>4. \A v \in works' : v \in works /\ v.no # handle
  BY <1>0, <1>2, AbortsTo
<1>5. \A w \in works : w.no # handle => w \in works'
  BY <1>0, AbortsTo
<1> QED BY <1>3, <1>4, <1>5

(* Who works alone: while work runs nothing is queued to be saved. *)
LEMMA Alone ==
  ASSUME OneAtATime, Undisturbed, NEW w \in works
  PROVE  works = {w} /\ ~w.cut /\ saves = <<>>
<1>1. \A v \in works : v = w
  BY DEF OneAtATime
<1> QED BY <1>1 DEF OneAtATime

(* Until a snag is noted, work runs alone and preferences are queued with none running. *)
LEMMA OneStep ==
  ASSUME AccountsTyped, OneAtATime, AccountsNext
  PROVE  OneAtATime'
<1>0. mainQ \in Seq(AccountMsg) /\ WorkTyped /\ saves \in Seq(Conf)
  BY DEF AccountsTyped, QueueTyped, MessagesTyped, ConfsTyped
<1>1. ASSUME Undisturbed, UNCHANGED <<saves, works, cfg>>, SameChain(mainQ, mainQ') PROVE OneAtATime'
  BY <1>1 DEF OneAtATime, SameChain
<1>2. ASSUME Undisturbed, saves' = <<>>, works' \subseteq works PROVE OneAtATime'
  BY <1>2 DEF OneAtATime
<1>3. CASE FormMoves /\ UNCHANGED <<cfg, works, saves, snags>>
  BY <1>1, <1>3, FormSaysNothing DEF OneAtATime, Undisturbed
<1>4. ASSUME NEW id \in Ids, AskRemove(id), UNCHANGED <<cfg, works, saves, snags>> PROVE OneAtATime'
  BY <1>1, <1>4, RemoveSaysNothing DEF OneAtATime, Undisturbed
<1>5. CASE MainHears /\ UNCHANGED saves
  <2> DEFINE m == mainQ[1]
  <2>1. /\ m \in AccountMsg /\ 1 \in 1..Len(mainQ)
        /\ \/ m.what \in {"Connect", "Remove"} /\ StartWork(m)
           \/ m.what = "Abort" /\ AbortWork
           \/ m.what = "Closed" /\ formKnown' = FALSE /\ UNCHANGED <<cfg, form, formQ, works, handle, status, snags, began>>
           \/ m.what = "Working" /\ Tell("Working") /\ UNCHANGED <<cfg, form, formKnown, works, handle, status, snags, began>>
           \/ m.what = "Failed" /\ Fails
           \/ m.what = "Saved" /\ Saves(m)
           \/ m.what = "Removed" /\ Removes(m)
    BY <1>5, HearsWhat
  <2>2. m.what \notin {"Saved", "Removed"} => SameChain(mainQ, mainQ')
    BY <1>5, HearsChain
  <2>r. m.what \in {"Saved", "Removed"} => Reports(mainQ) # {}
    BY <2>1 DEF Reports
  <2> HIDE DEF m
  <2>3. ASSUME Undisturbed, m.what \in {"Saved", "Removed"}, works' = works PROVE OneAtATime'
    <3>1. saves = <<>>
      BY <2>3, <2>r DEF OneAtATime
    <3> QED BY <1>2, <1>5, <2>3, <3>1
  <2>4. CASE m.what \in {"Connect", "Remove"} /\ StartWork(m)
    <3>1. snags' = snags \union Overlap
      BY <2>4 DEF StartWork
    <3>2. PICK v \in Works : /\ works' = works \union {v} /\ v.no = began + 1 /\ v.what = m.what /\ v.id = m.id /\ v.how = m.how
                             /\ v.conf = cfg /\ v.step = (IF m.what = "Connect" THEN 1 ELSE 2) /\ v.cut = FALSE
      BY <2>1, <2>4, StartsWork
    <3>3. ASSUME Undisturbed' PROVE works = {} /\ saves = <<>>
      BY <3>1, <3>3 DEF Overlap, Undisturbed
    <3> QED BY <1>5, <3>2, <3>3 DEF OneAtATime
  <2>5. CASE m.what = "Abort" /\ AbortWork
    <3>1. cfg' = cfg /\ (Undisturbed' => Undisturbed)
      BY <2>5 DEF AbortWork, Undisturbed
    <3>2. Undisturbed' => works' \subseteq works
      BY <2>5, AbortsNothing
    <3>3. SameChain(mainQ, mainQ')
      BY <2>2, <2>5
    <3> QED BY <1>5, <3>1, <3>2, <3>3 DEF OneAtATime, SameChain
  <2>6. CASE UNCHANGED <<cfg, works, snags>> /\ m.what \notin {"Saved", "Removed"}
    BY <1>1, <1>5, <2>2, <2>6 DEF OneAtATime, Undisturbed
  <2>7. CASE m.what = "Saved" /\ Saves(m)
    <3>1. works' = works /\ (Undisturbed' => Undisturbed)
      BY <2>7 DEF Saves, Undisturbed
    <3> QED BY <2>3, <2>7, <3>1 DEF OneAtATime
  <2>8. CASE m.what = "Removed" /\ Removes(m)
    <3>1. works' = works /\ (Undisturbed' => Undisturbed)
      BY <2>8 DEF Removes, Undisturbed
    <3> QED BY <2>3, <2>8, <3>1 DEF OneAtATime
  <2> QED BY <2>1, <2>4, <2>5, <2>6, <2>7, <2>8 DEF Fails
<1>6. CASE ChangePref /\ UNCHANGED <<mainQ, works>>
  <2>1. saves' = Append(saves, cfg') /\ snags' = snags \union (IF works # {} \/ Has(mainQ, {"Saved", "Removed"}) THEN {"disturbed"} ELSE {})
    BY <1>6 DEF ChangePref, Has
  <2>2. cfg' \in Conf
    BY ConfsStep, <1>6 DEF AccountsNext, ConfsTyped
  <2>3. saves'[Len(saves')] = cfg'
    BY <1>0, <2>1, <2>2
  <2>4. ASSUME Undisturbed' PROVE works' = {} /\ Reports(mainQ') = {}
    <3>1. works = {} /\ ~Has(mainQ, {"Saved", "Removed"})
      BY <2>1, <2>4 DEF Undisturbed
    <3> QED BY <1>6, <3>1 DEF Has, Reports
  <2> QED BY <2>3, <2>4 DEF OneAtATime
<1>7. CASE SaverWrites /\ UNCHANGED works
  <2>1. saves' = <<>> /\ (Undisturbed' => Undisturbed)
    BY <1>7 DEF SaverWrites, Undisturbed
  <2> QED BY <1>2, <1>7, <2>1 DEF OneAtATime
<1>8. CASE ProcessEnds
  <2>1. ~Undisturbed'
    BY <1>8 DEF ProcessEnds, Misery, Undisturbed
  <2> QED BY <2>1 DEF OneAtATime
<1>s. ASSUME NEW w \in works, Steps(w), w.step < 6, UNCHANGED saves, Undisturbed' => Undisturbed PROVE OneAtATime'
  <2>1. SUFFICES ASSUME Undisturbed PROVE OneAtATime'
    BY <1>s DEF OneAtATime
  <2>2. works = {w} /\ ~w.cut /\ saves = <<>>
    BY <1>s, <2>1, Alone
  <2>3. PICK v \in Works : /\ works' = (works \ {w}) \union {v} /\ v.step = w.step + 1 /\ v.no = w.no /\ v.what = w.what
                           /\ v.id = w.id /\ v.how = w.how /\ v.conf = w.conf /\ v.cut = w.cut
    BY <1>0, <1>s, StepsTo
  <2> QED BY <1>s, <2>2, <2>3 DEF OneAtATime
<1>e. ASSUME NEW w \in works, works' \subseteq works, UNCHANGED saves, Undisturbed' => Undisturbed PROVE OneAtATime'
  <2>1. SUFFICES ASSUME Undisturbed PROVE OneAtATime'
    BY <1>e DEF OneAtATime
  <2>2. saves = <<>>
    BY <1>e, <2>1, Alone
  <2> QED BY <1>2, <1>e, <2>1, <2>2
<1>9. ASSUME NEW w \in works, WorkSteps(w), UNCHANGED <<saves, snags>> PROVE OneAtATime'
  <2>0. Undisturbed' => Undisturbed
    BY <1>9 DEF Undisturbed
  <2>1. (Steps(w) /\ w.step \in {1, 2}) \/ KeyringStep(w) \/ (\E what, conf : Ends(w, what, conf))
    BY <1>9, WorkDoes
  <2>2. CASE Steps(w) /\ w.step \in {1, 2}
    BY <1>9, <1>s, <2>0, <2>2
  <2>3. CASE KeyringStep(w)
    BY <1>9, <1>s, <2>0, <2>3 DEF KeyringStep, CallsKeyring
  <2>4. CASE \E what, conf : Ends(w, what, conf)
    BY <1>9, <1>e, <2>0, <2>4 DEF Ends
  <2> QED BY <2>1, <2>2, <2>3, <2>4
<1>10. ASSUME NEW w \in works, WorkFails(w), UNCHANGED saves PROVE OneAtATime'
  <2>1. works' \subseteq works /\ (Undisturbed' => Undisturbed)
    BY <1>10 DEF WorkFails, Ends, Refused, Misery, Undisturbed
  <2> QED BY <1>10, <1>e, <2>1
<1>12. ASSUME NEW w \in works, SecretStays(w), UNCHANGED saves PROVE OneAtATime'
  <2>1. Steps(w) /\ w.step < 6 /\ (Undisturbed' => Undisturbed)
    BY <1>12 DEF SecretStays, CallsKeyring, Undisturbed
  <2> QED BY <1>12, <1>s, <2>1
<1>11. CASE UNCHANGED <<cfg, mainQ, works, saves, snags>>
  BY <1>11 DEF OneAtATime, Undisturbed
<1> QED BY <1>3, <1>4, <1>5, <1>6, <1>7, <1>8, <1>9, <1>10, <1>11, <1>12, StepIs

(* What hearing a report of the newest change leaves. *)
LEMMA HearsReport ==
  ASSUME AccountsTyped, MainHears, mainQ[1].what \in {"Saved", "Removed"}, mainQ[1].conf = Result(mainQ[1], cfg), cfg' = mainQ[1].conf
  PROVE  /\ Chained(mainQ', cfg') => Chained(mainQ, cfg)
         /\ \A conf : Latest(mainQ, cfg, conf) => Latest(mainQ', cfg', conf)
<1>1. mainQ \in Seq(AccountMsg) /\ mainQ # <<>>
  BY DEF AccountsTyped, QueueTyped, MessagesTyped, MainHears
<1>2. SameChain(Tail(mainQ), mainQ')
  BY HearsChain
<1>3. /\ Chained(Tail(mainQ), mainQ[1].conf) => Chained(mainQ, cfg)
      /\ \A conf : Latest(mainQ, cfg, conf) => Latest(Tail(mainQ), mainQ[1].conf, conf)
  BY <1>1, TakenReport
<1> QED BY <1>2, <1>3 DEF SameChain

(* Work that has written nothing yet. *)
Untouched(w) == w.step \in 1..3 /\ w.id \in Ids /\ (w.what = "Remove" => w.step = 2)

(* While all work has written nothing, everything is as in the configuration. *)
LEMMA SettledUntouched ==
  ASSUME ring \in [Ids -> SUBSET Kinds], NEW conf \in Conf, saves = <<>>, \A w \in works : Untouched(w)
  PROVE  Settled(conf) <=> disk = conf /\ \A i \in Ids : Fits(ring[i], KindsOf(conf.acc[i]))
<1>1. \A w \in works : After(w, KindsOf(conf.acc[w.id])) = KindsOf(conf.acc[w.id])
  <2>1. ASSUME NEW w \in works PROVE After(w, KindsOf(conf.acc[w.id])) = KindsOf(conf.acc[w.id])
    <3>1. w.step \in 1..6 /\ w.step <= 3
      BY DEF Untouched
    <3>2. KindsOf(conf.acc[w.id]) \subseteq Kinds
      BY DEF KindsOf, Kinds
    <3> QED BY <3>1, <3>2, AfterEnds
  <2> QED BY <2>1
<1>2. \A w \in works : w.id \in Ids /\ (w.what = "Remove" => w.step = 2)
  BY DEF Untouched
<1> QED BY <1>1, <1>2 DEF Settled

(* Nothing is written: what was settled still is. *)
LEMMA StillSettled ==
  ASSUME AccountsTyped, NEW conf \in Conf, Settled(conf), UNCHANGED <<disk, ring, saves>>, snags \subseteq snags',
         works' = works \/ (saves = <<>> /\ \A w \in works \union works' : Untouched(w))
  PROVE  Settled(conf)'
<1>0. \A have, want : Fits(have, want) => Fits(have, want)'
  BY DEF Fits
<1>1. CASE works' = works
  BY <1>0, <1>1 DEF Settled
<1>2. CASE saves = <<>> /\ \A w \in works \union works' : Untouched(w)
  <2>1. ring \in [Ids -> SUBSET Kinds]
    BY DEF AccountsTyped, ConfsTyped
  <2>2. disk = conf /\ \A i \in Ids : Fits(ring[i], KindsOf(conf.acc[i]))
    BY <1>2, <2>1, SettledUntouched
  <2>3. ASSUME NEW w \in works' PROVE After(w, KindsOf(conf.acc[w.id])) = KindsOf(conf.acc[w.id]) /\ w.id \in Ids /\ (w.what = "Remove" => w.step = 2)
    <3>1. w.step \in 1..6 /\ w.step <= 3 /\ w.id \in Ids /\ (w.what = "Remove" => w.step = 2)
      BY <1>2, <2>3 DEF Untouched
    <3>2. KindsOf(conf.acc[w.id]) \subseteq Kinds
      BY DEF KindsOf, Kinds
    <3> QED BY <3>1, <3>2, AfterEnds
  <2>4. disk' = conf /\ \A i \in Ids : KindsOf(conf.acc[i]) \subseteq ring'[i] /\ (snags' = {} => ring'[i] = KindsOf(conf.acc[i]))
    BY <2>2 DEF Fits
  <2> QED BY <2>3, <2>4 DEF Settled, Fits
<1> QED BY <1>1, <1>2

(* Connect before it writes. *)
LEMMA ConnectSettles ==
  ASSUME AccountsTyped, NEW w \in works, works = {w}, ~w.cut, saves = <<>>, w.what = "Connect", WorkSteps(w), NEW conf \in Conf, Settled(conf),
         w.step \in {1, 2}
  PROVE  Settled(conf)'
<1>0. WorkTyped
  BY DEF AccountsTyped
<1>1. w.id \in Ids /\ UNCHANGED <<saves, snags>>
  BY <1>0 DEF WorkTyped, Works, WorkSteps
<1>2. Steps(w) /\ UNCHANGED <<disk, ring>>
  BY NoCall, WorkDoes
<1>3. PICK v \in Works : /\ works' = (works \ {w}) \union {v} /\ v.step = w.step + 1 /\ v.no = w.no /\ v.what = w.what
                         /\ v.id = w.id /\ v.how = w.how /\ v.conf = w.conf /\ v.cut = w.cut
  BY <1>0, <1>2, StepsTo
<1>4. Untouched(w) /\ Untouched(v)
  BY <1>1, <1>3 DEF Untouched
<1>5. \A x \in works \union works' : Untouched(x)
  BY <1>3, <1>4
<1> QED BY <1>1, <1>2, <1>5, StillSettled

(* A call to the keyring, done or, if it was to delete, not done. *)
LEMMA KeyringSettles ==
  ASSUME AccountsTyped, NEW w \in works, works = {w}, saves = <<>>, NEW conf \in Conf, Settled(conf), UNCHANGED saves,
         (KeyringStep(w) /\ snags' = snags) \/ SecretStays(w)
  PROVE  Settled(conf)'
<1>0. WorkTyped /\ ring \in [Ids -> SUBSET Kinds]
  BY DEF AccountsTyped, ConfsTyped
<1>1. w.id \in Ids /\ w.what \in {"Connect", "Remove"}
  BY <1>0 DEF WorkTyped, Works
<1>2. w.step \in 3..5 /\ Steps(w) /\ disk' = disk
  BY DEF KeyringStep, SecretStays, CallsKeyring
<1>3. PICK v \in Works : /\ works' = (works \ {w}) \union {v} /\ v.step = w.step + 1 /\ v.no = w.no /\ v.what = w.what
                         /\ v.id = w.id /\ v.how = w.how /\ v.conf = w.conf /\ v.cut = w.cut
  BY <1>0, <1>2, StepsTo
<1> DEFINE kinds == KindsOf(conf.acc[w.id])
<1>4. /\ Fits(ring[w.id], After(w, kinds))
      /\ \A i \in Ids : i # w.id => Fits(ring[i], KindsOf(conf.acc[i]))
      /\ w.what = "Connect" => disk = conf
      /\ w.what = "Remove" => disk = Without(w.conf, w.id)
  BY <1>1, <1>2 DEF Settled
<1>5. After(v, kinds) = IF Secret(w) \in SignsInWith(w) THEN After(w, kinds) \union {Secret(w)} ELSE After(w, kinds) \ {Secret(w)}
  BY <1>2, <1>3, AfterCall
<1> HIDE DEF kinds
<1>6. CASE KeyringStep(w) /\ snags' = snags
  <2>1. ring' = [ring EXCEPT ![w.id] = IF Secret(w) \in SignsInWith(w) THEN ring[w.id] \union {Secret(w)} ELSE ring[w.id] \ {Secret(w)}]
    BY <1>6 DEF KeyringStep
  <2>2. ring'[w.id] = (IF Secret(w) \in SignsInWith(w) THEN ring[w.id] \union {Secret(w)} ELSE ring[w.id] \ {Secret(w)})
        /\ \A i \in Ids : i # w.id => ring'[i] = ring[i]
    BY <1>0, <1>1, <2>1
  <2>3. After(v, kinds) \subseteq ring'[w.id] /\ (snags' = {} => ring'[w.id] = After(v, kinds))
    BY <1>4, <1>5, <1>6, <2>2 DEF Fits
  <2>4. \A i \in Ids : i # w.id => KindsOf(conf.acc[i]) \subseteq ring'[i] /\ (snags' = {} => ring'[i] = KindsOf(conf.acc[i]))
    BY <1>4, <1>6, <2>2 DEF Fits
  <2> QED BY <1>1, <1>2, <1>3, <1>4, <2>3, <2>4 DEF Settled, Fits, kinds
<1>7. CASE SecretStays(w)
  <2>1. ring' = ring /\ snags' # {} /\ Secret(w) \notin SignsInWith(w)
    BY <1>7 DEF SecretStays
  <2>2. After(v, kinds) \subseteq ring'[w.id]
    BY <1>4, <1>5, <2>1 DEF Fits
  <2>3. \A i \in Ids : i # w.id => KindsOf(conf.acc[i]) \subseteq ring'[i]
    BY <1>4, <2>1 DEF Fits
  <2> QED BY <1>1, <1>2, <1>3, <1>4, <2>1, <2>2, <2>3 DEF Settled, Fits, kinds
<1> QED BY <1>6, <1>7

(* The last step of a Connect and of a Remove. *)
LEMMA EndSettles ==
  ASSUME AccountsTyped, NEW w \in works, works = {w}, ~w.cut, saves = <<>>, WorkSteps(w), NEW conf \in Conf, Settled(conf),
         w.step = 6, NEW m \in AccountMsg, m.what \in {"Saved", "Removed"},
         m.id = w.id, m.how = w.how, m.what = "Saved" <=> w.what = "Connect",
         m.conf = IF w.what = "Connect" THEN Upsert(w.conf, w.id, w.how) ELSE Without(w.conf, w.id),
         m.conf = Result(m, conf), NEW last, last = m.conf
  PROVE  Settled(last)'
<1>0. WorkTyped /\ ring \in [Ids -> SUBSET Kinds]
  BY DEF AccountsTyped, ConfsTyped
<1>1. w.id \in Ids /\ UNCHANGED <<saves, snags>> /\ w.what \in {"Connect", "Remove"}
  BY <1>0 DEF WorkTyped, Works, WorkSteps
<1>2. works' = {} /\ ring' = ring /\ (IF w.what = "Connect" THEN disk' = Upsert(w.conf, w.id, w.how) ELSE disk' = disk)
  BY NoCall, WorkDoes DEF Ends
<1>3. /\ Fits(ring[w.id], After(w, KindsOf(conf.acc[w.id])))
      /\ \A i \in Ids : i # w.id => Fits(ring[i], KindsOf(conf.acc[i]))
      /\ w.what = "Remove" => disk = Without(w.conf, w.id)
  BY <1>1 DEF Settled
<1>4. disk' = last
  BY <1>1, <1>2, <1>3
<1>5. After(w, KindsOf(conf.acc[w.id])) = SignsInWith(w)
  <2>1. KindsOf(conf.acc[w.id]) \subseteq Kinds
    BY DEF KindsOf, Kinds
  <2>2. w.step \in 1..6
    OBVIOUS
  <2> QED BY <2>1, <2>2, AfterEnds
<1>6. SignsInWith(w) = KindsOf(last.acc[w.id]) /\ \A i \in Ids : i # w.id => last.acc[i] = conf.acc[i]
  <2>1. CASE w.what = "Connect"
    <3>1. last = Upsert(conf, w.id, w.how)
      BY <2>1 DEF Result
    <3>2. last.acc[w.id] = w.how /\ \A i \in Ids : i # w.id => last.acc[i] = conf.acc[i]
      BY <1>1, <3>1 DEF Upsert, Conf
    <3> QED BY <2>1, <3>2 DEF SignsInWith
  <2>2. CASE w.what = "Remove"
    <3>1. last = Without(conf, w.id)
      BY <2>2 DEF Result
    <3>2. last.acc[w.id] = NoAccount /\ \A i \in Ids : i # w.id => last.acc[i] = conf.acc[i]
      BY <1>1, <3>1 DEF Without, Conf
    <3>3. KindsOf(NoAccount) = {}
      BY DEF KindsOf, NoAccount
    <3> QED BY <2>2, <3>2, <3>3 DEF SignsInWith
  <2> QED BY <1>1, <2>1, <2>2
<1>7. \A i \in Ids : Fits(ring[i], KindsOf(last.acc[i]))
  BY <1>3, <1>5, <1>6
<1>8. \A i \in Ids : KindsOf(last.acc[i]) \subseteq ring'[i] /\ (snags' = {} => ring'[i] = KindsOf(last.acc[i]))
  BY <1>1, <1>2, <1>7 DEF Fits
<1> QED BY <1>2, <1>4, <1>8 DEF Settled, Fits

(* What the reports leave is a configuration. *)
LEMMA LatestTyped ==
  ASSUME AccountsTyped, NEW conf, Latest(mainQ, cfg, conf)
  PROVE  conf \in Conf
<1>1. mainQ \in Seq(AccountMsg) /\ cfg \in Conf
  BY DEF AccountsTyped, QueueTyped, MessagesTyped, ConfsTyped
<1>2. \A i \in Reports(mainQ) : mainQ[i] \in AccountMsg
  BY <1>1 DEF Reports
<1>3. \A m \in AccountMsg : m.conf \in Conf
  BY DEF AccountMsg
<1> QED BY <1>1, <1>2, <1>3 DEF Latest

(* SettledAtLast, when the program may assume it. *)
LEMMA SettledWhen ==
  ASSUME SettledAtLast, Undisturbed, Chained(mainQ, cfg)
  PROVE  \E conf : Latest(mainQ, cfg, conf) /\ Settled(conf)
BY DEF SettledAtLast

(* Hearing a report makes the configuration on screen the next of the chain. *)
LEMMA SettledHears ==
  ASSUME AccountsTyped, OneAtATime, SettledAtLast, MainHears, UNCHANGED <<disk, ring, saves>>
  PROVE  SettledAtLast'
<1> DEFINE m == mainQ[1]
<1>0. SUFFICES ASSUME Undisturbed', Chained(mainQ', cfg') PROVE \E conf : Latest(mainQ', cfg', conf) /\ Settled(conf)'
  BY DEF SettledAtLast
<1>1. /\ m \in AccountMsg /\ 1 \in 1..Len(mainQ)
      /\ \/ m.what \in {"Connect", "Remove"} /\ StartWork(m)
         \/ m.what = "Abort" /\ AbortWork
         \/ m.what = "Closed" /\ formKnown' = FALSE /\ UNCHANGED <<cfg, form, formQ, works, handle, status, snags, began>>
         \/ m.what = "Working" /\ Tell("Working") /\ UNCHANGED <<cfg, form, formKnown, works, handle, status, snags, began>>
         \/ m.what = "Failed" /\ Fails
         \/ m.what = "Saved" /\ Saves(m)
         \/ m.what = "Removed" /\ Removes(m)
  BY HearsWhat
<1>2. ASSUME m.what \notin {"Saved", "Removed"}, cfg' = cfg, Undisturbed
      PROVE  \E conf : Latest(mainQ, cfg, conf) /\ Settled(conf) /\ Latest(mainQ', cfg', conf)
  <2>1. SameChain(mainQ, mainQ')
    BY <1>2, HearsChain
  <2>2. Chained(mainQ, cfg)
    BY <1>0, <1>2, <2>1 DEF SameChain
  <2>3. PICK conf : Latest(mainQ, cfg, conf) /\ Settled(conf)
    BY <1>2, <2>2, SettledWhen
  <2> QED BY <1>2, <2>1, <2>3 DEF SameChain
<1>3. ASSUME m.what \notin {"Saved", "Removed"}, UNCHANGED <<cfg, works, snags>> PROVE \E conf : Latest(mainQ', cfg', conf) /\ Settled(conf)'
  <2>0. Undisturbed
    BY <1>0, <1>3 DEF Undisturbed
  <2>1. PICK conf : Latest(mainQ, cfg, conf) /\ Settled(conf) /\ Latest(mainQ', cfg', conf)
    BY <1>2, <1>3, <2>0
  <2> QED BY <1>3, <2>1, LatestTyped, StillSettled
<1>4. CASE m.what \in {"Connect", "Remove"} /\ StartWork(m)
  <2>1. snags' = snags \union Overlap /\ cfg' = cfg
    BY <1>4 DEF StartWork
  <2>2. PICK v \in Works : /\ works' = works \union {v} /\ v.no = began + 1 /\ v.what = m.what /\ v.id = m.id /\ v.how = m.how
                           /\ v.conf = cfg /\ v.step = (IF m.what = "Connect" THEN 1 ELSE 2) /\ v.cut = FALSE
    BY <1>1, <1>4, StartsWork
  <2>3. Undisturbed /\ works = {} /\ saves = <<>>
    BY <1>0, <2>1 DEF Overlap, Undisturbed
  <2>4. m.what \notin {"Saved", "Removed"}
    BY <1>4
  <2>5. PICK conf : Latest(mainQ, cfg, conf) /\ Settled(conf) /\ Latest(mainQ', cfg', conf)
    BY <1>2, <2>1, <2>3, <2>4
  <2>6. \A w \in works \union works' : Untouched(w)
    <3>1. Untouched(v)
      BY <1>1, <1>4, <2>2 DEF Untouched, AccountMsg
    <3> QED BY <2>2, <2>3, <3>1
  <2>7. Settled(conf)'
    BY <2>1, <2>3, <2>5, <2>6, LatestTyped, StillSettled
  <2> QED BY <2>5, <2>7
<1>5. CASE m.what = "Abort" /\ AbortWork
  <2>1. cfg' = cfg /\ Undisturbed /\ snags \subseteq snags'
    BY <1>0, <1>5 DEF AbortWork, Undisturbed
  <2>2. m.what \notin {"Saved", "Removed"}
    BY <1>5
  <2>3. PICK conf : Latest(mainQ, cfg, conf) /\ Settled(conf) /\ Latest(mainQ', cfg', conf)
    BY <1>2, <2>1, <2>2
  <2>4. works' = {w \in works : w.no # handle} /\ \A w \in works : w.no = handle => w.what = "Connect" /\ w.step <= 2
    BY <1>0, <1>5, AbortsNothing
  <2>5. Settled(conf)'
    <3>1. CASE \A w \in works : w.no # handle
      <4>1. works' = works
        BY <2>4, <3>1
      <4> QED BY <2>1, <2>3, <4>1, LatestTyped, StillSettled
    <3>2. ASSUME NEW w \in works, w.no = handle PROVE Settled(conf)'
      <4>1. works = {w} /\ saves = <<>>
        BY <2>1, Alone
      <4>2. w.what = "Connect" /\ w.step <= 2 /\ w.step \in 1..6 /\ w.id \in Ids
        BY <2>4, <3>2 DEF AccountsTyped, WorkTyped, Works
      <4>3. Untouched(w)
        BY <4>2 DEF Untouched
      <4>4. \A x \in works \union works' : x = w
        BY <2>4, <4>1
      <4> QED BY <2>1, <2>3, <4>1, <4>3, <4>4, LatestTyped, StillSettled
    <3> QED BY <3>1, <3>2
  <2> QED BY <2>3, <2>5
<1>6. ASSUME m.what \in {"Saved", "Removed"}, cfg' = m.conf, m.conf = Result(m, cfg), UNCHANGED works, Undisturbed, snags \subseteq snags'
      PROVE  \E conf : Latest(mainQ', cfg', conf) /\ Settled(conf)'
  <2>1. /\ Chained(mainQ', cfg') => Chained(mainQ, cfg)
        /\ \A conf : Latest(mainQ, cfg, conf) => Latest(mainQ', cfg', conf)
    BY <1>6, HearsReport
  <2>2. PICK conf : Latest(mainQ, cfg, conf) /\ Settled(conf)
    BY <1>0, <1>6, <2>1, SettledWhen
  <2>3. Settled(conf)'
    BY <1>6, <2>2, LatestTyped, StillSettled
  <2> QED BY <2>1, <2>2, <2>3
<1>7. CASE m.what = "Saved" /\ Saves(m)
  <2>1. cfg' = m.conf /\ works' = works /\ Undisturbed /\ m.conf = Upsert(cfg, m.id, m.how) /\ snags \subseteq snags'
    BY <1>0, <1>7 DEF Saves, Reload, Undisturbed
  <2>2. m.conf = Result(m, cfg) /\ m.what \in {"Saved", "Removed"}
    BY <1>7, <2>1 DEF Result
  <2> QED BY <1>6, <2>1, <2>2
<1>8. CASE m.what = "Removed" /\ Removes(m)
  <2>1. cfg' = m.conf /\ works' = works /\ Undisturbed /\ m.conf = Without(cfg, m.id) /\ snags \subseteq snags'
    BY <1>0, <1>8 DEF Removes, Reload, Undisturbed
  <2>2. m.conf = Result(m, cfg) /\ m.what \in {"Saved", "Removed"}
    BY <1>8, <2>1 DEF Result
  <2> QED BY <1>6, <2>1, <2>2
<1>9. CASE m.what \in {"Closed", "Working", "Failed"} /\ UNCHANGED <<cfg, works, snags>>
  BY <1>3, <1>9
<1> QED BY <1>1, <1>4, <1>5, <1>7, <1>8, <1>9 DEF Fails

(* A work's step, with nothing in its way. *)
LEMMA SettledWorks ==
  ASSUME AccountsTyped, OneAtATime, SettledAtLast, NEW w \in works, WorkSteps(w), UNCHANGED <<cfg, saves, snags>>
  PROVE  SettledAtLast'
<1>0. SUFFICES ASSUME Undisturbed', Chained(mainQ', cfg') PROVE \E conf : Latest(mainQ', cfg', conf) /\ Settled(conf)'
  BY DEF SettledAtLast
<1>1. works = {w} /\ ~w.cut /\ saves = <<>> /\ Undisturbed
  <2>1. Undisturbed
    BY <1>0 DEF Undisturbed
  <2> QED BY <2>1, Alone
<1>2. w.id \in Ids /\ w.how \in Methods \union {NoAccount} /\ w.conf \in Conf /\ w.step \in 1..6 /\ mainQ \in Seq(AccountMsg)
  BY DEF AccountsTyped, WorkTyped, Works, QueueTyped, MessagesTyped
<1>w. "Working" \in Whats /\ "Saved" \in Whats /\ "Removed" \in Whats /\ NoConf \in Conf
      /\ Upsert(w.conf, w.id, w.how) \in Conf /\ Without(w.conf, w.id) \in Conf
  BY <1>2, ConfTyped DEF Whats
<1>3. ASSUME SameChain(mainQ, mainQ') PROVE \E conf : Latest(mainQ, cfg, conf) /\ Settled(conf) /\ Latest(mainQ', cfg', conf)
  <2>1. Chained(mainQ, cfg)
    BY <1>0, <1>3 DEF SameChain
  <2>2. PICK conf : Latest(mainQ, cfg, conf) /\ Settled(conf)
    BY <1>1, <2>1, SettledWhen
  <2> QED BY <1>3, <2>2 DEF SameChain
<1>4. CASE w.what = "Connect" /\ w.step \in {1, 2}
  <2>1. SameChain(mainQ, mainQ')
    <3>1. mainQ' = mainQ \/ mainQ' = Append(mainQ, Msg("Working", w.id, w.how, NoConf))
      BY <1>4, NoCall, WorkDoes
    <3> DEFINE m == Msg("Working", w.id, w.how, NoConf)
    <3>2. "Working" \in Whats /\ NoConf \in Conf /\ w.id \in Ids /\ w.how \in Methods \union {NoAccount}
      BY <1>w, <1>2
    <3>3. m \in AccountMsg /\ m.what = "Working"
      BY ONLY <3>2, MsgTyped
    <3>4. mainQ' = mainQ \/ mainQ' = Append(mainQ, m)
      BY <3>1
    <3> HIDE DEF m
    <3>5. CASE mainQ' = mainQ
      BY <3>5, SameSame
    <3>6. CASE mainQ' = Append(mainQ, m)
      BY <1>2, <3>3, <3>6, AddedSame
    <3> QED BY <3>4, <3>5, <3>6
  <2>2. PICK conf : Latest(mainQ, cfg, conf) /\ Settled(conf) /\ Latest(mainQ', cfg', conf)
    BY <1>3, <2>1
  <2>3. conf \in Conf
    BY <2>2, LatestTyped
  <2>4. Settled(conf)'
    BY <1>1, <1>4, <2>2, <2>3, ConnectSettles
  <2> QED BY <2>2, <2>4
<1>7. CASE KeyringStep(w)
  <2>1. mainQ' = mainQ
    BY <1>7 DEF KeyringStep
  <2>2. PICK conf : Latest(mainQ, cfg, conf) /\ Settled(conf) /\ Latest(mainQ', cfg', conf)
    BY <1>3, <2>1, SameSame
  <2>3. Settled(conf)'
    BY <1>1, <1>7, <2>2, LatestTyped, KeyringSettles
  <2> QED BY <2>2, <2>3
<1>5. CASE w.what = "Remove" /\ w.step = 2
  <2>1. disk' = Without(w.conf, w.id) /\ Steps(w) /\ ring' = ring /\ mainQ' = mainQ
    BY <1>5, NoCall, WorkDoes
  <2>2. PICK conf : Latest(mainQ, cfg, conf) /\ Settled(conf) /\ Latest(mainQ', cfg', conf)
    BY <1>3, <2>1, SameSame
  <2>3. PICK v \in Works : /\ works' = (works \ {w}) \union {v} /\ v.step = w.step + 1 /\ v.no = w.no /\ v.what = w.what
                           /\ v.id = w.id /\ v.how = w.how /\ v.conf = w.conf /\ v.cut = w.cut
    BY <1>5, <2>1, StepsTo DEF AccountsTyped
  <2>4. works' = {v} /\ v.step = 3 /\ v.what = "Remove" /\ v.conf = w.conf /\ v.id = w.id
    BY <1>1, <1>5, <2>3
  <2>5. Untouched(w)
    BY <1>2, <1>5 DEF Untouched
  <2>6. \A i \in Ids : Fits(ring[i], KindsOf(conf.acc[i]))
    <3>1. ring \in [Ids -> SUBSET Kinds]
      BY DEF AccountsTyped, ConfsTyped
    <3>2. conf \in Conf
      BY <2>2, LatestTyped
    <3> QED BY <1>1, <2>2, <2>5, <3>1, <3>2, SettledUntouched
  <2>7. \A i \in Ids : KindsOf(conf.acc[i]) \subseteq ring'[i] /\ (snags' = {} => ring'[i] = KindsOf(conf.acc[i]))
    BY <2>1, <2>6 DEF Fits
  <2>8. After(v, KindsOf(conf.acc[v.id])) = KindsOf(conf.acc[v.id])
    <3>1. KindsOf(conf.acc[v.id]) \subseteq Kinds /\ v.step \in 1..6 /\ v.step <= 3
      BY <2>4 DEF KindsOf, Kinds
    <3> QED BY <3>1, AfterEnds
  <2>9. Settled(conf)'
    BY <1>2, <2>1, <2>4, <2>7, <2>8 DEF Settled, Fits
  <2> QED BY <2>2, <2>9
<1>6. CASE w.step = 6
  <2> DEFINE what == IF w.what = "Connect" THEN "Saved" ELSE "Removed"
             left == IF w.what = "Connect" THEN Upsert(w.conf, w.id, w.how) ELSE Without(w.conf, w.id)
  <2>1. Ends(w, what, left)
    BY <1>6, NoCall, WorkDoes
  <2>2. what \in {"Saved", "Removed"} /\ what \in Whats /\ left \in Conf /\ (what = "Saved" <=> w.what = "Connect")
    BY <1>w
  <2> HIDE DEF what
  <2>3. PICK m \in AccountMsg : m.what = what /\ m.id = w.id /\ m.how = w.how /\ m.conf = left /\ mainQ' = Append(mainQ, m)
    <3> HIDE DEF left
    <3> QED BY <1>1, <2>1, <2>2, EndsQueue
  <2>4. Chained(Append(mainQ, m), cfg)
    BY <1>0, <2>3
  <2>5. /\ Chained(mainQ, cfg)
        /\ Latest(Append(mainQ, m), cfg, m.conf)
        /\ \A conf : Latest(mainQ, cfg, conf) => m.conf = Result(m, conf)
    BY <1>2, <2>2, <2>3, <2>4, AddedReport
  <2>6. PICK conf : Latest(mainQ, cfg, conf) /\ Settled(conf)
    BY <1>1, <2>5, SettledWhen
  <2>7. conf \in Conf
    BY <2>6, LatestTyped
  <2>8. PICK last : last = m.conf
    OBVIOUS
  <2>9. m.conf = Result(m, conf) /\ Latest(mainQ', cfg', last)
    BY <2>3, <2>5, <2>6, <2>8
  <2>10. Settled(last)'
    BY <1>1, <1>6, <2>2, <2>3, <2>6, <2>7, <2>8, <2>9, EndSettles
  <2> QED BY <2>9, <2>10
<1> QED BY <1>2, <1>4, <1>5, <1>6, <1>7, WorkDoes

(* Each step, without a snag, leaves config.toml and the keyring as the reports will say. *)
LEMMA SettledStep ==
  ASSUME AccountsTyped, OneAtATime, SettledAtLast, AccountsNext
  PROVE  SettledAtLast'
<1>0. mainQ \in Seq(AccountMsg) /\ WorkTyped /\ ConfsTyped
  BY DEF AccountsTyped, QueueTyped, MessagesTyped
<1>1. ASSUME SameChain(mainQ, mainQ'), UNCHANGED <<cfg, disk, ring, works, saves, snags>> PROVE SettledAtLast'
  <2>0. SUFFICES ASSUME Undisturbed', Chained(mainQ', cfg') PROVE \E conf : Latest(mainQ', cfg', conf) /\ Settled(conf)'
    BY DEF SettledAtLast
  <2>1. Chained(mainQ, cfg) /\ Undisturbed
    BY <1>1, <2>0 DEF SameChain, Undisturbed
  <2>2. PICK conf : Latest(mainQ, cfg, conf) /\ Settled(conf)
    BY <2>1, SettledWhen
  <2>3. Settled(conf)'
    BY <1>1, <2>2, LatestTyped, StillSettled
  <2> QED BY <1>1, <2>2, <2>3 DEF SameChain
<1>2. CASE FormMoves /\ UNCHANGED <<cfg, disk, ring, works, saves, snags>>
  BY <1>1, <1>2, FormSaysNothing
<1>3. ASSUME NEW id \in Ids, AskRemove(id), UNCHANGED <<cfg, disk, ring, works, saves, snags>> PROVE SettledAtLast'
  BY <1>1, <1>3, RemoveSaysNothing
<1>4. CASE ChangePref /\ UNCHANGED <<disk, ring, mainQ, works>>
  <2>0. SUFFICES ASSUME Undisturbed' PROVE \E conf : Latest(mainQ', cfg', conf) /\ Settled(conf)'
    BY DEF SettledAtLast
  <2>1. saves' = Append(saves, cfg') /\ snags' = snags \union (IF works # {} \/ Has(mainQ, {"Saved", "Removed"}) THEN {"disturbed"} ELSE {})
    BY <1>4 DEF ChangePref, Has
  <2>2. works = {} /\ ~Has(mainQ, {"Saved", "Removed"}) /\ Undisturbed /\ snags' = snags
    BY <2>0, <2>1 DEF Undisturbed
  <2>3. Reports(mainQ) = {}
    BY <2>2 DEF Has, Reports
  <2>4. Chained(mainQ, cfg)
    BY <2>3 DEF Chained
  <2>5. Settled(cfg)
    <3>1. PICK conf : Latest(mainQ, cfg, conf) /\ Settled(conf)
      BY <2>2, <2>4, SettledWhen
    <3>2. conf = cfg
      BY <2>3, <3>1 DEF Latest
    <3> QED BY <3>1, <3>2
  <2>6. \A i \in Ids : Fits(ring[i], KindsOf(cfg.acc[i]))
    BY <2>2, <2>5 DEF Settled
  <2>7. \A i \in Ids : cfg'.acc[i] = cfg.acc[i]
    BY <1>0, <1>4 DEF ChangePref, ConfsTyped, Conf
  <2>8. saves' # <<>>
    BY <1>0, <2>1 DEF ConfsTyped
  <2>9. PICK conf : conf = cfg'
    OBVIOUS
  <2>10. \A i \in Ids : KindsOf(conf.acc[i]) \subseteq ring'[i] /\ (snags' = {} => ring'[i] = KindsOf(conf.acc[i]))
    BY <1>4, <2>2, <2>6, <2>7, <2>9 DEF Fits
  <2>11. Settled(conf)'
    BY <1>4, <2>2, <2>8, <2>10 DEF Settled, Fits
  <2>12. Latest(mainQ', cfg', conf)
    BY <1>4, <2>3, <2>9 DEF Latest
  <2> QED BY <2>11, <2>12
<1>5. CASE SaverWrites /\ UNCHANGED <<cfg, ring, mainQ, works>>
  <2>0. SUFFICES ASSUME Undisturbed', Chained(mainQ, cfg) PROVE \E conf : Latest(mainQ', cfg', conf) /\ Settled(conf)'
    BY <1>5 DEF SettledAtLast
  <2>1. disk' = saves[Len(saves)] /\ saves' = <<>> /\ saves # <<>> /\ snags' = snags /\ Undisturbed
    BY <1>5, <2>0 DEF SaverWrites, Last, Undisturbed
  <2>2. works = {} /\ Reports(mainQ) = {} /\ saves[Len(saves)] = cfg
    BY <2>1 DEF OneAtATime
  <2>3. PICK conf : Latest(mainQ, cfg, conf) /\ Settled(conf)
    BY <2>0, <2>1, SettledWhen
  <2>4. conf = cfg
    BY <2>2, <2>3 DEF Latest
  <2>5. disk' = conf
    BY <2>1, <2>2, <2>4
  <2>6. \A i \in Ids : Fits(ring[i], KindsOf(conf.acc[i]))
    BY <2>2, <2>3 DEF Settled
  <2>8. \A i \in Ids : KindsOf(conf.acc[i]) \subseteq ring'[i] /\ (snags' = {} => ring'[i] = KindsOf(conf.acc[i]))
    BY <1>5, <2>1, <2>6 DEF Fits
  <2>7. Settled(conf)'
    BY <1>5, <2>2, <2>5, <2>8 DEF Settled, Fits
  <2> QED BY <1>5, <2>3, <2>7
<1>6. CASE ProcessEnds
  <2>1. ~Undisturbed'
    BY <1>6 DEF ProcessEnds, Misery, Undisturbed
  <2> QED BY <2>1 DEF SettledAtLast
<1>7. ASSUME NEW w \in works, WorkFails(w), UNCHANGED <<cfg, ring, saves>> PROVE SettledAtLast'
  <2>0. SUFFICES ASSUME Undisturbed', Chained(mainQ', cfg') PROVE \E conf : Latest(mainQ', cfg', conf) /\ Settled(conf)'
    BY DEF SettledAtLast
  <2>1. Refused(w) /\ Ends(w, "Failed", NoConf)
    BY <2>0, <1>7 DEF WorkFails, Misery, Undisturbed
  <2>2. w.what = "Connect" /\ disk' = disk /\ snags \subseteq snags' /\ Undisturbed
    BY <2>0, <2>1 DEF Refused, Undisturbed
  <2>3. works = {w} /\ saves = <<>> /\ w.id \in Ids /\ w.how \in Methods /\ w.step \in 1..6
    BY <1>0, <1>7, <2>2, Alone DEF WorkTyped, Works
  <2>4. "Failed" \in Whats /\ NoConf \in Conf
    BY ConfTyped DEF Whats
  <2>5. /\ works' = works \ {w}
        /\ \/ w.cut /\ mainQ' = mainQ
           \/ /\ ~w.cut
              /\ \E m \in AccountMsg : m.what = "Failed" /\ m.id = w.id /\ m.how = w.how /\ m.conf = NoConf /\ mainQ' = Append(mainQ, m)
    BY <1>7, <2>1, <2>4, EndsQueue
  <2>6. SameChain(mainQ, mainQ')
    <3>1. ASSUME NEW m \in AccountMsg, m.what = "Failed", mainQ' = Append(mainQ, m) PROVE SameChain(mainQ, mainQ')
      BY <1>0, <3>1, AddedSame
    <3> QED BY <2>5, <3>1, SameSame
  <2>7. Chained(mainQ, cfg)
    BY <1>7, <2>0, <2>6 DEF SameChain
  <2>8. PICK conf : Latest(mainQ, cfg, conf) /\ Settled(conf)
    BY <2>2, <2>7, SettledWhen
  <2>9. works' = {}
    BY <2>3, <2>5
  <2>10. Settled(conf)'
    <3>0. conf \in Conf
      BY <2>8, LatestTyped
    <3>1. CASE w.step <= 3
      <4>1. Untouched(w)
        BY <2>2, <2>3, <3>1 DEF Untouched
      <4>2. \A x \in works \union works' : Untouched(x)
        BY <2>3, <2>9, <4>1
      <4> QED BY <1>7, <2>2, <2>3, <2>8, <3>0, <4>2, StillSettled
    <3>2. CASE ~(w.step <= 3)
      <4>1. w.step \in 3..5 /\ Secret(w) \in SignsInWith(w) /\ snags' # {}
        BY <2>1, <2>3, <3>2 DEF Refused, CallsKeyring
      <4>2. KindsOf(conf.acc[w.id]) \subseteq After(w, KindsOf(conf.acc[w.id]))
        BY <2>2, <2>3, <4>1, AfterRefusal
      <4>3. /\ After(w, KindsOf(conf.acc[w.id])) \subseteq ring[w.id]
            /\ \A i \in Ids : i # w.id => KindsOf(conf.acc[i]) \subseteq ring[i]
            /\ disk = conf
        BY <2>2, <2>3, <2>8 DEF Settled, Fits
      <4>4. \A i \in Ids : KindsOf(conf.acc[i]) \subseteq ring'[i]
        BY <1>7, <4>2, <4>3
      <4> QED BY <2>2, <2>9, <4>1, <4>3, <4>4 DEF Settled, Fits
    <3> QED BY <3>1, <3>2
  <2> QED BY <1>7, <2>6, <2>8, <2>10 DEF SameChain
<1>9. ASSUME NEW w \in works, SecretStays(w), UNCHANGED <<cfg, mainQ, saves>> PROVE SettledAtLast'
  <2>0. SUFFICES ASSUME Undisturbed', Chained(mainQ, cfg) PROVE \E conf : Latest(mainQ', cfg', conf) /\ Settled(conf)'
    BY <1>9 DEF SettledAtLast
  <2>1. Undisturbed
    BY <1>9, <2>0 DEF SecretStays, Undisturbed
  <2>2. works = {w} /\ saves = <<>>
    BY <1>9, <2>1, Alone
  <2>3. PICK conf : Latest(mainQ, cfg, conf) /\ Settled(conf)
    BY <2>0, <2>1, SettledWhen
  <2>4. Settled(conf)'
    BY <1>9, <2>2, <2>3, LatestTyped, KeyringSettles
  <2> QED BY <1>9, <2>3, <2>4
<1>8. CASE UNCHANGED <<cfg, disk, ring, mainQ, works, saves, snags>>
  BY <1>1, <1>8, SameSame
<1> QED BY <1>2, <1>3, <1>4, <1>5, <1>6, <1>7, <1>8, <1>9, SettledHears, SettledWorks, StepIs

AccountsInv == AccountsTyped /\ FormIsKnown /\ FormIsAwaited /\ OneAtATime /\ SettledAtLast

(* No accounts, no form, nothing saved. *)
LEMMA AccountsStarts == AccountsInit => AccountsInv
<1> SUFFICES ASSUME AccountsInit PROVE AccountsInv
  OBVIOUS
<1>1. ConfsTyped
  <2>1. cfg \in Conf /\ disk \in Conf /\ ring \in [Ids -> SUBSET Kinds]
    BY ConfTyped DEF AccountsInit
  <2>2. saves \in Seq(Conf)
    BY DEF AccountsInit
  <2> QED BY <2>1, <2>2 DEF ConfsTyped
<1>2. QueueTyped
  BY DEF AccountsInit, QueueTyped, MessagesTyped
<1>3. WorkTyped
  BY DEF AccountsInit, WorkTyped
<1>4. FormTyped
  <2>1. form \in FormState /\ form.open = FALSE /\ form.busy = FALSE
    BY DEF AccountsInit, ClosedForm, FormState
  <2>2. formQ \in Seq({"Working", "Failed"})
    BY DEF AccountsInit
  <2> QED BY <2>1, <2>2 DEF FormTyped
<1>5. StatusTyped /\ snags \subseteq Snags
  BY DEF AccountsInit, StatusTyped, Statuses, NoConf
<1>6. FormIsKnown /\ FormIsAwaited
  <2>1. form.open = FALSE /\ form.busy = FALSE
    BY DEF AccountsInit, ClosedForm
  <2> QED BY <2>1 DEF FormIsKnown, FormIsAwaited
<1>7. Reports(mainQ) = {} /\ works = {} /\ saves = <<>> /\ disk = cfg /\ \A i \in Ids : ring[i] = KindsOf(cfg.acc[i])
  <2>1. Len(mainQ) = 0
    BY DEF AccountsInit
  <2>2. Reports(mainQ) = {}
    BY <2>1 DEF Reports
  <2> QED BY <2>2 DEF AccountsInit, NoConf, KindsOf, NoAccount
<1>8. OneAtATime
  BY <1>7 DEF OneAtATime, Undisturbed
<1>9. Latest(mainQ, cfg, cfg) /\ Settled(cfg)
  BY <1>7 DEF Latest, Settled, Fits
<1> QED BY <1>1, <1>2, <1>3, <1>4, <1>5, <1>6, <1>8, <1>9 DEF AccountsInv, AccountsTyped, SettledAtLast

(* Each step of the accounts keeps their invariant. *)
LEMMA AccountsStep == AccountsInv /\ AccountsNext => AccountsInv'
BY AccountsTypes, KnownStep, OneStep, SettledStep DEF AccountsInv

(* The invariant gives what is checked: once all is quiet nothing is on its way, so what is written is what is shown. *)
LEMMA AccountsImplies == AccountsInv => AccountsTypeOK /\ SavedMatches /\ LockedFormHasWork
<1> SUFFICES ASSUME AccountsInv PROVE AccountsTypeOK /\ SavedMatches /\ LockedFormHasWork
  OBVIOUS
<1>1. AccountsTypeOK
  BY DEF AccountsInv, AccountsTyped, ConfsTyped, Conf, WorkTyped, FormTyped, StatusTyped, Snags, AccountsTypeOK
<1>2. ASSUME works = {}, saves = <<>>, mainQ = <<>>, snags \subseteq {"keyring"}
      PROVE  disk = cfg /\ \A i \in Ids : KindsOf(cfg.acc[i]) \subseteq ring[i] /\ (snags = {} => ring[i] = KindsOf(cfg.acc[i]))
  <2>0. Undisturbed
    BY <1>2 DEF Undisturbed
  <2>1. Reports(mainQ) = {}
    BY <1>2 DEF Reports
  <2>2. Chained(mainQ, cfg)
    BY <2>1 DEF Chained
  <2>3. PICK conf : Latest(mainQ, cfg, conf) /\ Settled(conf)
    BY <2>0, <2>2, SettledWhen DEF AccountsInv
  <2>4. conf = cfg
    BY <2>1, <2>3 DEF Latest
  <2> QED BY <1>2, <2>3, <2>4 DEF Settled, Fits
<1>3. LockedFormHasWork
  BY DEF AccountsInv, FormIsAwaited, LockedFormHasWork, Has
<1> QED BY <1>1, <1>2, <1>3 DEF SavedMatches

(***************************************************************************)
(* Both                                                                    *)
(***************************************************************************)

(* For all account ids and bounds: a locked form has work that unlocks it,
   once all is quiet config.toml is as the program shows and no account lacks
   a secret, whatever the keyring refused, and no other secret is left if it
   refused nothing, unless a change overlapped another, an aborted save ran
   on, a write of config.toml failed or the process ended (connect.rs,
   account_setup.rs, config_saver.rs); and a server field that the user typed
   stays as typed until a refill on submit (accounts/form.rs). *)
THEOREM AccountsAreSaved == MCSpec => []AccountsSound
<1> DEFINE I == (part = "accounts" => AccountsInv) /\ (part = "form" => FormInv)
<1>1. MCInit => I
  BY AccountsStarts, FormStarts DEF MCInit
<1>2. I /\ [MCNext]_setupVars => I'
  <2> SUFFICES ASSUME I, [MCNext]_setupVars PROVE I'
    OBVIOUS
  <2>1. part' = part
    BY DEF MCNext, setupVars
  <2>2. ASSUME part = "accounts" PROVE AccountsInv'
    <3>1. CASE AccountsNext
      BY <2>2, <3>1, AccountsStep
    <3>2. CASE UNCHANGED accountVars
      <4>1. UNCHANGED <<cfg, disk, ring, form, formKnown, formQ, mainQ, works, handle, saves, status, snags, began, miseries>>
        BY <3>2 DEF accountVars
      <4>2. AccountsTyped' /\ FormIsKnown' /\ FormIsAwaited'
        BY <2>2, <4>1 DEF AccountsInv, AccountsTyped, ConfsTyped, QueueTyped, WorkTyped, FormTyped, StatusTyped, FormIsKnown, FormIsAwaited
      <4>3. OneAtATime'
        BY <2>2, <4>1 DEF AccountsInv, OneAtATime, Undisturbed
      <4>4. \A conf : Settled(conf) => Settled(conf)'
        BY <4>1 DEF Settled, Fits
      <4>5. SettledAtLast'
        BY <2>2, <4>1, <4>4 DEF AccountsInv, SettledAtLast, Undisturbed
      <4> QED BY <4>2, <4>3, <4>5 DEF AccountsInv
    <3> QED BY <2>2, <3>1, <3>2 DEF MCNext, setupVars
  <2>3. ASSUME part = "form" PROVE FormInv'
    <3>1. CASE FormNext
      BY <2>3, <3>1, FormStep
    <3>2. CASE UNCHANGED fieldVars
      BY <2>3, <3>2 DEF fieldVars, FormInv, FieldsTyped, EditsNoticed, TypedServersKept
    <3> QED BY <2>3, <3>1, <3>2 DEF MCNext, setupVars
  <2> QED BY <2>1, <2>2, <2>3
<1>3. I => AccountsSound
  BY AccountsImplies, FormImplies DEF AccountsSound
<1> QED BY <1>1, <1>2, <1>3, PTL DEF MCSpec
=============================================================================
