------------------------------- MODULE SignIn -------------------------------
(***************************************************************************)
(* Signing in with Google: the browser round trip through a loopback       *)
(* listener (oauth::begin, PendingAuthorization::finish), and afterwards   *)
(* the access tokens that the connections of one account share             *)
(* (TokenSource, Auth::secret, XOAuth2).                                   *)
(*                                                                         *)
(* A sign-in attempt is a number; its state nonce, PKCE verifier and       *)
(* consent page are told apart by it.  Every attempt's listener may get    *)
(* the port of an earlier one, so a page left open from an earlier attempt *)
(* may redirect to the listener of a later one.  A refresh token is a      *)
(* number too, newest highest; an access token is its expiry.              *)
(***************************************************************************)
EXTENDS Naturals, Sequences, FiniteSets, FiniteSetsExt

CONSTANTS
  Callers,      \* connections of the account: session, body worker, IDLE, SMTP
  NoCaller,
  MaxSignIns,   \* bound: sign-in attempts
  MaxTokens,    \* bound: refresh tokens the provider makes
  MaxClock,     \* bound: the clock, in units of EXPIRY_MARGIN
  MaxTroubles   \* bound: cut requests, restarts and revocations

ASSUME SignInAssumption ==
  /\ NoCaller \notin Callers /\ IsFiniteSet(Callers)
  /\ MaxSignIns \in Nat /\ MaxTokens \in Nat /\ MaxClock \in Nat /\ MaxTroubles \in Nat

VARIABLES
  client,       \* where the OAuth client's id and secret come from
  attempt, stage, code,   \* the attempt, what it is doing, the code it got
  backlog,      \* the connection to the listener that is next (at most one is kept waiting)
  pages,        \* consent pages open in the browser
  redeemed,     \* history: attempt of the last code redeemed, and of its verifier
  declined,     \* history: attempts whose page the user declined
  ended,        \* how the attempt ended
  valid, minted,          \* the provider: the refresh token it takes (0: none), tokens made
  source,       \* the TokenSource: refresh token, cached access token's expiry (0: none)
  waiters, holder,        \* the async mutex's queue, and who holds it and refreshes
  phase, got,   \* per caller
  keyring, issuedAt,      \* the saved refresh token and its issue time (config.toml)
  clock, upsets, troubles

grantVars == <<client, attempt, stage, code, backlog, pages, redeemed, declined, ended>>
tokenVars == <<waiters, holder, phase, got>>
signInVars == <<grantVars, valid, minted, source, tokenVars, keyring, issuedAt, clock, upsets, troubles>>

(* A minute, a day, seven days and two days, shortened: a token may outlive
   the margin, and the warning comes before the sign-in lapses. *)
EXPIRY_MARGIN == 1
MAX_TOKEN_LIFETIME == 2
TESTING_LIFETIME == 2
WARNING_MARGIN == 1

Trouble(what) == troubles < MaxTroubles /\ troubles' = troubles + 1 /\ upsets' = upsets \union {what}
Calm == UNCHANGED <<upsets, troubles>>

-----------------------------------------------------------------------------
(* Which client, and when to warn *)

Sources == <<"Environment", "Config", "Build">>

(* resolve_google_client: the first source with an id that is not blank, and
   the secret of that source or none. *)
ResolveClient(offers) ==
  LET withId == {i \in 1..3 : offers[Sources[i]] \in {"id", "id and secret"}} IN
  IF withId = {} THEN <<"none", "none">>
  ELSE LET s == Sources[Min(withId)] IN <<s, IF offers[s] = "id and secret" THEN s ELSE "none">>

(* refresh_token_expiring_soon; an unknown issue time (0) never warns. *)
ExpiringSoon(issued, now) == issued # 0 /\ now + WARNING_MARGIN >= issued + TESTING_LIFETIME

(* notice: the account that cannot sign in first, else one whose token is about to lapse. *)
Notice ==
  IF \E c \in Callers : phase[c] \in {"expired", "refused"} THEN "could not sign in"
  ELSE IF ExpiringSoon(issuedAt, clock) THEN "expires soon" ELSE "none"

(* parse_token_response: a lifetime off the network is clamped. *)
Lifetime(seconds) == IF seconds > MAX_TOKEN_LIFETIME THEN MAX_TOKEN_LIFETIME ELSE seconds

(* ... and an error is either final (the sign-in is over) or worth trying again. *)
TokenError(error) == IF error \in {"invalid_grant", "unauthorized_client"} THEN "expired" ELSE "failed"

-----------------------------------------------------------------------------
(* The browser round trip *)

(* What the three sources may hold; a secret without an id is no client. *)
Offers == [Environment : {"secret", "id and secret"}, Config : {"blank", "id"}, Build : {"blank", "id and secret"}]

(* begin: a listener on a free port, a fresh state and verifier, the consent page. *)
Begin ==
  /\ stage = "idle" /\ attempt < MaxSignIns /\ Calm
  /\ \E offers \in Offers : client' = ResolveClient(offers) /\ client'[1] # "none"
  /\ attempt' = attempt + 1 /\ stage' = "waiting" /\ backlog' = <<>> /\ code' = 0
  /\ pages' = pages \union {attempt + 1} /\ ended' = "none"
  /\ UNCHANGED <<redeemed, declined, valid, minted, source, tokenVars, keyring, issuedAt, clock>>

(* What a connection to the listener says: its path and query. *)
Hit(kind, st, what) == [kind |-> kind, st |-> st, what |-> what]
StrayHits == {Hit("silent", 0, "nothing"), Hit("garbled", 0, "nothing"), Hit("other path", 0, "nothing")}

Arrives(hit) ==
  /\ stage = "waiting" /\ backlog = <<>> /\ Calm
  /\ backlog' = Append(backlog, hit)
  /\ UNCHANGED <<client, attempt, stage, code, redeemed, ended, valid, minted, source, tokenVars, keyring, issuedAt, clock>>

(* The user answers a consent page: its own redirect carries its state. *)
AnswersPage(k, what) ==
  /\ k \in pages /\ pages' = pages \ {k}
  /\ declined' = IF what = "error" THEN declined \union {k} ELSE declined
  /\ Arrives(Hit("redirect", k, what))

(* A browser's favicon fetch, or anything else on this machine. *)
Stray(hit) == Arrives(hit) /\ UNCHANGED <<pages, declined>>

(* Mutant of Verdict: the state is not compared. *)
VerdictAnyState(hit) ==
  IF hit.kind # "redirect" THEN "ignored"
  ELSE IF hit.what = "error" THEN "declined" ELSE IF hit.what = "code" THEN "code" ELSE "ignored"

(* await_redirect on one connection: answered and ignored, unless it is the
   redirect of this attempt. *)
Verdict(hit) ==
  IF hit.kind # "redirect" \/ hit.st # attempt THEN "ignored"
  ELSE IF hit.what = "error" THEN "declined" ELSE IF hit.what = "code" THEN "code" ELSE "ignored"

AwaitRedirect ==
  /\ stage = "waiting" /\ backlog # <<>> /\ Calm
  /\ LET hit == Head(backlog) verdict == Verdict(Head(backlog)) IN
     /\ stage' = CASE verdict = "code" -> "exchanging" [] verdict = "declined" -> "idle" [] OTHER -> "waiting"
     /\ code' = IF verdict = "code" THEN hit.st ELSE code
     /\ ended' = IF verdict = "declined" THEN "declined" ELSE ended
     /\ backlog' = IF verdict = "ignored" THEN Tail(backlog) ELSE <<>>
  /\ UNCHANGED <<client, attempt, pages, redeemed, declined, valid, minted, source, tokenVars, keyring, issuedAt, clock>>

(* AUTHORIZE_TIMEOUT, or Cancel in the form: the listener is closed. *)
AbandonSignIn ==
  /\ stage \in {"waiting", "exchanging"} /\ Calm
  /\ stage' = "idle" /\ backlog' = <<>> /\ ended' = "abandoned"
  /\ UNCHANGED <<client, attempt, code, pages, redeemed, declined, valid, minted, source, tokenVars, keyring, issuedAt, clock>>

(* finish: code and verifier for tokens; from_grant insists on a refresh
   token, and the form saves it with its issue time. *)
ExchangeOk(seconds) ==
  /\ stage = "exchanging" /\ code = attempt /\ minted < MaxTokens /\ Calm
  /\ stage' = "idle" /\ redeemed' = <<code, attempt>> /\ ended' = "signed in"
  /\ minted' = minted + 1 /\ valid' = minted + 1 /\ keyring' = minted + 1 /\ issuedAt' = clock
  /\ source' = [refresh |-> minted + 1, exp |-> clock + Lifetime(seconds)]
  /\ waiters' = <<>> /\ holder' = NoCaller
  /\ phase' = [c \in Callers |-> "off"] /\ got' = [c \in Callers |-> 0]
  /\ UNCHANGED <<client, attempt, code, backlog, pages, declined, clock>>

(* Google refuses (a code of another attempt does not match the verifier),
   cannot be reached, or gives no refresh token. *)
ExchangeFails ==
  /\ stage = "exchanging" /\ Calm
  /\ stage' = "idle" /\ redeemed' = <<code, attempt>> /\ ended' = "refused"
  /\ UNCHANGED <<client, attempt, code, backlog, pages, declined, valid, minted, source, tokenVars, keyring, issuedAt, clock>>

-----------------------------------------------------------------------------
(* Access tokens *)

(* Auth::secret is asked for each connection that is opened. *)
Ask(c) ==
  /\ source.refresh # 0 /\ phase[c] = "off" /\ Calm
  /\ phase' = [phase EXCEPT ![c] = "queued"] /\ waiters' = Append(waiters, c)
  /\ UNCHANGED <<grantVars, valid, minted, source, holder, got, keyring, issuedAt, clock>>

(* The lock is taken: a token that is fresh enough is handed out at once,
   otherwise the refresh token is sent and the lock kept. *)
TakeLock ==
  /\ holder = NoCaller /\ waiters # <<>> /\ Calm
  /\ LET c == Head(waiters) IN
     IF source.exp > clock + EXPIRY_MARGIN
     THEN /\ phase' = [phase EXCEPT ![c] = "has token"] /\ got' = [got EXCEPT ![c] = source.exp]
          /\ UNCHANGED holder
     ELSE /\ phase' = [phase EXCEPT ![c] = "refreshing"] /\ holder' = c
          /\ UNCHANGED got
  /\ waiters' = Tail(waiters)
  /\ UNCHANGED <<grantVars, valid, minted, source, keyring, issuedAt, clock>>

(* rotate, and the new access token.  No caller registers on_rotation, so the
   keyring keeps the old refresh token. *)
Rotate(rotated, exp) == [refresh |-> IF rotated # 0 THEN rotated ELSE source.refresh, exp |-> exp]

(* Whether the provider still takes the refresh token that was sent. *)
Taken == source.refresh = valid /\ (issuedAt # 0 => clock < issuedAt + TESTING_LIFETIME)

Refreshed(seconds, rotates) ==
  /\ holder # NoCaller /\ Taken /\ (rotates => minted < MaxTokens) /\ Calm
  /\ minted' = IF rotates THEN minted + 1 ELSE minted
  /\ valid' = IF rotates THEN minted + 1 ELSE valid
  /\ source' = Rotate(IF rotates THEN minted + 1 ELSE 0, clock + Lifetime(seconds))
  /\ phase' = [phase EXCEPT ![holder] = "has token"] /\ got' = [got EXCEPT ![holder] = clock + Lifetime(seconds)]
  /\ holder' = NoCaller
  /\ UNCHANGED <<grantVars, waiters, keyring, issuedAt, clock>>

(* The refresh is refused for good, or fails for now; the lock is given up. *)
RefreshFails(error) ==
  /\ holder # NoCaller /\ (error = "invalid_grant" => ~Taken) /\ Calm
  /\ phase' = [phase EXCEPT ![holder] = TokenError(error)]
  /\ holder' = NoCaller
  /\ UNCHANGED <<grantVars, valid, minted, source, waiters, got, keyring, issuedAt, clock>>

(* The task that holds the lock is dropped, or its answer is lost, while the
   provider may have replaced the refresh token already. *)
RefreshCut ==
  /\ holder # NoCaller /\ Taken /\ minted < MaxTokens /\ Trouble("cut")
  /\ minted' = minted + 1 /\ valid' = minted + 1
  /\ phase' = [phase EXCEPT ![holder] = "off"] /\ holder' = NoCaller
  /\ UNCHANGED <<grantVars, source, waiters, got, keyring, issuedAt, clock>>

(* XOAuth2::process: the first challenge gets the token, any later one an
   empty line, after which the server says NO. *)
Challenge(c) ==
  /\ phase[c] \in {"has token", "challenged"} /\ Calm
  /\ phase' = [phase EXCEPT ![c] = IF phase[c] = "challenged" THEN "refused" ELSE IF got[c] > clock THEN "in" ELSE "challenged"]
  /\ UNCHANGED <<grantVars, valid, minted, source, waiters, holder, got, keyring, issuedAt, clock>>

(* The connection closes, or is tried again later. *)
HangsUp(c) ==
  /\ phase[c] \in {"in", "refused", "failed", "expired"} /\ Calm
  /\ phase' = [phase EXCEPT ![c] = "off"] /\ got' = [got EXCEPT ![c] = 0]
  /\ UNCHANGED <<grantVars, valid, minted, source, waiters, holder, keyring, issuedAt, clock>>

(* The user revokes access on Google's page. *)
Revoke ==
  /\ valid # 0 /\ Trouble("revoked") /\ valid' = 0
  /\ UNCHANGED <<grantVars, minted, source, tokenVars, keyring, issuedAt, clock>>

(* saved_auth: the process starts again from the keyring. *)
RestartClient ==
  /\ keyring # 0 /\ Trouble(IF keyring # source.refresh THEN "rotation not saved" ELSE "restarted")
  /\ source' = [refresh |-> keyring, exp |-> 0]
  /\ stage' = "idle" /\ backlog' = <<>> /\ code' = 0
  /\ ended' = IF stage = "idle" THEN ended ELSE "abandoned"
  /\ waiters' = <<>> /\ holder' = NoCaller
  /\ phase' = [c \in Callers |-> "off"] /\ got' = [c \in Callers |-> 0]
  /\ UNCHANGED <<client, attempt, pages, redeemed, declined, valid, minted, keyring, issuedAt, clock>>

Tick ==
  /\ clock < MaxClock /\ Calm /\ clock' = clock + 1
  /\ UNCHANGED <<grantVars, valid, minted, source, tokenVars, keyring, issuedAt>>

SignInInit ==
  /\ client = <<"none", "none">> /\ attempt = 0 /\ stage = "idle" /\ code = 0 /\ backlog = <<>>
  /\ pages = {} /\ redeemed = <<0, 0>> /\ declined = {} /\ ended = "none"
  /\ valid = 0 /\ minted = 0 /\ source = [refresh |-> 0, exp |-> 0]
  /\ waiters = <<>> /\ holder = NoCaller
  /\ phase = [c \in Callers |-> "off"] /\ got = [c \in Callers |-> 0]
  /\ keyring = 0 /\ issuedAt = 0 /\ clock = 1 /\ upsets = {} /\ troubles = 0

SignInNext ==
  \/ Begin \/ AwaitRedirect \/ AbandonSignIn \/ ExchangeFails \/ TakeLock \/ RefreshCut \/ Revoke \/ RestartClient \/ Tick
  \/ \E k \in 1..MaxSignIns, what \in {"code", "error", "nothing"} : AnswersPage(k, what)
  \/ \E hit \in StrayHits : Stray(hit)
  \/ \E seconds \in {1, 4} : ExchangeOk(seconds)
  \/ \E seconds \in {1, 4}, rotates \in BOOLEAN : Refreshed(seconds, rotates)
  \/ \E error \in {"invalid_grant", "unavailable"} : RefreshFails(error)
  \/ \E c \in Callers : Ask(c) \/ Challenge(c) \/ HangsUp(c)

SignInSpec == SignInInit /\ [][SignInNext]_signInVars

-----------------------------------------------------------------------------
(* Types; one refresh at a time, by the caller that holds the lock. *)
SignInTypeOK ==
  /\ stage \in {"idle", "waiting", "exchanging"} /\ (stage # "waiting" => backlog = <<>>)
  /\ (client[2] = "none" \/ client[2] = client[1])
  /\ phase \in [Callers -> {"off", "queued", "refreshing", "has token", "challenged", "in", "refused", "failed", "expired"}]
  /\ \A c \in Callers : phase[c] = "refreshing" <=> holder = c
  /\ upsets \subseteq {"cut", "revoked", "restarted", "rotation not saved"}

(* A sign-in redeems the code of its own consent page only, and a page of an
   earlier attempt, a favicon fetch or any other connection to the port never
   ends it: an attempt ends declined only when its own page was declined
   (begin, await_redirect). *)
SignInIsOwn ==
  /\ redeemed[1] = redeemed[2]
  /\ (ended = "declined" => attempt \in declined)

(* Whoever refreshes sends the refresh token the provider takes now, whatever
   rotations other connections met before: otherwise an answer was lost, the
   user revoked it, a rotated token was never saved before a restart, or the
   notice bar has been warning (access_token, rotate, account notice). *)
RefreshesWithNewest ==
  holder # NoCaller /\ ~Taken => upsets # {} \/ Notice # "none"
=============================================================================
