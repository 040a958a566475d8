------------------------------ MODULE MC_Setup ------------------------------
(* Model checking of what surrounds a mailbox: signing in, the accounts and    *)
(* the form they are edited in, the process and its single instance, the IPC   *)
(* endpoint and the mock mail server. They share no state, so a behaviour of   *)
(* this module is a behaviour of one of them, the others at rest.              *)
EXTENDS SignIn, Accounts, AccountForm, Process, Ipc, MockServer

VARIABLE part   \* which component moves

setupVars == <<part, signInVars, accountVars, fieldVars, processVars, ipcVars, serverVars>>

MCInit ==
  /\ part \in {"sign in", "accounts", "form", "process", "ipc", "server"}
  /\ SignInInit /\ AccountsInit /\ FormInit /\ ProcessInit /\ IpcInit /\ ServerInit
  /\ part # "ipc" => transport = "socket"
  /\ part # "server" => smtp = NoMail

MCNext ==
  \/ part = "sign in" /\ SignInNext /\ UNCHANGED <<part, accountVars, fieldVars, processVars, ipcVars, serverVars>>
  \/ part = "accounts" /\ AccountsNext /\ UNCHANGED <<part, signInVars, fieldVars, processVars, ipcVars, serverVars>>
  \/ part = "form" /\ FormNext /\ UNCHANGED <<part, signInVars, accountVars, processVars, ipcVars, serverVars>>
  \/ part = "process" /\ ProcessNext /\ UNCHANGED <<part, signInVars, accountVars, fieldVars, ipcVars, serverVars>>
  \/ part = "ipc" /\ IpcNext /\ UNCHANGED <<part, signInVars, accountVars, fieldVars, processVars, serverVars>>
  \/ part = "server" /\ ServerNext /\ UNCHANGED <<part, signInVars, accountVars, fieldVars, processVars, ipcVars>>

MCSpec == MCInit /\ [][MCNext]_setupVars

(* No definition tells one account id from another. *)
Symmetry == Permutations(Ids)

-----------------------------------------------------------------------------
(* What a sign-in ends with is the user's answer to its own page, and a
   connection renews its token with the newest one the provider gave
   (oauth.rs, TokenSource). *)
SignInSound == part = "sign in" => SignInTypeOK /\ SignInIsOwn /\ RefreshesWithNewest

(* The saved accounts are the ones on screen, a locked form has work that
   unlocks it, typed server fields stay (account_setup.rs, form.rs). *)
AccountsSound ==
  /\ part = "accounts" => AccountsTypeOK /\ SavedMatches /\ LockedFormHasWork
  /\ part = "form" => FormTypeOK /\ TypedServersKept

(* A launch that handed its request over is served, no instance obeys a quit
   left for another, and the name and the token of the endpoint lead to its
   one listener (instance.rs, shell.rs, local.rs). *)
InstanceIsOne ==
  /\ part = "process" => ProcessTypeOK /\ HandedOverIsServed /\ InstanceSound
  /\ part = "ipc" => IpcTypeOK /\ EndpointSound

(* The mail server loses no mail that was moved, and tells a client that
   idles (imap_server.rs). *)
ServerSound == part = "server" => ServerTypeOK /\ MovedMailSurvives /\ IdleHears
=============================================================================
