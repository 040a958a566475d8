----------------------------- MODULE AccountForm ----------------------------
(***************************************************************************)
(* The fields of the account form: server settings guessed from the        *)
(* address, the ones the user typed, and the check that turns the form     *)
(* into an account.                                                        *)
(*                                                                         *)
(* Hosts are names of providers; "typed" is a host the user typed, "" an   *)
(* empty field.  The form fills fields in itself, and the edits report     *)
(* those changes too: `filled` is what tells them from the user's.         *)
(***************************************************************************)
EXTENDS Naturals, FiniteSets

CONSTANT MaxTyping   \* bound: what the user does in the form

ASSUME AccountFormAssumption == MaxTyping \in Nat

VARIABLES
  email, auth, password,   \* the sign-in fields
  servers,                 \* the server fields
  filled,                  \* as last filled in by a preset
  edited,                  \* servers_edited: presets no longer overwrite them
  view,                    \* which optional parts are showing
  sent,                    \* the account of the last Connect, or what was wrong
  typed,                   \* history: what the user typed into a server field
  refilled,                \* history: Connect found no IMAP host and used the preset
  typing

fieldVars == <<email, auth, password, servers, filled, edited, view, sent, typed, refilled, typing>>

ServerFields == {"imapHost", "smtpHost", "smtpPort", "tls"}
NotTyped == [f \in ServerFields |-> "not typed"]
Fields(imap, smtp, port, tls) == [imapHost |-> imap, smtpHost |-> smtp, smtpPort |-> port, tls |-> tls]
EmptyServers == Fields("", "", "465", "Ssl")

Emails == {"", "no domain", "me@gmail", "me@outlook", "me@example"}

(* PROVIDERS, by what tells them apart: Google sign-in, and a STARTTLS port. *)
Provider(e) ==
  CASE e = "me@gmail" -> [known |-> TRUE, servers |-> Fields("gmail", "gmail", "465", "Ssl"), auth |-> "GoogleOAuth"]
    [] e = "me@outlook" -> [known |-> TRUE, servers |-> Fields("outlook", "outlook", "587", "StartTls"), auth |-> "Password"]
    [] OTHER -> [known |-> FALSE, servers |-> Fields("imap.example", "smtp.example", "465", "Ssl"), auth |-> "Password"]

(* detect: nothing while the address has no usable domain. *)
Detect(e) == IF e \in {"", "no domain"} THEN {} ELSE {Provider(e)}

(* security_for_smtp_port *)
SecurityFor(port, tls) == CASE port = "465" -> "Ssl" [] port = "587" -> "StartTls" [] OTHER -> tls

(* to_account: the first field that is wrong, or "ok". *)
Problem(e, how, pass, s) ==
  IF e \in {"", "no domain"} THEN "Email"
  ELSE IF s.imapHost = "" THEN "ImapHost"
  ELSE IF s.smtpHost = "" THEN "SmtpHost"
  ELSE IF s.smtpPort = "0" THEN "SmtpPort"
  ELSE IF how = "Password" /\ ~pass THEN "Password"
  ELSE IF how = "GoogleOAuth" /\ s.imapHost # "gmail" THEN "ImapHost"
  ELSE "ok"

Types == typing < MaxTyping /\ typing' = typing + 1

(* apply: hosts, ports, security and sign-in method of a preset. *)
Applied(p) ==
  /\ servers' = p.servers /\ filled' = p.servers /\ auth' = p.auth
  /\ view' = [view EXCEPT !.password = p.auth = "Password", !.servers = @ \/ ~p.known]

(* email_changed: a guess (an unknown provider) waits until the field is left. *)
EmailChanged(e, settled) ==
  \/ /\ (edited \/ {p \in Detect(e) : p.known \/ settled} = {}) /\ UNCHANGED <<servers, filled, auth, view>>
  \/ /\ ~edited /\ \E p \in {q \in Detect(e) : q.known \/ settled} : Applied(p)

TypeEmail(e) ==
  /\ Types /\ e # email /\ email' = e /\ EmailChanged(e, FALSE)
  /\ UNCHANGED <<password, edited, sent, typed, refilled>>

LeaveEmail ==
  /\ EmailChanged(email, TRUE)
  /\ UNCHANGED <<email, password, edited, sent, typed, refilled, typing>>

TypePassword ==
  /\ Types /\ view.password /\ password' = ~password
  /\ UNCHANGED <<email, auth, servers, filled, edited, view, sent, typed, refilled>>

ChooseAuth(how) ==
  /\ Types /\ how # auth /\ auth' = how /\ view' = [view EXCEPT !.password = how = "Password"]
  /\ UNCHANGED <<email, password, servers, filled, edited, sent, typed, refilled>>

ShowServers ==
  /\ Types /\ view' = [view EXCEPT !.servers = ~@]
  /\ UNCHANGED <<email, auth, password, servers, filled, edited, sent, typed, refilled>>

(* servers_edited, for a field the user changed: a new SMTP port brings its
   usual security.  (For the form's own changes the fields are as filled.) *)
TypeServer(f, value) ==
  /\ Types /\ view.servers /\ servers[f] # value
  /\ LET now == [servers EXCEPT ![f] = value] IN
     /\ servers' = [now EXCEPT !.tls = IF f = "smtpPort" THEN SecurityFor(value, @) ELSE @]
     /\ edited' = (edited \/ now # filled)
     /\ filled' = now
     /\ typed' = [typed EXCEPT ![f] = value, !.tls = IF f = "smtpPort" THEN "not typed" ELSE IF f = "tls" THEN value ELSE @]
  /\ UNCHANGED <<email, auth, password, view, sent, refilled>>

(* Connect: an empty IMAP host takes the preset, then the form is checked. *)
SubmitForm ==
  /\ Types
  /\ LET presets == IF servers.imapHost = "" THEN Detect(email) ELSE {} IN
     \/ /\ presets = {} /\ UNCHANGED <<servers, filled, auth, view, refilled>>
        /\ sent' = [problem |-> Problem(email, auth, password, servers), servers |-> servers, auth |-> auth]
     \/ /\ \E p \in presets :
             /\ Applied(p)
             /\ sent' = [problem |-> Problem(email, p.auth, password, p.servers), servers |-> p.servers, auth |-> p.auth]
        /\ refilled' = TRUE
  /\ UNCHANGED <<email, password, edited, typed>>

FormInit ==
  /\ email = "" /\ auth = "Password" /\ password = FALSE
  /\ servers = EmptyServers /\ filled = EmptyServers /\ edited = FALSE
  /\ view = [password |-> TRUE, servers |-> FALSE]
  /\ sent = [problem |-> "not sent", servers |-> EmptyServers, auth |-> "Password"]
  /\ typed = NotTyped /\ refilled = FALSE /\ typing = 0

FormNext ==
  \/ LeaveEmail \/ TypePassword \/ ShowServers \/ SubmitForm
  \/ \E e \in Emails : TypeEmail(e)
  \/ \E how \in {"Password", "GoogleOAuth"} : ChooseAuth(how)
  \/ \E f \in {"imapHost", "smtpHost"}, value \in {"", "typed"} : TypeServer(f, value)
  \/ \E value \in {"0", "465", "587"} : TypeServer("smtpPort", value)
  \/ \E value \in {"Ssl", "None"} : TypeServer("tls", value)

FormSpec == FormInit /\ [][FormNext]_fieldVars

-----------------------------------------------------------------------------
(* Types; the password is asked for exactly when it is the method. *)
FormTypeOK ==
  /\ auth \in {"Password", "GoogleOAuth"} /\ view.password = (auth = "Password")
  /\ edited \in BOOLEAN /\ password \in BOOLEAN /\ DOMAIN servers = ServerFields

(* What the user typed into a server field stays there, whatever address is
   typed or left afterwards and in whatever order, unless Connect found the
   IMAP host empty; and what Connect sends is an account that can be tried
   (email_changed, servers_edited, apply, to_account). *)
TypedServersKept ==
  /\ ~refilled => \A f \in ServerFields : typed[f] # "not typed" => servers[f] = typed[f]
  /\ sent.problem = "ok" =>
       /\ sent.servers.imapHost # "" /\ sent.servers.smtpHost # "" /\ sent.servers.smtpPort # "0"
       /\ (sent.auth = "GoogleOAuth" => sent.servers.imapHost = "gmail")
=============================================================================
