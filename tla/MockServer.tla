----------------------------- MODULE MockServer -----------------------------
(***************************************************************************)
(* The mail server of the integration tests (crates/mail-mock-server): one *)
(* store behind a mutex, IMAP and SMTP connections that take the lock once *)
(* per critical section, and the broadcast that wakes the idling ones.     *)
(*                                                                         *)
(* A mail is a number; copies of it have the same one.  A command line is  *)
(* complete, or lacks an argument and is answered BAD.  Every IMAP client  *)
(* knows a UID from its last FETCH, and marks a message as deleted only     *)
(* after it copied that message, as imap.rs::move_message does; all else   *)
(* it sends is arbitrary.                                                  *)
(***************************************************************************)
EXTENDS Naturals, Sequences, FiniteSets, Lists

CONSTANTS
  Clients,      \* IMAP connections
  NotifyCap,    \* capacity of the broadcast channel
  MaxMail,      \* bound: messages in one mailbox so far (UIDs handed out)
  MaxCopies,    \* bound: copies made by COPY
  MaxSteps      \* bound: lines the server reads, and answers it makes

ASSUME MockAssumption == NotifyCap \in Nat \ {0} /\ MaxMail \in Nat \ {0} /\ MaxCopies \in Nat /\ MaxSteps \in Nat

VARIABLES
  boxes,        \* per mailbox: its messages in order and uid_next; next = 0: there is none
  imap,         \* per client: where its connection stands, and its broadcast receiver
  smtp,         \* the SMTP connection
  delivered,    \* mails the server took in
  copies,       \* copies made
  steps,        \* steps taken
  dropNext      \* drop_next_rfc822_fetch

serverVars == <<boxes, imap, smtp, delivered, copies, dropNext, steps>>

NoBox == "none"
Boxes == {"INBOX", "Trash", "Other"}      \* "Other" is not among those add_user makes
SystemFlags == {"Seen", "Deleted"}        \* two of the five
Star == 1000                              \* "*" in a set; u32::MAX in UID FETCH
Exists(b) == boxes[b].next # 0
Msgs(b) == boxes[b].msgs
Uids(b) == {Msgs(b)[i].uid : i \in 1..Len(Msgs(b))}

Off == [at |-> "off", user |-> FALSE, box |-> NoBox, known |-> {}, uid |-> 0, copied |-> 0, 
        news |-> <<>>, told |-> 0, missed |-> FALSE, lagged |-> FALSE]
NoMail == [at |-> "off", auth |-> FALSE, rcpts |-> 0]

-----------------------------------------------------------------------------
(* The store *)

(* Mutant of Append_: a UID is the place in the mailbox. *)
AppendAtLen(box, mail, flags) ==
  LET n == Len(box.msgs) + 1 IN
  [next |-> n + 1, msgs |-> Append(box.msgs, [uid |-> n, mail |-> mail, flags |-> flags])]

(* Mailbox::append, and the same in copy_message; a mailbox not yet there is
   made (or_insert_with). *)
Append_(box, mail, flags) ==
  LET n == IF box.next = 0 THEN 1 ELSE box.next IN
  [next |-> n + 1, msgs |-> Append(box.msgs, [uid |-> n, mail |-> mail, flags |-> flags])]

(* notify.send: every subscribed receiver gets the name; one that is behind
   by the capacity loses its oldest entry and will be told it lagged. *)
Notified(conns, b) ==
  [c \in Clients |->
     IF conns[c].at # "idling" THEN conns[c]
     ELSE IF Len(conns[c].news) < NotifyCap THEN [conns[c] EXCEPT !.news = Append(@, b)]
     ELSE [conns[c] EXCEPT !.news = Append(Tail(@), b), !.lagged = TRUE, !.missed = @ \/ conns[c].news[1] = conns[c].box]]

(* Store::deliver: the message, then the broadcast; once for every recipient. *)
Deliver(conns, b, mail, times) ==
  LET once == Append_(boxes[b], mail, {}) IN
  /\ boxes' = [boxes EXCEPT ![b] = IF times = 2 THEN Append_(once, mail, {}) ELSE once]
  /\ boxes'[b].next <= MaxMail + 1
  /\ imap' = IF times = 2 THEN Notified(Notified(conns, b), b) ELSE Notified(conns, b)

(* Mailbox::store_flags: remove before add. *)
StoreFlags(flags, add, remove) == (flags \ remove) \union add

(* The add and remove lists of the STORE modes. *)
AddOf(mode, flags) == IF mode = "-" THEN {} ELSE flags
RemoveOf(mode, flags) == CASE mode = "+" -> {} [] mode = "-" -> flags [] OTHER -> SystemFlags

(* Mailbox::expunge: what it keeps (retain). *)
Kept(box) == [box EXCEPT !.msgs = Picked(@, {i \in 1..Len(@) : "Deleted" \notin @[i].flags})]

-----------------------------------------------------------------------------
(* Command lines of an IMAP connection.  An answer that changes nothing is no
   step: BAD for a missing argument, NO before LOGIN, without a selected
   mailbox or for one that is not there, and OK to LIST, STATUS, NOOP and
   CAPABILITY. *)

Stays(c) == UNCHANGED <<smtp, delivered, copies, dropNext>>
Ready(c) == imap[c].at = "ready"
Becomes(c, r) == imap' = [imap EXCEPT ![c] = r]

(* parse_range: what is no number counts as the start; "n:*" is "n:n". *)
ParseRange(set) == IF set[2] = Star THEN <<set[1], set[1]>> ELSE set

(* spawn accepts; the connection greets. *)
Accept_(c) ==
  /\ imap[c].at = "off" /\ Becomes(c, [Off EXCEPT !.at = "ready"])
  /\ UNCHANGED boxes /\ Stays(c)

(* The client closes, LOGOUT, or a read fails, whatever was going on. *)
Close(c) ==
  /\ imap[c].at # "off" /\ Becomes(c, Off)
  /\ UNCHANGED boxes /\ Stays(c)

(* check_login and check_xoauth2: the tokens are independent of the password. *)
Credentials == {"password", "token", "garbled"}
CheckLogin(cred) == cred = "password"
CheckXoauth2(cred) == cred = "token"

(* LOGIN; a failure leaves a user who is logged in logged in. *)
Login(c, cred) ==
  /\ Ready(c) /\ Becomes(c, [imap[c] EXCEPT !.user = @ \/ CheckLogin(cred)])
  /\ UNCHANGED boxes /\ Stays(c)

(* AUTHENTICATE XOAUTH2 without an initial response: the continuation ... *)
Authenticate(c) ==
  /\ Ready(c) /\ Becomes(c, [imap[c] EXCEPT !.at = "token"])
  /\ UNCHANGED boxes /\ Stays(c)

(* ... the response, or a rejected token's error, which the client acknowledges ... *)
Token(c, cred) ==
  /\ imap[c].at = "token"
  /\ IF CheckXoauth2(cred) THEN Becomes(c, [imap[c] EXCEPT !.at = "ready", !.user = TRUE])
     ELSE Becomes(c, [imap[c] EXCEPT !.at = "rejected"])
  /\ UNCHANGED boxes /\ Stays(c)

(* ... before the tagged NO. *)
Acknowledge(c) ==
  /\ imap[c].at = "rejected" /\ Becomes(c, [imap[c] EXCEPT !.at = "ready"])
  /\ UNCHANGED boxes /\ Stays(c)

(* EXAMINE, SELECT: a mailbox that is not there leaves the old one selected. *)
Select(c, b) ==
  /\ Ready(c) /\ imap[c].user
  /\ Exists(b) /\ Becomes(c, [imap[c] EXCEPT !.box = b, !.known = {}, !.copied = 0])
  /\ UNCHANGED boxes /\ Stays(c)

(* FETCH of a sequence set: the messages of a snapshot at these places. *)
Fetch(c, set) ==
  /\ Ready(c) /\ imap[c].box # NoBox
  /\ LET range == ParseRange(set)
         ms == Msgs(imap[c].box) IN
     Becomes(c, [imap[c] EXCEPT !.known = {ms[i].uid : i \in {k \in 1..Len(ms) : k >= range[1] /\ k <= range[2]}}])
  /\ UNCHANGED boxes /\ Stays(c)

(* UID FETCH of headers; "n:*" has no end here. *)
UidFetch(c, set) ==
  /\ Ready(c) /\ imap[c].box # NoBox
  /\ Becomes(c, [imap[c] EXCEPT !.known = {u \in Uids(imap[c].box) : u >= set[1] /\ u <= set[2]}])
  /\ UNCHANGED boxes /\ Stays(c)

(* UID FETCH of a whole message when the fault injection is armed: no answer. *)
UidFetchDropped(c) ==
  /\ Ready(c) /\ imap[c].box # NoBox /\ dropNext
  /\ Becomes(c, Off) /\ dropNext' = FALSE
  /\ UNCHANGED <<boxes, smtp, delivered, copies>>

(* APPEND: "+ send literal data", the literal, then the delivery. *)
AppendLiteral(c) ==
  /\ Ready(c) /\ imap[c].user /\ Becomes(c, [imap[c] EXCEPT !.at = "literal"])
  /\ UNCHANGED boxes /\ Stays(c)

AppendEnd(c, b) ==
  /\ imap[c].at = "literal" /\ Deliver([imap EXCEPT ![c].at = "ready"], b, delivered + 1, 1) /\ delivered' = delivered + 1
  /\ UNCHANGED <<smtp, copies, dropNext>>

(* STORE: the messages a set names. *)
Candidates(ms, isUid, set) ==
  LET range == ParseRange(set) IN
  {i \in 1..Len(ms) : IF isUid THEN ms[i].uid = range[1] ELSE i >= range[1] /\ i <= range[2]}

(* ... and their flags, changed. *)
Marked(ms, hit, mode, flags) ==
  [i \in 1..Len(ms) |->
     IF i \in hit THEN [ms[i] EXCEPT !.flags = StoreFlags(@, AddOf(mode, flags), RemoveOf(mode, flags))] ELSE ms[i]]

(* STORE, UID STORE; the client deletes only what it copied. *)
StoreCommand(c, isUid, set, mode, flags) ==
  /\ Ready(c) /\ imap[c].box # NoBox
  /\ ("Deleted" \in flags /\ mode # "-") => (isUid /\ set = <<imap[c].copied, imap[c].copied>>)
  /\ isUid => set[1] \in imap[c].known /\ set[1] = set[2]
  /\ LET b == imap[c].box
         hit == Candidates(Msgs(b), isUid, set) IN
     boxes' = [boxes EXCEPT ![b].msgs = Marked(@, hit, mode, flags)]
  /\ UNCHANGED imap /\ Stays(c)

(* COPY, UID COPY: a place is resolved in a critical section of its own ... *)
Copy(c, isUid, n) ==
  /\ Ready(c) /\ imap[c].box # NoBox
  /\ IF isUid THEN n \in imap[c].known ELSE n <= Len(Msgs(imap[c].box))
  /\ Becomes(c, [imap[c] EXCEPT !.at = "copying", !.uid = IF isUid THEN n ELSE Msgs(imap[c].box)[n].uid])
  /\ UNCHANGED boxes /\ Stays(c)

(* Mutant of CopyMessage: the copy is not announced. *)
CopyMessageQuietly(c, m, dest) ==
  /\ boxes' = [boxes EXCEPT ![dest] = Append_(@, m.mail, m.flags)]
  /\ imap' = [imap EXCEPT ![c].at = "ready", ![c].copied = m.uid]

(* copy_message: a fresh UID, the flags carried over, the broadcast. *)
CopyMessage(c, m, dest) ==
  /\ boxes' = [boxes EXCEPT ![dest] = Append_(@, m.mail, m.flags)]
  /\ imap' = Notified([imap EXCEPT ![c].at = "ready", ![c].copied = m.uid], dest)

(* ... and the message is looked up again in the next one. *)
CopyEnd(c, dest) ==
  /\ imap[c].at = "copying"
  /\ LET ms == Msgs(imap[c].box) IN
     IF imap[c].uid \in Uids(imap[c].box)
     THEN \E i \in 1..Len(ms) : ms[i].uid = imap[c].uid /\ CopyMessage(c, ms[i], dest) /\ copies' = copies + 1
     ELSE Becomes(c, [imap[c] EXCEPT !.at = "ready"]) /\ UNCHANGED <<boxes, copies>>
  /\ copies' <= MaxCopies /\ boxes'[dest].next <= MaxMail + 1
  /\ UNCHANGED <<smtp, delivered, dropNext>>

(* EXPUNGE, UID EXPUNGE: every deleted message, whoever deleted it. *)
Expunge(c) ==
  /\ Ready(c) /\ imap[c].box # NoBox
  /\ boxes' = [boxes EXCEPT ![imap[c].box] = Kept(@)]
  /\ UNCHANGED imap /\ Stays(c)

-----------------------------------------------------------------------------
(* IDLE *)

(* "+ idling" is written ... *)
Idle(c) ==
  /\ Ready(c) /\ imap[c].user /\ imap[c].box # NoBox
  /\ Becomes(c, [imap[c] EXCEPT !.at = "subscribing"])
  /\ UNCHANGED boxes /\ Stays(c)

(* ... before the connection subscribes. *)
Subscribe(c) ==
  /\ imap[c].at = "subscribing"
  /\ Becomes(c, [imap[c] EXCEPT !.at = "idling", !.told = boxes[imap[c].box].next, !.missed = FALSE, !.lagged = FALSE])
  /\ UNCHANGED boxes /\ Stays(c)

(* changes.recv: Lagged is passed over; the selected mailbox's name is an EXISTS. *)
Recv(c) ==
  /\ imap[c].at = "idling"
  /\ \/ imap[c].lagged /\ Becomes(c, [imap[c] EXCEPT !.lagged = FALSE])
     \/ /\ ~imap[c].lagged /\ imap[c].news # <<>>
        /\ LET own == imap[c].news[1] = imap[c].box IN
           Becomes(c, [imap[c] EXCEPT !.news = Tail(@), !.told = IF own THEN boxes[imap[c].box].next ELSE @, !.missed = @ /\ ~own])
  /\ UNCHANGED boxes /\ Stays(c)

(* DONE; anything else is ignored while idling. *)
Done(c) ==
  /\ imap[c].at = "idling"
  /\ Becomes(c, [imap[c] EXCEPT !.at = "ready", !.news = <<>>, !.told = 0, !.missed = FALSE, !.lagged = FALSE])
  /\ UNCHANGED boxes /\ Stays(c)

-----------------------------------------------------------------------------
(* The SMTP connection *)

SmtpOnly == UNCHANGED <<boxes, imap, delivered, copies, dropNext>>

(* The connection opens, and closes or says QUIT. *)
SmtpOpen == smtp.at = "off" /\ smtp' = [NoMail EXCEPT !.at = "ready"] /\ SmtpOnly
SmtpClose == smtp.at = "ready" /\ smtp' = NoMail /\ SmtpOnly

(* AUTH PLAIN, AUTH XOAUTH2: a failure takes the sign-in back. *)
AuthenticatePlain(cred) == CheckLogin(cred)
SmtpAuth(xoauth2, cred) ==
  /\ smtp.at = "ready"
  /\ smtp' = [smtp EXCEPT !.auth = IF xoauth2 THEN CheckXoauth2(cred) ELSE AuthenticatePlain(cred)] /\ SmtpOnly

(* MAIL FROM (530 unless signed in) and RSET begin a new envelope. *)
MailFrom == smtp.at = "ready" /\ smtp.auth /\ smtp' = [smtp EXCEPT !.rcpts = 0] /\ SmtpOnly
Rset == smtp.at = "ready" /\ smtp' = [smtp EXCEPT !.rcpts = 0] /\ SmtpOnly

(* RCPT TO: an address in angle brackets is one more recipient. *)
RcptTo == smtp.at = "ready" /\ smtp.auth /\ smtp.rcpts < 2 /\ smtp' = [smtp EXCEPT !.rcpts = @ + 1] /\ SmtpOnly

(* DATA: 354, or 503 without a sign-in or a recipient. *)
Data == smtp.at = "ready" /\ smtp.auth /\ smtp.rcpts > 0 /\ smtp' = [smtp EXCEPT !.at = "data"] /\ SmtpOnly

(* read_dot_terminated_body: the connection ends before the final dot. *)
DataCut == smtp.at = "data" /\ smtp' = NoMail /\ SmtpOnly

(* The final dot: every recipient's copy goes to INBOX, under one lock; the
   recipients stay for a next DATA. *)
DataEnd ==
  /\ smtp.at = "data" /\ smtp' = [smtp EXCEPT !.at = "ready"]
  /\ Deliver(imap, "INBOX", delivered + 1, smtp.rcpts) /\ delivered' = delivered + 1
  /\ UNCHANGED <<copies, dropNext>>

(* The integration test arms the fault. *)
ArmDrop == ~dropNext /\ dropNext' = TRUE /\ UNCHANGED <<boxes, imap, smtp, delivered, copies>>

-----------------------------------------------------------------------------
(* new_store, then seed: the mailboxes of add_user, one message in INBOX.  The
   connections are still to come, or have got to a mailbox and an envelope. *)
ServerInit ==
  /\ boxes = [b \in Boxes |->
       CASE b = "INBOX" -> [next |-> 2, msgs |-> <<[uid |-> 1, mail |-> 1, flags |-> {}]>>]
         [] b = "Trash" -> [next |-> 1, msgs |-> <<>>]
         [] OTHER -> [next |-> 0, msgs |-> <<>>]]
  /\ \/ imap = [c \in Clients |-> Off] /\ smtp = NoMail
     \/ /\ imap = [c \in Clients |-> [Off EXCEPT !.at = "ready", !.user = TRUE, !.box = "INBOX", !.known = {1}]]
        /\ smtp = [at |-> "ready", auth |-> TRUE, rcpts |-> 1]
  /\ delivered = 1 /\ steps = 0 /\ copies = 0 /\ dropNext = FALSE

Sets == {<<1, 1>>, <<2, 2>>, <<1, 2>>, <<1, Star>>}

Command(c) ==
  \/ Accept_(c) \/ Close(c) \/ Authenticate(c) \/ Acknowledge(c)
  \/ \E cred \in Credentials : Login(c, cred) \/ Token(c, cred)
  \/ \E b \in Boxes : Select(c, b) \/ AppendEnd(c, b) \/ CopyEnd(c, b)
  \/ \E set \in Sets : Fetch(c, set) \/ UidFetch(c, set)
  \/ \E set \in Sets, isUid \in BOOLEAN, mode \in {"+", "-", "="}, flags \in {{"Seen"}, {"Deleted"}} : StoreCommand(c, isUid, set, mode, flags)
  \/ \E n \in 1..2, isUid \in BOOLEAN : Copy(c, isUid, n)
  \/ UidFetchDropped(c) \/ AppendLiteral(c) \/ Expunge(c) \/ Idle(c) \/ Subscribe(c) \/ Recv(c) \/ Done(c)

SmtpCommand ==
  \/ SmtpOpen \/ SmtpClose \/ MailFrom \/ Rset \/ RcptTo \/ Data \/ DataCut \/ DataEnd
  \/ \E xoauth2 \in BOOLEAN, cred \in Credentials : SmtpAuth(xoauth2, cred)

ServerNext ==
  /\ steps < MaxSteps /\ steps' = steps + 1
  /\ SmtpCommand \/ ArmDrop \/ \E c \in Clients : Command(c)

ServerSpec == ServerInit /\ [][ServerNext]_serverVars

-----------------------------------------------------------------------------
(* Type invariant: UIDs and copies stay within their bounds, and the broadcast
   queue of a client within its capacity; only an idling client has one. *)
ServerTypeOK ==
  /\ \A b \in Boxes : boxes[b].next \in 0..(MaxMail + 1) /\ Len(Msgs(b)) <= MaxMail
  /\ \A c \in Clients : Len(imap[c].news) <= NotifyCap /\ (imap[c].news # <<>> => imap[c].at = "idling")
  /\ smtp.rcpts \in 0..2 /\ copies \in 0..MaxCopies

(* A UID names one message of its mailbox for good: below UIDNEXT nothing
   appears, and what a UID names is never another mail, whatever two
   connections deliver, copy and expunge at once (append, copy_message). *)
UidsAreForever ==
  [][\A b \in Boxes :
       /\ boxes'[b].next >= boxes[b].next
       /\ \A i \in 1..Len(boxes'[b].msgs) : boxes'[b].msgs[i].uid < boxes[b].next =>
            \E j \in 1..Len(Msgs(b)) : Msgs(b)[j].uid = boxes'[b].msgs[i].uid /\ Msgs(b)[j].mail = boxes'[b].msgs[i].mail]_boxes

(* Whatever the clients copy, mark and expunge between each other's steps,
   EXPUNGE being of every marked message, no mail is lost: a message not
   marked as deleted is left of each (COPY, STORE, EXPUNGE). *)
MovedMailSurvives ==
  \A mail \in 1..delivered : \E b \in Boxes : \E i \in 1..Len(Msgs(b)) :
    Msgs(b)[i].mail = mail /\ "Deleted" \notin Msgs(b)[i].flags

(* An idling client has been told of the last message that came to its
   mailbox since it subscribed, or will be, unless its receiver lagged so far
   that this mailbox's own entry fell out (IDLE, deliver, copy_message). *)
IdleHears ==
  \A c \in Clients : imap[c].at = "idling" =>
    \/ imap[c].told = boxes[imap[c].box].next
    \/ imap[c].missed
    \/ \E i \in 1..Len(imap[c].news) : imap[c].news[i] = imap[c].box
=============================================================================
