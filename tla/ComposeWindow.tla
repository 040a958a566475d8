--------------------------- MODULE ComposeWindow ----------------------------
(***************************************************************************)
(* One compose window (app/compose): the fields the user types into, the   *)
(* address suggestions, the attachments read on threads of their own, and  *)
(* when the message counts as saved.  The main window takes the requests   *)
(* of the window from its queue; what it does with a message besides       *)
(* answering is in Outbox and Drafts.                                      *)
(*                                                                         *)
(* The text of a recipient field is a sequence of words, commas and        *)
(* spaces; a caret is the number of them before it.  "alf" is a bare       *)
(* address (alf@x), "Alf" the same one with its display name, "kalf" our   *)
(* own, "a" and "f" are what is typed of one.  Sender, subject, Bcc and    *)
(* text are one number, 0 when all are empty.  A question and its answer   *)
(* are one step; a file dialog picks one file.                             *)
(***************************************************************************)
EXTENDS Naturals, Sequences, FiniteSets, SequencesExt, FiniteSetsExt

CONSTANTS
  MAX_SUGGESTIONS,  \* suggestions offered at once (4 in the code)
  MaxStrokes,       \* bound: what the user does
  MaxPicks          \* bound: files picked

ASSUME ComposeWindowAssumption == MAX_SUGGESTIONS \in Nat /\ MaxStrokes \in Nat /\ MaxPicks \in Nat

VARIABLES
  fields,      \* the text of To and Cc
  carets,      \* where the caret is in each
  letter,      \* the other fields
  files,       \* ComposeApp.attachments
  reading,     \* files being read
  book,        \* Contacts
  activeField, \* ComposeApp.active, "none" when it is no recipient field
  inputFocus,  \* the field with the keyboard
  offered,     \* Suggester.shown
  panel,       \* Panels.suggestions
  asks,        \* the Sends the main window has not taken yet
  underWay,    \* ComposeApp.sending
  flying,      \* the main window waits for the outcome (Deliveries.in_flight)
  savedTyped,  \* ComposeApp.saved
  life,        \* "open", "closed" or "discarded"
  draftNow,    \* history: the message as opened, or its draft as last written
  outNow,      \* history: the message as last handed over to be sent
  touched,     \* history: it changed since a Send whose outcome is to come
  detached,    \* history: an attachment was removed
  strokes, picks

composeVars == <<fields, carets, letter, files, reading, book, activeField, inputFocus, offered, panel,
                 asks, underWay, flying, savedTyped, life, draftNow, outNow, touched, detached, strokes, picks>>

sendVars == <<asks, underWay, flying, outNow>>

Recipient == {"To", "Cc"}
Address == [kalf |-> "kalf", alf |-> "alf", Alf |-> "alf", fog |-> "fog", Fog |-> "fog"]
Named == {"Alf", "Fog"}
(* Which addresses hold a word, and which begin with it. *)
Holding == [a |-> {"kalf", "alf"}, f |-> {"kalf", "alf", "fog"}, kalf |-> {"kalf"}, alf |-> {"kalf", "alf"}, fog |-> {"fog"}, Alf |-> {}, Fog |-> {}]
Beginning == [a |-> {"alf"}, f |-> {"fog"}, kalf |-> {"kalf"}, alf |-> {"alf"}, fog |-> {"fog"}, Alf |-> {}, Fog |-> {}]

-----------------------------------------------------------------------------
(* contacts.rs *)
TrimWords(text) ==
  LET solid == {i \in 1..Len(text) : text[i] # " "} IN
  IF solid = {} THEN <<>> ELSE SubSeq(text, Min(solid), Max(solid))

(* token_bounds: the words before the token, and up to its end. *)
TokenStart(text, caret) == Max({0} \union {i \in 1..caret : text[i] = ","})
TokenEnd(text, caret) == Min({Len(text)} \union {i - 1 : i \in {j \in (caret + 1)..Len(text) : text[j] = ","}})

RecipientToken(text, caret) == TrimWords(SubSeq(text, TokenStart(text, caret) + 1, TokenEnd(text, caret)))

(* address_of: what is between the last brackets, or the whole entry. *)
AddressOf(entry) ==
  LET named == {i \in 1..Len(entry) : entry[i] \in Named} IN
  IF named # {} THEN {Address[entry[Max(named)]]}
  ELSE {Address[w] : w \in {v \in DOMAIN Address : entry = <<v>>}}

(* split_addresses, addresses_in *)
AddressesIn(text) == UNION {AddressOf(RecipientToken(text, c)) : c \in 0..Len(text)}

(* Contacts::add: a named form replaces a bare one. *)
AddContact(contacts, entry) ==
  LET same == {i \in 1..Len(contacts) : contacts[i].address = Address[entry]} IN
  IF same = {} THEN Append(contacts, [address |-> Address[entry], display |-> entry])
  ELSE LET i == Min(same) IN
       [contacts EXCEPT ![i].display = IF contacts[i].display = contacts[i].address THEN entry ELSE contacts[i].display]

(* Contacts::from_headers: the account's own address, then the senders and
   recipients of the messages listed. *)
FromHeaders(entries) == FoldLeft(AddContact, <<>>, <<"kalf">> \o entries)

(* Those that begin with the word first, and no more than fit. *)
Best(hits, word) ==
  LET first(c) == c.address \in Beginning[word]
      ranked == SelectSeq(hits, first) \o SelectSeq(hits, LAMBDA c : ~first(c)) IN
  [i \in 1..Min({Len(ranked), MAX_SUGGESTIONS}) |-> ranked[i].display]

(* Mutant of Matching: recipients the field has already are offered again. *)
MatchingTaken(query, text) ==
  IF Len(query) # 1 \/ Head(query) \notin DOMAIN Holding THEN <<>>
  ELSE Best(SelectSeq(book, LAMBDA c : c.address \in Holding[Head(query)] \/ c.display = Head(query)), Head(query))

(* Contacts::matching: those that hold the query, in the address or the name,
   and are not in the field yet.  No address holds two words. *)
Matching(query, text) ==
  IF Len(query) # 1 \/ Head(query) \notin DOMAIN Holding THEN <<>>
  ELSE Best(SelectSeq(book, LAMBDA c : /\ c.address \in Holding[Head(query)] \/ c.display = Head(query)
                                       /\ c.address \notin AddressesIn(text)), Head(query))

(* complete_recipient: the token goes, the separator after it is made new. *)
CompleteRecipient(text, caret, insertion) ==
  LET start == TokenStart(text, caret)
      end == TokenEnd(text, caret)
      rest == SubSeq(text, end + 2, Len(text))
      solid == {i \in 1..Len(rest) : rest[i] # " "}
      gap == IF start > 0 THEN <<" ">> ELSE <<>> IN
  [text |-> SubSeq(text, 1, start) \o gap \o <<insertion, ",", " ">> \o (IF solid = {} THEN <<>> ELSE SubSeq(rest, Min(solid), Len(rest))),
   caret |-> start + Len(gap) + 3]

-----------------------------------------------------------------------------
(* compose.rs: what a window opens with, for a message from Alf. *)
Joined(entries) == FlattenSeq([i \in 1..Len(entries) |-> IF i = 1 THEN <<entries[i]>> ELSE <<",", " ", entries[i]>>])
OriginalTo == <<"fog", "kalf", "Alf">>
FromOriginal(cc) == [To |-> <<"Alf">>, Cc |-> cc, letter |-> 1]
ReplyAll == FromOriginal(Joined(SelectSeq(OriginalTo, LAMBDA e : Address[e] # "kalf")))
Forward == [To |-> <<>>, Cc |-> <<>>, letter |-> 1]

InitialState(kind) ==
  CASE kind = "New" -> [To |-> <<>>, Cc |-> <<>>, letter |-> 0]
    [] kind = "Reply" -> FromOriginal(<<>>)
    [] kind = "ReplyAll" -> ReplyAll
    [] kind = "Forward" -> Forward

(* App::contacts: everyone in the open folder. *)
ContactsNow == FromHeaders(<<"alf", "Fog", "Alf">>)

(* ComposeApp::typed counts the attachments, snapshot has them. *)
Typed == [fields |-> fields, letter |-> letter, files |-> Len(files)]
Snapshot == [fields |-> fields, letter |-> letter, files |-> files]
Edited == Typed # savedTyped
HasContent(state) == state.fields["To"] # <<>> \/ state.fields["Cc"] # <<>> \/ state.letter # 0 \/ state.files # <<>>

Stroke == life = "open" /\ strokes < MaxStrokes /\ strokes' = strokes + 1
TextStays == UNCHANGED <<fields, carets, letter, files>>
SuggestionsStay == UNCHANGED <<activeField, inputFocus, offered, panel>>
SavedStays == UNCHANGED <<savedTyped, draftNow>>
SendsStay == UNCHANGED sendVars
Touches == touched' = (touched \/ asks # <<>> \/ flying)

(* suggest, show_suggestions *)
Suggest(text, caret) == offered' = Matching(RecipientToken(text, caret), text) /\ panel' = (offered' # <<>>)

(* Changed: the field now typed in is the one suggestions are for. *)
Changed(field, text, caret) ==
  /\ fields' = [fields EXCEPT ![field] = text] /\ carets' = [carets EXCEPT ![field] = caret]
  /\ activeField' = field /\ Suggest(text, caret)

TypeRecipient(word) ==
  /\ Stroke /\ inputFocus \in Recipient /\ ~underWay /\ Touches
  /\ LET caret == carets[inputFocus] IN Changed(inputFocus, InsertAt(fields[inputFocus], caret + 1, word), caret + 1)
  /\ SavedStays /\ SendsStay /\ UNCHANGED <<letter, files, reading, book, inputFocus, life, detached, picks>>

EraseRecipients ==
  /\ Stroke /\ inputFocus \in Recipient /\ ~underWay /\ fields[inputFocus] # <<>> /\ Changed(inputFocus, <<>>, 0) /\ Touches
  /\ SavedStays /\ SendsStay /\ UNCHANGED <<letter, files, reading, book, inputFocus, life, detached, picks>>

TypeLetter(n) ==
  /\ Stroke /\ inputFocus = "Body" /\ ~underWay /\ n # letter /\ letter' = n /\ Touches
  /\ SavedStays /\ SendsStay /\ SuggestionsStay /\ UNCHANGED <<fields, carets, files, reading, book, life, detached, picks>>

(* Arrow keys and clicks in a field: nothing is reported, so the suggestions
   stay what they were for the caret's old place. *)
MoveCaret(caret) ==
  /\ Stroke /\ inputFocus \in Recipient /\ caret # carets[inputFocus] /\ carets' = [carets EXCEPT ![inputFocus] = caret]
  /\ SavedStays /\ SendsStay /\ SuggestionsStay /\ UNCHANGED <<fields, letter, files, reading, book, life, touched, detached, picks>>

(* Mutant of GetsFocus: the suggestions of the field left stay on offer. *)
GetsFocusStale(field) ==
  /\ inputFocus' = field
  /\ activeField' = IF field \in Recipient THEN field ELSE "none"
  /\ UNCHANGED offered /\ panel' = (field \in Recipient /\ panel)

(* Focused(field, true): elsewhere the list closes and is not forgotten. *)
GetsFocus(field) ==
  /\ inputFocus' = field
  /\ IF field \in Recipient THEN activeField' = field /\ Suggest(fields[field], carets[field])
     ELSE activeField' = "none" /\ UNCHANGED offered /\ panel' = FALSE

Focus_(field) ==
  /\ Stroke /\ field # inputFocus /\ GetsFocus(field) /\ TextStays
  /\ SavedStays /\ SendsStay /\ UNCHANGED <<reading, book, life, touched, detached, picks>>

(* accept_suggestion: nothing asks whether the form is locked.  The toolkit may
   report the new text like a typed one. *)
AcceptSuggestion(index) ==
  LET done == CompleteRecipient(fields[activeField], carets[activeField], offered[index]) IN
  /\ activeField \in Recipient /\ index <= Len(offered)
  /\ \/ Changed(activeField, done.text, done.caret)
     \/ /\ fields' = [fields EXCEPT ![activeField] = done.text] /\ carets' = [carets EXCEPT ![activeField] = done.caret]
        /\ offered' = <<>> /\ panel' = FALSE /\ UNCHANGED activeField
  /\ inputFocus' = activeField /\ Touches
  /\ SavedStays /\ SendsStay /\ UNCHANGED <<letter, files, reading, book, life, detached, picks>>

(* A click on a row of the list, or Ctrl+Space for the first. *)
TakeSuggestion(index) == Stroke /\ (index = 1 \/ panel) /\ AcceptSuggestion(index)

(* Enter: the first suggestion, or on to the next field. *)
Submit ==
  /\ Stroke /\ inputFocus \in Recipient
  /\ \/ offered # <<>> /\ AcceptSuggestion(1)
     \/ /\ offered = <<>> /\ GetsFocus(IF inputFocus = "To" THEN "Cc" ELSE "Body") /\ TextStays
        /\ SavedStays /\ SendsStay /\ UNCHANGED <<reading, book, life, touched, detached, picks>>

(* pick_and_read: a thread reads the file. *)
AddAttachment ==
  /\ Stroke /\ ~underWay /\ picks < MaxPicks /\ picks' = picks + 1 /\ reading' = reading \union {picks'}
  /\ TextStays /\ SavedStays /\ SendsStay /\ SuggestionsStay /\ UNCHANGED <<book, life, touched, detached>>

(* AttachmentsRead, whatever the window does meanwhile; read is FALSE for a
   file that is missing or too large. *)
AttachmentsRead(file, read) ==
  /\ life = "open" /\ file \in reading /\ reading' = reading \ {file}
  /\ \/ read /\ files' = Append(files, file) /\ Touches
     \/ ~read /\ UNCHANGED <<files, touched>>
  /\ SavedStays /\ SendsStay /\ SuggestionsStay /\ UNCHANGED <<fields, carets, letter, book, life, detached, strokes, picks>>

(* The Remove button, or the Delete key, which is not locked. *)
RemoveAttachment(row) ==
  /\ Stroke /\ files' = RemoveAt(files, row) /\ detached' = TRUE /\ Touches
  /\ SavedStays /\ SendsStay /\ SuggestionsStay /\ UNCHANGED <<fields, carets, letter, reading, book, life, picks>>

-----------------------------------------------------------------------------
(* ComposeApp::send: nothing shows the message is asked for until the main
   window answers. *)
AsksToSend ==
  /\ Stroke /\ ~underWay /\ asks' = Append(asks, Snapshot)
  /\ TextStays /\ SavedStays /\ SuggestionsStay /\ UNCHANGED <<reading, book, underWay, flying, outNow, life, touched, detached, picks>>

(* send_message, and Sending or Failed for an open window; a refusal does not
   ask whether an earlier Send is on its way. *)
SendMessage(queued) ==
  /\ asks # <<>> /\ asks' = Tail(asks) /\ underWay' = queued /\ flying' = (flying \/ queued)
  /\ outNow' = (IF queued THEN Head(asks) ELSE outNow) /\ touched' = (touched /\ (flying' \/ asks' # <<>>))
  /\ TextStays /\ SavedStays /\ SuggestionsStay /\ UNCHANGED <<reading, book, life, detached, strokes, picks>>

(* outcome_failed *)
SendFailed ==
  /\ life = "open" /\ flying /\ flying' = FALSE /\ underWay' = FALSE /\ touched' = (touched /\ asks # <<>>)
  /\ TextStays /\ SavedStays /\ SuggestionsStay /\ UNCHANGED <<asks, outNow, reading, book, life, detached, strokes, picks>>

Shuts(how) == life' = how /\ UNCHANGED <<reading, book, detached, touched, picks>> /\ TextStays /\ SuggestionsStay /\ SendsStay

(* outcome_sent: the draft goes, and the window. *)
SendSucceeded ==
  /\ life = "open" /\ flying /\ Shuts("closed") /\ draftNow' = outNow /\ UNCHANGED <<savedTyped, strokes>>

(* save_draft here and in composes.rs, which writes no blank message. *)
SavesDraft == savedTyped' = Typed /\ draftNow' = IF HasContent(Snapshot) THEN Snapshot ELSE draftNow

(* Ctrl+S, locked or not. *)
AsksToSave ==
  /\ Stroke /\ SavesDraft
  /\ TextStays /\ SendsStay /\ SuggestionsStay /\ UNCHANGED <<reading, book, life, touched, detached, picks>>

(* ComposeApp::timer *)
AutosaveTimer ==
  /\ life = "open" /\ ~underWay /\ Edited /\ HasContent(Snapshot) /\ SavesDraft
  /\ TextStays /\ SendsStay /\ SuggestionsStay /\ UNCHANGED <<reading, book, life, touched, detached, strokes, picks>>

DiscardMessage == Stroke /\ Shuts("discarded") /\ SavedStays

(* Mutant of CloseRequested: the attachments are not looked at. *)
CloseRequestedHasty ==
  /\ Stroke
  /\ \/ (underWay \/ [Typed EXCEPT !.files = savedTyped.files] = savedTyped) /\ Shuts("closed") /\ SavedStays
     \/ ~underWay /\ Edited /\ Shuts("closed") /\ SavesDraft

(* close_requested: asks when something is not saved, unless a send is under
   way; "Cancel" changes nothing. *)
CloseRequested ==
  /\ Stroke
  /\ \/ (underWay \/ ~Edited) /\ Shuts("closed") /\ SavedStays
     \/ ~underWay /\ Edited /\ Shuts("closed") /\ SavesDraft
     \/ ~underWay /\ Edited /\ Shuts("discarded") /\ SavedStays

ComposeInit ==
  \E kind \in {"New", "Reply", "ReplyAll", "Forward"} :
    LET state == InitialState(kind) IN
    /\ fields = [To |-> state.To, Cc |-> state.Cc] /\ carets = [To |-> 0, Cc |-> 0] /\ letter = state.letter
    /\ files = <<>> /\ reading = {} /\ book = ContactsNow
    /\ inputFocus = (IF kind \in {"Reply", "ReplyAll"} THEN "Body" ELSE "To")
    /\ activeField = (IF inputFocus = "To" THEN "To" ELSE "none") /\ offered = <<>> /\ panel = FALSE
    /\ asks = <<>> /\ underWay = FALSE /\ flying = FALSE
    /\ savedTyped = Typed /\ life = "open" /\ draftNow = Snapshot /\ outNow = Snapshot
    /\ touched = FALSE /\ detached = FALSE /\ strokes = 0 /\ picks = 0

ComposeNext ==
  \/ \E word \in {"a", "f", ","} : TypeRecipient(word)
  \/ \E n \in {0, 2} : TypeLetter(n)
  \/ \E caret \in 0..(IF inputFocus \in Recipient THEN Len(fields[inputFocus]) ELSE 0) : MoveCaret(caret)
  \/ \E field \in Recipient \union {"Body"} : Focus_(field)
  \/ \E index \in 1..Len(offered) : TakeSuggestion(index)
  \/ \E file \in reading, read \in BOOLEAN : AttachmentsRead(file, read)
  \/ \E row \in 1..Len(files) : RemoveAttachment(row)
  \/ \E queued \in BOOLEAN : SendMessage(queued)
  \/ EraseRecipients \/ Submit \/ AddAttachment \/ AsksToSend \/ SendFailed \/ SendSucceeded
  \/ AsksToSave \/ AutosaveTimer \/ DiscardMessage \/ CloseRequested

ComposeSpec == ComposeInit /\ [][ComposeNext]_composeVars

-----------------------------------------------------------------------------
(* Type invariant: carets are in their text, the list is open only with
   something in it, and every file was picked. *)
ComposeTypeOK ==
  /\ \A f \in Recipient : carets[f] \in 0..Len(fields[f])
  /\ panel => offered # <<>> /\ activeField \in Recipient
  /\ reading \union ToSet(files) \subseteq 1..picks /\ life \in {"open", "closed", "discarded"}
  /\ underWay /\ life = "open" => flying

(* A window that closed without the user discarding it leaves its message
   behind: as the draft, as what was sent, or there was none; whatever was
   typed, saved, attached, sent and refused before, and wherever the answers of
   the main window fell in between.  Two exceptions: what changed between a Send
   and its outcome, and an attachment exchanged for another, because only their
   number is compared (edited, save_draft, close_requested, set_locked). *)
ClosedIsKept ==
  life = "closed" =>
    \/ ~HasContent(Snapshot) \/ Snapshot \in {draftNow, outNow} \/ touched
    \/ detached /\ \E kept \in {draftNow, outNow} : Snapshot = [kept EXCEPT !.files = files] /\ Len(kept.files) = Len(files)

(* Nobody is offered who is in the field already, in whatever form, whichever
   fields were typed in, left and completed before, so taking a suggestion
   never adds a recipient twice (matching, suggest, Focused). *)
OfferIsNew ==
  activeField \in Recipient => \A i \in 1..Len(offered) : Address[offered[i]] \notin AddressesIn(fields[activeField])

(* The entries of a text, empty ones too. *)
Commas(text, upTo) == Cardinality({i \in 1..upTo : text[i] = ","})
Entries(text) == [k \in 0..Commas(text, Len(text)) |-> RecipientToken(text, Min({c \in 0..Len(text) : Commas(text, c) = k}))]

(* Completing replaces the entry under the caret, keeps all others in place
   and leaves the caret in the entry after it (complete_recipient). *)
CompletesOneEntry ==
  \A f \in Recipient :
    LET text == fields[f]
        done == CompleteRecipient(text, carets[f], "Fog")
        k == Commas(text, carets[f])
        after == Entries(done.text) IN
    /\ after[k] = <<"Fog">> /\ Commas(done.text, done.caret) = k + 1
    /\ \A j \in DOMAIN Entries(text) \ {k} : after[j] = Entries(text)[j]
    /\ DOMAIN after = DOMAIN Entries(text) \union {k + 1}
=============================================================================
