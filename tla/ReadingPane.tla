---------------------------- MODULE ReadingPane -----------------------------
(***************************************************************************)
(* What the reading pane promises the user, whatever fetches, retries,     *)
(* replies and reloads are behind it: the message that is asked for is the *)
(* only one that can appear, under its own header, and what is on show     *)
(* goes away only for a notice or for the answer to a later request.       *)
(***************************************************************************)
CONSTANTS
  Key,    \* messages
  None,
  Notice  \* the pane without a message

VARIABLES
  asked,    \* the message the user waits for, or None
  content   \* Notice, or what kind of answer is shown, its header and its body

promised == <<asked, content>>

Answer(kind, key) == [kind |-> kind, header |-> key, body |-> key]

Ask == \E key \in Key : asked' = key /\ UNCHANGED content

(* The selection goes elsewhere: nothing is waited for. *)
GiveUp == asked' = None /\ content' \in {content, Notice}

(* The answer: the message, or that it could not be loaded. *)
Appear ==
  /\ asked # None /\ UNCHANGED asked
  /\ content' \in {Answer("message", asked), Answer("failed", asked)}

PromiseInit == asked = None /\ content = Notice
PromiseNext == Ask \/ GiveUp \/ Appear
Promise == PromiseInit /\ [][PromiseNext]_promised
=============================================================================
