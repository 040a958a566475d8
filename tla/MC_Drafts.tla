------------------------------ MODULE MC_Drafts ------------------------------
(* Model checking of composing: what happens inside one compose window, and    *)
(* what the main window and the cache make of its saves.  The window's requests *)
(* are Drafts' inputs, so a behaviour of this module is a behaviour of one of   *)
(* the two, the other at rest.                                                  *)
EXTENDS Drafts, ComposeWindow

VARIABLE part   \* which of them moves

MCInit ==
  /\ part \in {"drafts", "compose"} /\ Init /\ ComposeInit
  /\ part # "compose" => inputFocus = "To" /\ letter = 0

MCNext ==
  \/ part = "drafts" /\ Next /\ UNCHANGED <<part, composeVars>>
  \/ part = "compose" /\ ComposeNext /\ UNCHANGED <<part, vars>>

(* Fairness is Drafts' own. *)
MCSpec == MCInit /\ [][MCNext]_<<part, vars, composeVars>> /\ Fairness

-----------------------------------------------------------------------------
(* A compose window loses no message and adds no recipient twice: closing it
   leaves the message as a draft, sent, or discarded by its user; nobody in a
   field is offered for it again; and completing a recipient leaves the others
   alone (compose/mod.rs, contacts.rs). *)
ComposeKeeps == part = "compose" => ComposeTypeOK /\ ClosedIsKept /\ OfferIsNew /\ CompletesOneEntry
==============================================================================
