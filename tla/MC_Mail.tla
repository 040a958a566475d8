------------------------------ MODULE MC_Mail -------------------------------
(* Model checking of what is stored and shown of a mailbox: the shared core,   *)
(* the message cache, the folder tree, the message list, the search box and the *)
(* HTML view.                                                                   *)
(* They meet only through the events each takes as its input, so a behaviour    *)
(* of this module is a behaviour of one of them, the others at rest.            *)
EXTENDS AppCore, MailCache, FolderTree, MessageList, SearchBox, MC_HtmlView

VARIABLE part   \* which component moves

mailVars == <<part, coreVars, cacheVars, treeVars, listVars, searchVars, htmlVars>>

MCInit ==
  /\ part \in {"core", "cache", "tree", "list", "search", "html"}
  /\ CoreInit /\ CacheInit /\ TreeInit /\ ListInit /\ SearchInit /\ HtmlInit
  /\ part # "cache" => frontend = "core" /\ columns = {}
  /\ part # "tree" => delim = "/"
  /\ part # "list" => focused
  /\ part # "html" => worker.at = "idle"

MCNext ==
  \/ part = "core" /\ CoreNext /\ UNCHANGED <<part, cacheVars, treeVars, listVars, htmlVars, searchVars>>
  \/ part = "cache" /\ CacheNext /\ UNCHANGED <<part, coreVars, treeVars, listVars, htmlVars, searchVars>>
  \/ part = "tree" /\ TreeNext /\ UNCHANGED <<part, coreVars, cacheVars, listVars, htmlVars, searchVars>>
  \/ part = "list" /\ ListNext /\ UNCHANGED <<part, coreVars, cacheVars, treeVars, htmlVars, searchVars>>
  \/ part = "search" /\ SearchNext /\ UNCHANGED <<part, coreVars, cacheVars, treeVars, listVars, htmlVars>>
  \/ part = "html" /\ HtmlNext /\ UNCHANGED <<part, coreVars, cacheVars, treeVars, listVars, searchVars>>

MCSpec == MCInit /\ [][MCNext]_mailVars

-----------------------------------------------------------------------------
(* What the core shows is of what is selected now, whatever replies of other
   accounts and earlier requests arrive: the rows, the body, the search hits;
   and a bulk action still has a command or a reply for each of its messages. *)
CoreIsCurrent == part = "core" => CoreTypeOK /\ RowsOfActive /\ PaneIsSelected /\ SearchAligned /\ BulkIsOutstanding

(* The cache agrees with the server it was filled from: each body is its
   header's, nothing below the recorded UIDNEXT is missing, a moved message
   stays away; and the index finds a message once, and the cached bodies stay
   within their number, after any commands and evictions (db.rs). *)
CacheAgrees ==
  part = "cache" => CacheTypeOK /\ BodyIsOfItsHeader /\ BelowUidNextIsCached /\ MovedStaysAway /\ FoundOnce /\ CacheWithinCap

(* The lists show what there is: every folder has one node, every row is
   painted as it is now, the selection is of rows there are, and a search ends
   with the hits of the text in the box. *)
ListsAreCurrent ==
  /\ part = "tree" => TreeTypeOK /\ EveryFolderIsShown
  /\ part = "list" => ListTypeOK /\ PaintedIsCurrent /\ SelectionInBounds
  /\ part = "search" => SearchTypeOK /\ SettlesOnText

(* The reading view settles on the newest page, and its carets are in the
   text on screen. *)
ViewIsCurrent == part = "html" => HtmlTypeOK /\ SettlesOnNewest /\ CaretsInText

(* A change underneath moves nothing the user has hold of: a folder keeps its
   id, the rows in view stay in view, a selected text copies the same. *)
UserKeepsHold == IdsAreStable /\ ViewKeepsPlace /\ CopyIgnoresLayout
=============================================================================
