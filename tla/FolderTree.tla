----------------------------- MODULE FolderTree -----------------------------
(***************************************************************************)
(* The account's folder tree: LIST (fetch_mailboxes), the tree and its     *)
(* rows (imap.rs: mailbox_tree, flatten_tree), the model the native tree   *)
(* reads (core_glue/folders.rs), and what the user folded (app/events.rs). *)
(*                                                                         *)
(* A text is a sequence of words and delimiters: <<"work", "/", "bills">>. *)
(* The hash of a key is the key: two different keys have different hashes. *)
(***************************************************************************)
EXTENDS Naturals, Sequences, SequencesExt, FiniteSets

CONSTANTS MaxLists, MaxFolds   \* bounds: folder lists that arrive, folds by the user

ASSUME TreeAssumption == MaxLists \in Nat /\ MaxFolds \in Nat

VARIABLES
  delim,       \* the server's hierarchy delimiter
  source,      \* where the rows are from: "none", "cache" or "server"
  folderRows,  \* AccountFolders.rows
  unread,      \* AccountFolders.unread: a set of <<name, count>>
  opened,      \* opened_accounts has the account
  expanded,    \* ids of the nodes the native tree shows expanded
  collapsed,   \* settings.collapsed_folders, saved at once
  lists, folds \* counters

treeVars == <<delim, source, folderRows, unread, opened, expanded, collapsed, lists, folds>>

NoName == <<>>
NoUse == "none"

-----------------------------------------------------------------------------
(* From LIST to rows *)

(* SpecialUse::from_name: the whole name, not a part of it. *)
FromName(name) == IF name = <<"inbox">> THEN "Inbox" ELSE NoUse

(* fetch_mailboxes: an attribute before the name. *)
UseOf(name, attr) == IF attr # NoUse THEN attr ELSE FromName(name)

(* mailbox_tree: the name split on the delimiter, empty segments left out. *)
Segments(name, d) ==
  LET cuts == SetToSortSeq({0, Len(name) + 1} \union {i \in 1..Len(name) : name[i] = d}, <) IN
  SelectSeq([i \in 1..(Len(cuts) - 1) |-> SubSeq(name, cuts[i] + 1, cuts[i + 1] - 1)], LAMBDA s : s # <<>>)

(* insert_path makes a node for every prefix of the segments. *)
Paths(infos) == UNION {{SubSeq(m.path, 1, n) : n \in 1..Len(m.path)} : m \in infos}

(* The mailbox of a node (none for one that a deeper mailbox implies). *)
At(infos, p) == {m \in infos : m.path = p}
FullName(infos, p) == IF \E m \in At(infos, p) : ~m.noselect THEN (CHOOSE m \in At(infos, p) : ~m.noselect).name ELSE NoName
NodeUse(infos, p) == IF At(infos, p) = {} THEN NoUse ELSE (CHOOSE m \in At(infos, p) : TRUE).use

(* sort_key; the labels' alphabetical order is some order of them. *)
UseRank(use) == CASE use = "Inbox" -> 0 [] use = "Sent" -> 1 [] use = "Trash" -> 5 [] OTHER -> 6
WordRank(w) == CASE w = "a" -> 1 [] w = "b" -> 2 [] w = "inbox" -> 3 [] w = "/" -> 4 [] OTHER -> 5
LabelRank(label) == FoldLeft(LAMBDA n, w : 10 * n + WordRank(w), 0, label)
SortKey(infos, p) == <<UseRank(NodeUse(infos, p)), LabelRank(p[Len(p)])>>

(* sort_tree orders siblings, flatten_into walks depth first: a node comes
   before its descendants, and else the first ancestors that differ decide. *)
Before(infos, p, q) ==
  IF IsPrefix(p, q) THEN p # q
  ELSE ~IsPrefix(q, p) /\
    LET n == CHOOSE k \in 1..Len(p) : k <= Len(q) /\ p[k] # q[k] /\ SubSeq(p, 1, k - 1) = SubSeq(q, 1, k - 1)
        x == SortKey(infos, SubSeq(p, 1, n))
        y == SortKey(infos, SubSeq(q, 1, n)) IN
    x[1] < y[1] \/ (x[1] = y[1] /\ x[2] < y[2])

(* The key of a node: its labels joined with "/". *)
Key(p) == FoldLeft(LAMBDA k, label : IF k = <<>> THEN label ELSE k \o <<"/">> \o label, <<>>, p)

FlattenTree(infos) ==
  LET paths == Paths(infos)
      order == [i \in 1..Cardinality(paths) |-> CHOOSE p \in paths : Cardinality({q \in paths : Before(infos, q, p)}) = i - 1] IN
  [i \in 1..Len(order) |->
     [depth |-> Len(order[i]) - 1, full |-> FullName(infos, order[i]), use |-> NodeUse(infos, order[i]),
      key |-> Key(order[i]), hasChildren |-> \E q \in paths : q # order[i] /\ IsPrefix(order[i], q)]]

-----------------------------------------------------------------------------
(* The model the native tree reads: an id is a key's hash; 0 the account *)

(* folder_hash of the row's key. *)
IdOf(rs, i) == rs[i].key
Root == <<>>

(* The first row with an id; 0 if there is none. *)
Position(rs, id) ==
  LET hits == {i \in 1..Len(rs) : IdOf(rs, i) = id} IN
  IF hits = {} THEN 0 ELSE CHOOSE i \in hits : \A j \in hits : i <= j

(* FolderTree::children: from the node on, while the rows are deep enough. *)
ChildRows(rs, start, depth) ==
  {i \in start..Len(rs) : rs[i].depth = depth /\ \A j \in start..i : rs[j].depth >= depth}

Children(rs, id) ==
  IF id = Root THEN ChildRows(rs, 1, 0)
  ELSE IF Position(rs, id) = 0 THEN {}
  ELSE ChildRows(rs, Position(rs, id) + 1, rs[Position(rs, id)].depth + 1)

(* FolderTree::selection: the folder a click on a node opens. *)
Selection(rs, id) == IF Position(rs, id) = 0 THEN NoName ELSE rs[Position(rs, id)].full

(* find_special_use_mailbox, with the default for one that cannot be opened. *)
SpecialFolder(rs, want, default) ==
  LET hits == {i \in 1..Len(rs) : rs[i].use = want}
      first == CHOOSE i \in hits : \A j \in hits : i <= j IN
  IF hits = {} \/ rs[first].full = NoName THEN default ELSE rs[first].full

(* mailbox_names: the folders a STATUS batch asks about. *)
MailboxNames(rs) == {rs[i].full : i \in 1..Len(rs)} \ {NoName}

-----------------------------------------------------------------------------
(* Events, applied to the window *)

(* restore_folds: in tree order, and nothing inside a collapsed node. *)
Restored(rs, saved, shown) ==
  LET hidden(i) == \E j \in 1..(i - 1) :
        /\ rs[j].hasChildren /\ rs[j].key \in saved /\ \A k \in (j + 1)..i : rs[k].depth > rs[j].depth
      walked == {i \in 1..Len(rs) : rs[i].hasChildren /\ ~hidden(i)} IN
  (shown \ {IdOf(rs, i) : i \in walked}) \union {IdOf(rs, i) : i \in {k \in walked : rs[k].key \notin saved}}

(* sync_tree: refresh keeps the expansion of the nodes that stay; the first
   time there are folders, the account opens and the folds are restored. *)
SyncTree(rs) ==
  LET kept == expanded \intersect ({IdOf(rs, i) : i \in 1..Len(rs)} \union {Root}) IN
  IF rs # <<>> /\ ~opened THEN opened' = TRUE /\ expanded' = Restored(rs, collapsed, kept \union {Root})
  ELSE expanded' = kept /\ UNCHANGED opened

(* The names LIST may return: one nested with the server's delimiter, one
   with a slash, which need not be it. *)
Names == {<<"inbox">>, <<"a">>, <<"b">>, <<"a", delim, "b">>, <<"a", "/", "b">>}

(* ImapEvent::Mailboxes: set_mailboxes, and STATUS is asked for. *)
SetMailboxes(names, trash, noselect) ==
  /\ lists < MaxLists /\ lists' = lists + 1
  /\ folderRows' = FlattenTree({[name |-> n, path |-> Segments(n, delim), use |-> UseOf(n, IF n = trash THEN "Trash" ELSE NoUse),
                           noselect |-> n = noselect] : n \in names})
  /\ source' = "server" /\ SyncTree(folderRows')
  /\ UNCHANGED <<delim, unread, collapsed, folds>>

(* CacheEvent::Folders: set_cached_mailboxes, ignored once there are folders. *)
CachedFolders(names) ==
  /\ lists < MaxLists /\ lists' = lists + 1
  /\ IF folderRows # <<>> THEN UNCHANGED <<folderRows, source>>
     ELSE /\ folderRows' = FlattenTree({[name |-> n, path |-> <<n>>, use |-> FromName(n), noselect |-> FALSE] : n \in names})
          /\ source' = "cache"
  /\ SyncTree(folderRows')
  /\ UNCHANGED <<delim, unread, collapsed, folds>>

(* ImapEvent::UnreadCounts: set_unread keeps what the batch does not mention. *)
UnreadCounts(names, count) ==
  /\ source = "server" /\ names # {}
  /\ unread' = {u \in unread : u[1] \notin names} \union (names \X {count})
  /\ SyncTree(folderRows)
  /\ UNCHANGED <<delim, source, folderRows, collapsed, lists, folds>>

SetFolderCollapsed(key, yes) == collapsed' = IF yes THEN collapsed \union {key} ELSE collapsed \ {key}

(* The user folds or unfolds a node: folder_toggled saves it. *)
Toggle(i) ==
  /\ folds < MaxFolds /\ folds' = folds + 1
  /\ folderRows[i].hasChildren
  /\ LET id == IdOf(folderRows, i)
         key == folderRows[Position(folderRows, id)].key IN
     /\ expanded' = IF id \in expanded THEN expanded \ {id} ELSE expanded \union {id}
     /\ SetFolderCollapsed(key, id \in expanded)
  /\ UNCHANGED <<delim, source, folderRows, unread, opened, lists>>

(* The program ends and starts again: FolderTree::new, tree::build. *)
Restart ==
  /\ source # "none" /\ source' = "none" /\ folderRows' = <<>> /\ unread' = {}
  /\ opened' = FALSE /\ expanded' = {Root}
  /\ UNCHANGED <<delim, collapsed, lists, folds>>

TreeInit ==
  /\ delim \in {"/", "."} /\ source = "none" /\ folderRows = <<>> /\ unread = {}
  /\ opened = FALSE /\ expanded = {Root} /\ collapsed = {} /\ lists = 0 /\ folds = 0

TreeNext ==
  \/ \E names \in SUBSET Names \ {{}} : CachedFolders(names)
       \/ \E trash \in (names \intersect {<<"b">>, <<"a", delim, "b">>}) \union {NoName} :
          \E noselect \in (names \intersect {<<"a">>}) \union {NoName} : SetMailboxes(names, trash, noselect)
  \/ \E names \in {MailboxNames(folderRows), MailboxNames(folderRows) \intersect {<<"inbox">>}}, count \in 0..1 : UnreadCounts(names, count)
  \/ \E i \in 1..Len(folderRows) : Toggle(i)
  \/ Restart

TreeSpec == TreeInit /\ [][TreeNext]_treeVars

-----------------------------------------------------------------------------
(* Type invariant: rows are known exactly when a listing arrived, the account is
   opened with the first of them, and every node has a key. *)
TreeTypeOK ==
  /\ (source = "none") <=> (folderRows = <<>>)
  /\ \A i \in 1..Len(folderRows) : folderRows[i].depth \in 0..2 /\ folderRows[i].key # <<>>
  /\ opened <=> (folderRows # <<>>)

(* Keys of different nodes differ, which a delimiter other than "/" and a
   slash in a name can break. *)
KeysDistinct == \A i, j \in 1..Len(folderRows) : folderRows[i].key = folderRows[j].key => i = j

(* Going down from the account by ids alone, every folder that can be opened
   is met, under one parent, and a click on it opens that folder; whatever
   the listing implies, cannot select or arrives twice (insert_path,
   flatten_into, children, selection). *)
EveryFolderIsShown ==
  KeysDistinct =>
    LET ids == {Root} \union {IdOf(folderRows, i) : i \in 1..Len(folderRows)} IN
    /\ \A i \in 1..Len(folderRows) : Cardinality({id \in ids : i \in Children(folderRows, id)}) = 1
    /\ \A i \in 1..Len(folderRows) : Selection(folderRows, IdOf(folderRows, i)) = folderRows[i].full
    /\ \A i \in 1..Len(folderRows) : folderRows[i].hasChildren <=> Children(folderRows, IdOf(folderRows, i)) # {}
    /\ source = "server" => SpecialFolder(folderRows, "Inbox", <<"inbox">>) = <<"inbox">>

(* A folder keeps its id when others appear or go, also when the server's
   nested list takes the place of the cache's flat one, if its delimiter is
   the one keys are joined with: so a selected or expanded node stays
   (folder_hash, set_cached_mailboxes). *)
IdsAreStable ==
  [][delim = "/" =>
     \A i \in 1..Len(folderRows) : \A j \in 1..Len(folderRows') :
       folderRows[i].full # NoName /\ folderRows[i].full = folderRows'[j].full => IdOf(folderRows, i) = IdOf(folderRows', j)]_folderRows

=============================================================================
