------------------------------ MODULE SearchBox -----------------------------
(***************************************************************************)
(* The search box (app/search.rs): a query runs once typing pauses, in the *)
(* cache actor, and its answer, which does not say which query it is for,  *)
(* replaces the folder's list.  Messages leave their folders and accounts  *)
(* are reloaded meanwhile.  The query syntax is that of search_query.rs.   *)
(*                                                                         *)
(* What is typed is a sequence of words, keys, spaces and quotes ("Q").    *)
(* The cache's index agrees with its messages (MailCache) and its ranking  *)
(* is the order of their names.                                            *)
(***************************************************************************)
EXTENDS Naturals, Sequences, FiniteSets, TLC, SequencesExt, FiniteSetsExt

CONSTANTS
  CommandQueue,   \* COMMAND_QUEUE of cache.rs (256 in the code)
  MaxQueries,     \* bound: how often something is typed, or Enter pressed
  MaxMoves        \* bound: moves, reloads, failed queries

ASSUME SearchBoxAssumption == CommandQueue \in Nat \ {0} /\ MaxQueries \in Nat /\ MaxMoves \in Nat

VARIABLES
  boxText,      \* SearchState.text
  debounce,     \* SearchState.timer
  found,        \* SearchState.results
  commands,     \* the cache actor's commands: a query, or the message to remove
  answers,      \* the hits on their way back
  cached,       \* the messages in the cache
  late,         \* messages an actor of an earlier core has yet to remove
  configured,   \* the accounts of the core
  raced,        \* history: messages moved while an answer was to come
  unanswered,   \* history: no answer comes to the last query
  changes, moves

searchVars == <<boxText, debounce, found, commands, answers, cached, late, configured, raced, unanswered, changes, moves>>

NoResults == <<"folder">>

(* The messages: words by column, the day of their date (0: it cannot be read). *)
Mail == [
  m1 |-> [subject |-> <<"x">>, from |-> <<"y">>, to |-> <<"x">>, body |-> <<>>, day |-> 1, seen |-> FALSE, account |-> "p"],
  m2 |-> [subject |-> <<"x", "y">>, from |-> <<>>, to |-> <<"y">>, body |-> <<"x">>, day |-> 2, seen |-> TRUE, account |-> "r"],
  m3 |-> [subject |-> <<>>, from |-> <<"x">>, to |-> <<>>, body |-> <<"y", "x">>, day |-> 0, seen |-> FALSE, account |-> "p"]]
Ranked == <<"m1", "m2", "m3">>

(* What may be typed. *)
Texts == {
  <<" ">>, <<"x">>, <<"Q", "x", " ", "y", "Q">>, <<"subject:", "Q", "x", "Q", "Q", "y">>, <<"from:">>, <<"from:", "x", " ", "from:", "y">>,
  <<"to:", "x", " ", "is:unread">>, <<"body:", "Q", "y", " ", "x", "Q", " ", "x">>, <<"has:attachment">>,
  <<"since:", "x", " ", "before:", "d2">>, <<"since:", "d2", " ", "before:", "d1", " ", "before:", "d3", " ", "has:attachment">>}

-----------------------------------------------------------------------------
(* search_query.rs *)
Columns == {"subject", "from", "to", "body"}
KeyOf == ("subject:" :> "subject") @@ ("from:" :> "from") @@ ("to:" :> "to") @@ ("body:" :> "body")
         @@ ("since:" :> "since") @@ ("before:" :> "before")
NoDate == <<>>

(* tokenize: spaces inside quotes split nothing, a doubled quote there is one. *)
Scan(state, c) ==
  CASE state.skip -> [state EXCEPT !.skip = FALSE, !.at = @ + 1]
    [] c = "Q" /\ state.quoted /\ state.at < Len(state.input) /\ state.input[state.at + 1] = "Q" ->
         [state EXCEPT !.word = Append(@, "Q"), !.skip = TRUE, !.at = @ + 1]
    [] c = "Q" /\ ~state.skip -> [state EXCEPT !.quoted = ~@, !.at = @ + 1]
    [] c = " " /\ ~state.quoted ->
         [state EXCEPT !.tokens = IF state.word = <<>> THEN @ ELSE Append(@, state.word), !.word = <<>>, !.at = @ + 1]
    [] OTHER -> [state EXCEPT !.word = Append(@, c), !.at = @ + 1]

Tokenize(input) ==
  LET end == FoldLeft(Scan, [input |-> input, at |-> 1, tokens |-> <<>>, word |-> <<>>, quoted |-> FALSE, skip |-> FALSE], input) IN
  IF end.word = <<>> THEN end.tokens ELSE Append(end.tokens, end.word)

(* ParsedQuery::parse: a key with nothing after it is text. *)
ParseToken(query, token) ==
  LET key == IF Head(token) \in DOMAIN KeyOf /\ Len(token) > 1 THEN KeyOf[Head(token)] ELSE "none" IN
  CASE key \in {"since", "before"} -> [query EXCEPT ![key] = Tail(token)]
    [] key \in Columns -> [query EXCEPT ![key] = Append(@, Tail(token))]
    [] token = <<"is:unread">> -> [query EXCEPT !.unread = TRUE]
    [] token = <<"has:attachment">> -> [query EXCEPT !.attachment = TRUE]
    [] OTHER -> [query EXCEPT !.text = Append(@, token)]

Parse(input) ==
  FoldLeft(ParseToken,
    [text |-> <<>>, subject |-> <<>>, from |-> <<>>, to |-> <<>>, body |-> <<>>,
     since |-> NoDate, before |-> NoDate, unread |-> FALSE, attachment |-> FALSE], Tokenize(input))

IsFtsEmpty(query) == query.text = <<>> /\ \A c \in Columns : query[c] = <<>>
IsEmptyQuery(query) == IsFtsEmpty(query) /\ query.since = NoDate /\ query.before = NoDate /\ ~query.unread

(* An FTS5 phrase (external): its words in this order, one after the other. *)
Phrase(column, term) ==
  LET words == SelectSeq(term, LAMBDA w : w \notin {" ", "Q"}) IN
  words # <<>> /\ \E i \in 1..Len(column) : i + Len(words) - 1 <= Len(column) /\ SubSeq(column, i, i + Len(words) - 1) = words

(* Mutant of FtsMatch: one term of a column is enough. *)
FtsMatchAny(query, m) ==
  /\ \A c \in Columns : query[c] # <<>> => \E i \in 1..Len(query[c]) : Phrase(m[c], query[c][i])
  /\ \A i \in 1..Len(query.text) : \E c \in {"subject", "from", "body"} : Phrase(m[c], query.text[i])

(* to_fts_match: every term of its column, bare text in any of three. *)
FtsMatch(query, m) ==
  /\ \A c \in Columns : \A i \in 1..Len(query[c]) : Phrase(m[c], query[c][i])
  /\ \A i \in 1..Len(query.text) : \E c \in {"subject", "from", "body"} : Phrase(m[c], query.text[i])

(* parse_date: what is no date narrows nothing. *)
DayOf(date) == CASE date = <<"d1">> -> 1 [] date = <<"d2">> -> 2 [] date = <<"d3">> -> 3 [] OTHER -> 0

(* message_filters, MessageFilters::matches *)
FiltersMatch(query, m) ==
  LET since == DayOf(query.since)
      before == DayOf(query.before) IN
  /\ query.unread => ~m.seen
  /\ since # 0 \/ before # 0 => m.day # 0
  /\ since # 0 => m.day >= since
  /\ before # 0 => m.day < before

(* db.rs: search.  Without text the newest come first. *)
DbSearch(query) ==
  LET hits == SelectSeq(Ranked, LAMBDA m : m \in cached /\ FtsMatch(query, Mail[m]) /\ FiltersMatch(query, Mail[m])) IN
  IF IsEmptyQuery(query) THEN <<>>
  ELSE IF IsFtsEmpty(query) THEN SetToSortSeq(ToSet(hits), LAMBDA a, b : Mail[a].day > Mail[b].day)
  ELSE hits

-----------------------------------------------------------------------------
(* app/search.rs *)
BlankText(text) == \A i \in 1..Len(text) : text[i] = " "
AnswerToCome == answers # <<>> \/ \E i \in 1..Len(commands) : commands[i].op = "search"

ShowFolderAgain == found' = NoResults

(* search_changed *)
SearchChanged(text) ==
  /\ changes < MaxQueries /\ changes' = changes + 1 /\ text # boxText /\ boxText' = text
  /\ \/ BlankText(text) /\ debounce' = FALSE /\ ShowFolderAgain
     \/ ~BlankText(text) /\ debounce' = TRUE /\ UNCHANGED found
  /\ UNCHANGED <<commands, answers, cached, late, configured, raced, unanswered, moves>>

(* Cache::command: a full queue drops the command. *)
Command_(c) == commands' = IF Len(commands) < CommandQueue THEN Append(commands, c) ELSE commands

(* run_search, when the timer fires or on Enter. *)
RunSearch ==
  LET query == Parse(boxText) IN
  /\ debounce \/ changes < MaxQueries
  /\ changes' = (IF debounce THEN changes ELSE changes + 1) /\ debounce' = FALSE
  /\ \/ IsEmptyQuery(query) /\ UNCHANGED <<commands, raced, unanswered>>
     \/ /\ ~IsEmptyQuery(query) /\ Command_([op |-> "search", query |-> query])
        /\ raced' = late /\ unanswered' = (commands' = commands)
  /\ UNCHANGED <<boxText, found, answers, cached, late, configured, moves>>

(* SearchResults::new: hits of accounts that are gone are left out. *)
ResultsOf(hits) == SelectSeq(hits, LAMBDA m : Mail[m].account \in configured)

(* Mutant of SearchArrived: an answer is shown in an emptied box, too. *)
SearchArrivedAlways ==
  /\ answers # <<>> /\ answers' = Tail(answers) /\ found' = ResultsOf(Head(answers))
  /\ UNCHANGED <<boxText, debounce, commands, cached, late, configured, raced, unanswered, changes, moves>>

(* search_arrived *)
SearchArrived ==
  /\ answers # <<>> /\ answers' = Tail(answers)
  /\ found' = IF BlankText(boxText) THEN found ELSE ResultsOf(Head(answers))
  /\ UNCHANGED <<boxText, debounce, commands, cached, late, configured, raced, unanswered, changes, moves>>

(* clear_search, and open_folder through SearchState::reset. *)
ClearSearch ==
  /\ boxText # <<>> \/ found # NoResults
  /\ boxText' = <<>> /\ debounce' = FALSE /\ ShowFolderAgain
  /\ UNCHANGED <<commands, answers, cached, late, configured, raced, unanswered, changes, moves>>

(* App::moved: the server has moved the message. *)
MessageMoved(m) ==
  /\ moves < MaxMoves /\ moves' = moves + 1 /\ m \in cached /\ m \notin raced
  /\ Mail[m].account \in configured /\ \A i \in 1..Len(commands) : commands[i] # [op |-> "remove", message |-> m]
  /\ Command_([op |-> "remove", message |-> m])
  /\ found' = (IF found = NoResults THEN found ELSE SelectSeq(found, LAMBDA r : r # m))
  /\ raced' = (IF AnswerToCome \/ commands' = commands THEN raced \union {m} ELSE raced)
  /\ UNCHANGED <<boxText, debounce, answers, cached, late, configured, unanswered, changes>>

(* reload_accounts: a new cache actor; the old one works off its queue. *)
ReloadAccounts ==
  /\ moves < MaxMoves /\ moves' = moves + 1 /\ configured' \in {{"p"}, {"p", "r"}}
  /\ late' = late \union {commands[i].message : i \in {j \in 1..Len(commands) : commands[j].op = "remove"}}
  /\ commands' = <<>> /\ answers' = <<>> /\ raced' = raced \union late' /\ unanswered' = FALSE
  /\ boxText' = <<>> /\ debounce' = FALSE /\ ShowFolderAgain
  /\ UNCHANGED <<cached, changes>>

-----------------------------------------------------------------------------
(* The cache actor. *)
ActorSearches ==
  /\ commands # <<>> /\ Head(commands).op = "search" /\ commands' = Tail(commands)
  /\ \/ answers' = Append(answers, DbSearch(Head(commands).query)) /\ UNCHANGED <<unanswered, moves>>
     \/ /\ moves < MaxMoves /\ moves' = moves + 1 /\ UNCHANGED answers
        /\ unanswered' = (unanswered \/ \A i \in 2..Len(commands) : commands[i].op # "search")
  /\ UNCHANGED <<boxText, debounce, found, cached, late, configured, raced, changes>>

ActorRemoves ==
  /\ commands # <<>> /\ Head(commands).op = "remove"
  /\ commands' = Tail(commands) /\ cached' = cached \ {Head(commands).message}
  /\ UNCHANGED <<boxText, debounce, found, answers, late, configured, raced, unanswered, changes, moves>>

LateRemoves(m) ==
  /\ m \in late /\ late' = late \ {m} /\ cached' = cached \ {m}
  /\ UNCHANGED <<boxText, debounce, found, commands, answers, configured, raced, unanswered, changes, moves>>

SearchInit ==
  /\ boxText = <<>> /\ debounce = FALSE /\ found = NoResults /\ commands = <<>> /\ answers = <<>>
  /\ cached = DOMAIN Mail /\ late = {} /\ configured = {"p", "r"} /\ raced = {} /\ unanswered = FALSE
  /\ changes = 0 /\ moves = 0

SearchNext ==
  \/ \E text \in Texts : SearchChanged(text)
  \/ \E m \in DOMAIN Mail : MessageMoved(m) \/ LateRemoves(m)
  \/ RunSearch \/ SearchArrived \/ ClearSearch \/ ReloadAccounts \/ ActorSearches \/ ActorRemoves

SearchSpec == SearchInit /\ [][SearchNext]_searchVars

-----------------------------------------------------------------------------
(* Type invariant: no more commands than the channel holds, and the timer runs
   only for something to search for. *)
SearchTypeOK ==
  /\ Len(commands) <= CommandQueue /\ (debounce => ~BlankText(boxText))
  /\ found # NoResults => ToSet(found) \subseteq DOMAIN Mail

(* What a text asks of a message, entry by entry: entries are split by the
   spaces with an even number of quotes before them. *)
Splits(text, i) == text[i] = " " /\ Cardinality({j \in 1..(i - 1) : text[j] = "Q"}) % 2 = 0
EntryAt(text, i) ==
  LET ends == {j \in i..Len(text) : Splits(text, j)} IN
  SelectSeq(SubSeq(text, i, IF ends = {} THEN Len(text) ELSE Min(ends) - 1), LAMBDA w : w # "Q")
EntriesOf(text) == {i \in 1..Len(text) : ~Splits(text, i) /\ (i = 1 \/ Splits(text, i - 1)) /\ EntryAt(text, i) # <<>>}

Admits(text, i, m) ==
  LET entry == EntryAt(text, i)
      key == IF Len(entry) > 1 THEN Head(entry) ELSE "none"
      replaced == \E j \in EntriesOf(text) : j > i /\ Len(EntryAt(text, j)) > 1 /\ Head(EntryAt(text, j)) = key
      day == DayOf(Tail(entry)) IN
  CASE key = "since:" -> replaced \/ day = 0 \/ (m.day # 0 /\ m.day >= day)
    [] key = "before:" -> replaced \/ day = 0 \/ (m.day # 0 /\ m.day < day)
    [] key \in DOMAIN KeyOf \ {"since:", "before:"} -> Phrase(m[KeyOf[key]], Tail(entry))
    [] entry = <<"is:unread">> -> ~m.seen
    [] entry = <<"has:attachment">> -> TRUE
    [] OTHER -> \E c \in {"subject", "from", "body"} : Phrase(m[c], entry)

(* Once the typing has paused and every query is answered, the list is that of
   the text in the box: exactly the messages every entry of it admits, without
   the ones that moved away or whose account is gone; and the folder for an
   empty box; although an answer does not say which query it is for, and
   whatever was typed, cleared, reloaded and answered late before.  Left out:
   a query that was dropped or failed, a text that asks for nothing, which
   leaves the list as it was, and a message that moved while an answer was to
   come, which comes back with it (run_search, search_arrived, moved). *)
SettlesOnText ==
  (~debounce /\ ~AnswerToCome /\ ~unanswered) =>
    \/ BlankText(boxText) /\ found = NoResults
    \/ ~BlankText(boxText) /\ \A i \in EntriesOf(boxText) : EntryAt(boxText, i) = <<"has:attachment">>
    \/ /\ found # NoResults
       /\ \A m \in DOMAIN Mail \ raced :
            m \in ToSet(found) <=> /\ m \in cached /\ [op |-> "remove", message |-> m] \notin ToSet(commands)
                                   /\ Mail[m].account \in configured /\ \A i \in EntriesOf(boxText) : Admits(boxText, i, Mail[m])
=============================================================================
