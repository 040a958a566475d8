---------------------------- MODULE MC_HtmlView -----------------------------
(* The documents the HTML view is checked with. *)
EXTENDS HtmlView

(* Three pages: the notice the pane begins with, a letter with a link, an
   embedded and a remote image, and a list mail that wraps. *)
R(text, block, newlines, font, soft, href) ==
  [text |-> text, block |-> block, breaks |-> newlines, font |-> font, soft |-> soft, href |-> href, line |-> 0, left |-> 0]

MCDocuments == [
  notice |-> [runs |-> <<>>, data |-> {}, remote |-> {}, fonts |-> <<"body">>, margin |-> 0],
  letter |-> [runs |-> <<R(<<"word", "word", "mark">>, 1, 0, 1, FALSE, 0), R(<<"space">>, 1, 0, 1, FALSE, 0),
                         R(<<"word">>, 1, 0, 2, FALSE, 1), R(<<"word">>, 2, 0, 1, FALSE, 0)>>,
              data |-> {"logo"}, remote |-> {"pixel"}, fonts |-> <<"body", "bold">>, margin |-> 1],
  list |-> [runs |-> <<R(<<"word">>, 1, 0, 1, FALSE, 0), R(<<"space">>, 1, 0, 1, TRUE, 0),
                       R(<<"word">>, 1, 0, 2, FALSE, 0), R(<<"word">>, 1, 1, 1, FALSE, 0)>>,
            data |-> {}, remote |-> {"banner"}, fonts |-> <<"body", "italic">>, margin |-> 0]]
=============================================================================
