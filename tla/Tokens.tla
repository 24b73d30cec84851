------------------------------- MODULE Tokens -------------------------------
(****************************************************************************)
(* The tokens of a text, and what a function of the parser returns.         *)
(* Blanks and columns are left out; line breaks are tokens.                 *)
(****************************************************************************)
EXTENDS Integers, Sequences

Tok(kind, name) == [k |-> kind, v |-> name]
NLTok == Tok("nl", "")
Note(text, level, stack) == [k |-> "comment", v |-> text, level |-> level, stack |-> stack]

None == [k |-> "none", v |-> ""]

\* A result has the tree and the token behind it, or is an error.
Result(tree, next) == [e |-> tree, n |-> next, ok |-> TRUE]
Failed(i) == [e |-> <<>>, n |-> i, ok |-> FALSE]

\* Parsing goes on behind a result and gives up at an error.
Then(r, More(_)) == IF r.ok THEN More(r) ELSE r

LineBreak(s, i) == s[i].k \in {"ls", "le"}

SkipLines(s, i) ==
  CHOOSE j \in i..Len(s) : ~LineBreak(s, j) /\ \A n \in i..j - 1 : LineBreak(s, n)
=============================================================================
