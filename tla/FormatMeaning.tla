---------------------------- MODULE FormatMeaning ----------------------------
(****************************************************************************)
(* The formatter with the grammar of expressions: what comes out of it.     *)
(****************************************************************************)
EXTENDS Command, Expressions

Words(text) ==
  LET kept == SelectSeq(text, LAMBDA t : t.k \notin {"nl", "=", "(", ")", ",", "arith"})
  IN  [i \in DOMAIN kept |-> kept[i].v]

\* Every name, number and comment of the source comes out, in the same order, and the
\* trees of the document join what precedence says.
ParseIsFaithful ==
  /\ Len(docs) >= 1 =>
       \A i \in DOMAIN docs[1] : \A a \in DOMAIN docs[1][i].arg : Grouped(docs[1][i].arg[a])
  /\ step = "end" => Words(outputs[1]) = Words(source)
==============================================================================
