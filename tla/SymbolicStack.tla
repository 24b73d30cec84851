---------------------------- MODULE SymbolicStack ----------------------------
(* The symbolic stack of internal/stack/stack.go.  The analysis of           *)
(* internal/stackcheck decides on the number of known items, the wildcard    *)
(* flag, and in inferred mode on how many items were invented at the bottom; *)
(* no depth in stack.go ever depends on a name.  The names of the items are  *)
(* in the second part: they decide when an entry has changed.                *)
EXTENDS Integers, Sequences, FiniteSets

\* A stack comment: how many items it lists and whether it ends in "..".
\* NoComment is a missing comment, Malformed one that does not parse.
NoComment == [len |-> -1, wild |-> FALSE]
Malformed == [len |-> -2, wild |-> FALSE]
Comments  == [len : Nat, wild : BOOLEAN] \cup {NoComment, Malformed}

Given(c) == c.len >= 0

\* What one program point knows of the stack.
Heights == [depth : Nat, wild : BOOLEAN]

NewStack(h, inferred) ==
    [depth |-> h.depth, wild |-> h.wild, inferred |-> inferred, grown |-> 0]

Height(s) == [depth |-> s.depth, wild |-> s.wild]

GrowBottom(s, n) ==
    [s EXCEPT !.depth = @ + n, !.grown = IF s.inferred THEN @ + n ELSE @]

\* Have n items on the stack, inventing the missing ones.
Reach(s, n) == IF n > s.depth THEN GrowBottom(s, n - s.depth) ELSE s

Underflows(s, n) == n > s.depth /\ ~s.inferred /\ ~s.wild

\* A comment sets or clears the wildcard.  One that lists more items than
\* there are names invented ones only under its own wildcard; one that lists
\* fewer elides the rest on an instruction and truncates at a label.
CheckComment(s, c, allowElide) ==
    LET w == [s EXCEPT !.wild = c.wild]
    IN  CASE ~Given(c)                               -> s
          [] Given(c) /\ c.wild                      -> Reach(w, c.len)
          [] Given(c) /\ ~c.wild /\ (allowElide \/ c.len > s.depth) -> w
          [] OTHER                                   -> [w EXCEPT !.depth = c.len]

\* Mutant: a comment that lists the whole stack is taken for one that lists too much.
CommentErrorsOffByOne(s, c, allowElide) ==
    CASE ~Given(c) \/ c.wild                 -> {}
      [] c.len >= s.depth /\ ~s.inferred     -> {"comment underflow"}
      [] c.len < s.depth /\ ~allowElide      -> {"comment depth"}
      [] OTHER                               -> {}

CommentErrors(s, c, allowElide) ==
    CASE ~Given(c) \/ c.wild                                      -> {}
      [] Given(c) /\ ~c.wild /\ c.len > s.depth /\ ~s.inferred   -> {"comment underflow"}
      [] Given(c) /\ ~c.wild /\ c.len < s.depth /\ ~allowElide   -> {"comment depth"}
      [] OTHER                                                    -> {}

\* A wildcard in the comment of an instruction is in force while its inputs
\* are taken.
Opened(s, op) == IF Given(op.note) /\ op.note.wild THEN [s EXCEPT !.wild = TRUE] ELSE s

Exchange(s, op) == [Reach(s, op.in) EXCEPT !.depth = @ - op.in + op.out]

\* An operation that underflows leaves the stack as it is, and one with a
\* malformed comment is not applied at all.
Apply(s, op) ==
    CASE op.note = Malformed          -> s
      [] op.note # Malformed /\ Underflows(Opened(s, op), op.in)  -> Opened(s, op)
      [] OTHER -> CheckComment(Exchange(Opened(s, op), op), op.note, TRUE)

ApplyErrors(s, op) ==
    CASE op.note = Malformed          -> {"malformed"}
      [] op.note # Malformed /\ Underflows(Opened(s, op), op.in)  -> {"underflow"}
      [] OTHER -> CommentErrors(Exchange(Opened(s, op), op), op.note, TRUE)

(***** Names ***************************************************************)

\* An item is a number, counted from the first one a stack has made.  Item n is
\* called "_n" until it is named: n stands for that name, and a negative number
\* for one written in a comment.  The list of items is top first.
NoItems == [list |-> <<>>, names |-> <<>>]

\* The names of n new items.
Unnamed(s, n) == [k \in 1..n |-> Len(s.names) + k]

Items(s) == [k \in DOMAIN s.list |-> s.names[s.list[k]]]

\* Init, one name: a name that is on the stack already stands for the same item.
PushName(s, name) ==
    LET same == {k \in DOMAIN s.list : s.names[s.list[k]] = name}
    IN  IF same = {}
        THEN [list |-> <<Len(s.names) + 1>> \o s.list, names |-> Append(s.names, name)]
        ELSE [s EXCEPT !.list = <<s.list[CHOOSE k \in same : TRUE]>> \o @]

\* Init goes through the names from the bottom up.
Named(names) ==
    LET upTo[k \in 0..Len(names)] ==
            IF k = 0 THEN NoItems ELSE PushName(upTo[k - 1], names[Len(names) + 1 - k])
    IN  upTo[Len(names)]

\* n items below the others, made at once: the lowest one first.
BuryItems(s, n) ==
    [list  |-> s.list \o [k \in 1..n |-> Len(s.names) + n + 1 - k],
     names |-> s.names \o Unnamed(s, n)]

\* n items at least, the missing ones made one by one, each below the last.
ReachItems(s, n) ==
    IF n <= Len(s.list) THEN s
    ELSE [list  |-> s.list \o Unnamed(s, n - Len(s.list)),
          names |-> s.names \o Unnamed(s, n - Len(s.list))]

\* The inputs are taken; an output is one of them or a new item, made from the bottom up.
ExchangeItems(s, op) ==
    LET r        == ReachItems(s, op.in)
        fresh(i) == Cardinality({k \in i..op.out : op.from[k] = 0})
        out      == [i \in 1..op.out |-> IF op.from[i] > 0 THEN r.list[op.from[i]]
                                         ELSE Len(r.names) + fresh(i)]
    IN  [list  |-> out \o SubSeq(r.list, op.in + 1, Len(r.list)),
         names |-> r.names \o Unnamed(r, fresh(1))]

\* A comment that leaves the stack with that depth names the items it lists from the top; of
\* two names for one item the lower stays.
NameItems(s, said, depth) ==
    LET r         == [ReachItems(s, depth) EXCEPT !.list = SubSeq(@, 1, depth)]
        places(n) == {k \in DOMAIN r.list : k <= Len(said) /\ r.list[k] = n}
    IN  [r EXCEPT !.names = [n \in DOMAIN @ |->
            IF places(n) = {} THEN @[n]
            ELSE said[CHOOSE k \in places(n) : \A l \in places(n) : l <= k]]]

\* What Apply does to the items of a stack of height s.
ApplyItems(items, s, op) ==
    IF op.note = Malformed \/ Underflows(Opened(s, op), op.in) THEN items
    ELSE NameItems(ExchangeItems(items, op), op.said, Apply(s, op).depth)
=============================================================================
