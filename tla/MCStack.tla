------------------------------- MODULE MCStack -------------------------------
(****************************************************************************)
(* Instances of StackCheck and StackRun: all control-flow graphs of three   *)
(* blocks over a few statements, and single programs worth a run.           *)
(****************************************************************************)
EXTENDS StackRun

PUSH  == Op(0, 1)
POP   == Op(1, 0)
ADD   == Op(2, 1)
STORE == Op(2, 0)
DUP   == [Op(1, 2) EXCEPT !.from = <<1, 1>>]
SWAP  == [Op(2, 2) EXCEPT !.from = <<2, 1>>]

\* Comments list different names.
Said(c)     == [k \in 1..(IF Given(c) THEN c.len ELSE 0) |-> -k]
Label(n)    == [len |-> n, wild |-> FALSE]
Note(op, n) == [op EXCEPT !.note = Label(n), !.said = Said(Label(n))]
AnyLabel    == [len |-> 0, wild |-> TRUE]

Blk(label, ops, falls, jump) ==
    [label |-> label, said |-> Said(label), ops |-> ops, falls |-> falls, jump |-> jump,
     loose |-> FALSE]

\* Ends in a jump to an address that is computed.
Loose(block) == [block EXCEPT !.loose = TRUE]

Closed(blocks)   == [blocks |-> blocks, start |-> [depth |-> 0, wild |-> FALSE], names |-> <<>>,
                     inferred |-> FALSE, globals |-> {}]
Inferred(blocks) == [Closed(blocks) EXCEPT !.inferred = TRUE]

\* Both kinds in one set, told apart before they are compared: a union of the programs
\* would compare each with each.
Both(closed, inferred) ==
    {[Closed(x[2]) EXCEPT !.inferred = x[1]] : x \in ({FALSE} \X closed) \cup ({TRUE} \X inferred)}

\* Blocks over some statement lists, with every exit.
Blks(labels, opLists, jumps) ==
    {Blk(label, ops, falls, jump) :
        label \in labels, ops \in opLists, falls \in BOOLEAN, jump \in jumps}

\* The last block falls through or jumps, never both.
Lasts(opLists) ==
    {b \in Blks({NoComment}, opLists, 0..3) : b.jump # NoJump => ~b.falls}

Graphs3(firstOps, labels, opLists) ==
    Blks({NoComment}, firstOps, {NoJump, 1, 3}) \X Blks(labels, opLists, 0..3) \X Lasts(opLists)

NoLoopToStart(g) == \A i \in 1..3 : g[i].jump # 1

\* A macro that takes n items and may jump to block t with d others.
Jump(t, d)       == [to |-> t, depth |-> d, wild |-> FALSE, names |-> [k \in 1..d |-> k]]
Calling(n, t, d) == [Op(n, 0) EXCEPT !.jumps = <<Jump(t, d)>>]
JumpTo(t, d)     == Calling(1, t, d)

\* One that takes one item and may jump to the last block with another.
Call == [Op(1, 0) EXCEPT !.jumps = <<Jump(3, 1), Jump(0, 2)>>]

Starts == {<<PUSH>>, <<PUSH, PUSH>>}

ClosedGraphs ==
    Graphs3(Starts, {NoComment}, {<<>>, <<POP>>, <<PUSH>>, <<PUSH, STORE>>})
    \cup Graphs3(Starts, {Label(1), Label(2)}, {<<>>, <<POP>>, <<Call>>})

\* Comments of every kind on a statement and a label.
CommentPrograms ==
    {Closed(<<Blk(NoComment, <<op, PUSH>>, TRUE, External), Blk(l, <<>>, TRUE, NoJump)>>) :
        op \in {Note(PUSH, 1), Note(PUSH, 2), Note(PUSH, 0), [PUSH EXCEPT !.note = Malformed],
                [POP EXCEPT !.note = AnyLabel]},
        l \in {NoComment, Malformed, AnyLabel, Label(1), Label(2), Label(3)}}

\* Statements that make the analyzer panic, and some that nearly do: a push with an empty
\* comment; inputs that repeat a name, of which the stack has one or none; calls that
\* take two items, one of which is missing, and jump out with one, with none, or none even so
\* because of a comment that does not parse.
PanicPrograms ==
    LET statements == {[Note(PUSH, 0) EXCEPT !.literal = TRUE], [STORE EXCEPT !.twice = 2],
                       Calling(2, 0, 1), Calling(2, 0, 0),
                       [Calling(2, 0, 0) EXCEPT !.note = Malformed]}
        blocks     == {<<Blk(NoComment, pushes \o <<op, PUSH>>, TRUE, External)>> :
                          pushes \in {<<>>, <<PUSH>>, <<PUSH, PUSH>>}, op \in statements}
    IN  {Closed(b) : b \in blocks} \cup {Inferred(b) : b \in blocks}

\* Code without a declared input, whose first block is no loop head.
InferredGraphs ==
    {g \in Graphs3({<<>>, <<POP>>, <<POP, POP>>}, {NoComment},
                   {<<>>, <<POP>>, <<PUSH>>, <<PUSH, ADD>>}) : NoLoopToStart(g)}

\* Code outside what the checks of depths reach: a call that jumps to the first
\* block with an item less, or loops of inferred code to it; a block that only
\* later blocks jump to, at two heights; a wrong label that only a call jumps to;
\* inputs inferred behind a jump out of a call, and a label that lists more than
\* is known.
OddPrograms ==
    {[Closed(<<Blk(NoComment, <<POP, JumpTo(1, 1)>>, FALSE, NoJump)>>)
        EXCEPT !.start = [depth |-> 2, wild |-> FALSE], !.names = <<-1, -2>>],
     Closed(<<Blk(NoComment, <<>>, FALSE, 3), Blk(NoComment, <<>>, FALSE, 5),
              Blk(NoComment, <<>>, TRUE, 2), Blk(NoComment, <<PUSH>>, FALSE, 2),
              Blk(Label(0), <<>>, FALSE, NoJump)>>),
     Closed(<<Blk(NoComment, <<PUSH, JumpTo(2, 1)>>, FALSE, NoJump),
              Blk(Label(2), <<>>, FALSE, NoJump)>>),
     Inferred(<<Blk(NoComment, <<POP>>, FALSE, 1)>>),
     Inferred(<<Blk(NoComment, <<JumpTo(2, 1), POP, PUSH>>, TRUE, NoJump),
                Blk(NoComment, <<POP>>, TRUE, NoJump)>>),
     Inferred(<<Blk(NoComment, <<>>, TRUE, NoJump), Blk(Label(2), <<POP>>, TRUE, NoJump)>>)}

\* Ways the analysis does not know.  push @ret; jump @f; ret: pop; stop; f: jump
\* is silent because ret is not reached.  A JUMPI without a label; a call that jumps to a
\* label further out by a call inside it, or that ends in a computed jump; a global label.
StrayPrograms ==
    {Closed(<<Blk(NoComment, <<PUSH>>, FALSE, 3), Blk(NoComment, <<POP>>, FALSE, NoJump),
              Loose(Blk(NoComment, <<POP>>, FALSE, NoJump))>>),
     Closed(<<Loose(Blk(NoComment, <<PUSH, PUSH, STORE>>, TRUE, NoJump)),
              Blk(Label(0), <<>>, TRUE, External)>>),
     Closed(<<Blk(NoComment, <<PUSH, JumpTo(0, 0)>>, TRUE, NoJump),
              Blk(Label(0), <<>>, TRUE, NoJump)>>),
     Inferred(<<Blk(NoComment, <<[POP EXCEPT !.loose = TRUE], POP>>, TRUE, NoJump)>>),
     [Closed(<<Blk(NoComment, <<PUSH>>, TRUE, External), Blk(Label(1), <<POP>>, TRUE, NoJump)>>)
        EXCEPT !.globals = {2}]}

CheckedPrograms ==
    Both(ClosedGraphs, InferredGraphs) \cup CommentPrograms \cup PanicPrograms \cup OddPrograms
    \cup StrayPrograms

\* Code without a declared input that calls macros, which may jump to the last block.
InferredCalls ==
    {Inferred(<<Blk(NoComment, first, TRUE, NoJump), Blk(l2, second, TRUE, 2),
                Blk(l3, third, FALSE, NoJump)>>) :
        first \in {<<>>, <<POP>>, <<Call>>}, l2 \in {NoComment, Label(1)},
        second \in {<<POP, PUSH>>, <<JumpTo(3, 1)>>, <<JumpTo(3, 0), PUSH>>},
        l3 \in {NoComment, Label(1)}, third \in {<<>>, <<POP>>, <<JumpTo(2, 1)>>}}

\* Balanced code, and the part of it for which the analysis has to end.
BalancedGraphs ==
    LET Fine(p)  == InputsKnown(p) /\ EntersForward(p) /\ Balanced(p, 2)
        closed   == Graphs3({<<PUSH, PUSH>>}, {NoComment, Label(2)},
                            {<<>>, <<SWAP>>, <<POP, POP, PUSH, DUP>>})
        inferred == Graphs3({<<>>, <<POP>>, <<PUSH>>}, {NoComment},
                            {<<>>, <<POP>>, <<PUSH>>, <<SWAP>>})
    IN  Both({g \in closed : Fine(Closed(g))}, {g \in inferred : Fine(Inferred(g))})
        \cup {p \in InferredCalls : Fine(p)}

\* push 1; loop: push 2; mstore; jump @loop
Unbalanced ==
    {Closed(<<Blk(NoComment, <<PUSH>>, TRUE, NoJump), Blk(NoComment, <<PUSH, STORE>>, FALSE, 2)>>)}

\* Two balanced programs whose names never settle:
\* push 1; push 2; jump @L3; L1: swap1; jump @L2; L2: jump @L1; L3: jump @L2, and
\* push 1; push 2; push 3; swap2; pop; jump @L2; L1: pop; push 4; jump @L1; L2: jump @L1
Permuting ==
    {Closed(<<Blk(NoComment, <<PUSH, PUSH>>, FALSE, 4), Blk(NoComment, <<SWAP>>, FALSE, 3),
              Blk(NoComment, <<>>, FALSE, 2), Blk(NoComment, <<>>, FALSE, 3)>>),
     Closed(<<Blk(NoComment, <<PUSH, PUSH, PUSH, [Op(3, 3) EXCEPT !.from = <<3, 2, 1>>], POP>>,
                  FALSE, 3),
              Blk(NoComment, <<POP, PUSH>>, FALSE, 2), Blk(NoComment, <<>>, FALSE, 2)>>)}

OscillatingPrograms == Unbalanced \cup Permuting
==============================================================================
