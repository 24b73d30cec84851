------------------------------ MODULE StackCheck ------------------------------
(* The stack analysis of one document or macro body, internal/stackcheck.    *)
(* A program is the control-flow graph splitBlocks builds from it.  Phase 1  *)
(* propagates stack heights over a last-in first-out worklist, and is started  *)
(* over with a deeper initial stack while code without a declared input      *)
(* consumes below it; phase 2 walks every reached block once more and warns. *)
(* One step is one walk over one statement, or one merge along one edge.     *)
EXTENDS SymbolicStack, FiniteSetsExt

CONSTANTS
    Programs,   \* the programs analysed
    MaxGrow     \* bound of the model on preGrow, which has none in the code

\* Jump targets that are no block: no jump, and a label of another document.
NoJump   == 0
External == -1

Op(in, out) == [in |-> in, out |-> out, from |-> [i \in 1..out |-> 0], note |-> NoComment,
                said |-> <<>>, jumps |-> <<>>, twice |-> 0, literal |-> FALSE, loose |-> FALSE]

\* A statement with a stack effect.  Output i is the input from[i], or new.  The comment
\* lists the names said.  A call of a macro or include may also jump to labels of the
\* caller (jumps), and to places that its effect does not tell (loose): with a
\* JUMP that has no plain label, or out of a call inside it (check.go:258
\* collects the jumps of blocks only).  If the macro's start comment repeats a name so
\* do the inputs of its effect, first at input twice; literal is a PUSH of a number.
Jumps == [to : Nat, depth : Nat, wild : BOOLEAN, names : Seq(Int)]
Ops   == [in : Nat, out : Nat, from : Seq(Nat), note : Comments, said : Seq(Int),
          jumps : Seq(Jumps), twice : Nat, literal : BOOLEAN, loose : BOOLEAN]

\* Every item has its name and every output its source.
IsOp(op) ==
    /\ op \in Ops
    /\ Len(op.from) = op.out /\ \A i \in DOMAIN op.from : op.from[i] <= op.in
    /\ Len(op.said) = IF Given(op.note) THEN op.note.len ELSE 0
    /\ op.twice \in {0} \cup 2..op.in
    /\ \A j \in DOMAIN op.jumps : Len(op.jumps[j].names) = op.jumps[j].depth

\* A block ends in a loose jump if it ends in a JUMP or JUMPI without a plain label argument:
\* the analysis gives it no successor for that (blocks.go:89 and :100).
IsBlock(b) ==
    /\ DOMAIN b = {"label", "said", "ops", "falls", "jump", "loose"}
    /\ b.label \in Comments /\ b.said \in Seq(Int) /\ b.ops \in Seq(Ops)
    /\ b.falls \in BOOLEAN /\ b.jump \in Nat \cup {External} /\ b.loose \in BOOLEAN
    /\ Len(b.said) = IF Given(b.label) THEN b.label.len ELSE 0
    /\ \A k \in DOMAIN b.ops : IsOp(b.ops[k])
    /\ b.loose => b.jump = NoJump

\* names are those of the declared initial stack; globals are the blocks whose labels other
\* documents can jump to.
IsProgram(p) ==
    /\ DOMAIN p = {"blocks", "start", "names", "inferred", "globals"}
    /\ p.blocks \in Seq({p.blocks[i] : i \in DOMAIN p.blocks})
    /\ Len(p.blocks) > 0 /\ \A i \in 1..Len(p.blocks) : IsBlock(p.blocks[i])
    /\ p.start \in Heights /\ p.names \in Seq(Int) /\ Len(p.names) = p.start.depth
    /\ p.inferred \in BOOLEAN /\ p.globals \in SUBSET (1..Len(p.blocks))
    /\ p.inferred => p.start = [depth |-> 0, wild |-> FALSE]

ASSUME ProgramsAssumption == \A p \in Programs : IsProgram(p)
ASSUME MaxGrowAssumption  == MaxGrow \in Nat

VARIABLES
    prog,       \* the program under analysis
    phase,      \* what the analyzer does next
    preGrow,    \* items added below the initial stack of an inferred program
    need,       \* how many more a block other than the first has asked for
    inputs,     \* inferred inputs of the last walk over the first block
    states,     \* blockState of every block
    worklist,   \* blocks waiting to be walked, the last one first
    cur, at,    \* block and statement being walked
    stk,        \* the symbolic stack of the walk
    edges,      \* exits of the walk not merged into their targets yet
    warnings,   \* what has been reported
    items,      \* the items of the symbolic stack, and their names
    sent,       \* the names of the items along each of the edges
    came        \* names that have come to each block, with their keys, in order of arrival

naming == <<items, sent, came>>
vars   == <<prog, phase, preGrow, need, inputs, states, worklist, cur, at, stk,
            edges, warnings, naming>>

N      == Len(prog.blocks)
Blocks == 1..N
Block  == prog.blocks[cur]
AtEnd  == at > Len(Block.ops)
Stmt   == Block.ops[at]

(***** The control-flow graph and the states of its blocks *****************)

SuccessorsIn(p, i) ==
    LET blk == p.blocks[i]
    IN  (IF blk.falls /\ i < Len(p.blocks) THEN <<i + 1>> ELSE <<>>)
        \o (IF blk.jump \in 1..Len(p.blocks) THEN <<blk.jump>> ELSE <<>>)

Successors(i) == SuccessorsIn(prog, i)

\* Predecessors are keyed by block and edge: edge 0 is the end of the block, a
\* later one a jump out of a macro called in it, and Initial the program start.
Initial      == <<0, 0>>
IsVirtual(k) == k[2] > 0

\* The code numbers virtual predecessors downward, so they count as forward.
IsForward(k, i) == IsVirtual(k) \/ k[1] < i

Unreached ==
    LET none == [depth |-> 0, wild |-> FALSE]
    IN  [reached |-> FALSE, entry |-> none, exit |-> none, preds |-> <<>>]

Depths(preds)     == {preds[k].depth : k \in DOMAIN preds}
AnyPredWild(preds) == \E k \in DOMAIN preds : preds[k].wild
Merged(preds)     == [depth |-> Min(Depths(preds)), wild |-> AnyPredWild(preds)]

\* Mutant: an edge that was seen before is not updated.
MergePredecessorOnce(bs, e) ==
    IF e.key \in DOMAIN bs.preds THEN bs
    ELSE LET preds == [k \in DOMAIN bs.preds \cup {e.key} |->
                          IF k = e.key THEN e.height ELSE bs.preds[k]]
         IN  [bs EXCEPT !.reached = TRUE, !.preds = preds, !.entry = Merged(preds)]

MergePredecessor(bs, e) ==
    IF e.key \in DOMAIN bs.preds /\ bs.preds[e.key] = e.height
    THEN bs
    ELSE LET preds == [k \in DOMAIN bs.preds \cup {e.key} |->
                          IF k = e.key THEN e.height ELSE bs.preds[k]]
         IN  [bs EXCEPT !.reached = TRUE, !.preds = preds, !.entry = Merged(preds)]

\* What has come to a block, with the names along one more edge.
Received(arrivals, key, names) ==
    IF \E k \in DOMAIN arrivals : arrivals[k].key = key
    THEN [k \in DOMAIN arrivals |-> IF arrivals[k].key = key THEN [key |-> key, names |-> names]
                                    ELSE arrivals[k]]
    ELSE Append(arrivals, [key |-> key, names |-> names])

\* Mutant: ties go to the block that comes last.
PrecedesLast(arrivals, k, l) == arrivals[k].key[1] > arrivals[l].key[1]

\* Ties on the least depth go to the program start, then to blocks in their order, then to
\* jumps out of calls in order of arrival.
Precedes(arrivals, k, l) ==
    LET a == arrivals[k].key
        b == arrivals[l].key
    IN  CASE IsVirtual(a) /\ IsVirtual(b)   -> k < l
          [] ~IsVirtual(a) /\ ~IsVirtual(b) -> a[1] < b[1]
          [] OTHER                          -> IsVirtual(b)

\* The names at the entry of a block are those of one of its predecessors.
BaseNames(arrivals) ==
    LET least == {k \in DOMAIN arrivals :
                     \A l \in DOMAIN arrivals : Len(arrivals[k].names) <= Len(arrivals[l].names)}
    IN  IF least = {} THEN <<>>
        ELSE arrivals[CHOOSE k \in least : \A l \in least \ {k} : Precedes(arrivals, k, l)].names

\* The first of the edges brings other names to the entry of its target.
Renames(e) == BaseNames(Received(came[e.to], e.key, Head(sent))) # BaseNames(came[e.to])

\* Mutant: a block is queued only the first time it is reached.
EntryChangesFirst(bs, e) == ~bs.reached

EntryChanges(bs, e) ==
    ~bs.reached \/ MergePredecessor(bs, e).entry # bs.entry \/ Renames(e)

\* Mutant: the jumps of a call are put on top of the caller's whole stack.
ExternalJumpEdgesAll(s, op) ==
    [j \in DOMAIN op.jumps |->
        [key |-> <<cur, Len(edges) + j>>, to |-> op.jumps[j].to,
         height |-> [depth |-> op.jumps[j].depth + s.depth,
                     wild  |-> op.jumps[j].wild \/ s.wild]]]

\* The jumps out of a called macro, put on top of what the call leaves alone.
ExternalJumpEdges(s, op) ==
    LET below == IF s.depth > op.in THEN s.depth - op.in ELSE 0
    IN  [j \in DOMAIN op.jumps |->
            [key |-> <<cur, Len(edges) + j>>, to |-> op.jumps[j].to,
             height |-> [depth |-> op.jumps[j].depth + below,
                         wild  |-> op.jumps[j].wild \/ s.wild]]]

ExitEdges(i, h) ==
    [j \in DOMAIN Successors(i) |-> [key |-> <<i, 0>>, to |-> Successors(i)[j], height |-> h]]

\* The names along these edges.
ExternalJumpNames(op) ==
    [j \in DOMAIN op.jumps |->
        op.jumps[j].names \o SubSeq(Items(items), op.in + 1, Len(items.list))]

ExitNames(i) == [j \in DOMAIN Successors(i) |-> Items(items)]

ApplyLabelComment(s, i) == CheckComment(s, prog.blocks[i].label, FALSE)

NameLabel(s, i) == NameItems(s, prog.blocks[i].said, stk'.depth)

InitialStack ==
    LET s == NewStack(prog.start, prog.inferred)
    IN  IF prog.inferred THEN GrowBottom(s, preGrow) ELSE s

(***** Phase 1: propagation ************************************************)

Init ==
    /\ prog \in Programs
    /\ phase = "start"
    /\ preGrow = 0 /\ need = 0 /\ inputs = 0
    /\ states = [i \in Blocks |-> Unreached]
    /\ worklist = <<>> /\ cur = 1 /\ at = 1
    /\ stk = NewStack(prog.start, prog.inferred)
    /\ edges = <<>> /\ warnings = {}
    /\ items = NoItems /\ sent = <<>> /\ came = [i \in Blocks |-> <<>>]

StartRound ==
    /\ phase = "start"
    /\ phase' = "walk"
    /\ states' = [i \in Blocks |-> Unreached]
    /\ cur' = 1 /\ at' = 1 /\ need' = 0
    /\ stk' = ApplyLabelComment(InitialStack, 1)
    /\ items' = NameLabel(BuryItems(Named(prog.names), IF prog.inferred THEN preGrow ELSE 0), 1)
    /\ came' = [i \in Blocks |-> <<>>]
    /\ UNCHANGED <<prog, preGrow, inputs, worklist, edges, warnings, sent>>

\* Apply panics at an input whose name an earlier one has, if the stack reaches down to it.
RepeatsInput ==
    Stmt.twice > 0 /\ Stmt.note # Malformed /\ ~Underflows(Opened(stk, Stmt), Stmt.twice - 1)

\* externalJumpEdges makes a slice of negative capacity when a call takes so much more than
\* the stack has that a jump out of it brings less than nothing.
JumpTooShort == \E j \in DOMAIN Stmt.jumps : Stmt.jumps[j].depth + stk.depth < Stmt.in

Panics == RepeatsInput \/ JumpTooShort

WalkStatement ==
    /\ phase = "walk" /\ ~AtEnd /\ ~Panics
    /\ stk' = Apply(stk, Stmt)
    /\ edges' = edges \o ExternalJumpEdges(stk, Stmt)
    /\ at' = at + 1
    /\ items' = ApplyItems(items, stk, Stmt)
    /\ sent' = sent \o ExternalJumpNames(Stmt)
    /\ UNCHANGED <<prog, phase, preGrow, need, inputs, states, worklist, cur, warnings, came>>

WalkPanics ==
    /\ phase = "walk" /\ ~AtEnd /\ Panics
    /\ phase' = "panic"
    /\ UNCHANGED <<prog, preGrow, need, inputs, states, worklist, cur, at, stk, edges,
                   warnings, naming>>

\* The walk over the first block that opens a round.  Its entry is recorded
\* without preGrow and without the inputs the walk has invented.
FirstExit ==
    /\ phase = "walk" /\ AtEnd /\ ~states[1].reached
    /\ phase' = "merge"
    /\ inputs' = stk.grown
    /\ states' = [states EXCEPT ![1] =
           [reached |-> TRUE, entry |-> prog.start, exit |-> Height(stk),
            preds |-> [k \in {Initial} |-> prog.start]]]
    /\ edges' = ExitEdges(1, Height(stk)) \o edges
    /\ sent' = ExitNames(1) \o sent
    /\ came' = [came EXCEPT ![1] = <<[key |-> Initial, names |-> prog.names]>>]
    /\ UNCHANGED <<prog, preGrow, need, worklist, cur, at, stk, warnings, items>>

BlockExit ==
    /\ phase = "walk" /\ AtEnd /\ states[1].reached
    /\ phase' = "merge"
    /\ need' = IF stk.grown > need THEN stk.grown ELSE need
    /\ states' = [states EXCEPT ![cur].exit = Height(stk)]
    /\ edges' = ExitEdges(cur, Height(stk)) \o edges
    /\ sent' = ExitNames(cur) \o sent
    /\ UNCHANGED <<prog, preGrow, inputs, worklist, cur, at, stk, warnings, items, came>>

Queued(i) == \E k \in DOMAIN worklist : worklist[k] = i

\* Targets that are no block are labels of another document.
MergeEdge ==
    /\ phase = "merge" /\ edges # <<>>
    /\ LET e == Head(edges) IN
         IF e.to \in Blocks
         THEN /\ states' = [states EXCEPT ![e.to] = MergePredecessor(@, e)]
              /\ worklist' = IF EntryChanges(states[e.to], e) /\ ~Queued(e.to)
                             THEN Append(worklist, e.to) ELSE worklist
              /\ came' = [came EXCEPT ![e.to] = Received(@, e.key, Head(sent))]
         ELSE UNCHANGED <<states, worklist, came>>
    /\ edges' = Tail(edges) /\ sent' = Tail(sent)
    /\ UNCHANGED <<prog, phase, preGrow, need, inputs, cur, at, stk, warnings, items>>

TakeBlock ==
    /\ phase = "merge" /\ edges = <<>> /\ worklist # <<>>
    /\ cur' = worklist[Len(worklist)] /\ at' = 1
    /\ worklist' = SubSeq(worklist, 1, Len(worklist) - 1)
    /\ stk' = ApplyLabelComment(NewStack(states[cur'].entry, prog.inferred), cur')
    /\ items' = NameLabel(Named(BaseNames(came[cur'])), cur')
    /\ phase' = "walk"
    /\ UNCHANGED <<prog, preGrow, need, inputs, states, edges, warnings, sent, came>>

RoundOver == phase = "merge" /\ edges = <<>> /\ worklist = <<>>

GrowInitialStack ==
    /\ RoundOver /\ need > 0
    /\ preGrow + need <= MaxGrow
    /\ preGrow' = preGrow + need
    /\ phase' = "start"
    /\ UNCHANGED <<prog, need, inputs, states, worklist, cur, at, stk, edges, warnings, naming>>

PropagationDone ==
    /\ RoundOver /\ need = 0
    /\ phase' = "check" /\ cur' = 1
    /\ UNCHANGED <<prog, preGrow, need, inputs, states, worklist, at, stk, edges, warnings, naming>>

(***** Phase 2: checking ***************************************************)

Warn(i, k, kinds) == {[block |-> i, op |-> k, kind |-> w] : w \in kinds}

\* A wildcard in the label comment or in a predecessor switches off the checks
\* of depths at the head of a block.
Lenient(i) ==
    \/ Given(prog.blocks[i].label) /\ prog.blocks[i].label.wild
    \/ AnyPredWild(states[i].preds)

ForwardDepths(i) ==
    {states[i].preds[k].depth : k \in {p \in DOMAIN states[i].preds : IsForward(p, i)}}
BackDepths(i) ==
    {states[i].preds[k].depth : k \in {p \in DOMAIN states[i].preds : ~IsForward(p, i)}}

\* Mutant: merges are compared at their smallest depth.
CheckMergeDepthMin(i) ==
    IF ~Lenient(i) /\ ForwardDepths(i) # {} /\ Min(ForwardDepths(i)) # states[i].entry.depth
    THEN {"merge depth"} ELSE {}

CheckMergeDepth(i) ==
    IF ~Lenient(i) /\ Cardinality(ForwardDepths(i)) > 1 THEN {"merge depth"} ELSE {}

CheckLoopBalance(i) ==
    IF /\ ~Lenient(i) /\ ForwardDepths(i) # {}
       /\ \E d \in BackDepths(i) : d # Min(ForwardDepths(i))
    THEN {"loop unbalanced"} ELSE {}

OnlyVirtualPreds(i) == \A k \in DOMAIN states[i].preds : IsVirtual(k)
SomePredMatches(i)  == prog.blocks[i].label.len \in Depths(states[i].preds)

\* A wrong depth at a label is blamed on the label only when no jump agrees
\* with it, and on the jumps that disagree otherwise.
CheckLabelComment(i, s) ==
    LET errs == CommentErrors(s, prog.blocks[i].label, FALSE)
    IN  IF prog.blocks[i].label = Malformed THEN {"malformed"}
        ELSE IF OnlyVirtualPreds(i) THEN {}
        ELSE {e \in errs : e = "comment depth" => ~SomePredMatches(i)}

EntryStack(i) ==
    IF i = 1 THEN InitialStack ELSE NewStack(states[i].entry, prog.inferred)

CheckBlock ==
    /\ phase = "check" /\ cur \in Blocks /\ states[cur].reached
    /\ stk' = ApplyLabelComment(EntryStack(cur), cur)
    /\ warnings' = warnings \cup Warn(cur, 0,
           (IF cur = 1 THEN {} ELSE CheckMergeDepth(cur))
           \cup CheckLoopBalance(cur) \cup CheckLabelComment(cur, EntryStack(cur)))
    /\ phase' = "report" /\ at' = 1
    /\ UNCHANGED <<prog, preGrow, need, inputs, states, worklist, cur, edges, naming>>

SkipBlock ==
    /\ phase = "check" /\ cur \in Blocks /\ ~states[cur].reached
    /\ cur' = cur + 1
    /\ UNCHANGED <<prog, phase, preGrow, need, inputs, states, worklist, at, stk, edges,
                   warnings, naming>>

\* checkPushLiteral reads the first item of the comment of a literal PUSH.
PushPanics == Stmt.literal /\ Stmt.note = [len |-> 0, wild |-> FALSE]

ReportStatement ==
    /\ phase = "report" /\ ~AtEnd /\ ~Panics /\ ~PushPanics
    /\ stk' = Apply(stk, Stmt)
    /\ warnings' = warnings \cup Warn(cur, at, ApplyErrors(stk, Stmt))
    /\ at' = at + 1
    /\ UNCHANGED <<prog, phase, preGrow, need, inputs, states, worklist, cur, edges, naming>>

ReportPanics ==
    /\ phase = "report" /\ ~AtEnd /\ (Panics \/ PushPanics)
    /\ phase' = "panic"
    /\ UNCHANGED <<prog, preGrow, need, inputs, states, worklist, cur, at, stk, edges,
                   warnings, naming>>

BlockReported ==
    /\ phase = "report" /\ AtEnd
    /\ phase' = "check" /\ cur' = cur + 1
    /\ UNCHANGED <<prog, preGrow, need, inputs, states, worklist, at, stk, edges, warnings, naming>>

\* Mutant: jumps that disagree with a label are left to the check of the label.
WrongJumpsNone(i) == {}

\* The predecessors of block i whose depth its label comment contradicts.  The
\* program start has no statement to report at.
WrongJumps(i) ==
    LET label == prog.blocks[i].label
    IN  IF /\ states[i].reached /\ Given(label) /\ ~label.wild
           /\ OnlyVirtualPreds(i) \/ SomePredMatches(i)
        THEN {k \in DOMAIN states[i].preds \ {Initial} :
                 states[i].preds[k].depth # label.len}
        ELSE {}

CheckJumpDepths ==
    /\ phase = "check" /\ cur > N
    /\ warnings' = warnings \cup
           UNION {Warn(k[1], k[2], {"jump depth"}) : k \in UNION {WrongJumps(i) : i \in Blocks}}
    /\ phase' = "done"
    /\ UNCHANGED <<prog, preGrow, need, inputs, states, worklist, cur, at, stk, edges, naming>>

Stopped == phase \in {"done", "panic"} /\ UNCHANGED vars

Next ==
    \/ StartRound \/ WalkStatement \/ WalkPanics \/ FirstExit \/ BlockExit
    \/ MergeEdge \/ TakeBlock \/ GrowInitialStack \/ PropagationDone
    \/ CheckBlock \/ SkipBlock \/ ReportStatement \/ ReportPanics
    \/ BlockReported \/ CheckJumpDepths \/ Stopped

\* The analyzer is a loop in one goroutine: it never stops between two steps.
Spec == Init /\ [][Next]_vars /\ WF_vars(Next)

(***** What the analysis reports *******************************************)

Done  == phase = "done"
Quiet == Done /\ warnings = {}

FallsThrough == states[N].reached /\ prog.blocks[N].falls

(***** Properties **********************************************************)

\* A block whose entry has changed since it was walked is waiting to be walked
\* again, so phase 2 starts from heights that every walk agrees with: at the
\* end of phase 1 (check.go:371, "until all entry states are stable") each
\* reached block has handed its last exit to each of its successors.
ExitsDelivered ==
    phase \in {"check", "report", "done"} =>
        \A i \in Blocks : states[i].reached =>
            /\ states[i].entry = Merged(states[i].preds)
            /\ \A j \in DOMAIN Successors(i) :
                  LET t == Successors(i)[j]
                  IN  /\ states[t].reached
                      /\ <<i, 0>> \in DOMAIN states[t].preds
                      /\ states[t].preds[<<i, 0>>] = states[i].exit

\* The heights before each statement of a block entered with d items.
HeightsIn(ops, d) ==
    LET h[k \in 1..Len(ops) + 1] ==
            IF k = 1 THEN d ELSE h[k - 1] - ops[k - 1].in + ops[k - 1].out
    IN  h

\* The heights D fit the blocks R, which are all that can be reached: no statement
\* underflows, labels say the truth, and all paths to a block bring its height.
BalancedBy(p, R, D) ==
    /\ 1 \in R /\ (p.inferred \/ D[1] = p.start.depth)
    /\ \A i \in R :
          LET blk == p.blocks[i]
              h   == HeightsIn(blk.ops, D[i])
          IN  /\ blk.label \in {NoComment, [len |-> D[i], wild |-> FALSE]}
              /\ \A k \in DOMAIN blk.ops :
                    /\ blk.ops[k].in <= h[k]
                    /\ blk.ops[k].note = NoComment /\ blk.ops[k].twice = 0
                    /\ \A j \in DOMAIN blk.ops[k].jumps :
                          LET jmp == blk.ops[k].jumps[j]
                          IN  jmp.to \in 1..Len(p.blocks) =>
                                /\ jmp.to \in R /\ ~jmp.wild
                                /\ D[jmp.to] = h[k] - blk.ops[k].in + jmp.depth
              /\ \A j \in DOMAIN SuccessorsIn(p, i) :
                    LET t == SuccessorsIn(p, i)[j]
                    IN  t \in R /\ D[t] = h[Len(blk.ops) + 1]

Balanced(p, top) ==
    \E R \in SUBSET (1..Len(p.blocks)) : \E D \in [R -> 0..top] : BalancedBy(p, R, D)

\* Code without a declared input can be balanced and still be reported: inputs that
\* are inferred while the first block is walked are missing from the height at its
\* start (check.go:358-364) and from those of earlier jumps out of calls in it
\* (check.go:348-352), and a label that only calls jump to is trusted to list them
\* (check.go:591-607).  It can even panic, where a call takes more than is known and jumps
\* out with less (check.go:810).  This is code that has none of the four.
InputsKnown(p) ==
    p.inferred => \A i \in DOMAIN p.blocks :
        /\ \A j \in DOMAIN SuccessorsIn(p, i) : SuccessorsIn(p, i)[j] # 1
        /\ \A k \in DOMAIN p.blocks[i].ops : \A j \in DOMAIN p.blocks[i].ops[k].jumps :
              LET jmp == p.blocks[i].ops[k].jumps[j]
              IN  /\ p.blocks[i].ops[k].in <= jmp.depth
                  /\ jmp.to \in DOMAIN p.blocks =>
                        i # 1 /\ jmp.to # 1 /\ p.blocks[jmp.to].label = NoComment

\* No false alarm: code whose loops and merges are balanced is analysed without a panic and
\* is not reported (check.go:502-504: the warning is for "loops whose body has a net push or
\* pop effect").
BalancedIsQuiet ==
    Balanced(prog, MaxGrow) /\ InputsKnown(prog) => phase # "panic" /\ (Done => warnings = {})

\* The blocks that control leads to from the first, as far as the analysis sees.
Targets(p, i) ==
    {SuccessorsIn(p, i)[j] : j \in DOMAIN SuccessorsIn(p, i)} \cup
    UNION {{p.blocks[i].ops[k].jumps[j].to : j \in DOMAIN p.blocks[i].ops[k].jumps} :
              k \in DOMAIN p.blocks[i].ops}

Reachable(p) ==
    LET within[n \in 0..Len(p.blocks)] ==
            IF n = 0 THEN {1}
            ELSE within[n - 1] \cup
                 (UNION {Targets(p, i) : i \in within[n - 1]} \cap (1..Len(p.blocks)))
    IN  within[Len(p.blocks)]

\* Names can keep the worklist busy when depths no longer do: a block takes its names from
\* its first predecessor (check.go:652-671), and where that is a back-edge, names that a loop
\* permutes or makes anew come round for ever.  In this code control comes to
\* each block along an edge from an earlier one, or by nothing but calls in earlier ones.
EntersForward(p) ==
    \A i \in Reachable(p) \ {1} :
        \/ \E j \in Reachable(p) :
              j < i /\ \E k \in DOMAIN SuccessorsIn(p, j) : SuccessorsIn(p, j)[k] = i
        \/ \A j \in Reachable(p) : i \in Targets(p, j) => j < i

\* The analysis of a document ends (check.go:225-241 and 371-372).
Terminates == <>(phase \in {"done", "panic"})
=============================================================================
