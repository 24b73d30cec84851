------------------------------- MODULE StackRun -------------------------------
(* The stack analysis composed with the machine that executes the analysed   *)
(* code: what a silent report is worth.  Once the analysis of a program has  *)
(* ended without a warning, the EVM runs it from the stack the analysis has  *)
(* assumed and takes every branch.                                           *)
EXTENDS StackCheck

CONSTANT StackLimit     \* items an EVM stack holds

ASSUME StackLimitAssumption == StackLimit \in Nat

VARIABLES
    mode,       \* "idle", "running", "halted", "left", "returned", "underflow", "overflow"
    pc,         \* block and statement executed next
    height,     \* items on the stack
    strayed     \* control has come some way that the analysis does not know of

machine == <<mode, pc, height, strayed>>
allVars == <<vars, machine>>

Here == prog.blocks[pc[1]]

\* The program starts with the stack it declares, code without a declaration
\* with the inputs inferred for it.
StartHeight == IF prog.inferred THEN inputs ELSE prog.start.depth

RunInit == Init /\ mode = "idle" /\ pc = <<1, 1>> /\ height = 0 /\ strayed = FALSE

Check == Next /\ ~Quiet /\ UNCHANGED machine

Begin ==
    /\ Quiet /\ mode = "idle"
    /\ mode' = "running" /\ height' = StartHeight
    /\ UNCHANGED <<vars, pc, strayed>>

InOps == mode = "running" /\ pc[2] <= Len(Here.ops)
Instr == Here.ops[pc[2]]

Execute ==
    /\ InOps /\ Instr.in <= height /\ height - Instr.in + Instr.out <= StackLimit
    /\ height' = height - Instr.in + Instr.out
    /\ pc' = <<pc[1], pc[2] + 1>>
    /\ UNCHANGED <<vars, mode, strayed>>

Underflow ==
    /\ InOps /\ Instr.in > height
    /\ mode' = "underflow"
    /\ UNCHANGED <<vars, pc, height, strayed>>

Overflow ==
    /\ InOps /\ Instr.in <= height /\ height - Instr.in + Instr.out > StackLimit
    /\ mode' = "overflow"
    /\ UNCHANGED <<vars, pc, height, strayed>>

\* A called macro jumps to a label of the caller.
JumpOut ==
    /\ InOps /\ Instr.in <= height
    /\ \E j \in DOMAIN Instr.jumps :
          /\ Instr.jumps[j].to \in Blocks
          /\ pc' = <<Instr.jumps[j].to, 1>>
          /\ height' = height - Instr.in + Instr.jumps[j].depth
    /\ UNCHANGED <<vars, mode, strayed>>

AtExit == mode = "running" /\ pc[2] > Len(Here.ops)

Branch ==
    /\ AtExit
    /\ \E j \in DOMAIN Successors(pc[1]) : pc' = <<Successors(pc[1])[j], 1>>
    /\ UNCHANGED <<vars, mode, height, strayed>>

\* Control leaves through the last statement: into the caller, for a macro.
Return ==
    /\ AtExit /\ pc[1] = N /\ Here.falls
    /\ mode' = "returned"
    /\ UNCHANGED <<vars, pc, height, strayed>>

\* It leaves by a jump to a label of an enclosing document.
Leave ==
    /\ AtExit /\ Here.jump = External
    /\ mode' = "left"
    /\ UNCHANGED <<vars, pc, height, strayed>>

\* The last statement is a STOP, RETURN, REVERT and the like, or a call that ends so.
Halt ==
    /\ AtExit /\ Here.jump = NoJump /\ ~Here.falls /\ ~Here.loose
    /\ mode' = "halted"
    /\ UNCHANGED <<vars, pc, height, strayed>>

\* A jump to an address that is computed (blocks.go:86-105 gives it no successor), or
\* out of a call by a jump that the effect of the macro does not tell (check.go:256-267), or to
\* a label that this document does not have (check.go:329).
StraysHere ==
    \/ AtExit /\ Here.loose
    \/ InOps /\ Instr.in <= height
       /\ (Instr.loose \/ \E j \in DOMAIN Instr.jumps : Instr.jumps[j].to \notin Blocks)

\* Control goes a way that the analysis does not know of.  It may come to any label here, at
\* once or after running other code, with any stack.
Stray ==
    /\ StraysHere
    /\ \E i \in Blocks : \E k \in 1..Len(prog.blocks[i].ops) + 1 : pc' = <<i, k>>
    /\ height' \in 0..StackLimit /\ strayed' = TRUE
    /\ UNCHANGED <<vars, mode>>

\* Other documents jump to a global label of this one, before it is run or after.
Enter ==
    /\ Quiet /\ mode \in {"idle", "left", "returned"}
    /\ mode' = "running"
    /\ \E i \in prog.globals : pc' = <<i, 1>>
    /\ height' \in 0..StackLimit /\ strayed' = TRUE
    /\ UNCHANGED vars

Rest == mode \notin {"idle", "running"} /\ UNCHANGED allVars

RunNext ==
    \/ Check \/ Begin \/ Execute \/ Underflow \/ Overflow \/ JumpOut
    \/ Branch \/ Return \/ Leave \/ Halt \/ Stray \/ Enter \/ Rest

\* The analyzer goes on until it has ended; the machine may stop anywhere.
RunSpec == RunInit /\ [][RunNext]_allVars /\ WF_allVars(Check)

(***** Properties **********************************************************)

\* Wildcards switch checks off on purpose (docs/stackcheck.md:105, "wildcards
\* suppress stack underflow warnings"), so silence about code that has none
\* is what a promise can be made of.
Plain ==
    /\ ~prog.start.wild
    /\ \A i \in Blocks :
          /\ ~prog.blocks[i].label.wild
          /\ \A k \in DOMAIN prog.blocks[i].ops :
                LET op == prog.blocks[i].ops[k]
                IN  ~op.note.wild /\ \A j \in DOMAIN op.jumps : ~op.jumps[j].wild

\* The first block has gaps of its own.  The depths that calls bring to it by
\* jumping out are compared with nothing (check.go:446-470 leaves its merges out,
\* and its back-edges are blocks), and the entry recorded for it lacks the inputs
\* inferred for the program (check.go:358-361).
FirstBlockChecked ==
    /\ \A i \in Blocks : \A k \in DOMAIN prog.blocks[i].ops :
          \A j \in DOMAIN prog.blocks[i].ops[k].jumps : prog.blocks[i].ops[k].jumps[j].to # 1
    /\ prog.inferred => \A i \in Blocks : \A j \in DOMAIN Successors(i) : Successors(i)[j] # 1

\* Code the analysis has nothing to say about never pops from an empty stack,
\* whichever branches it takes, as long as it goes by ways that the analysis knows: the
\* promise of the underflow warning (stack.go:149-151) and of checkLoopBalance
\* (check.go:502-504).
NeverUnderflows == mode = "underflow" /\ ~strayed => ~(Plain /\ FirstBlockChecked)

\* Blocks all of which have a predecessor that comes before them, or a jump out
\* of a call.  Both checks of depths compare with such predecessors, so a block
\* with back-edges only escapes them (check.go:485-488 and 511-521).
EnteredForward == \A i \in Blocks : states[i].reached => ForwardDepths(i) # {}

\* What is known of every height: the inputs inferred while the first block is
\* walked come too late for the jumps out of the calls in it.
HeightsKnown ==
    /\ Plain /\ EnteredForward /\ FirstBlockChecked
    /\ prog.inferred =>
          \A k \in DOMAIN prog.blocks[1].ops : prog.blocks[1].ops[k].jumps = <<>>

\* A silent analysis has pinned down the height at every block: all paths to a
\* block that the analysis knows bring the height it gives the block (docs/stackcheck.md:132-135,
\* "If predecessors arrive with different stack depths, a warning is produced").
ForwardHeightsAgree ==
    mode = "running" /\ pc[2] = 1 /\ ~strayed /\ HeightsKnown =>
        height = IF pc[1] = 1 THEN StartHeight ELSE states[pc[1]].entry.depth

\* A label comment of silent code is true whenever control arrives by a way that the analysis
\* knows: the depth it declares is part of the merge contract (stack.go:188-190).  In
\* inferred code a comment may list items that nothing is known of (stack.go:222-224).
LabelsHold ==
    mode = "running" /\ pc[2] = 1 /\ Given(Here.label)
    /\ ~strayed /\ HeightsKnown /\ ~prog.inferred =>
        height = Here.label.len

\* The effect handed to the callers of a macro or include is the one its code has
\* (effectFromStack, check.go:256-274): it returns only if it says it falls through, with
\* the stack its exit state describes, and leaves by a jump with the stack listed for that.
EffectIsExact ==
    HeightsKnown /\ ~strayed =>
        /\ mode = "returned" => FallsThrough /\ height = states[N].exit.depth
        /\ mode = "left" => states[pc[1]].reached /\ height = states[pc[1]].exit.depth
=============================================================================
