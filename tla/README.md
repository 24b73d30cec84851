# A formal model of geas

geas is an assembler for the Ethereum Virtual Machine. A compilation reads files,
parses them, loads what they include, expands macros, works out how large every PUSH
is, checks the code against its stack comments and puts out bytecode. The same program disassembles
bytecode and formats sources. This directory models these steps in TLA+, checks the
models with TLC and proves the most important properties with TLAPS. Line numbers refer to the source tree (`src/` in PROJECT.json).

## 1. The system

| part | state it keeps | operations | how it is reached |
|---|---|---|---|
| lexer (`internal/ast/lexer.go`) | position in the input, an unbuffered channel | state functions that emit tokens; closes the channel at the end | a goroutine started by `NewParser` |
| parser (`internal/ast/parse.go`) | put-back tokens, current document, errors | `Parse`, `ParseOpcode`; one function per construct; `throwError` panics back to the top | called by the loader, reads the channel |
| loader (`internal/loader`) | program: documents of includes, tables of labels and macros, the fork | `LoadFile`, `LoadSource`, `loadDocument`, pragmas, registration | called by the compiler; calls the parser for each file |
| error list (`internal/loader/errorlist.go`) | errors and warnings, a limit | `Add` panics above the limit, `CatchAbort` ends that at `CompileFile` | shared by loader, compiler and stack checker |
| expansion (`asm/compiler_expand.go`, `compiler_prog.go`) | sections, instructions, labels waiting for an instruction, macros being expanded | `expand` of each statement kind, sections pushed and popped | first pass of `compile` |
| evaluator (`asm/evaluator*.go`) | label table, caches, macros being evaluated | `eval` of each expression kind, builtins | called by the layout passes |
| layout (`asm/compiler.go`, `compiler_eval.go`) | size, offset and argument of every instruction | `preEvaluateArgs`, `computePC`, `evaluateArgs` until nothing overflows, `checkPCLabels`, `generateOutput` | second part of `compile` |
| stack checker (`internal/stackcheck`, `internal/stack`) | entry and exit of each basic block, a worklist, effects of macros | split into blocks, propagate, check comments, merges and loops | after layout, if switched on; only warns |
| nested compilers (`asm/evaluator_builtins.go`) | a compiler of their own, a cache of results | `assemble()` | in the middle of evaluation |
| instruction sets (`internal/evm`) | tables of operations and forks; a resolved set | `FindInstructionSet` walks the lineage of a fork; immediates of DUPN, SWAPN and EXCHANGE are encoded and decoded | loader, expansion, stack checker, disassembler |
| disassembler (`disasm`) | position, previous operation | one line for each operation, data for what is none | `geas -d` |
| printer (`internal/printer`) | column, indentation | prints a parsed document | `geas -f`, after the parser |
| command line (`cmd/geas`) | input, output file, exit code | modes -a, -d, -f, -i | a process for each command |

Everything but the lexer runs in one goroutine. What is hard is not parallelism but
iteration and order: two analyses that run to a fixed point (layout and stack check),
definitions that are used long after the scope they came from has been left,
and a cancellation that can come from anywhere.

What makes each part correct:

- *layout*: the loop ends; what is put out encodes every argument exactly, at the
  final offsets; the layout is the smallest; it fails only when there is none.
- *expansion*: every reference means the label of its own expansion; a jump lands
  on a JUMPDEST; recursion is refused exactly when it is recursion.
- *stack checker*: a program without warnings does not underflow and has the stack
  its labels declare; a balanced program has no warnings; the analysis ends.
- *loader, error list, nested compilers*: output only if every file involved is
  without errors; failure always comes with an error; nothing is left over for the next
  compilation; limits hold.
- *lexer and parser*: both goroutines end; an error on one line does not
  affect other lines; trees join what precedence says.
- *evaluator*: a call means its body with the arguments put in, each name in the scope
  it was written in; recursion is refused, and nothing else is; a value is that of the
  last round.
- *instruction sets*: a fork has exactly what its lineage gives it.
- *disassembler*: the listing assembles to the bytes it was made from, and shows the
  instructions the bytes were made from.
- *printer*: the output parses to the same document, and is its own output.
- *command line*: the exit code tells what has become of the output file.

The hazards behind these, each at the line where it bites, are in PROJECT.json.

## 2. Modules

```
Instructions ── Assembly (abstract)          SymbolicStack ── StackCheck ── StackRun ── StackProofs
      └──────── Layout ── LayoutProofs       Expansion ── ExpansionProofs
Evaluate ── EvaluateMeaning (abstract)       Session ── SessionProofs
      └──── EvaluateProofs                   Parser ── ParserProofs
Opcodes ── InstructionSets ─┐
Immediates ─────────────────┴─ Disassembler ─┬─ Command ─┬─ CommandProofs
Tokens ─┬─ Format ───────────────────────────┘           │
        └─ Expressions (values of Format's constants) ───┴─ FormatMeaning
Basics                                       lemmas on numbers and sequences for the proofs
MCLayout  MCStack  MCExpansion  MCSession  MCParser  MCEvaluate  MCCommand       instances for TLC
```

**Instructions** holds the data of layout: instructions with their argument
expressions, values of arguments under given offsets, byte lengths, and what a
consistent layout is (`IsLayout`). A byte has `Limit[1]` values and the largest PUSH
`MaxPush` bytes, so the same definitions serve small checks and general proofs.
Arguments are a constant plus or minus label offsets, quotients of them and
expressions that fail, which is all that decides whether a size grows, shrinks or errs.

**Assembly** is the abstract specification: a program gets one answer, a consistent
layout or a failure; if its arguments only grow with addresses the answer is the least
layout, and a failure means that there is none (or that a PC label contradicts it).

**Layout** is `compile` after expansion. Each loop of the code is a phase and
each iteration a step: `pre` is preEvaluateArgs, `pc` computePC, `eval` evaluateArgs,
`check` checkPCLabels, `gen` generateOutput. `size`, `pc`, `data`, `argDone` are the
fields of `instruction`. `EvalBump` is the branch for ecVariablePushOverflow,
`EvalFail` the one that leaves the loop. Layout implements Assembly under
the mapping `Abstract` (property `ImplementsAssembly`).

**SymbolicStack** is `stack.Stack` in two parts: the height, with which every check of
depths is made (applying an operation, inferring inputs below the bottom, wildcards, comparing with
a comment), and the items with their names. No height depends on a name, but names decide when
the entry of a block has changed. An item is a number; a name is the number of the item that was
first called so, or a negative number if it is written in a comment.

**StackCheck** is `analyzeBlocks`: a step is a walk over one statement or a
merge along one edge. States of blocks, the last-in first-out worklist, virtual
predecessors for jumps out of macros, the restart with `preGrow`, and the second phase
with its checks are as in check.go. Calls and includes are operations
with an effect and jumps, as effectFromStack computes them. `sent` and `came` are the names along the
edges of a walk and those that have come to each block; a block is queued when the names
of its entry change (`Renames`), even if its height does not (check.go:410, 419). Jumps that the analysis gives
no successor are in the programs as `loose`.

**StackRun** composes StackCheck with the machine: once the analysis has ended without
a warning, the code runs from the stack the analysis assumed, every branch taken. It also goes where
the analysis does not look (`Stray`, `Enter`): by a computed jump, out of a nested call, or in
from another document, with any stack, to any statement; `strayed` remembers it.
Its invariants compare the two.

**Expansion** is `expand` with sections, pending labels and the recursion guard, then
the evaluation of every argument as far as labels go: which instruction a reference
means. Documents are compared by pointer in the code; `Pointer` says which expansions of a
document share one. `resolved` records the instance each evaluated reference
found, for the properties only.

**Session** is a compiler used again and again: opening and parsing files by
what they report, loadDocument with includes, targets and definitions, expansion by
what it reports, and evaluation of assemble(), which puts another compiler on `stack`.
`list` is the error list that survives a compilation. Expansion and layout are reduced
to their errors here because they have modules of their own.

**Parser** is the lexer goroutine and the parser. The recursion of the parser functions
is the sequence `stack` of what is to be read next, and `Rules` says for each
function which tokens it accepts and which it puts back; a token without rule is an
error. A send and its receive are one step, the channel being unbuffered; closing is a
step of the lexer. `ByLine` states what a source means line by line, `OpenIn` which
brackets are open behind each of its tokens.

**Evaluate** is `eval` and the rounds of the compiler in which it is called. The
recursion of the code is the sequence `kont` of frames, each what remains to be done with
the value of `control`; an error returns through the frames as it does in Go, where
the deferred exitMacro runs. Environments are the document, the section and the
variables; an argument of an instruction macro is evaluated in the section of its
call. `inStack` is the recursion guard, `usedLabels` what the unused-label warning looks
at, `settled` the argNoLabels of instructions. What sizes do to addresses is Layout's
subject: here the addresses of a round are arbitrary.

**EvaluateMeaning** says what arguments mean with no order of evaluation: macros are
replaced by their bodies, variables by trees, and the tree is read off.

**Opcodes** has the tables of ops.go and forkdefs.go, all operations and forks.
**InstructionSets** is FindInstructionSet over any table of forks: find the name or
an alias, ascend to the oldest ancestor, then remove and add on the way back, each
definition in two steps with the errors the code has for it. **Immediates** has the
methods of Op that encode, decode and recognize immediates.

**Disassembler** is three passes over one program: generateOutput with the check for
unreachable code; Disassemble, whose text is a sequence of tokens; and the assembler
that reads that text. Offsets printed as PC labels are compared when they are read.

**Format** is the parser of statements and comments and the printer, each twice, the
second time on what the first has printed. A step reads or prints one statement; a macro
body is read statement by statement into `macro`. How expressions are read and printed is
given to it by four constants (`ExprAt`, `ListAt`, `PrintExpr`, `PrintList`). **Expressions**
has their values: the parser's functions for expressions, with parseArith and
parseArithInner as they are in the code, as recursive operators on token positions, and
the printer's. They are apart because the prover takes no recursive operator; what is
proved of Command holds for whatever expressions do. Both read **Tokens**. **FormatMeaning**
says what the two together should do.

**Command** composes these as the program does: a process reads, works, writes and
exits. `dest` is the file it writes: as before, partly written, or complete. Any
write can fail and a process can be killed in every state. The steps of the three
components happen in the order in which the mode calls them, and a
later command starts from what an earlier one has printed.

## 3. Runs

| run | instance | shows |
|---|---|---|
| layout | 5 instructions, 2 pushes that can enlarge or shrink each other, arguments of every shape, both kinds of fork | TypeOK; PanicFree: no panic of the code is reached; OutputIsLayout: output is consistent; NeverAboveLeast and FailureJustified: for growing arguments it is the smallest, and failure means there is none; ImplementsAssembly; Terminates |
| stack_checked | all graphs of 3 blocks over few statements, with declared or inferred inputs, jumps out of calls, comments of every kind; statements that panic (`PanicPrograms`); code that the checks of depths do not reach (`OddPrograms`); computed jumps, jumps out of nested calls and entries from other documents (`StrayPrograms`) | NeverUnderflows, LabelsHold, ForwardHeightsAgree: what silence is worth; ExitsDelivered: phase 2 starts from a fixed point; EffectIsExact: callers are told the truth |
| stack_balanced | all graphs of 3 blocks whose heights agree and that control enters forward, with statements that permute and copy items or make new ones, declared or inferred inputs; inferred code with calls that jump out (`InferredCalls`) | BalancedIsQuiet: no false alarm and no panic; Terminates |
| expansion | main program of 3 statements, two macros calling each other and themselves, a file included by the program or by a macro, arguments that name labels | OwnLabels, JumpsLand, NoSilentDuplicates, RecursionJustified, Terminates |
| session | two files that include each other, and three nested by assemble(); two compilations, two limits | LimitHolds, Repeatable, OutputIsClean, FailureExplained, Answered |
| parser | sources of up to five lines of known meaning; every source of up to 3 tokens of 13 types and every opcode line or head of an instruction macro with up to 4 further brackets and numbers, in one or two lines | LinesAreSeparate, OneErrorPerLine, BracketsMatch, Terminates |
| evaluate | two files and an instruction macro, four expression macros, two of which have every body of a list, calls in four sections, overrides or none, two rounds with any addresses | GuardIsCallStack: the guard is the call stack; ValueIsSubstitution: each result is a value or a fault of the substituted tree; OutputIsCurrent: the last round's, and the labels warned of are the unused ones; Terminates |
| command | every fork by name and by alias and small tables of forks; all programs of up to 3 of 13 statements, every byte, depth and pair, in several styles and two forks; expressions of up to three operators and documents of up to four lines; every mode with every fault | SetIsExact, RoundTrips, TargetsAreStatements, WarningsAreExact, MeaningKept, Idempotent, ParseIsFaithful, OutcomeIsHonest |

Runs that are expected to fail show disagreements between the code and what it
or its documentation says of it; each has an entry under "findings":

| run | property | in short |
|---|---|---|
| stack_oscillate | Terminates | `push 1 / loop: push 2 / mstore / jump @loop` is analysed for ever, and so are two balanced programs whose names never settle |
| expansion_twice | OwnLabels | a macro with an #include, called twice, shares labels |
| session_unknown | NeverCrashes | an unknown target leaves a nil instruction set behind |
| format_brace | MeaningKept | a macro that holds only a comment is printed with its closing brace inside the comment |

Passing runs leave out, of what their properties are stated about, only constructs
whose behaviour is known to differ:

- a second expansion of a macro that includes a file (`OnceSources`; expansion_twice);
- `#bytes` and `#pragma` without a value (parse.go:459, :446): the error is reported at a
  token of an earlier line than the one read last, so that recovery skips the next
  line as well, in silence;
- arguments that shrink when addresses grow, for FailureJustified (`Monotone`): the loop
  reports an error at the addresses of the moment (compiler.go:224), though
  the value might fit in the layout it would have reached;
- macros with nothing but a start comment (`Hollow`; format_brace);
- unbalanced code, and code in which a block that a back-edge leads to has names from nowhere else,
  for Terminates of the stack check (`Balanced`, `EntersForward`; stack_oscillate);
- what the stack properties are not stated of, because the checks do not reach it (the next
  section but one): control that has `strayed`, `FirstBlockChecked`, `EnteredForward` and
  `HeightsKnown` for silence about wrong code, `InputsKnown` for warnings and a panic about right code;
- a "(" directly behind a ")" on a line, for BracketsMatch (`Reopens`): behind the parameters of an
  instruction macro the parser skips such parentheses without pairing them (parse.go:365-370);
- wildcards (`Plain`), which switch checks off by design;
- a global label that is dotted in one definition and not in another (hypothesis
  `SameDots` of the proof; no such sources in `ScopeSources`): validateJumpArg looks at the first
  definition the loader registered, which need not be the one that is instantiated.

Two faults of the disassembler are in the run, and RoundTrips says exactly when they show:

- the text is refused if and only if an undefined byte below 16 is in it (`~TwoDigits`): the
  disassembler prints `#bytes 0xc` (disassembler.go:148), and the assembler refuses an odd
  number of digits (lzint/value.go:28);
- a program without data is listed as it was written unless it has a pair of EXCHANGE that
  ValidateImmediate does not recognize (`AllRecognized`; ops.go:524 against the decoding at
  the same place, theorem UnrecognizedPairs); such a pair is listed as data, and the bytes
  survive.

RoundTrips reassembles a listing for the fork it was disassembled for. With another fork the
listing can mean other bytes or none.

Three panics of the stack checker are actions of the model (`WalkPanics`, `ReportPanics`) and
reached in stack_checked:

- a start comment that repeats a name, so that the inputs of the effect do (stack.go:145);
- an empty comment on a push of a number (check.go:843);
- a call that takes more items than the stack has and jumps out with so few that externalJumpEdges
  makes a slice of negative capacity (check.go:810). In code with a declared input an underflow would be
  reported next; in inferred code the call may be right, and the panic is the only answer. The
  edges are made before the comment of the call is read, so that one that does not parse does not help.

### Where the stack checker's silence ends

The hypotheses of the stack properties name what the code does not check. Each is needed: the
stack_checked run has programs of every kind in `OddPrograms`, `PanicPrograms` and `StrayPrograms`, and
without the hypothesis TLC finds a counterexample.

- Control goes where the analysis has no edge (`~strayed`). A JUMP without a label argument has no
  successor, and a JUMPI without one only falls through (blocks.go:86-105), though src/README.md:328-355
  shows such jumps for subroutines: `push @ret; jump @f; ret: pop; stop; f: jump` is silent, because
  `ret` is never reached, and underflows. The effect of a macro tells of the jumps that its own blocks end in, not of
  those that come out of calls inside it (check.go:256-267), and such a jump is dropped where the label is not in
  the calling document (check.go:329). A global label can be jumped to from every document, and
  the analysis of its own document knows nothing of that. From there on nothing is promised, of
  any statement or label.
- A call that jumps to the first block brings a depth that nothing is compared with:
  checkMergeDepth leaves jumps out of calls out of the merges of block 0, and checkLoopBalance compares
  blocks (check.go:446-470, 511-521). Such a loop can underflow in silence. In inferred code the entry
  recorded for block 0 lacks the inputs inferred for it (check.go:358-361), with the same effect for
  every loop to the start (`FirstBlockChecked`).
- A block that only later blocks jump to, at two heights, is not reported, though
  docs/stackcheck.md:132-135 says that a warning is produced (`EnteredForward`).
- In inferred code, the depth recorded for a jump out of a call in the first block lacks the
  inputs inferred after it (check.go:348-352; last clause of `HeightsKnown`).
- In inferred code a label comment may list more items than are known (stack.go:222-224), so
  that LabelsHold is about declared inputs.
- The same three gaps of inferred code make balanced programs be reported, and check.go:810 makes some
  panic (`InputsKnown`: check.go:358-364, 348-352, 591-607 and 810).

The analysis need not end, not even of balanced code. mergePredecessor queues a block when the *names*
of its entry change (check.go:410, 419), and these are the names of one of the predecessors,
the first of those with the least depth (check.go:652-671). If that one is a back-edge, a loop that permutes its items
or replaces them gives other names in every round:
`push 1; push 2; jump @L3; L1: swap1; jump @L2; L2: jump @L1; L3: jump @L2` has height 2
everywhere and never leaves the worklist. Where control comes to each block along an edge from an
earlier one, or by nothing but calls in earlier ones (`EntersForward`), names come from there first and settle.

### Bounds

- *Layout.* Bytes have 4 values and pushes at most 3 bytes: with five instructions
  and constants next to 4, 16 and 64 each push passes every size boundary and two
  pushes enlarge each other in turn. The code's 256 and 32 are covered by the proofs.
- *Stack.* Three blocks are enough for a loop with an entry and an exit, two loops with
  a common head, a join, and code reached from later code only. Two items are enough to be
  permuted. `MaxGrow` bounds preGrow,
  which has no bound in the code; an analysis that reaches it is left where it is, so
  safety is not affected. `StackLimit` is the machine's stack size.
- *Expansion.* Two macros and a file are enough for every pair of nesting and for
  recursion through one or two macros; recursion is refused at depth two.
- *Evaluate.* Two files are enough for a name with two meanings, two macros with free
  bodies for every pair of nesting, four sections for arguments of arguments. `MaxRounds`
  2 lets a value of a first round be wrong in the second; `Addresses` are two values.
- *Command.* Three statements are what a warning, its end and the statement before need;
  bytes come alone and behind each operation with data, because the disassembler looks
  no further. Expressions of three operators have every shape that
  two levels of precedence can tell apart. Small tables have a fork, its parent and
  another with the same alias. Deadlock is checked: a command that hangs would be one.
- *Session.* `MaxRequests` 2 is what Repeatable needs. `MaxDepth` 1 is reached by files
  that include themselves. Limits 1 and 3, and 2 for nested compilers, are each reached and passed by
  the errors that the files hold. `GroundedAssumption` excludes files that assemble themselves.
- *Parser.* Three arbitrary tokens, or two in a macro body, reach every function that
  can fail or put back a token; longer constructs are in the known lines.

CHECK_DEADLOCK is off only in stack runs, where an analysis may stop at `MaxGrow` or in a
panic, and the machine halts.

### Fairness

Layout, StackCheck, Expansion, Evaluate and Session are sequential code: a compilation that can take a
step takes one, so weak fairness of the whole next step (in Session of `Compile`; the
user need not make a request) is what running the code means. The parser has two
goroutines, each with weak fairness: Go schedules every goroutine that is ready. Command
assumes no fairness, since its processes may be killed, and has no liveness property.

## 4. Proofs

Of the 40 properties that passing runs check, 27 are theorems, for every value of the constants and
every program, however large, and so is the safety part of another (ImplementsAssembly). The assumptions are
those that the modules state of their constants: what programs, sources and files are made of, and that
limits are numbers. TLC evaluates them in the runs.

### Layout

LayoutProofs proves, for every program, every fork, every byte size `Limit` and every
largest push `MaxPush` allowed by the assumptions of Instructions:

| theorem | states |
|---|---|
| LayoutTypeOK | the state is well-formed, sizes stay in range, data fits its instruction |
| LayoutPanicFree | none of the panics of evaluateArgs and generateOutput is reached |
| LayoutOutputIsLayout | what is put out is a consistent layout |
| LayoutNeverAboveLeast | with growing arguments no push is ever larger than in any layout |
| LayoutFailureJustified | with growing arguments the loop fails only if there is no layout |
| LayoutRefinesAssembly | the loop implements the safety part of Assembly: each step is a stutter, or gives the one answer Assembly allows |

None of these is inductive as it stands. The argument goes through five invariants, each
proved with the ones before it:

1. `HandledInv`: instructions passed by preEvaluateArgs have their size and, without
   labels, their argument; the others are untouched.
2. `SettledInv`: in a round of evaluateArgs the arguments passed so far fit at the current
   offsets. It is lost when a size is increased, and the round starts again; that it
   holds at the end is why stored arguments are never of an earlier round.
3. `ChainInv`: offsets computed so far are the sums of encoded sizes.
4. `BelowInv`: every size is at most that of any given layout, provided arguments
   grow with offsets. The step is the heart of it: if a push overflows at offsets
   not above those of a layout, its argument is at least as large there, so
   the layout has a larger size for it than the current one.
5. `PCLabelInv`: a PC label is reported only if it contradicts the final offsets, and if
   nothing else is reported these offsets are a layout. With it each way out of the loop is an
   answer that Assembly allows.

Lemmas on values, byte lengths and encoded sizes come first. What the proofs assume of
constants is named in Instructions and evaluated by TLC in the layout run.

### Expansion

ExpansionProofs proves, for every source (`SourcesAssumption`: what a loader can have read)
and every choice of global names:

| theorem | states |
|---|---|
| ExpansionTypeInv | frames, sections and instructions refer to each other as the code takes for granted |
| ExpansionNoSilentDuplicates | a global label that is instantiated twice is an error |
| ExpansionRecursionJustified | a call is refused only if its macro reaches itself |
| ExpansionOwnLabels | if no file is expanded twice, references mean the labels of their own expansion |
| ExpansionJumpsLand | if all definitions of a global name are dotted or none is, accepted jumps land on a JUMPDEST |

The last two have a hypothesis on the run, each of which the code does not meet by itself:
`FilesExpandedOnce` excludes what run expansion_twice shows, `SameDots` is explained in section 3.
`NestingInv` says that a document in expansion is reached from every one it is expanded in,
and that macros on the stack are in expansion; `GlobalInv` that without an error each
definition passed has its one instance. For references, `LabelInv` says that an
instance is of a definition in the document its section expands, `ArgInv` that a parameter
is used only where there is one, `RefInv` that what a reference finds is defined
in the scope it is written in, and `JumpInv` that the check of a jump and the
instances agree on which labels are dotted.

### Stack checker

StackProofs proves, for programs of any size, any statements and any control flow:

| theorem | states |
|---|---|
| StackExitsDelivered | when the worklist is empty, each block has handed its last exit to all its successors |
| StackNeverUnderflows | silent code never underflows on a path that the analysis knows |
| StackLabelsHold | in silent code with declared inputs every label comment is true on every such path |
| StackHeightsAgree | in silent code every such path brings the height that the analysis has given the block |
| StackEffectIsExact | the effect callers are told of is the one that the code has on every such path |
| StackBalancedIsQuiet | balanced code is analysed without a warning and without a panic |

A path that the analysis knows is one without a computed jump, without a jump out of a nested call
to a label further out, and not entered from another document (`strayed` is false, section 3).
The other hypotheses are those of section 3 as well.

The first five go in one direction, from silence to the machine. `AnalysisInv` is what is known
of an analysis: when phase 1 is over, exits are delivered (`DeliverInv`) and each recorded exit is where the
walk from the recorded entry ends (`SettledInv`, from `WalkInv` about the walk
in progress); phase 2 repeats these walks and misses nothing (`CheckInv`). The walk
`W(i)` over a block is a recursive function, which exists by induction on the statements. With it
`MachineInv` compares the machine at statement k of block i with the walk: it has at least
`Ideal(i, k)` items, the walk's depth and the inputs that are inferred only later; merges and
labels only take items away. If all heights are known (`HeightsKnown`) it has exactly as many, since
checkMergeDepth and checkLoopBalance have compared every way into the block. All of this holds until control
strays (`OnWalk`). The theorems about
exact heights assume `OpensFreely`: an include whose first label declares an
empty stack. Its inputs would be cut off by the label; such an analysis asks for them again in
every round and never becomes silent, but that is a matter of liveness.

The last one goes the other way. `QuietInv` says of every way in which the code is balanced
that the analysis `Fits` it: each walk has the heights of the balanced code less `Slack`, the inputs
that are not inferred yet, and at most as many are asked for as are left. So a
round that asks for none has them all, is exact, and phase 2 finds nothing to say; and no
walk panics, since a jump out of a call brings what the call takes (`JumpsReach`, `NeverPanics`). It holds for
every height, not only those up to `MaxGrow`, which bounds the search in `Balanced`.

### Evaluator

EvaluateProofs proves `GuardTheorem`: for every set of programs, without any assumption
about them, `inStack` is always the set of macros whose bodies are being evaluated, each is
there once, and it is empty when no evaluation is under way. The invariant needs one
more conjunct, that an idle evaluator has no frames, and that `kont` is a sequence. The
lemmas say what pushing a plain frame, pushing a body and popping a frame do to the
set of bodies; each action is one of these or a combination (ReturnArgument pops a frame
and pushes a body). The theorem is why evaluation cannot recurse for ever and why a failed
evaluation does not make a later one fail.

### Loader, error list and nested compilers

SessionProofs proves, for every file system, every limit and however many compilers are
nested:

| theorem | states |
|---|---|
| LimitTheorem | a list is at most one above its limit, and then its compiler returns without output |
| FailureTheorem | who returns no bytecode returns an error |
| OutputTheorem | who returns bytecode has found every file, by #include and assemble() to any depth, without an error |
| RepeatTheorem | the same request gives the same result again |

For the first two the heart is `AddedOK`: reports that come together, from a parser or from a nested
compiler with a limit of its own, are added up to the first error above the limit, so the list
stays within one of it and does not lose the error that there was. That there is a first one
(`Least`) comes from the well-foundedness of inclusion among finite sets. The invariant
`IInv` says it of every running compiler, that only the innermost may be about to return, and
that a compiler returns with output or with an error: a cancelled one because its list is
over a limit of at least one (`LimitAssumption`), a refused file because the parser has
reported it. It must also say that documents and frames are those of existing files
(`LoadedOK`), since otherwise what is added would not be known to be reports;
`FilesAssumption` says that of what files hold.

OutputTheorem is about files, while the invariant `CleanInv` is about a compiler in the middle
of its work: as long as its list has no error, the statements its frames have gone past are clean,
each #include among them has a document that is left, in a frame or waiting to be loaded, and each
assemble() among them is in `code`, in front of `next` only if the file it names is `Sound`, that is
belongs to a set of clean files that holds all that its members use. Files that include
each other are why it is a set: a file in expansion can be needed by itself.

For RepeatTheorem every action is shown to be a step of one function `StackStep` of the file system and
the running compilers. `RepeatInv` says that what runs has come by such steps from what
the request started, which the list left by earlier requests is no part of, and so has each
result; two runs of a function from the same start end in the same state.

### Parser

ParserProofs proves, for sources of any length, valid or not:

| theorem | states |
|---|---|
| ParserOneErrorPerLine | no two errors are reported for the same line |
| ParserBracketsMatch | what is accepted has its parentheses, brackets and braces closed in the order they were opened, in definitions and macro bodies too, unless a "(" follows directly on a ")" |

`LineInv` says that what has been reported is on a line before the next token and before the
statement that is being read, also with tokens put back. `BracketInv` says that what the functions on the
parser's stack owe, from the innermost to the outermost, is what is open behind the last token that
was read and not put back; a rule may consume a bracket only by calling a function that owes its partner,
and the statements of a macro body owe its brace. One rule does not: behind the parameters of an instruction macro
the parser skips parentheses (`SkipRule`). That it only meets one directly behind a ")" is
what `Called` is for, which knows what is below each function on the parser's stack.

### Command, with the instruction sets, the assembler's output and the disassembler

CommandProofs is about every set of command lines (`Invocations`) with their inputs:
programs, outputs and tables of forks of any size, and every source for the formatter.

| theorem | states |
|---|---|
| DepthSurvives, ByteSurvives | encoding of DUPN and SWAPN avoids the gap of PUSH and JUMPDEST and is inverted by decoding, both ways |
| PairSurvives, PairByteSurvives | the same for EXCHANGE, with division by sixteen (`Digits`, `Quotient`, `PairDigits`) |
| UnrecognizedPairs | which pairs ValidateImmediate wrongly refuses |
| EffectInRange | stack effects stay within the table of item names, for any byte |
| CommandSetIsExact | a fork has exactly what its lineage gives it, and only a lineage that makes no sense panics |
| CommandTargetsAreStatements | the machine's scan finds every instruction, and the jump targets are the JUMPDEST statements |
| CommandWarningsAreExact | what cannot be reached is what lies between a warning and the next JUMPDEST |
| CommandRoundTrips | a listing is refused for bytes printed with one digit only, and otherwise gives the same bytes; a program without data is listed as it was written |
| CommandOutcomeIsHonest | the exit code tells what has become of the output file, with failing reads and writes and a kill at any moment |

What is assumed: that there are finitely many operations, their codes and push sizes
(`OpsAssumption`, `CodesAssumption`), that the definitions of the shipped forks make sense
and their tables are what they say (`ForksAssumption`, `ByNameAssumption`, `PushAssumption`).
These are facts about the tables in Opcodes, without parameters; TLC evaluates them in run
command. Of the inputs, `InputsOK` says that tables of forks mention only known operations
(`IsRegistry`), and that programs are what the assembler can be given (`IsInput`: a shipped
fork, and statements at which generateOutput does not panic); `InvocationsOK` says what the
flags of a mode allow: questions have no output file, only the formatter has -check, and only
some inputs can be faulty. TLC evaluates both for the inputs of the run.

SetTheorem, TargetsTheorem, WarningsTheorem and RoundTheorem are about the components alone.
Command takes their steps one at a time, in the order of the mode, and never two of them at once (`SetSteps`,
`DisSteps`), so that what holds of a component holds of it in every command (`Machinery`).

`SetInv` says where the resolution of a fork stands. On the way up, the lineage is the beginning
of the chain of ancestors (`Climbed`), without repetitions, so that it cannot be longer than
there are forks, and if it ends, it ends at the root. On the way down, the tables are
those of the ancestor that was resolved last (`Resolving`, with `Halfway` between the removals
of a fork and its additions); that what is asked for holds at the end needs an
equation for the operations of a fork from those of its parent, which comes from comparing their chains.

`DisInv` says that there are offsets at which the statements so far are in the output as they
were encoded (`LaidOut`), that the check remembers the operation of the last statement
with code, and that the warnings are the statements behind one that cuts off and that are no JUMPDEST.
From this alone the scan is followed: each step from a statement leads to the next, because
what an operation's code advances is the length of what it is encoded as, but for immediates, which the
scan takes for operations and which, by the codec's theorems, are neither a push nor a JUMPDEST.

`RoundInv` is the invariant of the two other passes. `Reads` says of a listing that its tokens stand for adjacent
slices of the output, so that any listing for which it holds can be read back; each round of the
disassembler prolongs it by the tokens of one operation (`LineFound`, `PrefixTokens`), and each round
of the assembler reads one token, or refuses it if it is data with one digit (`ReadTo`, `Outcome`).
For the listing to be what was written, `ShownTo` follows the statements beside the slices: as long as
there is no data and all pairs are recognized, each operation the disassembler finds is at the offset of a
statement, and its line shows that statement.

`PhaseInv` is what the exit code rests on. It says of each phase which modes get there, what
can still be wrong with the input, whether the result is ready, and whether the output file
has been truncated; a disassembler with an unknown target has truncated it before it can fail,
and never gets further than that. A machine that is ready stays ready (`StaysReady`), also when a later command
goes on with what was printed. The proof needed the assumption that questions
have no output file: without it the model allowed one to end with 0 and nothing written.

### What Basics is for

The provers cannot instantiate a theorem with an operator parameter, so induction is stated in Basics for a
set of numbers (`InductiveSet`, from the least element of a set, and that from well-foundedness of
inclusion). The other lemmas say what appending to, cutting and mapping a sequence do to its elements when
nothing is known of these.

### Only checked

- Liveness (Terminates, Answered), and with it that Layout gives the answer Assembly
  promises: the prover does not do fairness or ENABLED.
- LinesAreSeparate: it compares a parse with the known meaning of each line, which the instance gives for a
  list of lines. For arbitrary sources it would need what it is meant to check.
- ValueIsSubstitution and OutputIsCurrent of the evaluator: the meaning they compare with is a RECURSIVE
  operator on expressions, which the prover does not take.
- MeaningKept, Idempotent and ParseIsFaithful of the formatter: they rest on the grammar of Expressions, which is
  RECURSIVE, and on induction over trees.

## 5. Not modelled

- Characters: scanning of tokens, string escapes, number literals; columns, indentation
  and the wording of messages. With them one known fault is out of the models: file names
  and pragma values are not unescaped when they are read, but the printer escapes them
  (printer.go:420), so that backslashes in them double with every run of the formatter.
- The amount of data: input is cut at 10 MiB in silence (geas.go:284), and shifts by
  large amounts are computed in full (evaluator.go:286).
- Big integers and byte strings: hashes, selectors, bit operations and the
  conversions of lzint are values without control of their own.
- `#include`, `#assemble` and `#pragma` in Format: they are printed like #bytes, and have
  no bodies. checkDuplicateParams; error positions and descriptions.
- Of the names of stack items, `name=expr` in comments and what it does to copies (stack.go:249-263),
  and the warnings about names. Which names an entry has, which decides how long the analysis goes on,
  is modelled.
- Recursion of assemble() on itself, which the code does not limit.
- The Emacs mode, and `set`, a map with three methods.

## 6. Plan

1. *Done*: Layout with Assembly and its proofs, because wrong bytecode is the worst
   outcome; StackCheck with StackRun, Expansion, Session, Parser; then Evaluate with its
   meaning and proof, the instruction sets, disassembler, formatter and command line.
2. *Compositions left*: Expansion followed by Layout, so that labels in several
   expansions reach bytecode; Session with macro bodies that include files.
3. *Proofs*: done as section 4 tells. What is left is what the provers cannot take, listed at the
   end of that section.
