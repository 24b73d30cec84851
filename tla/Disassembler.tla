---------------------------- MODULE Disassembler ----------------------------
(****************************************************************************)
(* From instructions to bytes (generateOutput and the check for unreachable *)
(* code, asm/compiler.go and asm/compiler_analysis.go), from bytes to text  *)
(* (disasm/disassembler.go), and from that text to bytes again.             *)
(*                                                                          *)
(* A statement has an operation and a sequence: the bytes of a push or of   *)
(* #bytes, the numbers in brackets of DUPN, SWAPN and EXCHANGE.             *)
(****************************************************************************)
EXTENDS InstructionSets, Immediates

VARIABLES job,      \* [fork, program, style]: what is assembled, and how it is printed
          stage,    \* "generate", "disassemble", "reassemble" or "end"
          at,       \* the statement, byte or token that is next
          code,     \* the output of the assembler
          prevOp,   \* the operation before, in both directions
          warned,   \* statements reported as unreachable
          listing,  \* the output of the disassembler
          again,    \* the output of the assembler for that text
          refused   \* the assembler reports an error in that text

disVars == <<job, stage, at, code, prevOp, warned, listing, again, refused>>

NoOp == "none"

Defined == DOMAIN ByName[job.fork]

OpByCode(b) ==
  IF \E op \in Defined : Code[op] = b THEN CHOOSE op \in Defined : Code[op] = b ELSE NoOp

\* Expansion has refused what the fork does not have.
Accepted(st) ==
  \/ st.op \in {"#bytes", "label", "PUSH"}
  \/ st.op \in Defined /\ (HasImmediate(st.op) => ArgsOK(st.op, st.arg))

\* What generateOutput is given, or it would panic: the bytes of a push fit in it.  The
\* numbers in brackets are what was written, and no other operation has an argument.
Fits(st) ==
  /\ st.arg \in Seq(Int)
  /\ st.op = "PUSH" => Len(st.arg) <= 32
  /\ Push(st.op) => Len(st.arg) <= PushSize(st.op)
  /\ Push(st.op) \/ st.op \in {"PUSH", "#bytes"} => st.arg \in Seq(Bytes)
  /\ Push(st.op) \/ HasImmediate(st.op) \/ st.op \in {"PUSH", "#bytes"} \/ st.arg = <<>>

IsInput(j) ==
  /\ j.fork \in DOMAIN Forks
  /\ j.program \in Seq({j.program[i] : i \in DOMAIN j.program})
  /\ \A i \in DOMAIN j.program : Fits(j.program[i])

Pad(data, size) == [i \in 1..size - Len(data) |-> 0] \o data

DisInit(jobs) ==
  /\ job \in jobs /\ \A i \in DOMAIN job.program : Accepted(job.program[i])
  /\ stage = "generate" /\ at = 1
  /\ code = <<>> /\ prevOp = NoOp /\ warned = {}
  /\ listing = <<>> /\ again = <<>> /\ refused = FALSE

-----------------------------------------------------------------------------
(* The assembler's output.                                                   *)

IsPush(op) == op = "PUSH" \/ Push(op)

DataSize(st) ==
  IF st.op # "PUSH" THEN PushSize(st.op)
  ELSE IF Len(st.arg) = 0 /\ "PUSH0" \notin Defined THEN 1 ELSE Len(st.arg)

\* The operation a statement stands for: PUSH by the size of its data.
Resolved(st) == IF st.op = "PUSH" THEN PushOp(DataSize(st)) ELSE st.op

Encoded(st) ==
  CASE st.op = "#bytes"    -> st.arg
    [] st.op = "label"     -> <<>>
    [] IsPush(st.op)       -> <<Code[Resolved(st)]>> \o Pad(st.arg, DataSize(st))
    [] HasImmediate(st.op) -> <<Code[st.op], EncodeImmediateArgs(st.op, st.arg)>>
    [] OTHER               -> <<Code[st.op]>>

NoCode(st) == st.op \in {"#bytes", "label"}

CutsOff(op) == op # NoOp /\ (Term(op) \/ Unconditional(op))

\* mutant: data ends the region that cannot be reached.
UnreachableForgets(st) ==
  /\ warned' = IF ~NoCode(st) /\ CutsOff(prevOp) /\ st.op # "JUMPDEST"
               THEN warned \cup {at} ELSE warned
  /\ prevOp' = IF NoCode(st) THEN NoOp ELSE Resolved(st)

\* unreachableCodeCheck.check sees operations only.
Unreachable(st) ==
  IF NoCode(st) THEN UNCHANGED <<warned, prevOp>>
  ELSE /\ warned' = IF CutsOff(prevOp) /\ ~JumpDest(Resolved(st)) THEN warned \cup {at} ELSE warned
       /\ prevOp' = Resolved(st)

Generate ==
  /\ stage = "generate" /\ at <= Len(job.program)
  /\ code' = code \o Encoded(job.program[at])
  /\ Unreachable(job.program[at])
  /\ at' = at + 1
  /\ UNCHANGED <<job, stage, listing, again, refused>>

Generated ==
  /\ stage = "generate" /\ at > Len(job.program)
  /\ stage' = "disassemble" /\ at' = 1 /\ prevOp' = NoOp
  /\ UNCHANGED <<job, code, warned, listing, again, refused>>

-----------------------------------------------------------------------------
(* The disassembler.  Its output is a sequence of tokens.                     *)

NL               == [t |-> "nl"]
PC(n)            == [t |-> "pc", pc |-> n]
Line(op, arg)    == [t |-> "op", op |-> op, arg |-> arg]
Data(bytes, odd) == [t |-> "bytes", arg |-> bytes, odd |-> odd]
Remark           == [t |-> "comment"]

\* The end of the line before; a blank line between blocks.
Newline(next) ==
  IF prevOp = NoOp THEN <<>>
  ELSE IF /\ job.style.blanks /\ next # NoOp
          /\ Jump(prevOp) \/ JumpDest(next) \/ Term(prevOp)
       THEN <<NL, NL>> ELSE <<NL>>

Prefix(op) ==
  CASE job.style.pc                         -> <<PC(at - 1)>>
    [] ~job.style.pc /\ job.style.labels    ->
         IF JumpDest(op) THEN <<PC(at - 1), NL>> ELSE <<>>
    [] OTHER                                -> <<>>

Rest == SubSeq(code, at, Len(code))

\* A byte is printed without a leading zero, and with the end of its line.
InvalidTokens == <<Data(<<code[at]>>, code[at] < 16), NL>>

\* mutant: a push that lacks some of its data is printed as if it had all.
PushTokensTruncated(op) ==
  Line(op, SubSeq(code, at + 1, IF at + PushSize(op) > Len(code) THEN Len(code) ELSE at + PushSize(op)))

PushTokens(op) ==
  IF PushSize(op) > Len(Rest) - 1 THEN Data(Rest, FALSE)
  ELSE Line(op, SubSeq(code, at + 1, at + PushSize(op)))

ImmediateTokens(op) ==
  IF Len(Rest) < 2 THEN <<Data(Rest, FALSE)>>
  ELSE IF ValidateImmediate(op, code[at + 1]) THEN <<Line(op, DecodeImmediate(op, code[at + 1]))>>
  ELSE <<Data(<<code[at]>>, FALSE), Remark>>

\* How many bytes after the first a line stands for.
Taken(op) ==
  CASE op = NoOp            -> 0
    [] Push(op)             -> IF PushSize(op) > Len(Rest) - 1 THEN Len(Rest) - 1 ELSE PushSize(op)
    [] HasImmediate(op)     -> IF Len(Rest) >= 2 /\ ValidateImmediate(op, code[at + 1]) THEN 1 ELSE 0
    [] OTHER                -> 0

LinesFor(op) ==
  CASE op = NoOp        -> InvalidTokens
    [] Push(op)         -> <<PushTokens(op)>>
    [] HasImmediate(op) -> ImmediateTokens(op)
    [] OTHER            -> <<Line(op, <<>>)>>

Disassemble ==
  /\ stage = "disassemble" /\ at <= Len(code)
  /\ LET op == OpByCode(code[at])
     IN  /\ listing' = listing \o Newline(op) \o Prefix(op) \o LinesFor(op)
         /\ at' = at + 1 + Taken(op)
         /\ prevOp' = op
  /\ UNCHANGED <<job, stage, code, warned, again, refused>>

Disassembled ==
  /\ stage = "disassemble" /\ at > Len(code)
  /\ listing' = listing \o Newline(NoOp)
  /\ stage' = "reassemble" /\ at' = 1
  /\ UNCHANGED <<job, code, prevOp, warned, again, refused>>

-----------------------------------------------------------------------------
(* The assembler reads the text.                                             *)

\* An operation or #bytes at the start of a line is a statement; behind another one
\* it would be read as its argument.
StartsLine == at = 1 \/ listing[at - 1].t \in {"nl", "pc"}

Readable(tok) ==
  CASE tok.t = "nl"      -> TRUE
    [] tok.t = "pc"      -> StartsLine /\ tok.pc = Len(again)
    [] tok.t = "comment" -> at = Len(listing) \/ listing[at + 1] = NL
    [] tok.t = "bytes"   -> StartsLine /\ ~tok.odd
    [] tok.t = "op"      -> /\ StartsLine /\ tok.op \in Defined
                            /\ Push(tok.op) => Len(tok.arg) <= PushSize(tok.op)
                            /\ HasImmediate(tok.op) => ArgsOK(tok.op, tok.arg)

Meaning(tok) ==
  CASE tok.t = "op"    -> Encoded(tok)
    [] tok.t = "bytes" -> tok.arg
    [] OTHER           -> <<>>

Reassemble ==
  /\ stage = "reassemble" /\ at <= Len(listing)
  /\ IF Readable(listing[at])
     THEN again' = again \o Meaning(listing[at]) /\ at' = at + 1 /\ UNCHANGED <<stage, refused>>
     ELSE refused' = TRUE /\ stage' = "end" /\ UNCHANGED <<again, at>>
  /\ UNCHANGED <<job, code, prevOp, warned, listing>>

Reassembled ==
  /\ stage = "reassemble" /\ at > Len(listing)
  /\ stage' = "end"
  /\ UNCHANGED <<job, at, code, prevOp, warned, listing, again, refused>>

DisNext ==
  Generate \/ Generated \/ Disassemble \/ Disassembled \/ Reassemble \/ Reassembled

-----------------------------------------------------------------------------
(* Properties.                                                               *)

Program == job.program
OnlyCode == \A i \in DOMAIN Program : Program[i].op # "#bytes"

Shown(st) == [op |-> Resolved(st), arg |-> IF IsPush(st.op) THEN Pad(st.arg, DataSize(st)) ELSE st.arg]

\* The instructions of the program, and the lines of the listing that stand for code, in
\* their order.
Written ==
  LET upTo[k \in 0..Len(Program)] ==
        IF k = 0 THEN <<>>
        ELSE IF Program[k].op = "label" THEN upTo[k - 1] ELSE Append(upTo[k - 1], Shown(Program[k]))
  IN  upTo[Len(Program)]

ShownBy(tok) == [op |-> IF tok.t = "op" THEN tok.op ELSE "#bytes", arg |-> tok.arg]

Listed ==
  LET upTo[k \in 0..Len(listing)] ==
        IF k = 0 THEN <<>>
        ELSE IF listing[k].t \in {"op", "bytes"} THEN Append(upTo[k - 1], ShownBy(listing[k]))
        ELSE upTo[k - 1]
  IN  upTo[Len(listing)]

\* What was assembled from instructions alone is listed as these instructions: none is
\* hidden in data, and no data is taken for an instruction.
ShowsAssembled == Listed = Written

\* A byte that is no operation, printed with one digit.
Odd(tok) == tok.t = "bytes" /\ tok.odd

TwoDigits == \A k \in DOMAIN listing : ~Odd(listing[k])

\* ValidateImmediate knows the byte that encodes the pair.
Recognized(st) == st.op = "EXCHANGE" => PairNumber(st.arg[1], st.arg[2]) \notin 80..159

AllRecognized == \A i \in DOMAIN Program : Recognized(Program[i])

\* The text that the disassembler prints, in whatever style, is accepted by the
\* assembler, unless a byte below 16 that is no operation is in it, and gives the same
\* bytes: pushes cut off by the end of the code, bytes that are no operation in the
\* fork, and immediates that are no valid ones included.  A program without data is
\* accepted, and listed as it was written, unless an EXCHANGE in it has an immediate
\* that the disassembler does not recognize.
RoundTrips ==
  stage = "end" =>
    /\ refused <=> ~TwoDigits
    /\ ~refused => again = code
    /\ OnlyCode /\ AllRecognized => ~refused /\ ShowsAssembled

\* The machine finds jump targets in a scan that skips the data of pushes and knows
\* nothing of other immediates.
Scan ==
  LET starts[n \in 0..Len(code)] ==
        IF n = 0 THEN {1}
        ELSE starts[n - 1] \cup
             (IF n \in starts[n - 1]
              THEN {n + 1 + (IF code[n] \in 96..127 THEN code[n] - 95 ELSE 0)} ELSE {})
  IN  starts[Len(code)] \cap DOMAIN code

Offset[i \in 1..Len(Program) + 1] ==
  IF i <= 1 THEN 1 ELSE Offset[i - 1] + Len(Encoded(Program[i - 1]))

\* In a program without data, the places where execution can be are those of its
\* instructions: every instruction is found by the machine's scan, and the jump
\* targets are the JUMPDEST statements and nothing else.  (This is what the gaps in
\* the encodings of immediates are for.)
TargetsAreStatements ==
  stage = "disassemble" /\ at = 1 /\ OnlyCode =>
    LET instrs == {i \in DOMAIN Program : Program[i].op # "label"}
    IN  /\ \A i \in instrs : Offset[i] \in Scan
        /\ {p \in Scan : code[p] = Code["JUMPDEST"]}
             = {Offset[i] : i \in {j \in instrs : Program[j].op = "JUMPDEST"}}

\* The statements that execution cannot reach, by falling through from the start or
\* from a jump target, are those from a warning up to the next JUMPDEST.
WarningsAreExact ==
  stage = "disassemble" /\ at = 1 /\ OnlyCode =>
    LET instrs == {i \in DOMAIN Program : Program[i].op # "label"}
        between(i, j) == {k \in instrs : i <= k /\ k < j}
        entry(i) == Program[i].op = "JUMPDEST" \/ between(1, i) = {}
        reached(j) == \E i \in instrs : /\ i <= j /\ entry(i)
                                        /\ \A k \in between(i, j) : ~CutsOff(Program[k].op)
        covered(j) == \E i \in warned : /\ i <= j
                                        /\ \A k \in between(i, j) \cup {j} : Program[k].op # "JUMPDEST"
    IN  \A j \in instrs : reached(j) <=> ~covered(j)
=============================================================================
