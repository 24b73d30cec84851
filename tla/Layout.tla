-------------------------------- MODULE Layout --------------------------------
(****************************************************************************)
(* The layout of the output program: src/asm/compiler.go (compile,          *)
(* generateOutput), compiler_eval.go (preEvaluateArgs, evaluateArgs,        *)
(* assignPushArg) and compiler_prog.go (computePC).                         *)
(*                                                                          *)
(* The size of a variable-size PUSH depends on its argument, the argument   *)
(* on the offsets of labels, and the offsets on the sizes.  The compiler    *)
(* starts every label-dependent PUSH at one byte and repeats: assign        *)
(* offsets, evaluate the arguments in program order, and on the first       *)
(* argument that does not fit enlarge that one PUSH and start over.         *)
(*                                                                          *)
(* The model begins after macro expansion, with a flat list of              *)
(* instructions.  Each loop of the source is a phase and each of its        *)
(* iterations a step, so a loop invariant of the code is an invariant here. *)
(****************************************************************************)
EXTENDS Instructions

NoData == -1   \* nil inst.data

VARIABLES
  code,      \* the instruction list, fixed after Init
  push0,     \* does the target fork have PUSH0?  fixed after Init
  phase,     \* which loop of compile is running
  cur,       \* the instruction that loop is at
  pc,        \* inst.pc
  size,      \* inst.dataSize
  data,      \* inst.data, as a number
  argDone,   \* inst.argNoLabels
  acc,       \* computePC's running pc
  errors,    \* errors reported so far: <<instruction, error>>
  outLen     \* len(output) in generateOutput

vars == <<code, push0, phase, cur, pc, size, data, argDone, acc, errors, outLen>>

N   == Len(code)
Idx == 1..N

IsPush(i)  == code[i].kind = "push"
IsBytes(i) == code[i].kind = "bytes"

(* mutant: the sign of the value is not looked at *)
PushArgErrorUnsigned(i, v, sz) ==
  CASE ByteLen(v) > MaxPush -> "overflow256"
    [] ByteLen(v) <= MaxPush /\ ByteLen(v) > sz ->
         IF code[i].explicit = Unsized THEN "variable" ELSE "fixed"
    [] OTHER -> "none"

(* mutant: the largest PUSH is taken to be too small already *)
PushArgErrorOffByOne(i, v, sz) ==
  CASE v < 0 -> "negative"
    [] v >= 0 /\ ByteLen(v) >= MaxPush -> "overflow256"
    [] v >= 0 /\ ByteLen(v) < MaxPush /\ ByteLen(v) > sz ->
         IF code[i].explicit = Unsized THEN "variable" ELSE "fixed"
    [] OTHER -> "none"

\* The error assignPushArg returns for value v and data size sz.
PushArgError(i, v, sz) ==
  CASE v < 0                -> "negative"
    [] ByteLen(v) > MaxPush -> "overflow256"
    [] /\ v >= 0
       /\ ByteLen(v) <= MaxPush
       /\ ByteLen(v) > sz   -> IF code[i].explicit = Unsized THEN "variable" ELSE "fixed"
    [] OTHER                -> "none"

Init ==
  /\ code \in Programs
  /\ push0 \in BOOLEAN
  /\ phase = "pre" /\ cur = 1
  /\ pc = [i \in Idx |-> 0]
  /\ size = [i \in Idx |-> IF code[i].kind = "op" THEN code[i].imm ELSE 0]
  /\ data = [i \in Idx |-> NoData]
  /\ argDone = [i \in Idx |-> FALSE]
  /\ acc = 0 /\ errors = {} /\ outLen = 0

At(ph) == phase = ph /\ cur <= N
AtEnd(ph) == phase = ph /\ cur = N + 1
Advance == cur' = cur + 1 /\ UNCHANGED <<code, push0, phase>>
Goto(ph) == phase' = ph /\ cur' = 1 /\ UNCHANGED <<code, push0>>
Report(e) == errors' = errors \cup {<<cur, e>>}

-----------------------------------------------------------------------------
(* preEvaluateArgs: sizes, and the arguments that use no labels *)

PreOther ==
  /\ At("pre") /\ code[cur].kind \in {"op", "empty"}
  /\ Advance
  /\ UNCHANGED <<pc, size, data, argDone, acc, errors, outLen>>

PreBytes ==
  /\ At("pre") /\ IsBytes(cur)
  /\ argDone' = [argDone EXCEPT ![cur] = TRUE]
  /\ IF UsesLabels(code[cur].expr)
       THEN Report("labelInBytes") /\ UNCHANGED size
       ELSE IF EvalFails(code[cur].expr, pc)
         THEN Report("eval") /\ UNCHANGED size
         ELSE size' = [size EXCEPT ![cur] = code[cur].len] /\ UNCHANGED errors
  /\ Advance
  /\ UNCHANGED <<pc, data, acc, outLen>>

(* mutant: label-dependent PUSHes start at two bytes *)
InitialSizeTwo(i) == IF code[i].explicit = Unsized THEN 2 ELSE code[i].explicit

InitialSize(i) == IF code[i].explicit = Unsized THEN 1 ELSE code[i].explicit

PrePushLater ==
  /\ At("pre") /\ IsPush(cur) /\ UsesLabels(code[cur].expr)
  /\ size' = [size EXCEPT ![cur] = InitialSize(cur)]
  /\ Advance
  /\ UNCHANGED <<pc, data, argDone, acc, errors, outLen>>

PrePushFails ==
  /\ At("pre") /\ IsPush(cur) /\ ~UsesLabels(code[cur].expr)
  /\ EvalFails(code[cur].expr, pc)
  /\ size' = [size EXCEPT ![cur] = InitialSize(cur)]
  /\ argDone' = [argDone EXCEPT ![cur] = TRUE]
  /\ Report("eval")
  /\ Advance
  /\ UNCHANGED <<pc, data, acc, outLen>>

\* assignPushArg(inst, v, setSize = true)
PrePushAssign ==
  /\ At("pre") /\ IsPush(cur) /\ ~UsesLabels(code[cur].expr)
  /\ ~EvalFails(code[cur].expr, pc)
  /\ argDone' = [argDone EXCEPT ![cur] = TRUE]
  /\ LET v   == Value(code[cur].expr, pc)
         fit == v >= 0 /\ ByteLen(v) <= MaxPush
         sz  == IF fit /\ code[cur].explicit = Unsized THEN AutoSize(v, push0)
                                                    ELSE InitialSize(cur)
         err == PushArgError(cur, v, sz)
     IN  /\ size' = [size EXCEPT ![cur] = sz]
         /\ IF err = "none"
              THEN data' = [data EXCEPT ![cur] = v] /\ UNCHANGED errors
              ELSE Report(err) /\ UNCHANGED data
  /\ Advance
  /\ UNCHANGED <<pc, acc, outLen>>

PreDone ==
  /\ AtEnd("pre")
  /\ acc' = 0
  /\ Goto("pc")
  /\ UNCHANGED <<pc, size, data, argDone, errors, outLen>>

-----------------------------------------------------------------------------
(* computePC *)

AssignPC ==
  /\ At("pc")
  /\ pc' = [pc EXCEPT ![cur] = acc]
  /\ acc' = acc + EncodedSize(code, size, cur)
  /\ Advance
  /\ UNCHANGED <<size, data, argDone, errors, outLen>>

PCDone ==
  /\ AtEnd("pc")
  /\ Goto("eval")
  /\ UNCHANGED <<pc, size, data, argDone, acc, errors, outLen>>

-----------------------------------------------------------------------------
(* evaluateArgs, and what compile does with its result *)

NeedsEval(i) == IsPush(i) /\ ~argDone[i]

EvalSkip ==
  /\ At("eval") /\ ~NeedsEval(cur)
  /\ Advance
  /\ UNCHANGED <<pc, size, data, argDone, acc, errors, outLen>>

\* The error evaluateArgs returns at instruction i.
ArgError(i) ==
  IF EvalFails(code[i].expr, pc) THEN "eval"
                                 ELSE PushArgError(i, Value(code[i].expr, pc), size[i])

EvalStore ==
  /\ At("eval") /\ NeedsEval(cur)
  /\ ArgError(cur) = "none"
  /\ data' = [data EXCEPT ![cur] = Value(code[cur].expr, pc)]
  /\ Advance
  /\ UNCHANGED <<pc, size, argDone, acc, errors, outLen>>

(* mutant: the enlarged PUSH is evaluated later, without new offsets *)
EvalBumpContinue ==
  /\ At("eval") /\ NeedsEval(cur)
  /\ ArgError(cur) = "variable"
  /\ size' = [size EXCEPT ![cur] = @ + 1]
  /\ data' = [data EXCEPT ![cur] = Value(code[cur].expr, pc)]
  /\ Advance
  /\ UNCHANGED <<pc, argDone, acc, errors, outLen>>

(* mutant: another round, but nothing was enlarged *)
EvalBumpNothing ==
  /\ At("eval") /\ NeedsEval(cur)
  /\ ArgError(cur) = "variable"
  /\ acc' = 0
  /\ Goto("pc")
  /\ UNCHANGED <<pc, size, data, argDone, errors, outLen>>

\* ecVariablePushOverflow: enlarge this PUSH and start another round.
EvalBump ==
  /\ At("eval") /\ NeedsEval(cur)
  /\ ArgError(cur) = "variable"
  /\ size' = [size EXCEPT ![cur] = @ + 1]
  /\ acc' = 0
  /\ Goto("pc")
  /\ UNCHANGED <<pc, data, argDone, errors, outLen>>

(* mutant: the error ends the loop but is not reported *)
EvalFailSilent ==
  /\ At("eval") /\ NeedsEval(cur)
  /\ ArgError(cur) \notin {"none", "variable"}
  /\ Goto("check")
  /\ UNCHANGED <<pc, size, data, argDone, acc, errors, outLen>>

\* Any other error ends the loop, whatever the offsets are at this point.
EvalFail ==
  /\ At("eval") /\ NeedsEval(cur)
  /\ ArgError(cur) \notin {"none", "variable"}
  /\ Report(ArgError(cur))
  /\ Goto("check")
  /\ UNCHANGED <<pc, size, data, argDone, acc, outLen>>

EvalDone ==
  /\ AtEnd("eval")
  /\ Goto("check")
  /\ UNCHANGED <<pc, size, data, argDone, acc, errors, outLen>>

-----------------------------------------------------------------------------
(* checkPCLabels *)

PCLabelMismatch(i) ==
  code[i].kind = "empty" /\ code[i].assert # NoAssert /\ code[i].assert # pc[i]

CheckPCLabel ==
  /\ At("check")
  /\ IF PCLabelMismatch(cur) THEN Report("pcLabel") ELSE UNCHANGED errors
  /\ Advance
  /\ UNCHANGED <<pc, size, data, argDone, acc, outLen>>

\* "No output if source has errors."
CheckDone ==
  /\ AtEnd("check")
  /\ Goto(IF errors = {} THEN "gen" ELSE "failed")
  /\ UNCHANGED <<pc, size, data, argDone, acc, errors, outLen>>

-----------------------------------------------------------------------------
(* generateOutput *)

DataLen(i) == IF data[i] = NoData THEN 0 ELSE ByteLen(data[i])

Padding(i) == IF DataLen(i) < size[i] THEN size[i] - DataLen(i) ELSE 0

EmitPush ==
  /\ At("gen") /\ IsPush(cur)
  /\ outLen' = outLen + 1 + Padding(cur) + DataLen(cur)
  /\ Advance
  /\ UNCHANGED <<pc, size, data, argDone, acc, errors>>

EmitOther ==
  /\ At("gen") /\ ~IsPush(cur)
  /\ outLen' = outLen + (IF code[cur].kind = "op" THEN 1 ELSE 0) + size[cur]
  /\ Advance
  /\ UNCHANGED <<pc, size, data, argDone, acc, errors>>

GenDone ==
  /\ AtEnd("gen")
  /\ Goto("ok")
  /\ UNCHANGED <<pc, size, data, argDone, acc, errors, outLen>>

-----------------------------------------------------------------------------
Finished == phase \in {"ok", "failed"}

Pre  == PreOther \/ PreBytes \/ PrePushLater \/ PrePushFails \/ PrePushAssign \/ PreDone
Loop == AssignPC \/ PCDone \/ EvalSkip \/ EvalStore \/ EvalBump \/ EvalFail \/ EvalDone
Gen  == CheckPCLabel \/ CheckDone \/ EmitPush \/ EmitOther \/ GenDone

Done == Finished /\ UNCHANGED vars

Next == Pre \/ Loop \/ Gen \/ Done

\* compile is one goroutine that runs until it returns.
Fairness == WF_vars(Next)

Spec == Init /\ [][Next]_vars /\ Fairness

-----------------------------------------------------------------------------
(* Properties *)

TypeOK ==
  /\ code \in Programs
  /\ push0 \in BOOLEAN
  /\ phase \in {"pre", "pc", "eval", "check", "gen", "ok", "failed"}
  /\ cur \in 1..(N + 1)
  /\ pc \in [Idx -> Nat]
  /\ size \in [Idx -> Nat]
  /\ data \in [Idx -> Nat \cup {NoData}]
  /\ argDone \in [Idx -> BOOLEAN]
  /\ acc \in Nat
  /\ errors \subseteq (Idx \X {"labelInBytes", "eval", "negative", "overflow256",
                                "variable", "fixed", "pcLabel"})
  /\ outLen \in Nat

\* evaluateArgs and generateOutput never panic: no #bytes is left for the loop to
\* evaluate, every instruction is emitted at the offset the labels were computed
\* from, and its data fits a PUSH opcode that exists.
PanicFree ==
  /\ At("eval") /\ IsBytes(cur) => argDone[cur]
  /\ At("gen") =>
       /\ outLen = pc[cur]
       /\ IsPush(cur) =>
            /\ size[cur] \in 0..MaxPush
            /\ size[cur] = 0 => push0
            /\ DataLen(cur) <= size[cur]

\* Output is only generated from a fixed point: every argument has the value it
\* evaluates to under the very offsets the instructions are emitted at, although
\* arguments and offsets were computed in different rounds.
OutputIsLayout ==
  phase \in {"gen", "ok"} =>
    /\ IsLayout(code, push0, size, pc)
    /\ \A i \in Idx : IsPush(i) => data[i] = Value(code[i].expr, pc)

\* When arguments only grow with the code, the search never enlarges a PUSH
\* beyond what some layout needs: no round overshoots the least layout.
NeverAboveLeast ==
  Monotone(code) /\ phase # "pre" => Least(code, push0, size)

\* When arguments only grow with the code, an argument error means that the
\* program has no layout at all, even if it was found in an early round.
FailureJustified ==
  Monotone(code) /\ (\E e \in errors : e[2] # "pcLabel") => Layouts(code, push0) = {}

\* The search for a fixed point ends for every program, although a PUSH that
\* grows can make the arguments of others grow, and shrink.
Terminates == <>Finished

Result ==
  CASE phase = "ok"     -> [is |-> "layout", size |-> size, pc |-> pc, data |-> data]
    [] phase = "failed" -> [is |-> "failed"]
    [] OTHER            -> [is |-> "pending"]

Abstract == INSTANCE Assembly WITH answer <- Result

\* Layout implements Assembly.
ImplementsAssembly == Abstract!AssemblySpec
===============================================================================
