------------------------------ MODULE Evaluate ------------------------------
(****************************************************************************)
(* The evaluator of argument expressions (asm/evaluator.go) and the rounds  *)
(* in which the compiler uses it (preEvaluateArgs and evaluateArgs).        *)
(*                                                                          *)
(* The recursion of eval() is a stack of frames: what is still to be done   *)
(* with the value of the expression under evaluation.  Integers stand for   *)
(* numbers of any width; that an argument fits its push is left to Layout,  *)
(* where a value causes another round.                                      *)
(****************************************************************************)
EXTENDS Integers, Sequences, FiniteSets

CONSTANTS Programs,     \* expanded programs: sections, macros, labels and arguments
          Addresses,    \* values that the address of an instruction may take
          MaxRounds     \* bound: rounds of evaluateArgs

VARIABLES program,
          stage,        \* "pre", "rounds" or "done"
          rounds,       \* rounds of evaluateArgs that have begun
          next,         \* the argument that is evaluated next
          addr,         \* pc of each label's instruction
          control,      \* the expression to evaluate, or a value or error to return
          kont,         \* frames, the last one waits for control
          inStack,      \* macros whose body is being evaluated
          usedLabels,   \* labels looked up with success
          settled,      \* arguments with argNoLabels
          outcome       \* for each argument, its last result

vars == <<program, stage, rounds, next, addr, control, kont, inStack, usedLabels, settled, outcome>>

NoDoc == "nodoc"
NoDef == <<"nodef", "">>

Idle          == [k |-> "idle"]
Eval(e, env)  == [k |-> "eval", e |-> e, env |-> env]
Value(n)      == [k |-> "value", n |-> n]
Error(what)   == [k |-> "error", what |-> what]

Args == program.args

-----------------------------------------------------------------------------
(* Environments and lookups.                                                 *)

\* Section 1 is the top level, and has no macro arguments.
TopSection == 1
NoSection  == 0

NoVariables == [x \in {} |-> x]

SectionEnv(s) == [doc |-> program.sections[s].doc, sect |-> s, variables |-> NoVariables]

\* The document and those around it, innermost first.
Outward(doc) ==
  LET chain[d \in DOMAIN program.parent \cup {NoDoc}] ==
        IF d = NoDoc THEN <<>> ELSE <<d>> \o chain[program.parent[d]]
  IN  chain[doc]

\* The definition of a name in the nearest document; global names have their own table.
Lookup(table, name, doc) ==
  IF name \in program.globals
  THEN IF <<"global", name>> \in table THEN <<"global", name>> ELSE NoDef
  ELSE LET chain == Outward(doc)
           hits  == {i \in DOMAIN chain : <<chain[i], name>> \in table}
       IN  IF hits = {} THEN NoDef ELSE <<chain[CHOOSE i \in hits : \A j \in hits : i <= j], name>>

\* lookupExprMacro: values set with SetGlobal come first.
LookupExprMacro(name, doc) ==
  IF name \in DOMAIN program.overrides THEN <<"override", name>>
  ELSE Lookup(DOMAIN program.macros, name, doc)

MacroDef(def) ==
  IF def[1] = "override"
  THEN [params |-> <<>>, doc |-> NoDoc, body |-> [t |-> "lit", n |-> program.overrides[def[2]]]]
  ELSE program.macros[def]

\* lookupLabel.  A global label may be defined in a macro that is never instantiated.
LabelResult(name, doc) ==
  LET label == Lookup(program.labels, name, doc)
  IN  IF stage = "pre" THEN Error("unassigned")
      ELSE IF label = NoDef THEN Error("undefined label")
      ELSE IF label \notin DOMAIN addr THEN Error("unassigned")
      ELSE Value(addr[label])

-----------------------------------------------------------------------------
(* eval(): the expression under evaluation is replaced by what it needs first. *)

Push(frame) == kont' = Append(kont, frame)
Pop == kont' = SubSeq(kont, 1, Len(kont) - 1)
Top == kont[Len(kont)]

Expr(type) == control.k = "eval" /\ control.e.t = type
Env == control.env

CompilerOnly == UNCHANGED <<program, stage, rounds, next, addr, settled, outcome>>

Literal ==
  /\ Expr("lit")
  /\ control' = Value(control.e.n)
  /\ UNCHANGED <<kont, inStack, usedLabels>> /\ CompilerOnly

LabelRef ==
  /\ Expr("label")
  /\ control' = LabelResult(control.e.name, Env.doc)
  /\ usedLabels' = IF control'.k = "value"
                   THEN usedLabels \cup {Lookup(program.labels, control.e.name, Env.doc)}
                   ELSE usedLabels
  /\ UNCHANGED <<kont, inStack>> /\ CompilerOnly

\* evalArith and evalUnary: the left operand first.
Operator ==
  /\ control.k = "eval" /\ control.e.t \in {"neg", "add", "sub", "mul", "div"}
  /\ control' = Eval(control.e.left, Env)
  /\ Push(IF control.e.t = "neg" THEN [f |-> "neg"]
          ELSE [f |-> "left", op |-> control.e.t, right |-> control.e.right, env |-> Env])
  /\ UNCHANGED <<inStack, usedLabels>> /\ CompilerOnly

\* mutant: an argument of an instruction macro is evaluated where it is used.
VariableHere ==
  /\ Expr("var")
  /\ LET x == control.e.name
         s == Env.sect
     IN  control' =
           IF x \in DOMAIN Env.variables THEN Value(Env.variables[x])
           ELSE IF s # NoSection /\ x \in DOMAIN program.sections[s].arguments
           THEN Eval(program.sections[s].arguments[x], Env)
           ELSE Error("undefined variable")
  /\ UNCHANGED <<kont, inStack, usedLabels>> /\ CompilerOnly

\* evalVariable: an argument of an instruction macro is evaluated in its callsite.
Variable ==
  /\ Expr("var")
  /\ LET x == control.e.name
         s == Env.sect
     IN  control' =
           IF x \in DOMAIN Env.variables THEN Value(Env.variables[x])
           ELSE IF s # NoSection /\ x \in DOMAIN program.sections[s].arguments
           THEN Eval(program.sections[s].arguments[x], SectionEnv(program.sections[s].callsite))
           ELSE Error("undefined variable")
  /\ UNCHANGED <<kont, inStack, usedLabels>> /\ CompilerOnly

\* abs() stands for the builtins that compute with a value, address() for those that
\* want a literal.
BuiltinMacros == {"abs", "address"}

Callee == IF control.e.dot THEN NoDef ELSE LookupExprMacro(control.e.name, Env.doc)

Builtin ==
  /\ Expr("call") /\ Callee = NoDef
  /\ LET args == control.e.args
     IN  IF control.e.name \notin BuiltinMacros
         THEN control' = Error("undefined macro") /\ UNCHANGED kont
         ELSE IF Len(args) # 1
         THEN control' = Error("argument count") /\ UNCHANGED kont
         ELSE IF control.e.name = "address"
         THEN /\ control' = IF args[1].t = "lit" THEN Value(args[1].n) ELSE Error("wants literal")
              /\ UNCHANGED kont
         ELSE control' = Eval(args[1], Env) /\ Push([f |-> "abs"])
  /\ UNCHANGED <<inStack, usedLabels>> /\ CompilerOnly

Bind(def, values) ==
  LET params == MacroDef(def).params
  IN  [x \in {params[i] : i \in DOMAIN params} |->
         values[CHOOSE i \in DOMAIN params : params[i] = x /\ \A j \in i + 1..Len(params) : params[j] # x]]

\* With the arguments known, the body is evaluated in an environment of its own, unless
\* it is being evaluated already.
EnterMacro(def, values, frames) ==
  IF def \in inStack
  THEN control' = Error("recursive call") /\ kont' = frames /\ UNCHANGED inStack
  ELSE /\ control' = Eval(MacroDef(def).body,
                          [doc |-> MacroDef(def).doc, sect |-> NoSection,
                           variables |-> Bind(def, values)])
       /\ kont' = Append(frames, [f |-> "body", def |-> def])
       /\ inStack' = inStack \cup {def}

\* evalMacroCall: the arguments are evaluated in the caller's environment.
Call ==
  /\ Expr("call") /\ Callee # NoDef
  /\ LET args == control.e.args
     IN  IF Len(args) # Len(MacroDef(Callee).params)
         THEN control' = Error("argument count") /\ UNCHANGED <<kont, inStack>>
         ELSE IF args = <<>> THEN EnterMacro(Callee, <<>>, kont)
         ELSE /\ control' = Eval(args[1], Env)
              /\ Push([f |-> "args", def |-> Callee, args |-> args, values |-> <<>>, env |-> Env])
              /\ UNCHANGED inStack
  /\ UNCHANGED usedLabels /\ CompilerOnly

-----------------------------------------------------------------------------
(* A value returns to the last frame.                                        *)

Arith(op, x, y) ==
  CASE op = "add" -> Value(x + y)
    [] op = "sub" -> Value(x - y)
    [] op = "mul" -> Value(x * y)
    [] op = "div" /\ y > 0 -> Value(x \div y)
    [] op = "div" /\ y < 0 -> Value(-(x \div (-y)))
    [] OTHER -> Error("division by zero")

Abs(x) == IF x < 0 THEN -x ELSE x

Returning(frame) == control.k = "value" /\ kont # <<>> /\ Top.f = frame

ReturnOperand ==
  /\ Returning("left") /\ control' = Eval(Top.right, Top.env)
  /\ kont' = Append(SubSeq(kont, 1, Len(kont) - 1), [f |-> "right", op |-> Top.op, left |-> control.n])
  /\ UNCHANGED <<inStack, usedLabels>> /\ CompilerOnly

ReturnResult ==
  /\ \/ Returning("right") /\ control' = Arith(Top.op, Top.left, control.n)
     \/ Returning("neg") /\ control' = Value(-control.n)
     \/ Returning("abs") /\ control' = Value(Abs(control.n))
  /\ Pop
  /\ UNCHANGED <<inStack, usedLabels>> /\ CompilerOnly

ReturnArgument ==
  /\ Returning("args")
  /\ LET values == Append(Top.values, control.n)
         below  == SubSeq(kont, 1, Len(kont) - 1)
     IN  IF Len(values) = Len(Top.args) THEN EnterMacro(Top.def, values, below)
         ELSE /\ control' = Eval(Top.args[Len(values) + 1], Top.env)
              /\ kont' = Append(below, [Top EXCEPT !.values = values])
              /\ UNCHANGED inStack
  /\ UNCHANGED usedLabels /\ CompilerOnly

\* exitMacro is deferred: it runs for a value and for an error.
ReturnBody ==
  /\ Returning("body")
  /\ Pop /\ inStack' = inStack \ {Top.def}
  /\ UNCHANGED <<control, usedLabels>> /\ CompilerOnly

\* mutant: the macro is left only when its body has a value.
UnwindInside ==
  /\ control.k = "error" /\ kont # <<>>
  /\ Pop
  /\ UNCHANGED <<control, inStack, usedLabels>> /\ CompilerOnly

Unwind ==
  /\ control.k = "error" /\ kont # <<>>
  /\ Pop /\ inStack' = IF Top.f = "body" THEN inStack \ {Top.def} ELSE inStack
  /\ UNCHANGED <<control, usedLabels>> /\ CompilerOnly

-----------------------------------------------------------------------------
(* The compiler.                                                             *)

EvaluatorOnly == UNCHANGED <<kont, inStack, usedLabels>>

Start ==
  /\ control = Idle /\ stage # "done" /\ next <= Len(Args)
  /\ IF next \in settled
     THEN next' = next + 1 /\ UNCHANGED control
     ELSE control' = Eval(Args[next].expr, SectionEnv(Args[next].section)) /\ UNCHANGED next
  /\ UNCHANGED <<program, stage, rounds, addr, settled, outcome>> /\ EvaluatorOnly

Returned == control.k \in {"value", "error"} /\ kont = <<>>

\* preEvaluateArgs: only an argument that waits for labels is left for later.
PreEvaluated ==
  /\ Returned /\ stage = "pre"
  /\ LET waits == control = Error("unassigned")
     IN  /\ settled' = IF waits /\ ~Args[next].bytes THEN settled ELSE settled \cup {next}
         /\ outcome' = [outcome EXCEPT ![next] =
                          IF waits /\ Args[next].bytes THEN Error("label in #bytes") ELSE control]
  /\ control' = Idle /\ next' = next + 1
  /\ UNCHANGED <<program, stage, rounds, addr>> /\ EvaluatorOnly

\* mutant: a new round goes on at the argument that did not fit.
NewRoundOnward ==
  /\ rounds' = rounds + 1 /\ next' = (IF stage = "pre" THEN 1 ELSE next)
  /\ addr' \in [program.instantiated -> Addresses]

\* The addresses of a round, whatever sizes the instructions have.
NewRound == rounds' = rounds + 1 /\ next' = 1 /\ addr' \in [program.instantiated -> Addresses]

RegisterLabels ==
  /\ stage = "pre" /\ control = Idle /\ next > Len(Args)
  /\ stage' = "rounds" /\ NewRound
  /\ UNCHANGED <<program, control, settled, outcome>> /\ EvaluatorOnly

\* mutant: every error is taken for one that another round may cure.
EvaluatedRetries ==
  /\ Returned /\ stage = "rounds"
  /\ outcome' = [outcome EXCEPT ![next] = control]
  /\ control' = Idle
  /\ next' = (IF control.k = "error" THEN 1 ELSE next + 1) /\ UNCHANGED <<stage, rounds, addr>>
  /\ UNCHANGED <<program, settled>> /\ EvaluatorOnly

\* evaluateArgs: an error ends the rounds; a value may be too large for its push.
Evaluated ==
  /\ Returned /\ stage = "rounds"
  /\ outcome' = [outcome EXCEPT ![next] = control]
  /\ control' = Idle
  /\ \/ control.k = "error" /\ stage' = "done" /\ UNCHANGED <<rounds, next, addr>>
     \/ control.k = "value" /\ next' = next + 1 /\ UNCHANGED <<stage, rounds, addr>>
     \/ control.k = "value" /\ rounds < MaxRounds /\ NewRound /\ UNCHANGED stage
  /\ UNCHANGED <<program, settled>> /\ EvaluatorOnly

Converged ==
  /\ stage = "rounds" /\ control = Idle /\ next > Len(Args)
  /\ stage' = "done"
  /\ UNCHANGED <<program, rounds, next, addr, control, settled, outcome>> /\ EvaluatorOnly

Done == stage = "done" /\ UNCHANGED vars

\* checkLabelsUsed: what a compilation without errors warns of.
UnusedLabels == program.instantiated \ usedLabels

Init ==
  /\ program \in Programs
  /\ stage = "pre" /\ rounds = 0 /\ next = 1
  /\ addr = [l \in {} |-> 0]
  /\ control = Idle /\ kont = <<>>
  /\ inStack = {} /\ usedLabels = {} /\ settled = {}
  /\ outcome = [i \in DOMAIN program.args |-> Idle]

Evaluation ==
  Literal \/ LabelRef \/ Operator \/ Variable \/ Builtin \/ Call
  \/ ReturnOperand \/ ReturnResult \/ ReturnArgument \/ ReturnBody \/ Unwind

Compilation == Start \/ PreEvaluated \/ RegisterLabels \/ Evaluated \/ Converged

Next == Evaluation \/ Compilation \/ Done

\* A sequential program: it goes on as long as it can.
Spec == Init /\ [][Next]_vars /\ WF_vars(Next)

-----------------------------------------------------------------------------
(* Properties.                                                               *)

Bodies == {i \in DOMAIN kont : kont[i].f = "body"}

\* enterMacro and exitMacro keep exactly the macros on the call stack in inStack, each
\* there once: no body is evaluated inside itself, and nothing of an evaluation is left
\* for the next, however it ended.
GuardIsCallStack ==
  /\ inStack = {kont[i].def : i \in Bodies}
  /\ \A i, j \in Bodies : kont[i].def = kont[j].def => i = j
  /\ control.k = "idle" => inStack = {}

\* The rounds come to an end, with macros that call each other in circles too.
Terminates == <>(stage = "done")
=============================================================================
