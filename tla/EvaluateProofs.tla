--------------------------- MODULE EvaluateProofs ---------------------------
(****************************************************************************)
(* The recursion guard of the evaluator, for every program.                 *)
(*                                                                          *)
(* Nothing is assumed of expressions and macros: the argument needs only    *)
(* that the stack of frames is a sequence, which is part of the invariant.  *)
(****************************************************************************)
EXTENDS Evaluate, TLAPS

FramesOf(s) == {s[i] : i \in DOMAIN s}

IsStack(s) == s \in Seq(FramesOf(s))

BodiesOf(s) == {i \in DOMAIN s : s[i].f = "body"}

\* The guard g has the macros of the body frames of s, and none has two.
Guarded(s, g) ==
  /\ g = {s[i].def : i \in BodiesOf(s)}
  /\ \A i, j \in BodiesOf(s) : s[i].def = s[j].def => i = j

Shorter(s) == SubSeq(s, 1, Len(s) - 1)

-----------------------------------------------------------------------------
(* Stacks.                                                                   *)

\* A frame put on a stack leaves those below it.
LEMMA PushStack ==
  ASSUME NEW s, NEW x, IsStack(s)
  PROVE  /\ IsStack(Append(s, x))
         /\ DOMAIN s = 1..Len(s) /\ Len(s) \in Nat
         /\ DOMAIN Append(s, x) = 1..Len(s) + 1
         /\ Append(s, x)[Len(s) + 1] = x
         /\ \A i \in 1..Len(s) : Append(s, x)[i] = s[i]
<1> DEFINE S == FramesOf(s) \cup {x}
           t == Append(s, x)
<1>1. s \in Seq(FramesOf(s)) /\ DOMAIN s = 1..Len(s) /\ Len(s) \in Nat
  BY DEF IsStack
<1>2. s \in Seq(S)
  <2> HIDE DEF S
  <2>1. \A i \in 1..Len(s) : s[i] \in S
    BY <1>1 DEF S, FramesOf
  <2> QED BY <1>1, <2>1
<1>3. /\ t \in Seq(S) /\ Len(t) = Len(s) + 1 /\ DOMAIN t = 1..Len(s) + 1
      /\ t[Len(s) + 1] = x
      /\ \A i \in 1..Len(s) : t[i] = s[i]
  <2>1. x \in S
    OBVIOUS
  <2> HIDE DEF S
  <2> QED BY <1>1, <1>2, <2>1
<1>4. \A i \in 1..Len(t) : t[i] \in FramesOf(t)
  BY <1>1, <1>3 DEF FramesOf
<1>5. t \in Seq(FramesOf(t))
  <2> HIDE DEF t, S
  <2> DEFINE F == FramesOf(t)
  <2>1. \A i \in 1..Len(t) : t[i] \in F
    BY <1>4
  <2> HIDE DEF F
  <2>2. t \in Seq(F)
    BY <1>3, <2>1
  <2> QED BY <2>2 DEF F
<1> QED BY <1>1, <1>3, <1>5 DEF IsStack

\* The last frame taken off leaves those below it.
LEMMA PopStack ==
  ASSUME NEW s, IsStack(s), s # <<>>
  PROVE  /\ IsStack(Shorter(s))
         /\ DOMAIN s = 1..Len(s) /\ Len(s) \in Nat \ {0}
         /\ DOMAIN Shorter(s) = 1..Len(s) - 1
         /\ \A i \in 1..Len(s) - 1 : Shorter(s)[i] = s[i]
<1> DEFINE F == FramesOf(s)
           t == Shorter(s)
<1>1. s \in Seq(F) /\ DOMAIN s = 1..Len(s) /\ Len(s) \in Nat \ {0}
  BY DEF IsStack
<1>2. /\ t \in Seq(F) /\ Len(t) = Len(s) - 1 /\ DOMAIN t = 1..Len(s) - 1
      /\ \A i \in 1..Len(s) - 1 : t[i] = s[i]
  <2> HIDE DEF F
  <2> QED BY <1>1 DEF Shorter
<1>3. t \in Seq(FramesOf(t))
  <2> DEFINE G == FramesOf(t)
  <2>1. \A i \in 1..Len(t) : t[i] \in G
    BY <1>2 DEF FramesOf
  <2>2. t \in Seq(G)
    <3> HIDE DEF G, F, t
    <3> QED BY <1>2, <2>1
  <2> QED BY <2>2
<1> QED BY <1>1, <1>2, <1>3 DEF IsStack

-----------------------------------------------------------------------------
(* The guard and the stack move together.                                    *)

\* A frame of an operand or an argument does not concern the guard.
LEMMA PushPlain ==
  ASSUME NEW s, NEW g, NEW x, IsStack(s), Guarded(s, g), x.f # "body"
  PROVE  IsStack(Append(s, x)) /\ Guarded(Append(s, x), g)
<1> DEFINE t == Append(s, x)
<1>1. /\ IsStack(t) /\ DOMAIN s = 1..Len(s) /\ Len(s) \in Nat
      /\ DOMAIN t = 1..Len(s) + 1 /\ t[Len(s) + 1] = x
      /\ \A i \in 1..Len(s) : t[i] = s[i]
  BY PushStack
<1> HIDE DEF t
<1>2. BodiesOf(t) = BodiesOf(s)
  BY <1>1 DEF BodiesOf
<1>3. \A i \in BodiesOf(s) : t[i] = s[i]
  BY <1>1 DEF BodiesOf
<1>4. Guarded(t, g)
  BY <1>2, <1>3 DEF Guarded
<1> QED BY <1>1, <1>4 DEF t

\* A body that is entered joins both.
LEMMA PushBody ==
  ASSUME NEW s, NEW g, NEW x, IsStack(s), Guarded(s, g), x.f = "body", x.def \notin g
  PROVE  IsStack(Append(s, x)) /\ Guarded(Append(s, x), g \cup {x.def})
<1> DEFINE t == Append(s, x)
           n == Len(s) + 1
<1>1. /\ IsStack(t) /\ DOMAIN s = 1..Len(s) /\ Len(s) \in Nat
      /\ DOMAIN t = 1..n /\ t[n] = x
      /\ \A i \in 1..Len(s) : t[i] = s[i]
  BY PushStack
<1>2. n \notin BodiesOf(s)
  BY <1>1 DEF BodiesOf
<1> HIDE DEF t
<1>3. BodiesOf(t) = BodiesOf(s) \cup {n}
  BY <1>1 DEF BodiesOf
<1>4. \A i \in BodiesOf(s) : t[i] = s[i]
  BY <1>1 DEF BodiesOf
<1> HIDE DEF n
<1>5. \A i \in BodiesOf(s) : t[i].def \in g
  BY <1>4 DEF Guarded
<1>6. Guarded(t, g \cup {x.def})
  <2>1. {t[i].def : i \in BodiesOf(t)} = g \cup {x.def}
    BY <1>1, <1>3, <1>4 DEF Guarded
  <2>2. ASSUME NEW i \in BodiesOf(t), NEW j \in BodiesOf(t), t[i].def = t[j].def
        PROVE  i = j
    <3>1. CASE i \in BodiesOf(s) /\ j \in BodiesOf(s)
      BY <2>2, <3>1, <1>4 DEF Guarded
    <3>2. CASE i = n /\ j = n
      BY <3>2
    <3>3. CASE i = n /\ j \in BodiesOf(s)
      BY <2>2, <3>3, <1>1, <1>5
    <3>4. CASE i \in BodiesOf(s) /\ j = n
      BY <2>2, <3>4, <1>1, <1>5
    <3> QED BY <1>3, <3>1, <3>2, <3>3, <3>4
  <2> QED BY <2>1, <2>2 DEF Guarded
<1> QED BY <1>1, <1>6 DEF t

\* The last frame is taken off: a body leaves the guard.
LEMMA PopGuarded ==
  ASSUME NEW s, NEW g, IsStack(s), s # <<>>, Guarded(s, g)
  PROVE  /\ IsStack(Shorter(s))
         /\ s[Len(s)].f # "body" => Guarded(Shorter(s), g)
         /\ s[Len(s)].f = "body" => Guarded(Shorter(s), g \ {s[Len(s)].def})
<1> DEFINE t == Shorter(s)
           n == Len(s)
<1>1. /\ IsStack(t) /\ DOMAIN s = 1..n /\ n \in Nat \ {0} /\ DOMAIN t = 1..n - 1
      /\ \A i \in 1..n - 1 : t[i] = s[i]
  BY PopStack
<1> HIDE DEF t
<1>2. BodiesOf(t) = BodiesOf(s) \ {n}
  BY <1>1 DEF BodiesOf
<1>3. \A i \in BodiesOf(t) : t[i] = s[i]
  BY <1>1 DEF BodiesOf
<1>4. ASSUME s[n].f # "body" PROVE Guarded(t, g)
  <2>1. BodiesOf(t) = BodiesOf(s)
    BY <1>2, <1>4 DEF BodiesOf
  <2> QED BY <1>3, <2>1 DEF Guarded
<1>5. ASSUME s[n].f = "body" PROVE Guarded(t, g \ {s[n].def})
  <2>1. n \in BodiesOf(s)
    BY <1>1, <1>5 DEF BodiesOf
  <2> HIDE DEF n
  <2>2. \A i \in BodiesOf(t) : s[i].def # s[n].def
    BY <1>2, <2>1 DEF Guarded
  <2>3. {t[i].def : i \in BodiesOf(t)} = g \ {s[n].def}
    BY <1>2, <1>3, <2>1, <2>2 DEF Guarded
  <2>4. \A i, j \in BodiesOf(t) : t[i].def = t[j].def => i = j
    BY <1>2, <1>3 DEF Guarded
  <2> QED BY <2>3, <2>4 DEF Guarded
<1> QED BY <1>1, <1>4, <1>5 DEF t

-----------------------------------------------------------------------------
(* Every step of the evaluator and of the compiler.                          *)

IInv ==
  /\ IsStack(kont)
  /\ Guarded(kont, inStack)
  /\ control.k = "idle" => kont = <<>>

\* An evaluation begins with an empty stack and no macro on it.
LEMMA InitGuard == Init => IInv
<1> SUFFICES ASSUME Init PROVE IInv
  OBVIOUS
<1>1. kont = <<>> /\ inStack = {}
  BY DEF Init
<1>2. kont \in Seq(FramesOf(kont))
  <2> DEFINE F == FramesOf(kont)
  <2> HIDE DEF F
  <2>1. kont \in Seq(F)
    BY <1>1
  <2> QED BY <2>1 DEF F
<1>3. BodiesOf(kont) = {}
  BY <1>1 DEF BodiesOf
<1> QED BY <1>1, <1>2, <1>3 DEF IInv, IsStack, Guarded

\* A control that has been evaluated, or is to be, is not idle.
LEMMA Busy ==
  /\ \A e, env : Eval(e, env).k # "idle"
  /\ \A n : Value(n).k # "idle"
  /\ \A what : Error(what).k # "idle"
BY DEF Eval, Value, Error

\* Entering a macro, with the frames that are left.
LEMMA EnterGuard ==
  ASSUME NEW def, NEW values, NEW frames,
         IsStack(frames), Guarded(frames, inStack), EnterMacro(def, values, frames)
  PROVE  IInv'
<1>1. CASE def \in inStack
  <2>1. control'.k # "idle" /\ kont' = frames /\ inStack' = inStack
    BY <1>1, Busy DEF EnterMacro
  <2> QED BY <2>1 DEF IInv
<1>2. CASE def \notin inStack
  <2> DEFINE x == [f |-> "body", def |-> def]
  <2>1. control'.k # "idle" /\ kont' = Append(frames, x) /\ inStack' = inStack \cup {x.def}
    BY <1>2 DEF EnterMacro, Eval
  <2>2. x.f = "body" /\ x.def \notin inStack
    BY <1>2
  <2> HIDE DEF x
  <2>3. IsStack(Append(frames, x)) /\ Guarded(Append(frames, x), inStack \cup {x.def})
    BY <2>2, PushBody
  <2> QED BY <2>1, <2>3 DEF IInv
<1> QED BY <1>1, <1>2

\* A step that leaves the stack alone, or puts a frame on it that is no body.
LEMMA KeepGuard ==
  ASSUME IInv, kont' = kont, inStack' = inStack, control'.k # "idle"
  PROVE  IInv'
BY DEF IInv

\* A step that puts a frame on it.
LEMMA PlainGuard ==
  ASSUME NEW x, IInv, x.f # "body", kont' = Append(kont, x), inStack' = inStack, control'.k # "idle"
  PROVE  IInv'
<1>1. IsStack(Append(kont, x)) /\ Guarded(Append(kont, x), inStack)
  BY PushPlain DEF IInv
<1> QED BY <1>1 DEF IInv

\* The guard follows every step of an evaluation.
LEMMA EvaluationGuard == ASSUME IInv, Evaluation PROVE IInv'
<1>1. CASE Literal
  BY <1>1, KeepGuard DEF Literal, Value
<1>2. CASE LabelRef
  <2>1. control'.k # "idle"
    BY <1>2 DEF LabelRef, LabelResult, Value, Error
  <2> QED BY <1>2, <2>1, KeepGuard DEF LabelRef
<1>3. CASE Operator
  <2> DEFINE x == IF control.e.t = "neg" THEN [f |-> "neg"]
                  ELSE [f |-> "left", op |-> control.e.t, right |-> control.e.right, env |-> Env]
  <2>1. x.f # "body"
    OBVIOUS
  <2>2. kont' = Append(kont, x) /\ inStack' = inStack /\ control'.k # "idle"
    BY <1>3 DEF Operator, Push, Eval
  <2> HIDE DEF x
  <2> QED BY <2>1, <2>2, PlainGuard
<1>4. CASE Variable
  <2>1. control'.k # "idle"
    BY <1>4 DEF Variable, Value, Eval, Error
  <2> QED BY <1>4, <2>1, KeepGuard DEF Variable
<1>5. CASE Builtin
  <2>1. control'.k # "idle" /\ inStack' = inStack
    BY <1>5, Busy DEF Builtin
  <2>2. kont' = kont \/ kont' = Append(kont, [f |-> "abs"])
    BY <1>5 DEF Builtin, Push
  <2>3. CASE kont' = kont
    BY <2>1, <2>3, KeepGuard
  <2>4. CASE kont' = Append(kont, [f |-> "abs"])
    BY <2>1, <2>4, PlainGuard
  <2> QED BY <2>2, <2>3, <2>4
<1>6. CASE Call
  <2> DEFINE args == control.e.args
             x == [f |-> "args", def |-> Callee, args |-> args, values |-> <<>>, env |-> Env]
  <2>1. CASE Len(args) # Len(MacroDef(Callee).params)
    <3>1. control'.k # "idle" /\ kont' = kont /\ inStack' = inStack
      BY <1>6, <2>1, Busy DEF Call
    <3> QED BY <3>1, KeepGuard
  <2>2. CASE Len(args) = Len(MacroDef(Callee).params) /\ args = <<>>
    <3>1. EnterMacro(Callee, <<>>, kont)
      BY <1>6, <2>2 DEF Call
    <3> QED BY <3>1, EnterGuard DEF IInv
  <2>3. CASE Len(args) = Len(MacroDef(Callee).params) /\ args # <<>>
    <3>1. kont' = Append(kont, x) /\ inStack' = inStack /\ control'.k # "idle"
      BY <1>6, <2>3 DEF Call, Push, Eval
    <3>2. x.f # "body"
      OBVIOUS
    <3> HIDE DEF x
    <3> QED BY <3>1, <3>2, PlainGuard
  <2> QED BY <2>1, <2>2, <2>3
<1> DEFINE below == Shorter(kont)
<1>7. ASSUME kont # <<>>
      PROVE  /\ IsStack(below)
             /\ Top.f # "body" => Guarded(below, inStack)
             /\ Top.f = "body" => Guarded(below, inStack \ {Top.def})
  BY <1>7, PopGuarded DEF IInv, Top
<1>8. CASE ReturnOperand
  <2> DEFINE x == [f |-> "right", op |-> Top.op, left |-> control.n]
  <2>1. kont # <<>> /\ Top.f = "left"
    BY <1>8 DEF ReturnOperand, Returning
  <2>2. kont' = Append(below, x) /\ inStack' = inStack /\ control'.k # "idle"
    BY <1>8 DEF ReturnOperand, Eval, Shorter
  <2>3. IsStack(below) /\ Guarded(below, inStack)
    BY <1>7, <2>1
  <2>4. x.f # "body"
    OBVIOUS
  <2> HIDE DEF below, x
  <2> QED BY <2>2, <2>3, <2>4, PushPlain DEF IInv
<1>9. CASE ReturnResult
  <2>1. kont # <<>> /\ Top.f # "body"
    BY <1>9 DEF ReturnResult, Returning
  <2>2. kont' = below /\ inStack' = inStack
    BY <1>9 DEF ReturnResult, Pop, Shorter
  <2>3. control'.k # "idle"
    <3>1. \A op, x, y : Arith(op, x, y).k # "idle"
      BY Busy DEF Arith
    <3> QED BY <1>9, <3>1, Busy DEF ReturnResult
  <2> QED BY <1>7, <2>1, <2>2, <2>3 DEF IInv
<1>10. CASE ReturnArgument
  <2> DEFINE values == Append(Top.values, control.n)
             x == [Top EXCEPT !.values = values]
  <2>1. kont # <<>> /\ Top.f = "args"
    BY <1>10 DEF ReturnArgument, Returning
  <2>2. IsStack(below) /\ Guarded(below, inStack)
    BY <1>7, <2>1
  <2>3. CASE Len(values) = Len(Top.args)
    <3>1. EnterMacro(Top.def, values, below)
      BY <1>10, <2>3 DEF ReturnArgument, Shorter
    <3> HIDE DEF below, values
    <3> QED BY <2>2, <3>1, EnterGuard
  <2>4. CASE Len(values) # Len(Top.args)
    <3>1. kont' = Append(below, x) /\ inStack' = inStack /\ control'.k # "idle"
      BY <1>10, <2>4 DEF ReturnArgument, Eval, Shorter
    <3>2. x.f # "body"
      BY <2>1
    <3> HIDE DEF below, x
    <3> QED BY <2>2, <3>1, <3>2, PushPlain DEF IInv
  <2> QED BY <2>3, <2>4
<1>11. CASE ReturnBody
  <2>1. kont # <<>> /\ Top.f = "body" /\ control.k = "value"
    BY <1>11 DEF ReturnBody, Returning
  <2>2. kont' = below /\ inStack' = inStack \ {Top.def} /\ control' = control
    BY <1>11 DEF ReturnBody, Pop, Shorter
  <2> QED BY <1>7, <2>1, <2>2 DEF IInv
<1>12. CASE Unwind
  <2>1. kont # <<>> /\ control.k = "error"
    BY <1>12 DEF Unwind
  <2>2. /\ kont' = below /\ control' = control
        /\ inStack' = IF Top.f = "body" THEN inStack \ {Top.def} ELSE inStack
    BY <1>12 DEF Unwind, Pop, Shorter
  <2> QED BY <1>7, <2>1, <2>2 DEF IInv
<1> QED BY <1>1, <1>2, <1>3, <1>4, <1>5, <1>6, <1>8, <1>9, <1>10, <1>11, <1>12 DEF Evaluation

\* The compiler starts an evaluation when none is going on, and takes its result when
\* no frame is left.
LEMMA CompilationGuard == ASSUME IInv, Compilation PROVE IInv'
<1>1. CASE Start
  <2>1. control.k = "idle" /\ kont = <<>>
    BY <1>1 DEF Start, IInv, Idle
  <2> QED BY <1>1, <2>1 DEF Start, EvaluatorOnly, IInv
<1>2. CASE PreEvaluated
  BY <1>2 DEF PreEvaluated, Returned, EvaluatorOnly, IInv
<1>3. CASE RegisterLabels
  BY <1>3 DEF RegisterLabels, EvaluatorOnly, IInv
<1>4. CASE Evaluated
  BY <1>4 DEF Evaluated, Returned, EvaluatorOnly, IInv
<1>5. CASE Converged
  BY <1>5 DEF Converged, EvaluatorOnly, IInv
<1> QED BY <1>1, <1>2, <1>3, <1>4, <1>5 DEF Compilation

\* The macros in inStack are those of the bodies under evaluation, each once, and none
\* is left when an evaluation has returned: no expression macro is ever evaluated inside
\* itself, and no failed evaluation makes a later call look recursive.
THEOREM GuardTheorem == Spec => []GuardIsCallStack
<1>1. ASSUME IInv, [Next]_vars PROVE IInv'
  <2>1. CASE Evaluation
    BY <1>1, <2>1, EvaluationGuard
  <2>2. CASE Compilation
    BY <1>1, <2>2, CompilationGuard
  <2>3. CASE UNCHANGED vars
    BY <1>1, <2>3 DEF vars, IInv
  <2> QED BY <1>1, <2>1, <2>2, <2>3 DEF Next, Done
<1>2. IInv => GuardIsCallStack
  <2> SUFFICES ASSUME IInv PROVE GuardIsCallStack
    OBVIOUS
  <2>1. Bodies = BodiesOf(kont)
    BY DEF Bodies, BodiesOf
  <2>2. kont = <<>> => Bodies = {}
    BY DEF Bodies
  <2>3. kont = <<>> => inStack = {}
    BY <2>1, <2>2 DEF IInv, Guarded
  <2> QED BY <2>1, <2>3 DEF GuardIsCallStack, IInv, Guarded
<1> QED BY InitGuard, <1>1, <1>2, PTL DEF Spec
=============================================================================
