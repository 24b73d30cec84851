----------------------------- MODULE LayoutProofs -----------------------------
(****************************************************************************)
(* Proofs about Layout, for every set of programs, every PUSH width and     *)
(* every table of size limits.                                              *)
(****************************************************************************)
EXTENDS Layout, Basics, FiniteSetTheorems, TLAPS

-----------------------------------------------------------------------------
(* Facts about instructions and values *)

\* A number takes between no bytes and one more than the largest PUSH holds
\* (compiler_eval.go:111-144 sizes arguments by it).
LEMMA ByteLenType ==
  ASSUME NEW v \in Int
  PROVE  ByteLen(v) \in 0..(MaxPush + 1)
<1> DEFINE S == {n \in 0..MaxPush : Limit[n] <= v}
<1>1. IsFiniteSet(0..MaxPush) /\ Cardinality(0..MaxPush) = MaxPush + 1
  BY FS_Interval, MaxPushAssumption
<1>2. S \in SUBSET (0..MaxPush)
  OBVIOUS
<1>3. IsFiniteSet(S) /\ Cardinality(S) <= MaxPush + 1
  BY <1>1, <1>2, FS_Subset
<1>4. Cardinality(S) \in Nat
  BY <1>3, FS_CardinalityType
<1> QED
  BY <1>3, <1>4, MaxPushAssumption DEF ByteLen

\* A larger number never takes fewer bytes.
LEMMA ByteLenMonotone ==
  ASSUME NEW v \in Int, NEW w \in Int, v <= w
  PROVE  ByteLen(v) <= ByteLen(w)
<1> DEFINE S(u) == {n \in 0..MaxPush : Limit[n] <= u}
<1>1. IsFiniteSet(0..MaxPush)
  BY FS_Interval, MaxPushAssumption
<1>2. IsFiniteSet(S(w))
  <2>1. S(w) \in SUBSET (0..MaxPush)
    OBVIOUS
  <2> QED BY <1>1, <2>1, FS_Subset
<1>3. S(v) \in SUBSET S(w)
  <2> SUFFICES ASSUME NEW n \in 0..MaxPush, Limit[n] <= v
               PROVE  Limit[n] <= w
    OBVIOUS
  <2>1. Limit[n] \in Nat
    BY LimitAssumption
  <2> QED BY <2>1
<1>4. Cardinality(S(v)) <= Cardinality(S(w))
  BY <1>2, <1>3, FS_Subset
<1> QED BY <1>4 DEF ByteLen

\* What ProgramsAssumption says of the instructions of one program.
LEMMA ProgramType ==
  ASSUME NEW c \in Programs
  PROVE  /\ Len(c) \in Nat
         /\ \A i \in 1..Len(c) :
              /\ c[i].kind \in {"op", "empty", "bytes", "push"}
              /\ c[i].kind = "op" => c[i].imm \in 0..1
              /\ c[i].kind = "empty" => c[i].assert \in Nat \cup {NoAssert}
              /\ c[i].kind = "bytes" => c[i].len \in Nat /\ c[i].expr \in Exprs(Len(c))
              /\ c[i].kind = "push" => /\ c[i].explicit \in (1..MaxPush) \cup {Unsized}
                                       /\ c[i].expr \in Exprs(Len(c))
<1>1. c \in Seq(Instrs(Len(c)))
  BY ProgramsAssumption
<1>2. Len(c) \in Nat /\ \A i \in 1..Len(c) : c[i] \in Instrs(Len(c))
  BY <1>1
<1>3. SUFFICES ASSUME NEW i \in 1..Len(c)
               PROVE  /\ c[i].kind \in {"op", "empty", "bytes", "push"}
                      /\ c[i].kind = "op" => c[i].imm \in 0..1
                      /\ c[i].kind = "empty" => c[i].assert \in Nat \cup {NoAssert}
                      /\ c[i].kind = "bytes" => c[i].len \in Nat /\ c[i].expr \in Exprs(Len(c))
                      /\ c[i].kind = "push" => /\ c[i].explicit \in (1..MaxPush) \cup {Unsized}
                                               /\ c[i].expr \in Exprs(Len(c))
  BY <1>2
<1>4. c[i] \in Instrs(Len(c))
  BY <1>2, <1>3
<1>5. CASE c[i] \in [kind : {"op"}, imm : 0..1]
  BY <1>5
<1>6. CASE c[i] \in [kind : {"empty"}, assert : Nat \cup {NoAssert}]
  BY <1>6
<1>7. CASE c[i] \in [kind : {"bytes"}, len : Nat, expr : Exprs(Len(c))]
  BY <1>7
<1>8. CASE c[i] \in [kind : {"push"}, explicit : (1..MaxPush) \cup {Unsized},
                     expr : Exprs(Len(c))]
  BY <1>8
<1> QED
  BY <1>4, <1>5, <1>6, <1>7, <1>8 DEF Instrs

\* Evaluating a well-formed expression at given offsets fails or yields an
\* integer (evaluator.go:127-160 and 233-303).
LEMMA ValueType ==
  ASSUME NEW n \in Nat, NEW e \in Exprs(n), NEW o \in [1..n -> Nat]
  PROVE  /\ Divisor(e, o) \in Int
         /\ ~EvalFails(e, o) => Value(e, o) \in Int
<1>1. LabelPC(o, e.plus) \in Nat /\ LabelPC(o, e.minus) \in Nat
  BY DEF Exprs, LabelPC
<1>2. Divisor(e, o) \in Int
  BY <1>1 DEF Divisor
<1>3. ASSUME ~EvalFails(e, o) PROVE Value(e, o) \in Int
  <2>1. e.k \in Int /\ e.op \in {"lin", "div", "bad"}
    BY DEF Exprs
  <2>2. CASE e.op = "lin"
    BY <1>2, <2>1, <2>2 DEF Value
  <2>3. CASE e.op = "div"
    <3>1. Divisor(e, o) # 0
      BY <1>3, <2>3 DEF EvalFails
    <3>2. ASSUME NEW a \in Int, NEW b \in Int, b # 0
          PROVE  EuclidDiv(a, b) \in Int
      <4>1. CASE b > 0 BY <3>2, <4>1 DEF EuclidDiv
      <4>2. CASE b < 0 
        <5>1. -b \in Int /\ -b > 0 BY <4>2
        <5>2. a \div (-b) \in Int BY <5>1
        <5> QED BY <4>2, <5>2 DEF EuclidDiv
      <4> QED BY <3>2, <4>1, <4>2
    <3> QED BY <1>2, <2>1, <2>3, <3>1, <3>2 DEF Value
  <2> QED BY <1>3, <2>1, <2>2, <2>3 DEF EvalFails
<1> QED BY <1>2, <1>3

\* The bytes an instruction is counted with are a natural number, as the sum
\* of computePC needs (compiler_prog.go:192-207, 252-258).
LEMMA EncodedSizeType ==
  ASSUME NEW c \in Programs, NEW sz \in [1..Len(c) -> Nat], NEW i \in 1..Len(c)
  PROVE  EncodedSize(c, sz, i) \in Nat
BY DEF EncodedSize

\* autoPushSize picks a size that holds the value, and one that has a PUSH
\* opcode if any has (compiler_eval.go:136-144).
LEMMA AutoSizeType ==
  ASSUME NEW v \in Int, NEW p0 \in BOOLEAN
  PROVE  AutoSize(v, p0) \in Nat /\ (ByteLen(v) <= MaxPush => AutoSize(v, p0) \in 0..MaxPush)
         /\ ByteLen(v) <= AutoSize(v, p0)
BY ByteLenType, MaxPushAssumption DEF AutoSize

-----------------------------------------------------------------------------
(* Type correctness *)

\* assignPushArg accepts the argument or reports one of four errors.
LEMMA PushArgErrorType ==
  ASSUME NEW i, NEW v, NEW sz
  PROVE  PushArgError(i, v, sz) \in
           {"negative", "overflow256", "variable", "fixed", "none"}
BY DEF PushArgError

\* Every reachable state of Layout is well typed, for every program, PUSH width
\* and limit table: TypeOK needs no strengthening.
THEOREM LayoutTypeOK == Spec => []TypeOK
<1>1. Init => TypeOK
  <2> SUFFICES ASSUME Init PROVE TypeOK
    OBVIOUS
  <2>1. N \in Nat
    BY ProgramType DEF Init, N
  <2>2. size \in [Idx -> Nat]
    BY ProgramType DEF Init, N, Idx
  <2> QED
    BY <2>1, <2>2 DEF Init, TypeOK, Idx, NoData
<1>2. TypeOK /\ [Next]_vars => TypeOK'
  <2> SUFFICES ASSUME TypeOK, [Next]_vars PROVE TypeOK'
    OBVIOUS
  <2>0. /\ N \in Nat
        /\ cur \in Nat
        /\ code \in Programs
    BY ProgramType DEF TypeOK, N
  <2>1. CASE UNCHANGED vars
    BY <2>1 DEF TypeOK, vars, N, Idx
  <2>2. CASE PreOther
    BY <2>0, <2>2 DEF TypeOK, PreOther, At, Advance, N, Idx
  <2>3. CASE PreBytes
    <3>1. cur \in Idx /\ code[cur].len \in Nat
      BY <2>0, <2>3, ProgramType DEF PreBytes, At, IsBytes, N, Idx, TypeOK
    <3>2. /\ size' \in [Idx -> Nat]
          /\ errors' \subseteq (Idx \X {"labelInBytes", "eval", "negative", "overflow256",
                                         "variable", "fixed", "pcLabel"})
      BY <3>1, <2>3 DEF PreBytes, Report, TypeOK
    <3> QED
      BY <2>0, <2>3, <3>1, <3>2 DEF TypeOK, PreBytes, At, Advance, N, Idx
  <2>4. CASE PrePushLater
    <3>1. cur \in Idx /\ InitialSize(cur) \in Nat
      BY <2>0, <2>4, ProgramType DEF PrePushLater, At, IsPush, N, Idx, TypeOK, InitialSize, Unsized
    <3> QED
      BY <2>0, <2>4, <3>1 DEF TypeOK, PrePushLater, At, Advance, N, Idx
  <2>5. CASE PrePushFails
    <3>1. cur \in Idx /\ InitialSize(cur) \in Nat
      BY <2>0, <2>5, ProgramType DEF PrePushFails, At, IsPush, N, Idx, TypeOK, InitialSize, Unsized
    <3> QED
      BY <2>0, <2>5, <3>1 DEF TypeOK, PrePushFails, Report, At, Advance, N, Idx
  <2>6. CASE PrePushAssign
    <3>1. cur \in Idx /\ InitialSize(cur) \in Nat
      BY <2>0, <2>6, ProgramType DEF PrePushAssign, At, IsPush, N, Idx, TypeOK, InitialSize, Unsized
    <3>2. Value(code[cur].expr, pc) \in Int
      BY <2>0, <2>6, <3>1, ValueType, ProgramType DEF PrePushAssign, IsPush, N, Idx, TypeOK
    <3> DEFINE v   == Value(code[cur].expr, pc)
               fit == v >= 0 /\ ByteLen(v) <= MaxPush
               sz  == IF fit /\ code[cur].explicit = Unsized THEN AutoSize(v, push0)
                                                             ELSE InitialSize(cur)
               err == PushArgError(cur, v, sz)
    <3>3. sz \in Nat
      BY <3>1, <3>2, AutoSizeType DEF TypeOK
    <3>4. err = "none" => v \in Nat
      BY <3>2 DEF PushArgError
    <3>5. /\ size' = [size EXCEPT ![cur] = sz]
          /\ IF err = "none"
               THEN data' = [data EXCEPT ![cur] = v] /\ UNCHANGED errors
               ELSE Report(err) /\ UNCHANGED data
      BY <2>6 DEF PrePushAssign
    <3> HIDE DEF v, sz, err
    <3>6. data' \in [Idx -> Nat \cup {NoData}]
      BY <3>1, <3>4, <3>5 DEF TypeOK
    <3>7. errors' \subseteq (Idx \X {"labelInBytes", "eval", "negative", "overflow256",
                                     "variable", "fixed", "pcLabel"})
      <4>1. err # "none" => err \in {"negative", "overflow256", "variable", "fixed"}
        BY PushArgErrorType DEF err
      <4> QED
        BY <3>1, <3>5, <4>1 DEF TypeOK, Report
    <3>8. size' \in [Idx -> Nat]
      BY <3>1, <3>3, <3>5 DEF TypeOK
    <3> QED
      BY <2>0, <2>6, <3>1, <3>6, <3>7, <3>8 DEF TypeOK, PrePushAssign, At, Advance, N, Idx
  <2>7. CASE PreDone
    BY <2>0, <2>7 DEF TypeOK, PreDone, Goto, N, Idx
  <2>8. CASE AssignPC
    <3>1. cur \in Idx
      BY <2>0, <2>8 DEF AssignPC, At, Idx, TypeOK
    <3>2. EncodedSize(code, size, cur) \in Nat
      BY <3>1, <2>0, EncodedSizeType DEF TypeOK, Idx, N
    <3> QED
      BY <2>0, <2>8, <3>1, <3>2 DEF TypeOK, AssignPC, At, Advance, N, Idx
  <2>9. CASE PCDone
    BY <2>0, <2>9 DEF TypeOK, PCDone, Goto, N, Idx
  <2>10. CASE EvalSkip
    BY <2>0, <2>10 DEF TypeOK, EvalSkip, At, Advance, N, Idx
  <2>11. CASE EvalStore
    <3>1. cur \in Idx /\ ~EvalFails(code[cur].expr, pc)
      BY <2>0, <2>11 DEF EvalStore, At, Idx, TypeOK, ArgError
    <3>2. Value(code[cur].expr, pc) \in Int
      BY <2>0, <2>11, <3>1, ValueType, ProgramType DEF EvalStore, NeedsEval, IsPush, N, Idx, TypeOK
    <3>3. Value(code[cur].expr, pc) \in Nat
      BY <2>11, <3>1, <3>2 DEF EvalStore, ArgError, PushArgError
    <3> QED
      BY <2>0, <2>11, <3>1, <3>3 DEF TypeOK, EvalStore, At, Advance, N, Idx
  <2>12. CASE EvalBump
    <3>1. cur \in Idx
      BY <2>0, <2>12 DEF EvalBump, At, Idx, TypeOK
    <3> QED
      BY <2>0, <2>12, <3>1 DEF TypeOK, EvalBump, Goto, N, Idx
  <2>13. CASE EvalFail
    <3>1. cur \in Idx
      BY <2>0, <2>13 DEF EvalFail, At, Idx, TypeOK
    <3>2. ArgError(cur) \in {"eval", "negative", "overflow256", "fixed"}
      BY <2>13, PushArgErrorType DEF EvalFail, ArgError
    <3>3. errors' \subseteq (Idx \X {"labelInBytes", "eval", "negative", "overflow256",
                                     "variable", "fixed", "pcLabel"})
      BY <2>13, <3>1, <3>2 DEF EvalFail, Report, TypeOK
    <3> QED
      BY <2>0, <2>13, <3>3 DEF TypeOK, EvalFail, Goto, N, Idx
  <2>14. CASE EvalDone
    BY <2>0, <2>14 DEF TypeOK, EvalDone, Goto, N, Idx
  <2>15. CASE CheckPCLabel
    <3>1. cur \in Idx
      BY <2>0, <2>15 DEF CheckPCLabel, At, Idx, TypeOK
    <3>2. errors' \subseteq (Idx \X {"labelInBytes", "eval", "negative", "overflow256",
                                     "variable", "fixed", "pcLabel"})
      BY <2>15, <3>1 DEF CheckPCLabel, Report, TypeOK
    <3> QED
      BY <2>0, <2>15, <3>1, <3>2 DEF TypeOK, CheckPCLabel, At, Advance, N, Idx
  <2>16. CASE CheckDone
    BY <2>0, <2>16 DEF TypeOK, CheckDone, Goto, N, Idx
  <2>17. CASE EmitPush
    <3>1. cur \in Idx /\ data[cur] \in Int
      BY <2>0, <2>17 DEF EmitPush, At, Idx, TypeOK, NoData
    <3>2. Padding(cur) \in Nat /\ DataLen(cur) \in Nat
      BY <3>1, ByteLenType, MaxPushAssumption DEF Padding, DataLen, TypeOK
    <3>3. outLen' = outLen + 1 + Padding(cur) + DataLen(cur) /\ outLen \in Nat
      BY <2>17 DEF EmitPush, TypeOK
    <3>4. outLen' \in Nat
      BY <3>2, <3>3
    <3>5. /\ UNCHANGED <<code, push0, phase, pc, size, data, argDone, acc, errors>>
          /\ cur' \in 1..(N + 1)
      BY <2>0, <2>17 DEF EmitPush, At, Advance
    <3> QED
      BY <3>4, <3>5 DEF TypeOK, N, Idx
  <2>18. CASE EmitOther
    BY <2>0, <2>18 DEF TypeOK, EmitOther, At, Advance, N, Idx
  <2>19. CASE GenDone
    BY <2>0, <2>19 DEF TypeOK, GenDone, Goto, N, Idx
  <2>20. CASE Done
    BY <2>20 DEF Done, TypeOK, vars, N, Idx
  <2> QED
    BY <2>1, <2>2, <2>3, <2>4, <2>5, <2>6, <2>7, <2>8, <2>9, <2>10, <2>11, <2>12,
       <2>13, <2>14, <2>15, <2>16, <2>17, <2>18, <2>19, <2>20
    DEF Next, Pre, Loop, Gen
<1> QED
  BY <1>1, <1>2, PTL DEF Spec

-----------------------------------------------------------------------------
(* What preEvaluateArgs establishes, and the loop keeps *)

\* Instruction i as preEvaluateArgs leaves it.
Handled(i) ==
  /\ code[i].kind = "op"    => size[i] = code[i].imm
  /\ code[i].kind = "empty" => size[i] = 0
  /\ code[i].kind = "bytes" =>
       /\ argDone[i]
       /\ errors = {} => size[i] = code[i].len /\ BytesValid(code, i)
  /\ code[i].kind = "push" /\ UsesLabels(code[i].expr) =>
       /\ ~argDone[i]
       /\ code[i].explicit # Unsized => size[i] = code[i].explicit
       /\ code[i].explicit = Unsized => size[i] \in 1..MaxPush
  /\ code[i].kind = "push" /\ ~UsesLabels(code[i].expr) =>
       /\ argDone[i]
       /\ errors = {} =>
            /\ code[i].expr.op = "lin" /\ code[i].expr.k >= 0
            /\ data[i] = code[i].expr.k
            /\ ByteLen(code[i].expr.k) <= size[i]
            /\ size[i] <= MaxPush
            /\ size[i] = IF code[i].explicit = Unsized THEN AutoSize(code[i].expr.k, push0)
                                                       ELSE code[i].explicit

\* Instruction i before preEvaluateArgs gets there.
Untouched(i) ==
  /\ ~argDone[i]
  /\ data[i] = NoData
  /\ size[i] = IF code[i].kind = "op" THEN code[i].imm ELSE 0

HandledInv ==
  /\ \A i \in Idx : (phase = "pre" => i < cur) => Handled(i)
  /\ phase = "pre" => \A i \in Idx : i >= cur => Untouched(i)

\* A label-free argument is its constant.
LEMMA ConstantValue ==
  ASSUME NEW n \in Nat, NEW e \in Exprs(n), NEW o \in [1..n -> Nat], ~UsesLabels(e)
  PROVE  /\ Divisor(e, o) = 0
         /\ ~EvalFails(e, o) => e.op = "lin"
         /\ e.op = "lin" => ~EvalFails(e, o) /\ Value(e, o) = e.k
<1>1. e.plus = 0 /\ e.minus = 0 /\ e.k \in Int /\ e.op \in {"lin", "div", "bad"}
  BY DEF Exprs, UsesLabels
<1>2. Divisor(e, o) = 0
  BY <1>1 DEF Divisor, LabelPC
<1> QED
  BY <1>1, <1>2 DEF EvalFails, Value

\* A step that leaves instruction i alone leaves it handled.
LEMMA HandledStable ==
  ASSUME NEW i, Handled(i), UNCHANGED <<code, push0>>,
         size'[i] = size[i], argDone'[i] = argDone[i], 
         data'[i] = data[i] \/ (UsesLabels(code[i].expr) /\ code[i].kind = "push"),
         errors' = {} => errors = {}
  PROVE  Handled(i)'
BY DEF Handled, BytesValid

\* A step that leaves instruction i alone leaves it unprocessed.
LEMMA UntouchedStable ==
  ASSUME NEW i, Untouched(i), UNCHANGED <<code, push0>>,
         size'[i] = size[i], argDone'[i] = argDone[i], data'[i] = data[i]
  PROVE  Untouched(i)'
BY DEF Untouched

\* Every step keeps each instruction handled or not yet reached by the
\* preparatory pass, whatever round of the loop it is in.
LEMMA HandledStep == TypeOK /\ HandledInv /\ [Next]_vars => HandledInv'
<1> SUFFICES ASSUME TypeOK, HandledInv, [Next]_vars PROVE HandledInv'
  OBVIOUS
<1>0. /\ N \in Nat /\ cur \in Nat /\ code \in Programs /\ push0 \in BOOLEAN
      /\ cur \in 1..(N + 1)
  BY ProgramType DEF TypeOK, N
<1> DEFINE Rest == /\ \A i \in Idx : i # cur => size'[i] = size[i] /\ argDone'[i] = argDone[i]
                                                /\ data'[i] = data[i]
                   /\ errors \subseteq errors'
                   /\ UNCHANGED <<code, push0, phase>>
                   /\ phase = "pre" /\ cur \in Idx /\ cur' = cur + 1
\* In the pre-evaluation loop, only the current instruction needs a look.
<1>1. ASSUME Rest, \A j \in Idx : j = cur => Handled(j)' PROVE HandledInv'
  <2>1. \A i \in Idx : i < cur => Handled(i)'
    <3> SUFFICES ASSUME NEW i \in Idx, i < cur PROVE Handled(i)'
      OBVIOUS
    <3>1. Handled(i) /\ i # cur
      BY <1>0 DEF HandledInv, Idx
    <3> QED BY <1>1, <3>1, HandledStable
  <2>2. \A i \in Idx : i > cur => Untouched(i)'
    <3> SUFFICES ASSUME NEW i \in Idx, i > cur PROVE Untouched(i)'
      OBVIOUS
    <3>1. Untouched(i) /\ i # cur
      BY <1>0, <1>1 DEF HandledInv, Idx
    <3> QED BY <1>1, <3>1, UntouchedStable
  <2>3. Idx' = Idx /\ Idx \subseteq Int /\ cur \in Int /\ cur' = cur + 1
    BY <1>0, <1>1 DEF Idx, N
  <2>4. ASSUME NEW i \in Idx, i < cur' PROVE Handled(i)'
    <3>1. i < cur \/ i = cur
      BY <2>3, <2>4
    <3> QED BY <1>1, <2>1, <3>1
  <2>5. ASSUME NEW i \in Idx, i >= cur' PROVE Untouched(i)'
    <3>1. i > cur
      BY <2>3, <2>5
    <3> QED BY <2>2, <3>1
  <2>6. phase' = "pre"
    BY <1>1
  <2> QED
    BY <2>3, <2>4, <2>5, <2>6 DEF HandledInv
\* After it, a step that keeps sizes and flags keeps the invariant.
<1>2. ASSUME phase # "pre", phase' # "pre", UNCHANGED <<code, push0, size, argDone, data>>,
             errors \subseteq errors'
      PROVE  HandledInv'
  <2>1. \A i \in Idx : Handled(i)'
    BY <1>2, HandledStable DEF HandledInv
  <2>2. Idx' = Idx
    BY <1>2 DEF Idx, N
  <2> QED BY <1>2, <2>1, <2>2 DEF HandledInv
<1>3. CASE UNCHANGED vars
  BY <1>3 DEF HandledInv, Handled, Untouched, BytesValid, vars, Idx, N
<1>4. CASE PreOther
  <2>1. cur \in Idx /\ Untouched(cur) /\ code[cur].kind \in {"op", "empty"}
    BY <1>0, <1>4 DEF PreOther, At, HandledInv, Idx
  <2>2. \A j \in Idx : j = cur => Handled(j)'
    BY <1>4, <2>1 DEF PreOther, Advance, Handled, Untouched
  <2>3. Rest
    BY <1>4, <2>1 DEF PreOther, At, Advance
  <2> QED BY <1>1, <2>2, <2>3
<1>5. CASE PreBytes
  <2>1. cur \in Idx /\ code[cur].kind = "bytes"
    BY <1>0, <1>5 DEF PreBytes, At, Idx, IsBytes
  <2>2. code[cur].expr \in Exprs(N) /\ pc \in [1..N -> Nat] /\ size \in [Idx -> Nat]
    BY <1>0, <2>1, ProgramType DEF N, Idx, TypeOK
  <2>3. argDone'[cur]
    BY <1>5, <2>1 DEF PreBytes, TypeOK
  <2>4. ASSUME NEW j \in Idx, j = cur PROVE Handled(j)'
    <3>1. CASE UsesLabels(code[cur].expr)
      <4>1. errors' # {}
        BY <1>5, <3>1 DEF PreBytes, Report
      <4> QED BY <1>5, <2>1, <2>3, <2>4, <4>1 DEF PreBytes, Advance, Handled
    <3>2. CASE EvalFails(code[cur].expr, pc) /\ ~UsesLabels(code[cur].expr)
      <4>1. errors' # {}
        BY <1>5, <3>2 DEF PreBytes, Report
      <4> QED BY <1>5, <2>1, <2>3, <2>4, <4>1 DEF PreBytes, Advance, Handled
    <3>3. CASE ~EvalFails(code[cur].expr, pc) /\ ~UsesLabels(code[cur].expr)
      <4>1. code[cur].expr.op = "lin"
        BY <1>0, <2>2, <3>3, ConstantValue
      <4>2. size'[cur] = code[cur].len
        BY <1>5, <2>1, <2>2, <3>3 DEF PreBytes
      <4> QED BY <1>5, <2>1, <2>3, <2>4, <3>3, <4>1, <4>2 DEF PreBytes, Advance, Handled, BytesValid
    <3> QED BY <3>1, <3>2, <3>3
  <2>5. Rest
    BY <1>5, <2>1 DEF PreBytes, At, Advance, Report, TypeOK
  <2> QED BY <1>1, <2>4, <2>5
<1>6. CASE PrePushLater
  <2>1. cur \in Idx /\ code[cur].kind = "push" /\ Untouched(cur) /\ UsesLabels(code[cur].expr)
    BY <1>0, <1>6 DEF PrePushLater, At, Idx, IsPush, HandledInv
  <2>2. size'[cur] = InitialSize(cur)
    BY <1>6, <2>1 DEF PrePushLater, TypeOK
  <2>3. \A j \in Idx : j = cur => Handled(j)'
    BY <1>6, <2>1, <2>2, MaxPushAssumption
    DEF PrePushLater, Advance, Handled, Untouched, InitialSize
  <2>4. Rest
    BY <1>6, <2>1 DEF PrePushLater, At, Advance, TypeOK
  <2> QED BY <1>1, <2>3, <2>4
<1>7. CASE PrePushFails
  <2>1. cur \in Idx /\ code[cur].kind = "push" /\ ~UsesLabels(code[cur].expr)
    BY <1>0, <1>7 DEF PrePushFails, At, Idx, IsPush
  <2>2. errors' # {} /\ argDone'[cur]
    BY <1>7, <2>1 DEF PrePushFails, Report, TypeOK
  <2>3. \A j \in Idx : j = cur => Handled(j)'
    BY <1>7, <2>1, <2>2 DEF PrePushFails, Advance, Handled
  <2>4. Rest
    BY <1>7, <2>1 DEF PrePushFails, At, Advance, Report, TypeOK
  <2> QED BY <1>1, <2>3, <2>4
<1>8. CASE PrePushAssign
  <2>1. cur \in Idx /\ code[cur].kind = "push" /\ ~UsesLabels(code[cur].expr)
        /\ ~EvalFails(code[cur].expr, pc)
    BY <1>0, <1>8 DEF PrePushAssign, At, Idx, IsPush
  <2>2. /\ code[cur].expr \in Exprs(N) /\ pc \in [1..N -> Nat]
        /\ code[cur].explicit \in (1..MaxPush) \cup {Unsized}
    BY <1>0, <2>1, ProgramType DEF N, Idx, TypeOK
  <2> DEFINE k   == code[cur].expr.k
             fit == k >= 0 /\ ByteLen(k) <= MaxPush
             sz  == IF fit /\ code[cur].explicit = Unsized THEN AutoSize(k, push0)
                                                           ELSE InitialSize(cur)
             err == PushArgError(cur, k, sz)
  <2>3. code[cur].expr.op = "lin" /\ Value(code[cur].expr, pc) = k /\ k \in Int
    BY <1>0, <2>1, <2>2, ConstantValue DEF Exprs
  <2>4. /\ argDone' = [argDone EXCEPT ![cur] = TRUE]
        /\ size' = [size EXCEPT ![cur] = sz]
        /\ IF err = "none"
             THEN data' = [data EXCEPT ![cur] = k] /\ UNCHANGED errors
             ELSE Report(err) /\ UNCHANGED data
    BY <1>8, <2>3 DEF PrePushAssign
  <2>5. argDone'[cur] /\ size'[cur] = sz
    BY <2>1, <2>4 DEF TypeOK
  <2>6. Rest
    <3>1. cur' = cur + 1 /\ phase = "pre" /\ UNCHANGED <<code, push0, phase>>
      BY <1>8 DEF PrePushAssign, At, Advance
    <3> HIDE DEF sz, err
    <3> QED BY <2>1, <2>4, <3>1 DEF TypeOK, Report
  <2>7. CASE err # "none"
    <3>1. errors' # {}
      BY <2>4, <2>7 DEF Report
    <3>2. \A j \in Idx : j = cur => Handled(j)'
      <4> HIDE DEF sz, err
      <4> QED BY <2>1, <2>5, <2>6, <3>1 DEF Handled
    <3> QED
      BY <1>1, <2>6, <3>2
  <2>8. CASE err = "none"
    <3>1. data'[cur] = k
      BY <2>1, <2>4, <2>8 DEF TypeOK
    <3>2. k >= 0 /\ ByteLen(k) <= MaxPush /\ ByteLen(k) \in Nat
      BY <2>3, <2>8, ByteLenType, MaxPushAssumption DEF PushArgError
    <3>3. sz \in Nat /\ sz <= MaxPush
      BY <1>0, <2>2, <2>3, <3>2, AutoSizeType, MaxPushAssumption DEF InitialSize, Unsized
    <3>4. sz = IF code[cur].explicit = Unsized THEN AutoSize(k, push0) ELSE code[cur].explicit
      BY <3>2 DEF InitialSize
    <3>5. ByteLen(k) <= sz
      <4> HIDE DEF sz
      <4> QED BY <2>3, <2>8, <3>2, <3>3 DEF PushArgError
    <3>6. \A j \in Idx : j = cur => Handled(j)'
      <4> HIDE DEF sz, err
      <4> QED BY <2>1, <2>3, <2>5, <2>6, <3>1, <3>2, <3>3, <3>4, <3>5 DEF Handled
    <3> QED BY <1>1, <2>6, <3>6
  <2> QED BY <2>7, <2>8
<1>9. CASE PreDone
  <2>1. \A i \in Idx : Handled(i)
    BY <1>0, <1>9 DEF PreDone, AtEnd, HandledInv, Idx
  <2>2. \A i \in Idx : Handled(i)'
    BY <1>9, <2>1, HandledStable DEF PreDone, Goto
  <2> QED
    BY <1>9, <2>2 DEF HandledInv, PreDone, Goto, Idx, N
<1>10. CASE EvalStore
  <2>1. cur \in Idx /\ IsPush(cur) /\ ~argDone[cur] /\ phase = "eval"
    BY <1>0, <1>10 DEF EvalStore, At, Idx, NeedsEval
  <2>2. UsesLabels(code[cur].expr)
    BY <2>1 DEF HandledInv, Handled, IsPush
  <2>3. \A i \in Idx : Handled(i)'
    <3> SUFFICES ASSUME NEW i \in Idx PROVE Handled(i)'
      OBVIOUS
    <3>1. Handled(i) /\ (data'[i] = data[i] \/ i = cur)
      BY <1>10, <2>1 DEF HandledInv, EvalStore, TypeOK
    <3> QED BY <1>10, <2>1, <2>2, <3>1, HandledStable DEF EvalStore, Advance, IsPush
  <2> QED
    BY <1>10, <2>1, <2>3 DEF HandledInv, EvalStore, Advance, Idx, N
<1>11. CASE EvalBump
  <2>1. cur \in Idx /\ IsPush(cur) /\ ~argDone[cur] /\ phase = "eval" /\ phase' = "pc"
    BY <1>0, <1>11 DEF EvalBump, At, Idx, NeedsEval, Goto
  <2>2. Handled(cur) /\ UsesLabels(code[cur].expr)
    BY <2>1 DEF HandledInv, Handled, IsPush
  <2>3. code[cur].expr \in Exprs(N) /\ pc \in [1..N -> Nat] /\ size[cur] \in Nat
    BY <1>0, <2>1, ProgramType DEF N, Idx, TypeOK, IsPush
  <2> DEFINE v == Value(code[cur].expr, pc)
  <2>4. ~EvalFails(code[cur].expr, pc) /\ PushArgError(cur, v, size[cur]) = "variable"
    BY <1>11 DEF EvalBump, ArgError
  <2>5. v \in Int
    BY <1>0, <2>3, <2>4, ValueType
  <2>6. code[cur].explicit = Unsized /\ ByteLen(v) <= MaxPush /\ ByteLen(v) > size[cur]
    <3> HIDE DEF v
    <3> QED BY <2>4, <2>5 DEF PushArgError
  <2>7. \A j \in Idx : j = cur => size'[j] \in 1..MaxPush
    <3> HIDE DEF v
    <3>1. \A j \in Idx : j = cur => size'[j] = size[j] + 1
      BY <1>11, <2>1 DEF EvalBump, TypeOK
    <3>2. ByteLen(v) \in Nat
      BY <2>5, ByteLenType
    <3> QED BY <2>3, <2>6, <3>1, <3>2, MaxPushAssumption
  <2>8. \A i \in Idx : Handled(i)'
    <3> SUFFICES ASSUME NEW i \in Idx PROVE Handled(i)'
      OBVIOUS
    <3>1. CASE i = cur
      BY <1>11, <2>1, <2>2, <2>6, <2>7, <3>1 DEF Handled, EvalBump, Goto, IsPush
    <3>2. CASE i # cur
      <4>1. Handled(i) /\ size'[i] = size[i]
        BY <1>11, <2>1, <3>2 DEF HandledInv, EvalBump, TypeOK
      <4> QED BY <1>11, <4>1, HandledStable DEF EvalBump, Goto
    <3> QED BY <3>1, <3>2
  <2> QED
    BY <1>11, <2>1, <2>8 DEF HandledInv, EvalBump, Goto, Idx, N
<1>12. CASE AssignPC \/ PCDone
  BY <1>2, <1>12 DEF AssignPC, PCDone, At, AtEnd, Advance, Goto
<1>13. CASE EvalSkip \/ EvalFail \/ EvalDone
  BY <1>2, <1>13 DEF EvalSkip, EvalFail, EvalDone, At, AtEnd, Advance, Goto, Report
<1>14. CASE CheckPCLabel \/ CheckDone
  BY <1>2, <1>14 DEF CheckPCLabel, CheckDone, At, AtEnd, Advance, Goto, Report
<1>15. CASE EmitPush \/ EmitOther \/ GenDone
  BY <1>2, <1>15 DEF EmitPush, EmitOther, GenDone, At, AtEnd, Advance, Goto
<1>16. CASE Done
  BY <1>3, <1>16 DEF Done
<1> QED
  BY <1>3, <1>4, <1>5, <1>6, <1>7, <1>8, <1>9, <1>10, <1>11, <1>12, <1>13, <1>14,
     <1>15, <1>16
  DEF Next, Pre, Loop, Gen

\* HandledInv holds in every reachable state.
LEMMA HandledInvariant == Spec => []HandledInv
<1>1. Init => HandledInv
  BY DEF Init, HandledInv, Untouched, Idx
<1> QED
  BY <1>1, HandledStep, LayoutTypeOK, PTL DEF Spec

-----------------------------------------------------------------------------
(* Arguments assigned in a round belong to the offsets of that round *)

Settled(i) ==
  ArgFits(code, size, pc, i) /\ data[i] = Value(code[i].expr, pc)

SettledInv ==
  /\ phase = "eval" => \A i \in Idx : i < cur /\ NeedsEval(i) => Settled(i)
  /\ phase \in {"check", "gen", "ok"} /\ errors = {} =>
       \A i \in Idx : NeedsEval(i) => Settled(i)
  /\ phase \in {"gen", "ok"} => errors = {}

\* A step that changes no size, offset or argument leaves instruction i settled.
LEMMA SettledStable ==
  ASSUME NEW i, NeedsEval(i) => Settled(i), UNCHANGED <<code, size, pc, argDone>>,
         data'[i] = data[i]
  PROVE  NeedsEval(i)' => Settled(i)'
BY DEF NeedsEval, Settled, ArgFits, IsPush

\* assignPushArg accepts exactly the arguments that fit, and asks for a larger
\* variable-size PUSH only when one exists (compiler_eval.go:110-134).
LEMMA NoPushArgError ==
  ASSUME NEW i, NEW v \in Int, NEW sz \in Nat
  PROVE  /\ PushArgError(i, v, sz) = "none" <=>
              v >= 0 /\ ByteLen(v) <= MaxPush /\ ByteLen(v) <= sz
         /\ PushArgError(i, v, sz) = "variable" =>
              /\ code[i].explicit = Unsized
              /\ v >= 0 /\ ByteLen(v) <= MaxPush /\ ByteLen(v) > sz
<1>1. ByteLen(v) \in Int /\ MaxPush \in Int
  BY ByteLenType, MaxPushAssumption
<1> QED BY <1>1 DEF PushArgError

\* Every step keeps the arguments evaluated so far equal to their expressions
\* at the current offsets, until a round bumps a size.
LEMMA SettledStep == TypeOK /\ SettledInv /\ [Next]_vars => SettledInv'
<1> SUFFICES ASSUME TypeOK, SettledInv, [Next]_vars PROVE SettledInv'
  OBVIOUS
<1>0. N \in Nat /\ cur \in 1..(N + 1) /\ code \in Programs /\ Idx \subseteq Int
  BY ProgramType DEF TypeOK, N, Idx
<1>1. CASE UNCHANGED vars \/ Done
  BY <1>1 DEF SettledInv, Settled, ArgFits, NeedsEval, IsPush, vars, Idx, N, Done
<1>2. CASE Pre \/ AssignPC \/ EvalBump
  <2>1. phase' \in {"pre", "pc"}
    BY <1>2 DEF Pre, PreOther, PreBytes, PrePushLater, PrePushFails, PrePushAssign,
                PreDone, AssignPC, EvalBump, At, Goto, Advance
  <2> QED BY <2>1 DEF SettledInv
<1>3. CASE PCDone
  <2>1. phase' = "eval" /\ cur' = 1 /\ Idx' = Idx
    BY <1>3 DEF PCDone, Goto, Idx, N
  <2>2. \A i \in Idx : ~(i < 1)
    BY DEF Idx
  <2> QED BY <2>1, <2>2 DEF SettledInv
<1>4. CASE EvalSkip \/ EvalStore
  <2>1. /\ cur \in Idx /\ phase = "eval" /\ phase' = "eval" /\ cur' = cur + 1
        /\ UNCHANGED <<code, size, pc, argDone>> /\ Idx' = Idx
    BY <1>0, <1>4 DEF EvalSkip, EvalStore, At, Advance, Idx, N
  <2>2. \A i \in Idx : i # cur => data'[i] = data[i]
    BY <1>4 DEF EvalSkip, EvalStore, TypeOK
  <2>3. ASSUME NEW i \in Idx, i < cur PROVE NeedsEval(i)' => Settled(i)'
    <3>1. NeedsEval(i) => Settled(i)
      BY <2>1, <2>3 DEF SettledInv
    <3>2. i # cur
      BY <1>0, <2>3
    <3> QED BY <2>1, <2>2, <3>1, <3>2, SettledStable
  <2>4. ASSUME NEW i \in Idx, i = cur PROVE NeedsEval(i)' => Settled(i)'
    <3>1. CASE EvalSkip
      BY <2>1, <2>4, <3>1 DEF EvalSkip, NeedsEval, IsPush
    <3>2. CASE EvalStore
      <4>1. NeedsEval(i) /\ ArgError(i) = "none" /\ data'[i] = Value(code[i].expr, pc)
        BY <2>4, <3>2 DEF EvalStore, TypeOK
      <4>2. /\ code[i].expr \in Exprs(N) /\ pc \in [1..N -> Nat] /\ size[i] \in Nat
            /\ ~EvalFails(code[i].expr, pc)
        BY <1>0, <4>1, ProgramType DEF N, Idx, TypeOK, NeedsEval, IsPush, ArgError
      <4>3. Value(code[i].expr, pc) \in Int
        BY <1>0, <4>2, ValueType
      <4>4. PushArgError(i, Value(code[i].expr, pc), size[i]) = "none"
        BY <4>1, <4>2 DEF ArgError
      <4>5. ArgFits(code, size, pc, i)
        BY <4>2, <4>3, <4>4, NoPushArgError DEF ArgFits
      <4> QED BY <2>1, <4>1, <4>5 DEF Settled, ArgFits
    <3> QED BY <1>4, <3>1, <3>2
  <2>5. ASSUME NEW i \in Idx, i < cur' PROVE NeedsEval(i)' => Settled(i)'
    <3>1. i < cur \/ i = cur
      BY <1>0, <2>1, <2>5
    <3> QED BY <2>3, <2>4, <3>1
  <2> QED BY <2>1, <2>5 DEF SettledInv
<1>5. CASE EvalFail
  <2>1. errors' # {} /\ phase' = "check"
    BY <1>5 DEF EvalFail, Report, Goto
  <2> QED BY <2>1 DEF SettledInv
<1>6. CASE EvalDone
  <2>1. phase = "eval" /\ cur = N + 1 /\ phase' = "check" /\ Idx' = Idx
        /\ UNCHANGED <<code, size, pc, argDone, data>>
    BY <1>6 DEF EvalDone, AtEnd, Goto, Idx, N
  <2>2. ASSUME NEW i \in Idx PROVE NeedsEval(i)' => Settled(i)'
    <3>1. i < cur
      BY <1>0, <2>1 DEF Idx
    <3> QED BY <2>1, <3>1, SettledStable DEF SettledInv
  <2> QED BY <2>1, <2>2 DEF SettledInv
<1>7. CASE CheckPCLabel \/ CheckDone
  <2>1. /\ phase = "check" /\ errors \subseteq errors' /\ Idx' = Idx
        /\ UNCHANGED <<code, size, pc, argDone, data>>
        /\ phase' \in {"gen", "ok"} => errors' = {}
    BY <1>7 DEF CheckPCLabel, CheckDone, At, AtEnd, Advance, Goto, Report, Idx, N
  <2>2. phase' # "eval"
    BY <1>7 DEF CheckPCLabel, CheckDone, At, AtEnd, Advance, Goto
  <2>3. errors' = {} => \A i \in Idx : NeedsEval(i)' => Settled(i)'
    BY <2>1, SettledStable DEF SettledInv
  <2> QED BY <2>1, <2>2, <2>3 DEF SettledInv
<1>8. CASE EmitPush \/ EmitOther \/ GenDone
  <2>1. /\ phase = "gen" /\ phase' \in {"gen", "ok"} /\ errors' = errors /\ Idx' = Idx
        /\ UNCHANGED <<code, size, pc, argDone, data>>
    BY <1>8 DEF EmitPush, EmitOther, GenDone, At, AtEnd, Advance, Goto, Idx, N
  <2>2. \A i \in Idx : NeedsEval(i)' => Settled(i)'
    BY <2>1, SettledStable DEF SettledInv
  <2> QED BY <2>1, <2>2 DEF SettledInv
<1> QED
  BY <1>1, <1>2, <1>3, <1>4, <1>5, <1>6, <1>7, <1>8 DEF Next, Loop, Gen

\* SettledInv holds in every reachable state.
LEMMA SettledInvariant == Spec => []SettledInv
<1>1. Init => SettledInv
  BY DEF Init, SettledInv
<1> QED
  BY <1>1, SettledStep, LayoutTypeOK, PTL DEF Spec

-----------------------------------------------------------------------------
(* When output is generated, every PUSH holds its argument *)

\* When the rounds ended without an error, every PUSH holds its argument at the final
\* offsets, in a size the fork has an opcode for.
LEMMA OutputPush ==
  ASSUME TypeOK, HandledInv, SettledInv, phase \in {"check", "gen", "ok"}, errors = {},
         NEW i \in Idx, IsPush(i)
  PROVE  /\ ArgFits(code, size, pc, i)
         /\ data[i] = Value(code[i].expr, pc)
         /\ DataLen(i) <= size[i] /\ DataLen(i) \in Nat
         /\ size[i] \in 0..MaxPush
         /\ size[i] = 0 => push0
         /\ SizeAllowed(code, push0, size, i)
<1>1. N \in Nat /\ code \in Programs /\ size[i] \in Nat /\ pc \in [1..N -> Nat]
      /\ code[i].kind = "push" /\ Handled(i) /\ errors = {} /\ push0 \in BOOLEAN
  BY ProgramType DEF TypeOK, N, Idx, HandledInv, SettledInv, IsPush
<1>2. code[i].expr \in Exprs(N) /\ code[i].explicit \in (1..MaxPush) \cup {Unsized}
  BY <1>1, ProgramType DEF N, Idx
<1>3. /\ ArgFits(code, size, pc, i)
      /\ data[i] = Value(code[i].expr, pc)
      /\ size[i] \in 0..MaxPush
      /\ size[i] = 0 => push0
      /\ SizeAllowed(code, push0, size, i)
  <2>1. CASE UsesLabels(code[i].expr)
    <3>1. Settled(i)
      BY <1>1, <2>1 DEF Handled, SettledInv, NeedsEval, IsPush
    <3>2. /\ code[i].explicit # Unsized => size[i] = code[i].explicit
          /\ code[i].explicit = Unsized => size[i] \in 1..MaxPush
      BY <1>1, <2>1 DEF Handled
    <3> QED
      BY <1>1, <1>2, <2>1, <3>1, <3>2, MaxPushAssumption DEF Settled, SizeAllowed
  <2>2. CASE ~UsesLabels(code[i].expr)
    <3> DEFINE k == code[i].expr.k
    <3>1. /\ code[i].expr.op = "lin" /\ k >= 0 /\ data[i] = k
          /\ ByteLen(k) <= size[i] /\ size[i] <= MaxPush
          /\ size[i] = IF code[i].explicit = Unsized THEN AutoSize(k, push0)
                                                     ELSE code[i].explicit
      BY <1>1, <2>2 DEF Handled
    <3>2. ~EvalFails(code[i].expr, pc) /\ Value(code[i].expr, pc) = k /\ k \in Int
      BY <1>1, <1>2, <2>2, <3>1, ConstantValue DEF Exprs
    <3>3. ArgFits(code, size, pc, i) /\ data[i] = Value(code[i].expr, pc)
      BY <3>1, <3>2 DEF ArgFits
    <3>4. size[i] \in 0..MaxPush
      BY <1>1, <3>1, MaxPushAssumption
    <3>5. SizeAllowed(code, push0, size, i)
      BY <1>1, <2>2, <3>1 DEF SizeAllowed
    <3>6. size[i] = 0 => push0
      BY <1>2, <3>1, <3>2, ByteLenType DEF AutoSize
    <3> QED BY <3>3, <3>4, <3>5, <3>6
  <2> QED BY <2>1, <2>2
<1>4. data[i] \in Int /\ data[i] # NoData /\ ByteLen(data[i]) <= size[i]
  <2>1. data[i] >= 0 /\ ByteLen(data[i]) <= size[i] /\ ~EvalFails(code[i].expr, pc)
    BY <1>3 DEF ArgFits
  <2>2. data[i] \in Int
    BY <1>1, <1>2, <1>3, <2>1, ValueType
  <2> QED BY <2>1, <2>2 DEF NoData
<1> QED
  BY <1>3, <1>4, ByteLenType, MaxPushAssumption DEF DataLen

-----------------------------------------------------------------------------
(* Offsets follow from sizes *)

\* Where the output stands when instruction n is next.
NextOffset(n) == IF n = 1 THEN 0 ELSE pc[n - 1] + EncodedSize(code, size, n - 1)

ChainInv ==
  /\ phase = "pc" => Chained(code, size, pc, cur - 1) /\ acc = NextOffset(cur)
  /\ phase \in {"eval", "check", "gen", "ok"} => Chained(code, size, pc, N)
  /\ phase = "gen" => outLen = NextOffset(cur)
  /\ phase \notin {"gen", "ok"} => outLen = 0

\* Every step keeps the offsets assigned so far chained: each one the offset
\* before it plus the encoded size (computePC).
LEMMA ChainStep ==
  TypeOK /\ HandledInv /\ SettledInv /\ ChainInv /\ [Next]_vars => ChainInv'
<1> SUFFICES ASSUME TypeOK, HandledInv, SettledInv, ChainInv, [Next]_vars
             PROVE  ChainInv'
  OBVIOUS
<1>0. N \in Nat /\ cur \in 1..(N + 1) /\ code \in Programs
  BY ProgramType DEF TypeOK, N
<1>1. CASE UNCHANGED vars \/ Done
  BY <1>1 DEF ChainInv, Chained, EncodedSize, NextOffset, vars, N, Done
<1>2. CASE PreOther \/ PreBytes \/ PrePushLater \/ PrePushFails \/ PrePushAssign
  <2>1. phase = "pre" /\ phase' = "pre" /\ outLen' = outLen
    BY <1>2 DEF PreOther, PreBytes, PrePushLater, PrePushFails, PrePushAssign, At, Advance
  <2> QED BY <2>1 DEF ChainInv
<1>3. CASE PreDone \/ EvalBump
  <2>1. phase \in {"pre", "eval"} /\ phase' = "pc" /\ cur' = 1 /\ acc' = 0 /\ outLen' = outLen
    BY <1>3 DEF PreDone, EvalBump, At, AtEnd, Goto
  <2>2. Chained(code', size', pc', 0)
    BY DEF Chained
  <2> QED BY <2>1, <2>2 DEF ChainInv, NextOffset, Chained
<1>4. CASE AssignPC
  <2>1. /\ phase = "pc" /\ phase' = "pc" /\ cur' = cur + 1 /\ cur \in 1..N
        /\ pc' = [pc EXCEPT ![cur] = acc] /\ acc' = acc + EncodedSize(code, size, cur)
        /\ UNCHANGED <<code, size, outLen>>
    BY <1>0, <1>4 DEF AssignPC, At, Advance
  <2>2. pc \in [1..N -> Nat] /\ acc \in Nat
    BY DEF TypeOK, Idx
  <2>3. pc'[cur] = acc /\ \A i \in 1..(cur - 1) : pc'[i] = pc[i]
    BY <2>1, <2>2
  <2>4. Chained(code, size, pc', cur)
    <3>1. pc'[1] = 0
      BY <2>1, <2>3 DEF ChainInv, Chained, NextOffset
    <3>2. ASSUME NEW i \in 1..(cur - 1)
          PROVE  pc'[i + 1] = pc'[i] + EncodedSize(code, size, i)
      <4>1. CASE i = cur - 1
        BY <2>1, <2>3, <4>1 DEF ChainInv, NextOffset
      <4>2. CASE i # cur - 1
        <5>1. i \in 1..(cur - 2) /\ i + 1 \in 1..(cur - 1) /\ (cur - 1) - 1 = cur - 2
          BY <2>1, <4>2
        <5>2. pc[i + 1] = pc[i] + EncodedSize(code, size, i)
          BY <2>1, <5>1 DEF ChainInv, Chained
        <5> QED BY <2>3, <5>1, <5>2
      <4> QED BY <4>1, <4>2
    <3> QED BY <3>1, <3>2 DEF Chained
  <2>5. (cur + 1) - 1 = cur /\ cur + 1 # 1
    BY <2>1
  <2> QED
    BY <2>1, <2>3, <2>4, <2>5 DEF ChainInv, NextOffset, Chained, EncodedSize
<1>5. CASE PCDone
  <2>1. phase = "pc" /\ phase' = "eval" /\ cur = N + 1 /\ UNCHANGED <<code, size, pc, outLen>>
    BY <1>5 DEF PCDone, AtEnd, Goto
  <2>2. Chained(code, size, pc, N)
    BY <1>0, <2>1 DEF ChainInv
  <2> QED BY <2>1, <2>2 DEF ChainInv, Chained, EncodedSize, N
<1>6. CASE EvalSkip \/ EvalStore \/ EvalFail \/ EvalDone \/ CheckPCLabel
  <2>1. /\ phase \in {"eval", "check"} /\ phase' \in {"eval", "check"}
        /\ UNCHANGED <<code, size, pc, outLen>>
    BY <1>6 DEF EvalSkip, EvalStore, EvalFail, EvalDone, CheckPCLabel, At, AtEnd,
                Advance, Goto
  <2> QED BY <2>1 DEF ChainInv, Chained, EncodedSize, N
<1>7. CASE CheckDone
  <2>1. /\ phase = "check" /\ phase' \in {"gen", "failed"} /\ cur' = 1
        /\ UNCHANGED <<code, size, pc, outLen>>
    BY <1>7 DEF CheckDone, AtEnd, Goto
  <2> QED BY <2>1 DEF ChainInv, Chained, EncodedSize, NextOffset, N
<1>8. CASE EmitPush \/ EmitOther
  <2>1. /\ phase = "gen" /\ phase' = "gen" /\ cur \in 1..N /\ cur' = cur + 1
        /\ UNCHANGED <<code, size, pc>>
    BY <1>0, <1>8 DEF EmitPush, EmitOther, At, Advance
  <2>2. size[cur] \in Nat /\ pc \in [1..N -> Nat] /\ outLen \in Nat
    BY <2>1 DEF TypeOK, Idx
  <2>3. outLen' = outLen + EncodedSize(code, size, cur)
    <3>1. CASE EmitPush
      <4>1. IsPush(cur) /\ outLen' = outLen + 1 + Padding(cur) + DataLen(cur)
        BY <3>1 DEF EmitPush
      <4>2. DataLen(cur) <= size[cur] /\ DataLen(cur) \in Nat
        BY <2>1, <4>1, OutputPush DEF Idx, SettledInv
      <4>3. Padding(cur) + DataLen(cur) = size[cur] /\ Padding(cur) \in Nat
        BY <2>2, <4>2 DEF Padding
      <4>4. EncodedSize(code, size, cur) = 1 + size[cur]
        BY <4>1 DEF EncodedSize, IsPush
      <4> QED BY <2>2, <4>1, <4>2, <4>3, <4>4
    <3>2. CASE EmitOther
      <4>1. code[cur].kind # "push"
            /\ outLen' = outLen + (IF code[cur].kind = "op" THEN 1 ELSE 0) + size[cur]
        BY <3>2 DEF EmitOther, IsPush
      <4> QED BY <2>2, <4>1 DEF EncodedSize
    <3> QED BY <1>8, <3>1, <3>2
  <2>4. outLen = pc[cur]
    <3>1. CASE cur = 1
      BY <1>0, <2>1, <3>1 DEF ChainInv, NextOffset, Chained
    <3>2. CASE cur # 1
      <4>1. cur - 1 \in 1..(N - 1) /\ (cur - 1) + 1 = cur
        BY <1>0, <2>1, <3>2
      <4>2. pc[(cur - 1) + 1] = pc[cur - 1] + EncodedSize(code, size, cur - 1)
        BY <2>1, <4>1 DEF ChainInv, Chained
      <4> QED BY <2>1, <3>2, <4>1, <4>2 DEF ChainInv, NextOffset
    <3> QED BY <3>1, <3>2
  <2>5. (cur + 1) - 1 = cur /\ cur + 1 # 1
    BY <2>1
  <2>6. outLen' = NextOffset(cur)'
    BY <2>1, <2>3, <2>4, <2>5 DEF NextOffset, EncodedSize
  <2>7. Chained(code, size, pc, N)' 
    BY <2>1 DEF ChainInv, Chained, EncodedSize, N
  <2> QED BY <2>1, <2>6, <2>7 DEF ChainInv
<1>9. CASE GenDone
  <2>1. phase = "gen" /\ phase' = "ok" /\ UNCHANGED <<code, size, pc>>
    BY <1>9 DEF GenDone, AtEnd, Goto
  <2> QED BY <2>1 DEF ChainInv, Chained, EncodedSize, N
<1> QED
  BY <1>1, <1>2, <1>3, <1>4, <1>5, <1>6, <1>7, <1>8, <1>9 DEF Next, Pre, Loop, Gen

\* ChainInv holds in every reachable state.
LEMMA ChainInvariant == Spec => []ChainInv
<1>1. Init => ChainInv
  BY DEF Init, ChainInv
<1> QED
  BY <1>1, ChainStep, LayoutTypeOK, HandledInvariant, SettledInvariant, PTL DEF Spec

-----------------------------------------------------------------------------
(* Results *)

\* None of the panics of evaluateArgs and generateOutput can happen: the argument
\* of every #bytes is known, the output is where the labels say it is, and every
\* PUSH has an opcode and room for its data.
THEOREM LayoutPanicFree == Spec => []PanicFree
<1>1. TypeOK /\ HandledInv /\ SettledInv /\ ChainInv => PanicFree
  <2>0. TypeOK /\ HandledInv /\ At("eval") /\ IsBytes(cur) => argDone[cur]
    BY ProgramType DEF TypeOK, HandledInv, Handled, At, IsBytes, Idx, N
  <2> SUFFICES ASSUME TypeOK, HandledInv, SettledInv, ChainInv, At("gen")
               PROVE  /\ outLen = pc[cur]
                      /\ IsPush(cur) => /\ size[cur] \in 0..MaxPush
                                        /\ size[cur] = 0 => push0
                                        /\ DataLen(cur) <= size[cur]
    BY <2>0 DEF PanicFree
  <2>1. N \in Nat /\ cur \in Idx /\ phase = "gen"
    BY ProgramType DEF TypeOK, N, Idx, At
  <2>2. outLen = pc[cur]
    <3>1. CASE cur = 1
      BY <2>1, <3>1 DEF ChainInv, NextOffset, Chained, Idx
    <3>2. CASE cur # 1
      <4>1. cur - 1 \in 1..(N - 1) /\ (cur - 1) + 1 = cur
        BY <2>1, <3>2 DEF Idx
      <4>2. pc[(cur - 1) + 1] = pc[cur - 1] + EncodedSize(code, size, cur - 1)
        BY <2>1, <4>1 DEF ChainInv, Chained
      <4> QED BY <2>1, <3>2, <4>1, <4>2 DEF ChainInv, NextOffset
    <3> QED BY <3>1, <3>2
  <2>3. ASSUME IsPush(cur)
        PROVE  size[cur] \in 0..MaxPush /\ (size[cur] = 0 => push0) /\ DataLen(cur) <= size[cur]
    BY <2>1, <2>3, OutputPush DEF SettledInv
  <2> QED BY <2>2, <2>3
<1> QED
  BY <1>1, LayoutTypeOK, HandledInvariant, SettledInvariant, ChainInvariant, PTL

\* The four invariants together make what rounds without an error end with a layout.
LEMMA OutputLayout ==
  ASSUME TypeOK, HandledInv, SettledInv, ChainInv,
         phase \in {"check", "gen", "ok"}, errors = {}
  PROVE  /\ IsLayout(code, push0, size, pc)
         /\ \A i \in Idx : IsPush(i) => data[i] = Value(code[i].expr, pc)
<1>1. /\ size \in [1..Len(code) -> Nat] /\ pc \in [1..Len(code) -> Nat]
      /\ Chained(code, size, pc, Len(code)) /\ errors = {}
      /\ \A i \in Idx : Handled(i)
  BY DEF TypeOK, ChainInv, SettledInv, HandledInv, Idx, N
<1>2. ASSUME NEW i \in Idx
      PROVE  /\ SizeAllowed(code, push0, size, i)
             /\ BytesValid(code, i)
             /\ IsPush(i) => ArgFits(code, size, pc, i) /\ data[i] = Value(code[i].expr, pc)
  <2>1. Handled(i) /\ code[i].kind \in {"op", "empty", "bytes", "push"}
    BY <1>1, <1>2, ProgramType DEF TypeOK, Idx, N
  <2>2. CASE IsPush(i)
    BY <1>2, <2>2, OutputPush DEF BytesValid, IsPush
  <2>3. CASE ~IsPush(i)
    BY <1>1, <2>1, <2>3 DEF Handled, SizeAllowed, IsPush, BytesValid
  <2> QED BY <2>2, <2>3
<1> QED
  BY <1>1, <1>2 DEF IsLayout, Idx, N, IsPush

\* Output is generated from a fixed point only: sizes, offsets and data agree,
\* although they were computed in different rounds and different passes.
THEOREM LayoutOutputIsLayout == Spec => []OutputIsLayout
<1>1. TypeOK /\ HandledInv /\ SettledInv /\ ChainInv => OutputIsLayout
  BY OutputLayout DEF OutputIsLayout, SettledInv
<1> QED
  BY <1>1, LayoutTypeOK, HandledInvariant, SettledInvariant, ChainInvariant, PTL

-----------------------------------------------------------------------------
(* The search stays below every layout when arguments only grow *)

\* s, p: any layout of the program, as sizes and offsets.
BelowLayout(s, p) ==
  Monotone(code) /\ IsLayout(code, push0, s, p) =>
    /\ \A e \in errors : e[2] = "pcLabel"
    /\ \A i \in Idx : (phase = "pre" => i < cur) => size[i] <= s[i]
    /\ phase = "pc" => \A i \in Idx : i < cur => pc[i] <= p[i]
    /\ phase = "pc" /\ cur <= N => acc <= p[cur]
    /\ phase \in {"eval", "check", "gen", "ok", "failed"} =>
         \A i \in Idx : pc[i] <= p[i]

BelowInv == \A s, p : BelowLayout(s, p)

\* An argument that subtracts no label never shrinks when the offsets grow.
LEMMA GrowingValue ==
  ASSUME NEW n \in Nat, NEW e \in Exprs(n), NEW o \in [1..n -> Nat], NEW p \in [1..n -> Nat],
         e.op = "lin", e.minus = 0, e.k >= 0, \A i \in 1..n : o[i] <= p[i]
  PROVE  /\ ~EvalFails(e, o)
         /\ Value(e, o) \in Nat /\ Value(e, p) \in Nat
         /\ Value(e, o) <= Value(e, p)
<1>1. e.k \in Int /\ e.plus \in 0..n
  BY DEF Exprs
<1>2. LabelPC(o, e.plus) \in Nat /\ LabelPC(p, e.plus) \in Nat
      /\ LabelPC(o, e.plus) <= LabelPC(p, e.plus)
  BY <1>1 DEF LabelPC
<1>3. LabelPC(o, e.minus) = 0 /\ LabelPC(p, e.minus) = 0
  BY DEF LabelPC
<1> QED
  BY <1>1, <1>2, <1>3 DEF EvalFails, Value, Divisor

\* Every step keeps sizes and offsets at or below those of any layout with the
\* same or larger arguments: the loop only grows what it is forced to.
LEMMA BelowStep == TypeOK /\ HandledInv /\ BelowInv /\ [Next]_vars => BelowInv'
<1> SUFFICES ASSUME TypeOK, HandledInv, BelowInv, [Next]_vars, NEW s, NEW p
             PROVE  BelowLayout(s, p)'
  BY DEF BelowInv
<1>a. UNCHANGED <<code, push0>>
  BY DEF Next, Pre, Loop, Gen, Done, vars, PreOther, PreBytes, PrePushLater, PrePushFails,
         PrePushAssign, PreDone, AssignPC, PCDone, EvalSkip, EvalStore, EvalBump, EvalFail,
         EvalDone, CheckPCLabel, CheckDone, EmitPush, EmitOther, GenDone, Advance, Goto
<1> SUFFICES ASSUME Monotone(code), IsLayout(code, push0, s, p)
             PROVE  BelowLayout(s, p)'
  <2>1. Monotone(code)' = Monotone(code)
        /\ IsLayout(code, push0, s, p)' = IsLayout(code, push0, s, p)
    BY <1>a DEF Monotone, IsLayout, Chained, EncodedSize, SizeAllowed, BytesValid, ArgFits
  <2> QED BY <2>1 DEF BelowLayout
<1>b. /\ \A e \in errors : e[2] = "pcLabel"
      /\ \A i \in Idx : (phase = "pre" => i < cur) => size[i] <= s[i]
      /\ phase = "pc" => \A i \in Idx : i < cur => pc[i] <= p[i]
      /\ phase = "pc" /\ cur <= N => acc <= p[cur]
      /\ phase \in {"eval", "check", "gen", "ok", "failed"} =>
           \A i \in Idx : pc[i] <= p[i]
  <2>1. BelowLayout(s, p)
    BY DEF BelowInv
  <2> QED BY <2>1 DEF BelowLayout
<1>c. Idx' = Idx /\ N' = N
  BY <1>a DEF Idx, N
<1>0. /\ N \in Nat /\ cur \in 1..(N + 1) /\ code \in Programs /\ push0 \in BOOLEAN
      /\ s \in [Idx -> Nat] /\ p \in [Idx -> Nat] /\ pc \in [Idx -> Nat] 
      /\ size \in [Idx -> Nat]
  BY ProgramType DEF TypeOK, N, Idx, IsLayout
<1>d. ASSUME NEW i \in Idx, code[i].kind = "push"
      PROVE  /\ code[i].expr \in Exprs(N)
             /\ code[i].expr.op = "lin" /\ code[i].expr.minus = 0 /\ code[i].expr.k >= 0
             /\ code[i].explicit \in (1..MaxPush) \cup {Unsized}
             /\ ArgFits(code, s, p, i) /\ s[i] \in Nat /\ s[i] <= MaxPush
             /\ code[i].explicit # Unsized => s[i] = code[i].explicit
             /\ code[i].explicit = Unsized /\ UsesLabels(code[i].expr) => s[i] >= 1
             /\ code[i].explicit = Unsized /\ ~UsesLabels(code[i].expr) =>
                  s[i] = AutoSize(code[i].expr.k, push0)
  <2>1. SizeAllowed(code, push0, s, i) /\ ArgFits(code, s, p, i)
    BY <1>d DEF IsLayout, N, Idx
  <2>2. /\ s[i] \in Nat /\ s[i] <= MaxPush
        /\ code[i].explicit # Unsized => s[i] = code[i].explicit
        /\ code[i].explicit = Unsized /\ UsesLabels(code[i].expr) => s[i] >= 1
        /\ code[i].explicit = Unsized /\ ~UsesLabels(code[i].expr) =>
             s[i] = AutoSize(code[i].expr.k, push0)
    BY <1>0, <1>d, <2>1 DEF SizeAllowed
  <2>3. /\ code[i].expr \in Exprs(N)
        /\ code[i].explicit \in (1..MaxPush) \cup {Unsized}
        /\ code[i].expr.op = "lin" /\ code[i].expr.minus = 0 /\ code[i].expr.k >= 0
    BY <1>0, <1>d, ProgramType DEF Monotone, N, Idx
  <2> QED BY <2>1, <2>2, <2>3
<1>1. CASE UNCHANGED vars \/ Done
  BY <1>1, <1>b DEF BelowLayout, vars, Done, Monotone, IsLayout, Idx, N
\* One iteration of the pre-evaluation loop.
<1>2. ASSUME phase = "pre", phase' = "pre", cur \in Idx, cur' = cur + 1, errors' = errors,
             \A i \in Idx : i # cur => size'[i] = size[i],
             size'[cur] <= s[cur]
      PROVE  BelowLayout(s, p)'
  <2>1. ASSUME NEW i \in Idx, i < cur' PROVE size'[i] <= s[i]
    <3>1. CASE i = cur
      BY <1>2, <3>1
    <3>2. CASE i # cur
      <4>1. i < cur
        BY <1>0, <1>2, <2>1, <3>2 DEF Idx
      <4> QED BY <1>2, <1>b, <3>2, <4>1 DEF BelowLayout
    <3> QED BY <3>1, <3>2
  <2>2. \A e \in errors : e[2] = "pcLabel"
    BY <1>b DEF BelowLayout
  <2> QED BY <1>2, <1>c, <2>1, <2>2 DEF BelowLayout
<1>3. CASE PreOther
  <2>1. cur \in Idx /\ code[cur].kind \in {"op", "empty"} /\ Untouched(cur)
    BY <1>0, <1>3 DEF PreOther, At, Idx, HandledInv
  <2>2. size[cur] <= s[cur]
    <3>1. SizeAllowed(code, push0, s, cur) /\ s[cur] \in Nat /\ size[cur] \in Nat
      BY <1>0, <2>1 DEF IsLayout, Idx, N
    <3>2. CASE code[cur].kind = "op"
      BY <2>1, <3>1, <3>2 DEF Untouched, SizeAllowed
    <3>3. CASE code[cur].kind = "empty"
      BY <2>1, <3>1, <3>3 DEF Untouched, SizeAllowed
    <3> QED BY <2>1, <3>2, <3>3
  <2> QED BY <1>2, <1>3, <2>1, <2>2 DEF PreOther, At, Advance
<1>4. CASE PreBytes
  <2>1. cur \in Idx /\ code[cur].kind = "bytes"
    BY <1>0, <1>4 DEF PreBytes, At, Idx, IsBytes
  <2>2. ~UsesLabels(code[cur].expr) /\ code[cur].expr.op = "lin" /\ s[cur] = code[cur].len
    BY <1>0, <2>1 DEF IsLayout, BytesValid, SizeAllowed, Idx, N
  <2>3. size' = [size EXCEPT ![cur] = code[cur].len] /\ errors' = errors
    BY <1>4, <2>2 DEF PreBytes, EvalFails
  <2>4. size'[cur] <= s[cur] /\ \A i \in Idx : i # cur => size'[i] = size[i]
    BY <1>0, <2>1, <2>2, <2>3
  <2> QED BY <1>2, <1>4, <2>1, <2>3, <2>4 DEF PreBytes, At, Advance
<1>5. CASE PrePushLater
  <2>1. cur \in Idx /\ code[cur].kind = "push" /\ UsesLabels(code[cur].expr)
    BY <1>0, <1>5 DEF PrePushLater, At, Idx, IsPush
  <2>2. InitialSize(cur) <= s[cur]
    BY <1>d, <2>1 DEF InitialSize
  <2>3. size'[cur] <= s[cur] /\ \A i \in Idx : i # cur => size'[i] = size[i]
    BY <1>0, <1>5, <2>1, <2>2 DEF PrePushLater
  <2> QED BY <1>2, <1>5, <2>1, <2>3 DEF PrePushLater, At, Advance
<1>6. CASE PrePushFails
  <2>1. cur \in Idx /\ code[cur].kind = "push" /\ EvalFails(code[cur].expr, pc)
    BY <1>0, <1>6 DEF PrePushFails, At, Idx, IsPush
  <2> QED BY <1>d, <2>1 DEF EvalFails
<1>7. CASE PrePushAssign
  <2>1. cur \in Idx /\ code[cur].kind = "push" /\ ~UsesLabels(code[cur].expr)
    BY <1>0, <1>7 DEF PrePushAssign, At, Idx, IsPush
  <2> DEFINE k  == code[cur].expr.k
             sz == IF k >= 0 /\ ByteLen(k) <= MaxPush /\ code[cur].explicit = Unsized
                     THEN AutoSize(k, push0) ELSE InitialSize(cur)
  <2>2. /\ Value(code[cur].expr, pc) = k /\ Value(code[cur].expr, p) = k
        /\ k \in Int /\ k >= 0 
    <3>1. code[cur].expr \in Exprs(N) /\ code[cur].expr.op = "lin" /\ k >= 0 /\ k \in Int
      BY <1>d, <2>1 DEF Exprs
    <3>2. pc \in [1..N -> Nat] /\ p \in [1..N -> Nat]
      BY <1>0 DEF Idx
    <3> QED BY <1>0, <2>1, <3>1, <3>2, ConstantValue
  <2>3. ByteLen(k) <= s[cur] /\ s[cur] <= MaxPush /\ s[cur] \in Nat /\ ByteLen(k) \in Nat
    BY <1>d, <2>1, <2>2, ByteLenType DEF ArgFits
  <2>4. ByteLen(k) <= MaxPush
    BY <2>3, MaxPushAssumption
  <2>5. sz = s[cur]
    BY <1>d, <2>1, <2>2, <2>4 DEF InitialSize
  <2>6. PushArgError(cur, k, sz) = "none"
    BY <2>2, <2>3, <2>4, <2>5, NoPushArgError
  <2>7. size' = [size EXCEPT ![cur] = sz] /\ errors' = errors
    BY <1>7, <2>2, <2>6 DEF PrePushAssign
  <2>8. size'[cur] <= s[cur] /\ \A i \in Idx : i # cur => size'[i] = size[i]
    <3> HIDE DEF sz
    <3> QED BY <1>0, <2>1, <2>3, <2>5, <2>7
  <2> QED BY <1>2, <1>7, <2>1, <2>7, <2>8 DEF PrePushAssign, At, Advance
<1>8. CASE PreDone
  <2>1. /\ phase = "pre" /\ cur = N + 1 /\ phase' = "pc" /\ cur' = 1 /\ acc' = 0
        /\ UNCHANGED <<size, errors>>
    BY <1>8 DEF PreDone, AtEnd, Goto
  <2>2. \A i \in Idx : i < cur /\ ~(i < 1)
    BY <1>0, <2>1 DEF Idx
  <2>3. 1 <= N => 0 <= p[1]
    BY <1>0 DEF Idx
  <2> QED BY <1>b, <1>c, <2>1, <2>2, <2>3 DEF BelowLayout
<1>9. CASE AssignPC
  <2>1. /\ phase = "pc" /\ phase' = "pc" /\ cur \in Idx /\ cur' = cur + 1
        /\ pc' = [pc EXCEPT ![cur] = acc] /\ acc' = acc + EncodedSize(code, size, cur)
        /\ UNCHANGED <<size, errors>> /\ acc \in Nat
    BY <1>0, <1>9 DEF AssignPC, At, Advance, Idx, TypeOK
  <2>2. acc <= p[cur] /\ size[cur] <= s[cur]
    BY <1>0, <1>b, <2>1 DEF BelowLayout, Idx
  <2>3. ASSUME NEW i \in Idx, i < cur' PROVE pc'[i] <= p[i]
    <3>1. i = cur \/ i < cur
      BY <1>0, <2>1, <2>3 DEF Idx
    <3> QED BY <1>0, <1>b, <2>1, <2>2, <3>1 DEF BelowLayout
  <2>4. ASSUME cur' <= N PROVE acc' <= p[cur']
    <3>1. cur \in 1..(N - 1)
      BY <1>0, <2>1, <2>4 DEF Idx
    <3>2. p[cur + 1] = p[cur] + EncodedSize(code, s, cur)
      BY <3>1 DEF IsLayout, Chained, N
    <3>3. EncodedSize(code, size, cur) <= EncodedSize(code, s, cur)
          /\ EncodedSize(code, size, cur) \in Nat /\ EncodedSize(code, s, cur) \in Nat
      BY <1>0, <2>1, <2>2 DEF EncodedSize
    <3>4. p[cur] \in Nat
      BY <1>0, <2>1
    <3> QED BY <2>1, <2>2, <3>2, <3>3, <3>4
  <2>5. /\ \A e \in errors : e[2] = "pcLabel"
        /\ \A i \in Idx : size[i] <= s[i]
    BY <1>b, <2>1 DEF BelowLayout
  <2> QED BY <1>c, <2>1, <2>3, <2>4, <2>5 DEF BelowLayout
<1>10. CASE PCDone
  <2>1. /\ phase = "pc" /\ cur = N + 1 /\ phase' = "eval" /\ UNCHANGED <<size, errors, pc>>
    BY <1>10 DEF PCDone, AtEnd, Goto
  <2>2. \A i \in Idx : i < cur
    BY <1>0, <2>1 DEF Idx
  <2> QED BY <1>b, <1>c, <2>1, <2>2 DEF BelowLayout
\* The argument of the PUSH at hand is at most what it is in the layout.
<1>11. ASSUME phase = "eval", cur \in Idx, NeedsEval(cur)
       PROVE  /\ ~EvalFails(code[cur].expr, pc)
              /\ Value(code[cur].expr, pc) \in Nat
              /\ ByteLen(Value(code[cur].expr, pc)) \in Nat
              /\ ByteLen(Value(code[cur].expr, pc)) <= s[cur]
              /\ s[cur] <= MaxPush
  <2>1. code[cur].kind = "push" /\ \A i \in Idx : pc[i] <= p[i]
    BY <1>11, <1>b DEF NeedsEval, IsPush
  <2> DEFINE v == Value(code[cur].expr, pc)
             w == Value(code[cur].expr, p)
  <2>2. ~EvalFails(code[cur].expr, pc) /\ v \in Nat /\ w \in Nat /\ v <= w
    BY <1>0, <1>11, <1>d, <2>1, GrowingValue DEF Idx
  <2>3. ByteLen(w) <= s[cur] /\ s[cur] <= MaxPush
    BY <1>11, <1>d, <2>1 DEF ArgFits
  <2>4. ByteLen(v) <= ByteLen(w) /\ ByteLen(v) \in Nat /\ ByteLen(w) \in Nat
    <3> HIDE DEF v, w
    <3> QED BY <2>2, ByteLenMonotone, ByteLenType
  <2>5. ByteLen(v) <= s[cur]
    <3> HIDE DEF v, w
    <3> QED BY <1>0, <1>11, <2>3, <2>4
  <2> QED BY <1>11, <1>d, <2>1, <2>2, <2>3, <2>4, <2>5
<1>12. CASE EvalBump
  <2>1. /\ phase = "eval" /\ cur \in Idx /\ NeedsEval(cur) /\ ArgError(cur) = "variable"
        /\ size' = [size EXCEPT ![cur] = @ + 1] /\ acc' = 0 /\ phase' = "pc" /\ cur' = 1
        /\ UNCHANGED errors
    BY <1>0, <1>12 DEF EvalBump, At, Goto, Idx
  <2>2. size[cur] + 1 <= s[cur]
    <3>1. ByteLen(Value(code[cur].expr, pc)) > size[cur]
      BY <1>0, <1>11, <2>1, NoPushArgError DEF ArgError
    <3> QED BY <1>0, <1>11, <2>1, <3>1
  <2>3. \A i \in Idx : size'[i] <= s[i]
    BY <1>0, <1>b, <2>1, <2>2 DEF BelowLayout
  <2>4. /\ \A e \in errors : e[2] = "pcLabel"
        /\ \A i \in Idx : ~(i < 1)
        /\ 1 <= N => 0 <= p[1]
    BY <1>0, <1>b DEF BelowLayout, Idx
  <2> QED BY <1>c, <2>1, <2>3, <2>4 DEF BelowLayout
<1>13. CASE EvalFail
  <2>1. /\ phase = "eval" /\ cur \in Idx /\ NeedsEval(cur)
        /\ ArgError(cur) \notin {"none", "variable"}
    BY <1>0, <1>13 DEF EvalFail, At, Idx
  <2>2. code[cur].kind = "push" /\ Handled(cur) /\ UsesLabels(code[cur].expr)
    BY <2>1 DEF NeedsEval, IsPush, HandledInv, Handled
  <2> DEFINE v == Value(code[cur].expr, pc)
  <2>3. PushArgError(cur, v, size[cur]) \notin {"none", "variable"}
    BY <1>11, <2>1 DEF ArgError
  <2>4. v \in Nat /\ ByteLen(v) \in Nat /\ ByteLen(v) <= s[cur] /\ s[cur] <= MaxPush
    BY <1>11, <2>1
  <2>5. ByteLen(v) <= MaxPush
    <3> HIDE DEF v
    <3> QED BY <1>0, <2>1, <2>4, MaxPushAssumption
  <2>6. code[cur].explicit # Unsized
    <3> HIDE DEF v
    <3> QED BY <1>0, <2>1, <2>3, <2>4, <2>5, MaxPushAssumption DEF PushArgError
  <2>7. size[cur] = s[cur]
    BY <1>d, <2>1, <2>2, <2>6 DEF Handled
  <2>8. PushArgError(cur, v, size[cur]) = "none"
    <3> HIDE DEF v
    <3> QED BY <1>0, <2>1, <2>4, <2>5, <2>7, NoPushArgError
  <2> QED BY <2>3, <2>8
<1>14. CASE EvalSkip \/ EvalStore \/ EvalDone
  <2>1. /\ phase = "eval" /\ phase' \in {"eval", "check"} /\ UNCHANGED <<size, errors, pc>>
    BY <1>14 DEF EvalSkip, EvalStore, EvalDone, At, AtEnd, Advance, Goto
  <2> QED BY <1>b, <1>c, <2>1 DEF BelowLayout
<1>15. CASE CheckPCLabel
  <2>1. /\ phase = "check" /\ phase' = "check" /\ UNCHANGED <<size, pc>>
        /\ errors' \subseteq errors \cup {<<cur, "pcLabel">>}
    BY <1>15 DEF CheckPCLabel, At, Advance, Report
  <2>2. \A e \in errors' : e[2] = "pcLabel"
    BY <1>b, <2>1 DEF BelowLayout
  <2> QED BY <1>b, <1>c, <2>1, <2>2 DEF BelowLayout
<1>16. CASE CheckDone \/ EmitPush \/ EmitOther \/ GenDone
  <2>1. /\ phase \in {"check", "gen"} /\ phase' \in {"gen", "ok", "failed"}
        /\ UNCHANGED <<size, errors, pc>>
    BY <1>16 DEF CheckDone, EmitPush, EmitOther, GenDone, At, AtEnd, Advance, Goto
  <2> QED BY <1>b, <1>c, <2>1 DEF BelowLayout
<1> QED
  BY <1>1, <1>3, <1>4, <1>5, <1>6, <1>7, <1>8, <1>9, <1>10, <1>12, <1>13, <1>14, <1>15,
     <1>16
  DEF Next, Pre, Loop, Gen

\* BelowInv holds in every reachable state.
LEMMA BelowInvariant == Spec => []BelowInv
<1>1. Init => BelowInv
  <2> SUFFICES ASSUME Init, NEW s, NEW p PROVE BelowLayout(s, p)
    BY DEF BelowInv
  <2>1. \A i \in Idx : ~(i < 1)
    BY DEF Idx
  <2> QED BY <2>1 DEF Init, BelowLayout
<1> QED
  BY <1>1, BelowStep, LayoutTypeOK, HandledInvariant, PTL DEF Spec

\* No round of the search enlarges a PUSH beyond what every layout needs, if no
\* argument shrinks when code grows.  So the layout found is the least one.
THEOREM LayoutNeverAboveLeast == Spec => []NeverAboveLeast
<1>1. BelowInv => NeverAboveLeast
  <2> SUFFICES ASSUME BelowInv, Monotone(code), phase # "pre",
                      NEW other \in Layouts(code, push0), NEW i \in 1..Len(code)
               PROVE  size[i] <= other[i]
    BY DEF NeverAboveLeast, Least
  <2>1. IsLayout(code, push0, other, Offsets(code, other))
    BY DEF Layouts
  <2>2. BelowLayout(other, Offsets(code, other))
    BY DEF BelowInv
  <2> QED BY <2>1, <2>2 DEF BelowLayout, Idx, N
<1> QED
  BY <1>1, BelowInvariant, PTL

\* With such arguments, an error about an argument means there is no layout.
THEOREM LayoutFailureJustified == Spec => []FailureJustified
<1>1. BelowInv => FailureJustified
  <2> SUFFICES ASSUME BelowInv, Monotone(code), NEW e \in errors, e[2] # "pcLabel",
                      NEW other \in Layouts(code, push0)
               PROVE  FALSE
    BY DEF FailureJustified
  <2>1. IsLayout(code, push0, other, Offsets(code, other))
    BY DEF Layouts
  <2>2. BelowLayout(other, Offsets(code, other))
    BY DEF BelowInv
  <2> QED BY <2>1, <2>2 DEF BelowLayout
<1> QED
  BY <1>1, BelowInvariant, PTL

-----------------------------------------------------------------------------
(* Layout answers what Assembly promises *)

\* Sizes determine the offsets: chained offsets are the ones that Offsets computes, as
\* computePC does (compiler_prog.go:192-207).
LEMMA ChainedOffsets ==
  ASSUME NEW c \in Programs, NEW sz \in [1..Len(c) -> Nat], NEW offset \in [1..Len(c) -> Nat],
         Chained(c, sz, offset, Len(c))
  PROVE  Offsets(c, sz) = offset
<1> DEFINE n == Len(c)
           next(f) == [i \in 1..n |-> IF i = 1 THEN 0 ELSE f[i - 1] + EncodedSize(c, sz, i - 1)]
           o == CHOOSE f : f = next(f)
<1>1. Offsets(c, sz) = o
  BY DEF Offsets
<1>2. n \in Nat
  BY ProgramType
<1>3. offset = next(offset)
  <2>1. ASSUME NEW i \in 1..n
        PROVE  offset[i] = IF i = 1 THEN 0 ELSE offset[i - 1] + EncodedSize(c, sz, i - 1)
    <3>1. CASE i = 1
      BY <1>2, <2>1, <3>1 DEF Chained
    <3>2. CASE i # 1
      <4>1. i - 1 \in 1..(n - 1) /\ (i - 1) + 1 = i
        BY <1>2, <2>1, <3>2
      <4> QED BY <3>2, <4>1 DEF Chained
    <3> QED BY <3>1, <3>2
  <2> QED BY <2>1
<1>4. o = next(o)
  BY <1>3
<1> HIDE DEF o
<1> DEFINE S == {k \in Nat : k + 1 \in 1..n => o[k + 1] = offset[k + 1]}
<1>5. 0 \in S
  <2>1. 1 \in 1..n => o[1] = 0
    BY <1>4
  <2>2. 1 \in 1..n => offset[1] = 0
    BY <1>3
  <2> QED BY <2>1, <2>2
<1>6. ASSUME NEW k \in Nat, k \in S PROVE k + 1 \in S
  <2>1. SUFFICES ASSUME (k + 1) + 1 \in 1..n PROVE o[(k + 1) + 1] = offset[(k + 1) + 1]
    OBVIOUS
  <2>2. k + 1 \in 1..n /\ (k + 1) + 1 # 1 /\ ((k + 1) + 1) - 1 = k + 1
    BY <1>2, <2>1
  <2>3. o[(k + 1) + 1] = o[k + 1] + EncodedSize(c, sz, k + 1)
    BY <1>4, <2>1, <2>2
  <2>4. offset[(k + 1) + 1] = offset[k + 1] + EncodedSize(c, sz, k + 1)
    BY <1>3, <2>1, <2>2
  <2> QED BY <1>6, <2>2, <2>3, <2>4
<1>7. Nat \subseteq S
  <2> HIDE DEF S
  <2> QED BY <1>5, <1>6, InductiveSet
<1>8. ASSUME NEW i \in 1..n PROVE o[i] = offset[i]
  <2>1. i - 1 \in Nat /\ (i - 1) + 1 = i
    BY <1>2
  <2> QED BY <1>7, <2>1
<1>9. o = offset
  <2>1. o = [i \in 1..n |-> o[i]]
    BY <1>4
  <2>2. offset = [i \in 1..n |-> offset[i]]
    OBVIOUS
  <2> QED BY <1>8, <2>1, <2>2
<1> QED BY <1>1, <1>9

OnlyPCLabels == \A e \in errors : e[2] = "pcLabel"

PCLabelInv ==
  /\ phase \in {"pre", "pc", "eval"} => \A e \in errors : e[2] # "pcLabel"
  /\ \A e \in errors : e[2] = "pcLabel" => PCLabelMismatch(e[1])
  /\ phase = "check" /\ errors # {} /\ OnlyPCLabels => IsLayout(code, push0, size, pc)
  /\ phase = "check" /\ errors = {} => \A i \in Idx : i < cur => ~PCLabelMismatch(i)
  /\ phase \in {"gen", "ok"} => \A i \in Idx : ~PCLabelMismatch(i)

\* Every step keeps PC labels honest: one is reported for a label that contradicts the final
\* offsets only, and when nothing else is reported those offsets are a layout
\* (checkPCLabels after the rounds, compiler.go:216-245).
LEMMA PCLabelStep ==
  TypeOK /\ HandledInv /\ SettledInv /\ ChainInv /\ PCLabelInv /\ [Next]_vars => PCLabelInv'
<1> SUFFICES ASSUME TypeOK, HandledInv, SettledInv, ChainInv, PCLabelInv, [Next]_vars
             PROVE  PCLabelInv'
  OBVIOUS
<1>0. N \in Nat /\ cur \in 1..(N + 1) /\ code \in Programs /\ Idx \subseteq Int
  BY ProgramType DEF TypeOK, N, Idx
<1>1. CASE UNCHANGED vars \/ Done
  <2>1. UNCHANGED vars
    BY <1>1 DEF Done
  <2>2. IsLayout(code, push0, size, pc)' = IsLayout(code, push0, size, pc)
    BY <2>1 DEF IsLayout, Chained, EncodedSize, SizeAllowed, BytesValid, ArgFits, vars
  <2>3. \A i : PCLabelMismatch(i)' = PCLabelMismatch(i)
    BY <2>1 DEF PCLabelMismatch, vars
  <2> QED BY <2>1, <2>2, <2>3 DEF PCLabelInv, OnlyPCLabels, vars, Idx, N
<1>2. CASE Pre \/ Loop
  <2>1. /\ phase \in {"pre", "pc", "eval"}
        /\ phase' \in {"pre", "pc", "eval", "check"} /\ (phase' = "check" => cur' = 1)
    BY <1>2 DEF Pre, Loop, PreOther, PreBytes, PrePushLater, PrePushFails, PrePushAssign, PreDone,
         AssignPC, PCDone, EvalSkip, EvalStore, EvalBump, EvalFail, EvalDone, At, AtEnd,
         Advance, Goto
  <2>2. \A e \in errors' : e \in errors \/ e[2] # "pcLabel"
    <3>1. CASE errors' = errors
      BY <3>1
    <3>2. CASE PreBytes \/ PrePushFails
      BY <3>2 DEF PreBytes, PrePushFails, Report
    <3>3. CASE PrePushAssign
      BY <3>3, PushArgErrorType DEF PrePushAssign, Report
    <3>4. CASE EvalFail
      BY <3>4, PushArgErrorType DEF EvalFail, Report, ArgError
    <3> QED
      BY <1>2, <3>1, <3>2, <3>3, <3>4
      DEF Pre, Loop, PreOther, PrePushLater, PreDone, AssignPC, PCDone, EvalSkip, EvalStore,
          EvalBump, EvalDone
  <2>3. \A e \in errors' : e[2] # "pcLabel"
    BY <2>1, <2>2 DEF PCLabelInv
  <2>4. \A i \in Idx' : ~(i < 1)
    BY DEF Idx
  <2> QED BY <2>1, <2>3, <2>4 DEF PCLabelInv, OnlyPCLabels
<1>3. CASE CheckPCLabel
  <2>1. /\ phase = "check" /\ phase' = "check" /\ cur \in Idx /\ cur' = cur + 1
        /\ UNCHANGED <<code, push0, pc, size>> /\ Idx' = Idx
        /\ errors' = IF PCLabelMismatch(cur) THEN errors \cup {<<cur, "pcLabel">>} ELSE errors
    BY <1>0, <1>3 DEF CheckPCLabel, At, Advance, Report, Idx, N
  <2>2. \A i : PCLabelMismatch(i)' = PCLabelMismatch(i)
    BY <2>1 DEF PCLabelMismatch
  <2>3. \A e \in errors' : e[2] = "pcLabel" => PCLabelMismatch(e[1])'
    BY <2>1, <2>2 DEF PCLabelInv
  <2>4. ASSUME OnlyPCLabels' PROVE IsLayout(code, push0, size, pc)
    <3>1. OnlyPCLabels
      BY <2>1, <2>4 DEF OnlyPCLabels
    <3>2. CASE errors = {}
      BY <2>1, <3>2, OutputLayout
    <3>3. CASE errors # {}
      BY <2>1, <3>1, <3>3 DEF PCLabelInv
    <3> QED BY <3>2, <3>3
  <2>5. IsLayout(code, push0, size, pc)' = IsLayout(code, push0, size, pc)
    BY <2>1 DEF IsLayout, Chained, EncodedSize, SizeAllowed, BytesValid, ArgFits
  <2>6. ASSUME errors' = {}, NEW i \in Idx, i < cur' PROVE ~PCLabelMismatch(i)'
    <3>1. errors = {} /\ ~PCLabelMismatch(cur)
      BY <2>1, <2>6
    <3>2. i < cur \/ i = cur
      BY <1>0, <2>1, <2>6
    <3> QED BY <2>1, <2>2, <3>1, <3>2 DEF PCLabelInv
  <2> QED BY <2>1, <2>3, <2>4, <2>5, <2>6 DEF PCLabelInv
<1>4. CASE CheckDone
  <2>1. /\ phase = "check" /\ cur = N + 1 /\ phase' = IF errors = {} THEN "gen" ELSE "failed"
        /\ UNCHANGED <<code, pc, errors>> /\ Idx' = Idx
    BY <1>4 DEF CheckDone, AtEnd, Goto, Idx, N
  <2>2. \A i : PCLabelMismatch(i)' = PCLabelMismatch(i)
    BY <2>1 DEF PCLabelMismatch
  <2>3. \A i \in Idx : i < cur
    BY <1>0, <2>1 DEF Idx
  <2> QED BY <2>1, <2>2, <2>3 DEF PCLabelInv
<1>5. CASE EmitPush \/ EmitOther \/ GenDone
  <2>1. /\ phase = "gen" /\ phase' \in {"gen", "ok"}
        /\ UNCHANGED <<code, pc, errors>> /\ Idx' = Idx
    BY <1>5 DEF EmitPush, EmitOther, GenDone, At, AtEnd, Advance, Goto, Idx, N
  <2>2. \A i : PCLabelMismatch(i)' = PCLabelMismatch(i)
    BY <2>1 DEF PCLabelMismatch
  <2> QED BY <2>1, <2>2 DEF PCLabelInv
<1> QED
  BY <1>1, <1>2, <1>3, <1>4, <1>5 DEF Next, Gen

\* PCLabelInv holds in every reachable state.
LEMMA PCLabelInvariant == Spec => []PCLabelInv
<1>1. Init => PCLabelInv
  BY DEF Init, PCLabelInv
<1> QED
  BY <1>1, PCLabelStep, LayoutTypeOK, HandledInvariant, SettledInvariant, ChainInvariant, PTL
  DEF Spec

\* The sizes of a layout are one of the size assignments that Layouts tries.
LEMMA LayoutSizes ==
  ASSUME NEW c \in Programs, NEW p0, NEW sz, NEW offset, IsLayout(c, p0, sz, offset)
  PROVE  sz \in Layouts(c, p0)
<1> DEFINE n == Len(c)
           ch == [i \in 1..n |-> IF c[i].kind = "push" THEN sz[i] ELSE 0]
           SizeOf(g, i) == CASE c[i].kind = "op"    -> c[i].imm
                             [] c[i].kind = "empty" -> 0
                             [] c[i].kind = "bytes" -> c[i].len
                             [] c[i].kind = "push"  -> g[i]
           Full(g) == [i \in 1..n |-> SizeOf(g, i)]
<1>1. /\ sz \in [1..n -> Nat] /\ offset \in [1..n -> Nat] /\ Chained(c, sz, offset, n)
      /\ \A i \in 1..n : SizeAllowed(c, p0, sz, i)
  BY DEF IsLayout
<1>2. \A i \in 1..n : c[i].kind \in {"op", "empty", "bytes", "push"}
  BY ProgramType
<1>3. ch \in SizeChoices(c)
  <2>1. ASSUME NEW i \in 1..n PROVE ch[i] \in 0..MaxPush /\ (c[i].kind # "push" => ch[i] = 0)
    <3>1. c[i].kind = "push" => sz[i] <= MaxPush
      BY <1>1 DEF SizeAllowed
    <3>2. sz[i] \in Nat
      BY <1>1
    <3> QED BY <3>1, <3>2, MaxPushAssumption
  <2>2. ch \in [1..n -> 0..MaxPush]
    BY <2>1
  <2> QED BY <2>1, <2>2 DEF SizeChoices
<1>4. Full(ch) \in Sizes(c)
  <2>1. Sizes(c) = {Full(g) : g \in SizeChoices(c)}
    BY Zenon DEF Sizes
  <2> HIDE DEF ch, Full
  <2> QED BY <1>3, <2>1
<1>5. Full(ch) = sz
  <2>1. ASSUME NEW i \in 1..n PROVE SizeOf(ch, i) = sz[i]
    BY <1>1, <1>2 DEF SizeAllowed
  <2>2. sz = [i \in 1..n |-> sz[i]]
    BY <1>1
  <2> HIDE DEF SizeOf
  <2> QED BY <2>1, <2>2
<1>6. Offsets(c, sz) = offset
  BY <1>1, ChainedOffsets
<1> HIDE DEF Full, ch
<1> QED BY <1>4, <1>5, <1>6 DEF Layouts

\* Assembly and Layout speak of the same layouts.
LEMMA SameLayouts ==
  /\ \A e, o : Abstract!Value(e, o) = Value(e, o)
  /\ \A c : Abstract!Monotone(c) = Monotone(c)
  /\ \A c, sz : Abstract!Offsets(c, sz) = Offsets(c, sz)
  /\ \A c, p0, sz, o : Abstract!IsLayout(c, p0, sz, o) = IsLayout(c, p0, sz, o)
  /\ \A c, p0 : Abstract!Layouts(c, p0) = Layouts(c, p0)
  /\ \A c, p0, sz : Abstract!Least(c, p0, sz) = Least(c, p0, sz)
  /\ Abstract!NoAssert = NoAssert
<1>1. /\ \A e : Abstract!UsesLabels(e) = UsesLabels(e)
      /\ \A o, l : Abstract!LabelPC(o, l) = LabelPC(o, l)
      /\ \A a, b : Abstract!EuclidDiv(a, b) = EuclidDiv(a, b)
      /\ \A v : Abstract!ByteLen(v) = ByteLen(v)
      /\ \A c, sz, i : Abstract!EncodedSize(c, sz, i) = EncodedSize(c, sz, i)
      /\ Abstract!NoAssert = NoAssert /\ Abstract!Unsized = Unsized
  <2>1. /\ \A e : Abstract!UsesLabels(e) = UsesLabels(e)
        /\ \A o, l : Abstract!LabelPC(o, l) = LabelPC(o, l)
    BY DEF Abstract!UsesLabels, UsesLabels, Abstract!LabelPC, LabelPC
  <2>2. ASSUME NEW a, NEW b PROVE Abstract!EuclidDiv(a, b) = EuclidDiv(a, b)
    BY Zenon DEF Abstract!EuclidDiv, EuclidDiv
  <2>4. ASSUME NEW v PROVE Abstract!ByteLen(v) = ByteLen(v)
    BY Zenon DEF Abstract!ByteLen, ByteLen, Abstract!Cardinality, Cardinality
  <2>3. /\ \A c, sz, i : Abstract!EncodedSize(c, sz, i) = EncodedSize(c, sz, i)
        /\ Abstract!NoAssert = NoAssert /\ Abstract!Unsized = Unsized
    BY Zenon DEF Abstract!EncodedSize, EncodedSize, Abstract!NoAssert, NoAssert,
       Abstract!Unsized, Unsized
  <2> QED BY <2>1, <2>2, <2>3, <2>4
<1>2. \A e, o : Abstract!Divisor(e, o) = Divisor(e, o)
  BY <1>1, Zenon DEF Abstract!Divisor, Divisor
<1>3. /\ \A e, o : Abstract!Value(e, o) = Value(e, o)
      /\ \A e, o : Abstract!EvalFails(e, o) = EvalFails(e, o)
  BY <1>1, <1>2, Zenon DEF Abstract!Value, Value, Abstract!EvalFails, EvalFails
<1>4. /\ \A c, sz, o, n : Abstract!Chained(c, sz, o, n) = Chained(c, sz, o, n)
      /\ \A c, sz, o, i : Abstract!ArgFits(c, sz, o, i) = ArgFits(c, sz, o, i)
      /\ \A v, p0 : Abstract!AutoSize(v, p0) = AutoSize(v, p0)
      /\ \A c, i : Abstract!BytesValid(c, i) = BytesValid(c, i)
      /\ \A c : Abstract!Monotone(c) = Monotone(c)
  BY <1>1, <1>3 DEF Abstract!Chained, Chained, Abstract!ArgFits, ArgFits, Abstract!AutoSize,
     AutoSize, Abstract!BytesValid, BytesValid, Abstract!Monotone, Monotone
<1>5. \A c, p0, sz, i : Abstract!SizeAllowed(c, p0, sz, i) = SizeAllowed(c, p0, sz, i)
  BY <1>1, <1>4 DEF Abstract!SizeAllowed, SizeAllowed
<1>6. \A c, p0, sz, o : Abstract!IsLayout(c, p0, sz, o) = IsLayout(c, p0, sz, o)
  BY <1>4, <1>5 DEF Abstract!IsLayout, IsLayout
<1>7. \A c, sz : Abstract!Offsets(c, sz) = Offsets(c, sz)
  BY <1>1, Zenon DEF Abstract!Offsets, Offsets
<1>8. \A c : Abstract!Sizes(c) = Sizes(c)
  BY Zenon DEF Abstract!Sizes, Sizes, Abstract!SizeChoices, SizeChoices
<1>9. \A c, p0 : Abstract!Layouts(c, p0) = Layouts(c, p0)
  BY <1>6, <1>7, <1>8 DEF Abstract!Layouts, Layouts
<1>10. \A c, p0, sz : Abstract!Least(c, p0, sz) = Least(c, p0, sz)
  BY <1>9, Zenon DEF Abstract!Least, Least
<1> QED BY <1>1, <1>3, <1>4, <1>6, <1>7, <1>9, <1>10

\* A program whose arguments only grow is refused for a good reason: no layout, or a PC label
\* that contradicts the least one (compiler.go:184-214).
LEMMA RefusedMayFail ==
  ASSUME TypeOK, NeverAboveLeast, FailureJustified, PCLabelInv, phase = "check", errors # {}
  PROVE  Abstract!MayFail
<1>1. SUFFICES ASSUME Monotone(code), NEW sz \in Layouts(code, push0), Least(code, push0, sz)
               PROVE  ~Abstract!AssertionsHold(code, Offsets(code, sz))
  BY SameLayouts DEF Abstract!MayFail
<1>2. OnlyPCLabels
  BY <1>1 DEF FailureJustified, OnlyPCLabels
<1>3. PICK e \in errors : e[2] = "pcLabel" /\ PCLabelMismatch(e[1]) /\ e[1] \in Idx
  BY <1>2 DEF OnlyPCLabels, PCLabelInv, TypeOK
<1>4. IsLayout(code, push0, size, pc) /\ code \in Programs
  BY <1>2 DEF PCLabelInv, TypeOK
<1>5. size \in Layouts(code, push0)
  BY <1>4, LayoutSizes
<1>6. sz = size
  <2>1. sz \in [1..Len(code) -> Nat] /\ size \in [1..Len(code) -> Nat]
    BY <1>4 DEF Layouts, IsLayout
  <2>2. ASSUME NEW i \in 1..Len(code) PROVE sz[i] = size[i]
    <3>1. sz[i] <= size[i]
      BY <1>1, <1>5 DEF Least
    <3>2. size[i] <= sz[i]
      BY <1>1 DEF NeverAboveLeast, Least
    <3> QED BY <2>1, <3>1, <3>2
  <2> QED BY <2>1, <2>2
<1>7. Offsets(code, sz) = pc
  BY <1>4, <1>6, ChainedOffsets DEF IsLayout
<1>8. ~Abstract!AssertionsHold(code, pc)
  BY <1>3, SameLayouts DEF Abstract!AssertionsHold, PCLabelMismatch, Idx, N
<1> QED BY <1>7, <1>8

\* Every step of the compiler answers, refuses, or changes nothing that Assembly can see.
LEMMA AnswerStep ==
  TypeOK /\ SettledInv /\ OutputIsLayout /\ NeverAboveLeast /\ FailureJustified /\ PCLabelInv
    /\ [Next]_vars => [Abstract!AssemblyNext]_(Abstract!avars)
<1> SUFFICES ASSUME TypeOK, SettledInv, OutputIsLayout, NeverAboveLeast, FailureJustified,
                    PCLabelInv, [Next]_vars
             PROVE  Abstract!AssemblyNext \/ UNCHANGED <<code, push0, Result>>
  BY DEF Abstract!avars
<1>1. UNCHANGED <<code, push0>>
  BY DEF Next, Pre, Loop, Gen, Done, vars, PreOther, PreBytes, PrePushLater, PrePushFails,
         PrePushAssign, PreDone, AssignPC, PCDone, EvalSkip, EvalStore, EvalBump, EvalFail,
         EvalDone, CheckPCLabel, CheckDone, EmitPush, EmitOther, GenDone, Advance, Goto
<1>2. CASE UNCHANGED vars \/ Done
  <2>1. UNCHANGED vars
    BY <1>2 DEF Done
  <2> QED BY <2>1 DEF vars, Result
<1>3. CASE Pre \/ Loop \/ CheckPCLabel \/ EmitPush \/ EmitOther
  <2>1. phase \notin {"ok", "failed"} /\ phase' \notin {"ok", "failed"}
    BY <1>3 DEF Pre, Loop, PreOther, PreBytes, PrePushLater, PrePushFails, PrePushAssign, PreDone,
         AssignPC, PCDone, EvalSkip, EvalStore, EvalBump, EvalFail, EvalDone, CheckPCLabel,
         EmitPush, EmitOther, At, AtEnd, Advance, Goto
  <2>2. Result = Abstract!Pending /\ Result' = Abstract!Pending
    BY <2>1 DEF Result, Abstract!Pending
  <2> QED BY <1>1, <2>2
<1>4. CASE CheckDone
  <2>1. phase = "check" /\ phase' = IF errors = {} THEN "gen" ELSE "failed"
    BY <1>4 DEF CheckDone, AtEnd, Goto
  <2>2. Result = Abstract!Pending
    BY <2>1 DEF Result, Abstract!Pending
  <2>3. CASE errors = {}
    <3>1. Result' = Abstract!Pending
      BY <2>1, <2>3 DEF Result, Abstract!Pending
    <3> QED BY <1>1, <2>2, <3>1
  <2>4. CASE errors # {}
    <3>1. Result' = Abstract!Failed
      BY <2>1, <2>4 DEF Result, Abstract!Failed
    <3>2. Abstract!MayFail
      BY <2>1, <2>4, RefusedMayFail
    <3> QED BY <1>1, <2>2, <3>1, <3>2 DEF Abstract!AssemblyNext, Abstract!Fail
  <2> QED BY <2>3, <2>4
<1>5. CASE GenDone
  <2>1. phase = "gen" /\ phase' = "ok" /\ UNCHANGED <<pc, size, data>>
    BY <1>5 DEF GenDone, AtEnd, Goto
  <2>2. Result = Abstract!Pending
    BY <2>1 DEF Result, Abstract!Pending
  <2>3. Result' = [is |-> "layout", size |-> size, pc |-> pc, data |-> data]
    BY <2>1 DEF Result
  <2>4. /\ IsLayout(code, push0, size, pc)
        /\ \A i \in Idx : IsPush(i) => data[i] = Value(code[i].expr, pc)
        /\ \A i \in Idx : ~PCLabelMismatch(i)
        /\ Monotone(code) => Least(code, push0, size)
    BY <2>1 DEF OutputIsLayout, PCLabelInv, NeverAboveLeast
  <2>5. Abstract!AssertionsHold(code, pc) /\ Abstract!Encodes(code, data, pc)
    BY <2>4, SameLayouts DEF Abstract!AssertionsHold, Abstract!Encodes, PCLabelMismatch, IsPush, Idx, N
  <2>6. Abstract!Accepts(Result')
    BY <2>3, <2>4, <2>5, SameLayouts DEF Abstract!Accepts
  <2>7. Result' # Abstract!Pending
    BY <2>3 DEF Abstract!Pending
  <2> QED BY <1>1, <2>2, <2>6, <2>7 DEF Abstract!AssemblyNext, Abstract!Answer
<1> QED
  BY <1>2, <1>3, <1>4, <1>5 DEF Next, Gen

\* Laying out a program keeps the safety half of what Assembly promises: whatever the rounds
\* do in between, the answer is a layout that no PC label contradicts, the least one if
\* arguments only grow, and such a program is refused only when it has none.
THEOREM LayoutRefinesAssembly ==
  Spec => Abstract!AssemblyInit /\ [][Abstract!AssemblyNext]_(Abstract!avars)
<1>1. Init => Abstract!AssemblyInit
  BY DEF Init, Abstract!AssemblyInit, Abstract!Pending, Result
<1> QED
  BY <1>1, AnswerStep, LayoutTypeOK, SettledInvariant, LayoutOutputIsLayout,
     LayoutNeverAboveLeast, LayoutFailureJustified, PCLabelInvariant, PTL
  DEF Spec
===============================================================================
