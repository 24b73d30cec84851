----------------------------- MODULE Instructions -----------------------------
(****************************************************************************)
(* The flat instruction list that macro expansion leaves behind, and what   *)
(* it means for sizes and offsets to be a layout of it.  Shared by          *)
(* Assembly (what the assembler promises) and Layout (how it computes it).  *)
(****************************************************************************)
EXTENDS Integers, Sequences, FiniteSets

CONSTANTS
  Programs,     \* the instruction lists to lay out
  MaxPush,      \* largest PUSH size in bytes (32 in the EVM)
  Limit         \* Limit[n]: least value that needs more than n bytes (256^n)

ASSUME MaxPushAssumption == MaxPush \in Nat \ {0}
ASSUME LimitAssumption   == Limit \in [0..MaxPush -> Nat]

Unsized  == -1  \* a plain PUSH declares no size
NoAssert == -1  \* an empty instruction that is no PC label

(****************************************************************************)
(* Expressions.  What layout can tell apart is whether an expression uses   *)
(* labels, how its value moves with them, and whether evaluation fails:     *)
(*   lin   k + @plus - @minus          (label 0: absent, counts zero)       *)
(*   div   k / (@plus - @minus)        (fails on zero)                      *)
(*   bad   fails whatever the offsets are, e.g. an undefined macro          *)
(* A label is the index of the instruction it points to.                    *)
(****************************************************************************)
Exprs(n) == [op : {"lin", "div", "bad"}, k : Int, plus : 0..n, minus : 0..n]

Instrs(n) ==
       [kind : {"op"}, imm : 0..1]
  \cup [kind : {"empty"}, assert : Nat \cup {NoAssert}]
  \cup [kind : {"bytes"}, len : Nat, expr : Exprs(n)]
  \cup [kind : {"push"}, explicit : (1..MaxPush) \cup {Unsized}, expr : Exprs(n)]

ASSUME ProgramsAssumption ==
  \A p \in Programs : p \in Seq(Instrs(Len(p)))

UsesLabels(e) == e.plus # 0 \/ e.minus # 0

LabelPC(offset, l) == IF l = 0 THEN 0 ELSE offset[l]

Divisor(e, offset) == LabelPC(offset, e.plus) - LabelPC(offset, e.minus)

EvalFails(e, offset) ==
  \/ e.op = "bad"
  \/ e.op = "div" /\ Divisor(e, offset) = 0

\* big.Int.Div is Euclidean: the remainder is never negative.
EuclidDiv(a, b) == IF b > 0 THEN a \div b ELSE -(a \div (-b))

Value(e, offset) ==
  IF e.op = "lin" THEN e.k + Divisor(e, offset)
                  ELSE EuclidDiv(e.k, Divisor(e, offset))

\* Length of v.Bytes(); a value too large for any PUSH has length MaxPush + 1.
ByteLen(v) == Cardinality({n \in 0..MaxPush : Limit[n] <= v})

(* mutant: an empty value takes no bytes, with or without PUSH0 *)
AutoSizeIgnoringFork(v, push0) == ByteLen(v)

\* autoPushSize, where push0 says whether the fork has PUSH0.
AutoSize(v, push0) == IF ByteLen(v) = 0 /\ ~push0 THEN 1 ELSE ByteLen(v)

\* inst.encodedSize() of instruction i of program c when data fields have sizes sz.
EncodedSize(c, sz, i) ==
  (IF c[i].kind \in {"op", "push"} THEN 1 ELSE 0) + sz[i]

-----------------------------------------------------------------------------
(* Layouts *)

\* The offsets up to instruction n follow from the sizes.
Chained(c, sz, offset, n) ==
  /\ n >= 1 => offset[1] = 0
  /\ \A i \in 1..(n - 1) : offset[i + 1] = offset[i] + EncodedSize(c, sz, i)

\* The argument of PUSH i can be encoded in its data field.
ArgFits(c, sz, offset, i) ==
  /\ ~EvalFails(c[i].expr, offset)
  /\ Value(c[i].expr, offset) >= 0
  /\ ByteLen(Value(c[i].expr, offset)) <= sz[i]

SizeAllowed(c, push0, sz, i) ==
  CASE c[i].kind = "op"    -> sz[i] = c[i].imm
    [] c[i].kind = "empty" -> sz[i] = 0
    [] c[i].kind = "bytes" -> sz[i] = c[i].len
    [] c[i].kind = "push"  ->
         /\ sz[i] <= MaxPush
         /\ IF c[i].explicit # Unsized THEN sz[i] = c[i].explicit
            ELSE IF UsesLabels(c[i].expr) THEN sz[i] >= 1
            ELSE sz[i] = AutoSize(c[i].expr.k, push0)

\* #bytes arguments must be computable without labels.
BytesValid(c, i) ==
  c[i].kind = "bytes" => ~UsesLabels(c[i].expr) /\ c[i].expr.op = "lin"

IsLayout(c, push0, sz, offset) ==
  /\ sz \in [1..Len(c) -> Nat]
  /\ offset \in [1..Len(c) -> Nat]
  /\ Chained(c, sz, offset, Len(c))
  /\ \A i \in 1..Len(c) :
       /\ SizeAllowed(c, push0, sz, i)
       /\ BytesValid(c, i)
       /\ c[i].kind = "push" => ArgFits(c, sz, offset, i)

\* The offsets that a choice of sizes implies.
Offsets(c, sz) ==
  LET o[i \in 1..Len(c)] == IF i = 1 THEN 0 ELSE o[i - 1] + EncodedSize(c, sz, i - 1)
  IN  o

SizeChoices(c) ==
  {sz \in [1..Len(c) -> 0..MaxPush] : \A i \in 1..Len(c) : c[i].kind # "push" => sz[i] = 0}

\* All size assignments of a program: PUSH sizes vary, the others are given.
Sizes(c) ==
  {[i \in 1..Len(c) |->
      CASE c[i].kind = "op"    -> c[i].imm
        [] c[i].kind = "empty" -> 0
        [] c[i].kind = "bytes" -> c[i].len
        [] c[i].kind = "push"  -> ch[i]] : ch \in SizeChoices(c)}

\* The layouts of program c, as the sizes of its instructions.
Layouts(c, push0) == {sz \in Sizes(c) : IsLayout(c, push0, sz, Offsets(c, sz))}

\* No argument gets smaller when code is inserted anywhere in the program.
Monotone(c) ==
  \A i \in 1..Len(c) :
    c[i].kind = "push" => c[i].expr.op = "lin" /\ c[i].expr.minus = 0 /\ c[i].expr.k >= 0

\* sz is pointwise at most every layout of c.
Least(c, push0, sz) ==
  \A other \in Layouts(c, push0) : \A i \in 1..Len(c) : sz[i] <= other[i]
===============================================================================
