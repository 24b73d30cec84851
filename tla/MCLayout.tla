------------------------------- MODULE MCLayout -------------------------------
(****************************************************************************)
(* Instances of Layout.  A byte has 4 values instead of 256 and the largest *)
(* PUSH has 3 bytes instead of 32, so a few instructions of code push       *)
(* offsets over every size boundary.                                        *)
(****************************************************************************)
EXTENDS Layout

MCMaxPush == 3
MCLimit   == [n \in 0..MCMaxPush |-> 4 ^ n]

Lin(k, plus, minus) == [op |-> "lin", k |-> k, plus |-> plus, minus |-> minus]
Push(explicit, e)   == [kind |-> "push", explicit |-> explicit, expr |-> e]
Bytes(n)            == [kind |-> "bytes", len |-> n, expr |-> Lin(0, 0, 0)]
Empty(a)            == [kind |-> "empty", assert |-> a]
Op(imm)             == [kind |-> "op", imm |-> imm]

BytesBad            == [kind |-> "bytes", len |-> 0, expr |-> [Lin(0, 0, 0) EXCEPT !.op = "bad"]]

\* Growing arguments: no label is subtracted.  The constants put the value next
\* to the one-, two- and three-byte boundaries 4, 16 and 64.
GrowingPushes ==
  {Push(x, Lin(k, 5, 0)) : x \in {Unsized, 1}, k \in {0, 7, 55}}
  \cup {Push(Unsized, Lin(k, 0, 0)) : k \in {0, 64}}
  \cup {Push(2, Lin(7, 2, 0)), Push(Unsized, Lin(0, 2, 0))}

\* Two PUSHes that can enlarge each other, data between them, a PC label.
GrowingPrograms ==
  {<<p, Bytes(n), q, Op(1), Empty(a)>> :
      p \in GrowingPushes, q \in GrowingPushes, n \in {0, 9}, a \in {NoAssert, 7}}

AnyExprs ==
  {Lin(k, 5, minus) : k \in {-5, 2}, minus \in {0, 3}}
  \cup {Lin(3, 0, 0), Lin(-1, 0, 0)}
  \cup {[op |-> "div", k |-> 9, plus |-> 5, minus |-> m] : m \in {1, 4}}
  \cup {[op |-> "div", k |-> 9, plus |-> 2, minus |-> 5]}
  \cup {[op |-> "bad", k |-> 0, plus |-> l, minus |-> 0] : l \in {0, 5}}

MixedPrograms ==
  {<<Push(x, p), b, Push(Unsized, q), Op(0), Empty(a)>> :
      x \in {Unsized, 1}, p \in AnyExprs, q \in AnyExprs, a \in {NoAssert, 6},
      b \in {Bytes(2), BytesBad, [Bytes(0) EXCEPT !.expr = Lin(0, 3, 0)]}}

AllPrograms == GrowingPrograms \cup MixedPrograms
===============================================================================
