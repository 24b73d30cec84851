------------------------------- MODULE Assembly -------------------------------
(****************************************************************************)
(* What laying out a program promises: an answer, which is either a set of  *)
(* sizes and offsets under which every argument is encoded exactly, or a    *)
(* failure.  A program whose arguments only grow with the code and that has *)
(* a layout gets the least one.                                             *)
(****************************************************************************)
EXTENDS Instructions

VARIABLES
  code,     \* the program
  push0,    \* does the fork have PUSH0?
  answer    \* [is |-> "pending" / "failed"] or [is |-> "layout", size, pc, data]

Pending == [is |-> "pending"]
Failed  == [is |-> "failed"]

avars == <<code, push0, answer>>

\* The program carries no PC label that contradicts the offsets.
AssertionsHold(c, offset) ==
  \A i \in 1..Len(c) :
    c[i].kind = "empty" /\ c[i].assert # NoAssert => c[i].assert = offset[i]

\* The data of every PUSH is its argument under the offsets it is output at.
Encodes(c, d, offset) ==
  \A i \in 1..Len(c) : c[i].kind = "push" => d[i] = Value(c[i].expr, offset)

AssemblyInit ==
  /\ code \in Programs
  /\ push0 \in BOOLEAN
  /\ answer = Pending

Accepts(a) ==
  /\ a.is = "layout"
  /\ IsLayout(code, push0, a.size, a.pc)
  /\ AssertionsHold(code, a.pc)
  /\ Encodes(code, a.data, a.pc)
  /\ Monotone(code) => Least(code, push0, a.size)

Answer ==
  /\ answer = Pending
  /\ UNCHANGED <<code, push0>>
  /\ answer' # Pending
  /\ Accepts(answer')

\* With growing arguments only a program without layout fails, or one whose
\* PC labels contradict a layout.
MayFail ==
  Monotone(code) =>
    \A sz \in Layouts(code, push0) :
      Least(code, push0, sz) => ~AssertionsHold(code, Offsets(code, sz))

Fail ==
  /\ answer = Pending
  /\ MayFail
  /\ answer' = Failed
  /\ UNCHANGED <<code, push0>>

AssemblyNext == Answer \/ Fail

\* Every program is answered.
AssemblySpec ==
  AssemblyInit /\ [][AssemblyNext]_avars /\ <>(answer # Pending)
===============================================================================
