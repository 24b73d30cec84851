------------------------------ MODULE Immediates ------------------------------
(****************************************************************************)
(* The immediate byte of DUPN, SWAPN and EXCHANGE (internal/evm/ops.go):    *)
(* how arguments are encoded in it, decoded from it, and which bytes the    *)
(* disassembler takes for immediates.                                       *)
(****************************************************************************)
EXTENDS Integers, Sequences

Bytes == 0..255

-----------------------------------------------------------------------------
(* DUPN and SWAPN: one stack depth.                                         *)

DecodeSingle(x) == IF x <= 90 THEN x + 17 ELSE x - 20

ValidSingle(x) == x <= 90 \/ x >= 128

DepthOK(depth) == depth \in 17..235

EncodeSingleGapless(depth) == depth - 17   \* mutant: no gap for PUSH and JUMPDEST

EncodeSingle(depth) == IF depth <= 107 THEN depth - 17 ELSE depth + 20

-----------------------------------------------------------------------------
(* EXCHANGE: two stack positions n < m.                                     *)

DecodePair(x) ==
  LET k == IF x <= 79 THEN x ELSE x - 48
      q == k \div 16
      r == k % 16
  IN  IF q < r THEN <<q + 1, r + 1>> ELSE <<r + 1, 29 - q>>

ValidPair(x) == x <= 79 \/ x >= 208

PairOK(n, m) == n \in 1..13 /\ n < m /\ m <= 29 /\ n + m <= 30

\* The number of the pair: below 17 the positions are its digits.
PairNumber(n, m) == IF m <= 16 THEN (n - 1) * 16 + m - 1 ELSE (29 - m) * 16 + n - 1

EncodePair(n, m) == LET k == PairNumber(n, m) IN IF k > 79 THEN k + 48 ELSE k

-----------------------------------------------------------------------------
(* The methods of Op.                                                       *)

ValidateImmediate(op, x) ==
  CASE op \in {"DUPN", "SWAPN"} -> ValidSingle(x)
    [] op = "EXCHANGE"          -> ValidPair(x)
    [] OTHER                    -> FALSE

DecodeImmediate(op, x) == IF op = "EXCHANGE" THEN DecodePair(x) ELSE <<DecodeSingle(x)>>

ArgsOK(op, args) ==
  IF op = "EXCHANGE" THEN Len(args) = 2 /\ PairOK(args[1], args[2])
  ELSE Len(args) = 1 /\ DepthOK(args[1])

EncodeImmediateArgs(op, args) ==
  IF op = "EXCHANGE" THEN EncodePair(args[1], args[2]) ELSE EncodeSingle(args[1])

\* What the operation does to the stack, bottom items left out: the number of
\* items it needs, and the position whose item is found at each position after it.
StackIn(op, x) ==
  IF op = "EXCHANGE" THEN DecodePair(x)[2] ELSE DecodeSingle(x)

StackOut(op, x) ==
  LET need == StackIn(op, x)
      swap(a, b) == [i \in 1..need |-> IF i = a THEN b ELSE IF i = b THEN a ELSE i]
  IN  CASE op = "DUPN"     -> [i \in 1..need + 1 |-> IF i = 1 THEN need ELSE i - 1]
        [] op = "SWAPN"    -> swap(1, need)
        [] op = "EXCHANGE" -> swap(DecodePair(x)[1], DecodePair(x)[2])
===============================================================================
