------------------------------ MODULE StackProofs ------------------------------
(****************************************************************************)
(* Proofs about the stack analysis and the machine that runs what it has    *)
(* found nothing to say about.                                              *)
(*                                                                          *)
(* Phase 1 is right because of what it leaves behind when its worklist is   *)
(* empty: each reached block has handed its exit to every successor, and    *)
(* the exit is where the walk over the block ends that starts from the      *)
(* entry.  Phase 2 repeats these walks.  If none of them finds an error the *)
(* machine can be compared with them, statement by statement: it has at     *)
(* least as many items as the walk, since merges and label comments only    *)
(* take items away; and, when the checks of depths have looked at every     *)
(* block, exactly as many.                                                  *)
(*                                                                          *)
(* The other way round, code that is balanced is walked with the heights it *)
(* is balanced at, but for inputs that are not inferred yet: no walk ever   *)
(* asks for more than are left, and when a round asks for none all are      *)
(* there, so that phase 2 finds nothing to say.                             *)
(****************************************************************************)
EXTENDS StackRun, Basics, SequenceTheorems

-----------------------------------------------------------------------------
(* The symbolic stack *)

Stacks == [depth : Nat, wild : BOOLEAN, inferred : BOOLEAN, grown : Nat]

\* What a comment is made of.
LEMMA CommentType ==
  ASSUME NEW c \in Comments
  PROVE  c.len \in Int /\ c.wild \in BOOLEAN /\ (Given(c) => c.len \in Nat)
<1>1. CASE c \in [len : Nat, wild : BOOLEAN]
  BY <1>1
<1>2. CASE c \in {NoComment, Malformed}
  <2>1. c.len \in {-1, -2} /\ c.wild = FALSE
    BY <1>2 DEF NoComment, Malformed
  <2>2. ~(c.len >= 0) /\ c.len \in Int
    BY <2>1
  <2> QED BY <2>1, <2>2 DEF Given
<1> QED BY <1>1, <1>2 DEF Comments

\* What a statement is made of.
LEMMA OpType ==
  ASSUME NEW op \in Ops
  PROVE  /\ op.in \in Nat /\ op.out \in Nat /\ op.note \in Comments
         /\ op.jumps \in Seq(Jumps)
BY DEF Ops

\* Inventing items keeps a stack a stack.
LEMMA ReachType ==
  ASSUME NEW s \in Stacks, NEW n \in Nat
  PROVE  /\ Reach(s, n) \in Stacks /\ Reach(s, n).inferred = s.inferred
         /\ Reach(s, n).wild = s.wild
         /\ Reach(s, n).depth = IF n > s.depth THEN n ELSE s.depth
         /\ Reach(s, n).grown = IF s.inferred /\ n > s.depth
                                THEN s.grown + (n - s.depth) ELSE s.grown
<1>1. CASE n > s.depth
  <2>1. n - s.depth \in Nat /\ s.depth + (n - s.depth) = n
    BY <1>1 DEF Stacks
  <2>2. Reach(s, n) = [s EXCEPT !.depth = n,
                                !.grown = IF s.inferred THEN s.grown + (n - s.depth) ELSE s.grown]
    BY <1>1, <2>1 DEF Reach, GrowBottom, Stacks
  <2>3. s.grown \in Nat /\ s.grown + (n - s.depth) \in Nat
    BY <2>1 DEF Stacks
  <2> QED BY <1>1, <2>2, <2>3 DEF Stacks
<1>2. CASE ~(n > s.depth)
  BY <1>2 DEF Reach, Stacks
<1> QED BY <1>1, <1>2

\* A comment keeps a stack a stack.
LEMMA CommentStack ==
  ASSUME NEW s \in Stacks, NEW c \in Comments, NEW e \in BOOLEAN
  PROVE  /\ CheckComment(s, c, e) \in Stacks
         /\ CheckComment(s, c, e).inferred = s.inferred
         /\ CheckComment(s, c, e).grown >= s.grown
<1> DEFINE w == [s EXCEPT !.wild = c.wild]
<1>1. w \in Stacks /\ w.inferred = s.inferred /\ w.grown = s.grown /\ w.depth = s.depth
  BY CommentType DEF Stacks
<1>2. s.grown \in Nat /\ s.depth \in Nat
  BY DEF Stacks
<1>3. CASE ~Given(c)
  <2>1. CheckComment(s, c, e) = s
    BY <1>3 DEF CheckComment
  <2> QED BY <2>1, <1>2
<1>4. CASE Given(c) /\ c.wild
  <2>1. CheckComment(s, c, e) = Reach(w, c.len)
    BY <1>4 DEF CheckComment
  <2>2. c.len \in Nat
    BY <1>4, CommentType
  <2> HIDE DEF w
  <2>3. /\ Reach(w, c.len) \in Stacks /\ Reach(w, c.len).inferred = s.inferred
        /\ Reach(w, c.len).grown = IF w.inferred /\ c.len > w.depth
                                   THEN w.grown + (c.len - w.depth) ELSE w.grown
    BY <1>1, <2>2, ReachType
  <2>4. Reach(w, c.len).grown >= s.grown
    BY <1>1, <1>2, <2>2, <2>3
  <2> QED BY <2>1, <2>3, <2>4
<1>5. CASE Given(c) /\ ~c.wild /\ (e \/ c.len > s.depth)
  <2>1. CheckComment(s, c, e) = w
    BY <1>5 DEF CheckComment
  <2> HIDE DEF w
  <2> QED BY <1>1, <1>2, <2>1
<1>6. CASE Given(c) /\ ~c.wild /\ ~(e \/ c.len > s.depth)
  <2>1. CheckComment(s, c, e) = [w EXCEPT !.depth = c.len]
    BY <1>6 DEF CheckComment
  <2>2. c.len \in Nat
    BY <1>6, CommentType
  <2> HIDE DEF w
  <2> QED BY <1>1, <1>2, <2>1, <2>2 DEF Stacks
<1> QED BY <1>3, <1>4, <1>5, <1>6

\* A comment without a wildcard never adds items, and takes some away only at a label that
\* lists fewer.
LEMMA PlainComment ==
  ASSUME NEW s \in Stacks, ~s.wild, NEW c \in Comments, ~c.wild, NEW e \in BOOLEAN
  PROVE  /\ ~CheckComment(s, c, e).wild
         /\ CheckComment(s, c, e).grown = s.grown
         /\ CheckComment(s, c, e).depth <= s.depth
         /\ e \/ ~Given(c) \/ c.len >= s.depth => CheckComment(s, c, e).depth = s.depth
<1> DEFINE w == [s EXCEPT !.wild = c.wild]
<1>1. w \in Stacks /\ ~w.wild /\ w.grown = s.grown /\ w.depth = s.depth
  BY CommentType DEF Stacks
<1>2. s.grown \in Nat /\ s.depth \in Nat
  BY DEF Stacks
<1>3. CASE ~Given(c)
  <2>1. CheckComment(s, c, e) = s
    BY <1>3 DEF CheckComment
  <2> QED BY <2>1, <1>2
<1>5. CASE Given(c) /\ (e \/ c.len > s.depth)
  <2>1. CheckComment(s, c, e) = w
    BY <1>5 DEF CheckComment
  <2> HIDE DEF w
  <2> QED BY <1>1, <1>2, <2>1
<1>6. CASE Given(c) /\ ~(e \/ c.len > s.depth)
  <2>1. CheckComment(s, c, e) = [w EXCEPT !.depth = c.len]
    BY <1>6 DEF CheckComment
  <2>2. c.len \in Nat
    BY <1>6, CommentType
  <2> HIDE DEF w
  <2> QED BY <1>1, <1>2, <1>6, <2>1, <2>2 DEF Stacks
<1> QED BY <1>3, <1>5, <1>6

\* A wildcard in force while a statement takes its inputs changes nothing else.
LEMMA OpenedType ==
  ASSUME NEW s \in Stacks, NEW op \in Ops
  PROVE  /\ Opened(s, op) \in Stacks /\ Opened(s, op).inferred = s.inferred
         /\ Opened(s, op).grown = s.grown /\ Opened(s, op).depth = s.depth
         /\ ~op.note.wild => Opened(s, op) = s
BY DEF Opened, Stacks

\* What a statement does with the items.
LEMMA ExchangeType ==
  ASSUME NEW s \in Stacks, NEW op \in Ops
  PROVE  /\ Exchange(s, op) \in Stacks /\ Exchange(s, op).inferred = s.inferred
         /\ Exchange(s, op).wild = s.wild
         /\ Exchange(s, op).depth = (IF op.in > s.depth THEN 0 ELSE s.depth - op.in) + op.out
         /\ Exchange(s, op).grown = IF s.inferred /\ op.in > s.depth
                                    THEN s.grown + (op.in - s.depth) ELSE s.grown
<1>1. op.in \in Nat /\ op.out \in Nat /\ s.depth \in Nat
  BY OpType DEF Stacks
<1> DEFINE r == Reach(s, op.in)
<1>2. /\ r \in Stacks /\ r.inferred = s.inferred /\ r.wild = s.wild
      /\ r.depth = IF op.in > s.depth THEN op.in ELSE s.depth
      /\ r.grown = IF s.inferred /\ op.in > s.depth THEN s.grown + (op.in - s.depth) ELSE s.grown
  BY <1>1, ReachType
<1>3. Exchange(s, op) = [r EXCEPT !.depth = r.depth - op.in + op.out]
  BY DEF Exchange
<1>4. /\ r.depth - op.in + op.out \in Nat
      /\ r.depth - op.in + op.out = (IF op.in > s.depth THEN 0 ELSE s.depth - op.in) + op.out
  BY <1>1, <1>2
<1> HIDE DEF r
<1> QED BY <1>2, <1>3, <1>4 DEF Stacks

\* A statement keeps a stack a stack, and takes no invented item back.
LEMMA ApplyStack ==
  ASSUME NEW s \in Stacks, NEW op \in Ops
  PROVE  /\ Apply(s, op) \in Stacks /\ Apply(s, op).inferred = s.inferred
         /\ Apply(s, op).grown >= s.grown
<1> DEFINE o == Opened(s, op)
           x == Exchange(o, op)
<1>1. s.grown \in Nat /\ op.note \in Comments
  BY OpType DEF Stacks
<1>2. o \in Stacks /\ o.inferred = s.inferred /\ o.grown = s.grown
  BY OpenedType
<1> HIDE DEF o
<1>3. x \in Stacks /\ x.inferred = s.inferred
  BY <1>2, ExchangeType
<1>4. x.grown >= s.grown
  <2>1. x.grown = IF o.inferred /\ op.in > o.depth THEN o.grown + (op.in - o.depth) ELSE o.grown
    BY <1>2, ExchangeType
  <2>2. op.in \in Nat /\ o.depth \in Nat
    BY <1>2, OpType DEF Stacks
  <2> QED BY <1>1, <1>2, <2>1, <2>2
<1> HIDE DEF x
<1>5. Apply(s, op) \in {s, o, CheckComment(x, op.note, TRUE)}
  BY DEF Apply, o, x
<1>6. /\ CheckComment(x, op.note, TRUE) \in Stacks
      /\ CheckComment(x, op.note, TRUE).inferred = x.inferred
      /\ CheckComment(x, op.note, TRUE).grown >= x.grown
  BY <1>1, <1>3, CommentStack
<1>7. x.grown \in Nat /\ CheckComment(x, op.note, TRUE).grown \in Nat
  BY <1>3, <1>6 DEF Stacks
<1>8. CheckComment(x, op.note, TRUE).grown >= s.grown /\ s.grown >= s.grown
  <2>1. \A a, b, c \in Nat : a >= b /\ b >= c => a >= c /\ c >= c
    OBVIOUS
  <2> QED BY <1>1, <1>4, <1>6, <1>7, <2>1, Zenon
<1> QED BY <1>2, <1>3, <1>5, <1>6, <1>8

\* A statement without wildcards, on a stack without one: it takes its inputs, and invents
\* the missing ones where it may.
LEMMA PlainApply ==
  ASSUME NEW s \in Stacks, ~s.wild, NEW op \in Ops, ~op.note.wild
  PROVE  /\ ~Apply(s, op).wild
         /\ op.note # Malformed /\ (op.in <= s.depth \/ s.inferred) =>
              /\ Apply(s, op).depth = (IF op.in > s.depth THEN 0 ELSE s.depth - op.in) + op.out
              /\ Apply(s, op).grown = IF op.in > s.depth
                                      THEN s.grown + (op.in - s.depth) ELSE s.grown
         /\ ApplyErrors(s, op) = {} => op.note # Malformed /\ (op.in <= s.depth \/ s.inferred)
<1> DEFINE x == Exchange(s, op)
<1>1. /\ op.in \in Nat /\ op.out \in Nat /\ op.note \in Comments
      /\ s.depth \in Nat /\ s.inferred \in BOOLEAN
  BY OpType DEF Stacks
<1>2. Opened(s, op) = s
  BY OpenedType
<1>3. x \in Stacks /\ ~x.wild
  BY ExchangeType
<1>4. /\ x.depth = (IF op.in > s.depth THEN 0 ELSE s.depth - op.in) + op.out
      /\ x.grown = IF s.inferred /\ op.in > s.depth THEN s.grown + (op.in - s.depth) ELSE s.grown
  BY ExchangeType
<1>5. Underflows(s, op.in) <=> op.in > s.depth /\ ~s.inferred
  BY DEF Underflows
<1> HIDE DEF x
<1>6. /\ ~CheckComment(x, op.note, TRUE).wild
      /\ CheckComment(x, op.note, TRUE).grown = x.grown
      /\ CheckComment(x, op.note, TRUE).depth = x.depth
  BY <1>1, <1>3, PlainComment
<1>7. Apply(s, op) = IF op.note = Malformed \/ Underflows(s, op.in) THEN s
                     ELSE CheckComment(x, op.note, TRUE)
  BY <1>2 DEF Apply, x
<1>8. ~Apply(s, op).wild
  BY <1>6, <1>7
<1>9. ASSUME op.note # Malformed, op.in <= s.depth \/ s.inferred
      PROVE  Apply(s, op) = CheckComment(x, op.note, TRUE)
  <2>1. ~(op.in <= s.depth /\ op.in > s.depth)
    BY <1>1
  <2> QED BY <1>5, <1>7, <1>9, <2>1
<1>10. ASSUME ApplyErrors(s, op) = {}
       PROVE  op.note # Malformed /\ (op.in <= s.depth \/ s.inferred)
  <2>1. op.note # Malformed
    BY <1>10 DEF ApplyErrors
  <2>2. ~Underflows(s, op.in)
    BY <1>2, <1>10, <2>1 DEF ApplyErrors
  <2>3. op.in > s.depth \/ op.in <= s.depth
    BY <1>1
  <2> QED BY <1>5, <2>1, <2>2, <2>3
<1>11. ASSUME op.note # Malformed, op.in <= s.depth \/ s.inferred
       PROVE  /\ Apply(s, op).depth = (IF op.in > s.depth THEN 0 ELSE s.depth - op.in) + op.out
              /\ Apply(s, op).grown = IF op.in > s.depth
                                      THEN s.grown + (op.in - s.depth) ELSE s.grown
  <2>1. s.inferred \/ ~(op.in > s.depth)
    BY <1>1, <1>11
  <2>2. x.grown = IF op.in > s.depth THEN s.grown + (op.in - s.depth) ELSE s.grown
    BY <1>4, <2>1
  <2> QED BY <1>4, <1>6, <1>9, <1>11, <2>2
<1> QED BY <1>8, <1>10, <1>11

-----------------------------------------------------------------------------
(* The walk over a block *)

\* The stacks before each statement of block b and at its end, when it is entered with s.
WalkOf(b, s) ==
    LET w[k \in 1..(Len(b.ops) + 1)] ==
            IF k = 1 THEN CheckComment(s, b.label, FALSE) ELSE Apply(w[k - 1], b.ops[k - 1])
    IN  w

\* The length of a block.
LEMMA BlockType ==
  ASSUME NEW b, IsBlock(b)
  PROVE  /\ Len(b.ops) \in Nat /\ DOMAIN b.ops = 1..Len(b.ops)
         /\ \A k \in 1..Len(b.ops) : b.ops[k] \in Ops
         /\ b.label \in Comments /\ b.jump \in Int
BY DEF IsBlock, External

\* The walk begins behind the label and goes on statement by statement.
LEMMA WalkEquation ==
  ASSUME NEW b, IsBlock(b), NEW s
  PROVE  /\ WalkOf(b, s)[1] = CheckComment(s, b.label, FALSE)
         /\ \A k \in 1..Len(b.ops) : WalkOf(b, s)[k + 1] = Apply(WalkOf(b, s)[k], b.ops[k])
<1> DEFINE L == Len(b.ops)
           c == CheckComment(s, b.label, FALSE)
           F(f, k) == IF k = 1 THEN c ELSE Apply(f[k - 1], b.ops[k - 1])
           Covered == {n \in Nat : \E f : f = [k \in 1..(n + 1) |-> F(f, k)]}
<1>1. L \in Nat
  BY BlockType
<1>2. 0 \in Covered
  <2> DEFINE f == [k \in 1..1 |-> c]
  <2>1. \A k \in 1..1 : F(f, k) = c
    OBVIOUS
  <2>2. f = [k \in 1..1 |-> F(f, k)]
    <3> HIDE DEF F, c
    <3> QED BY <2>1
  <2>3. 0 + 1 = 1
    OBVIOUS
  <2>4. \E g : g = [k \in 1..(0 + 1) |-> F(g, k)]
    <3> HIDE DEF F, f
    <3> QED BY <2>2, <2>3
  <2> QED BY <2>4
<1>3. ASSUME NEW n \in Nat, n \in Covered PROVE n + 1 \in Covered
  <2>1. PICK f : f = [k \in 1..(n + 1) |-> F(f, k)]
    BY <1>3
  <2> DEFINE g == [k \in 1..(n + 1 + 1) |-> F(f, k)]
  <2>2. \A k \in 1..(n + 1) : k \in 1..(n + 1 + 1) /\ g[k] = f[k]
    <3>1. \A k \in 1..(n + 1) : f[k] = F(f, k)
      <4> HIDE DEF F
      <4> QED BY <2>1
    <3>2. \A k \in 1..(n + 1 + 1) : g[k] = F(f, k)
      <4> HIDE DEF F
      <4> QED OBVIOUS
    <3>3. \A k \in 1..(n + 1) : k \in 1..(n + 1 + 1)
      OBVIOUS
    <3> HIDE DEF F, g
    <3> QED BY <3>1, <3>2, <3>3
  <2>3. ASSUME NEW k \in 1..(n + 1 + 1) PROVE F(f, k) = F(g, k)
    <3>1. k = 1 \/ k - 1 \in 1..(n + 1)
      OBVIOUS
    <3> HIDE DEF g, c
    <3> QED BY <2>2, <3>1
  <2>4. g = [k \in 1..(n + 1 + 1) |-> F(g, k)]
    <3> HIDE DEF F
    <3> QED BY <2>3
  <2> HIDE DEF F, g
  <2> QED BY <2>4
<1>4. L \in Covered
  <2> HIDE DEF Covered
  <2> QED BY <1>1, <1>2, <1>3, InductiveSet
<1>5. \E f : f = [k \in 1..(L + 1) |-> F(f, k)]
  BY <1>4
<1>6. WalkOf(b, s) = CHOOSE f : f = [k \in 1..(L + 1) |-> F(f, k)]
  BY DEF WalkOf
<1> DEFINE w == WalkOf(b, s)
<1>7. w = [k \in 1..(L + 1) |-> F(w, k)]
  <2> HIDE DEF F
  <2> QED BY <1>5, <1>6
<1>8. \A k \in 1..(L + 1) : w[k] = F(w, k)
  <2> HIDE DEF F, w
  <2> QED BY <1>7
<1> HIDE DEF w
<1>9. 1 \in 1..(L + 1) /\ w[1] = c
  <2>1. 1 \in 1..(L + 1)
    BY <1>1
  <2> QED BY <1>8, <2>1
<1>10. ASSUME NEW k \in 1..L PROVE w[k + 1] = Apply(w[k], b.ops[k])
  <2>1. k + 1 \in 1..(L + 1) /\ k + 1 # 1 /\ (k + 1) - 1 = k
    BY <1>1
  <2>2. w[k + 1] = F(w, k + 1)
    BY <1>8, <2>1
  <2> HIDE DEF L, c
  <2> QED BY <2>1, <2>2
<1> QED BY <1>9, <1>10 DEF w

\* A walk that starts from a stack has stacks all along, and invents more and more items.
LEMMA WalkStacks ==
  ASSUME NEW b, IsBlock(b), NEW s \in Stacks, NEW k \in 1..(Len(b.ops) + 1)
  PROVE  /\ WalkOf(b, s)[k] \in Stacks /\ WalkOf(b, s)[k].inferred = s.inferred
         /\ WalkOf(b, s)[k].grown <= WalkOf(b, s)[Len(b.ops) + 1].grown
<1> DEFINE L == Len(b.ops)
           w == WalkOf(b, s)
           Good == {n \in Nat : n + 1 <= L + 1 =>
                       w[n + 1] \in Stacks /\ w[n + 1].inferred = s.inferred}
<1>1. L \in Nat
  BY BlockType
<1>2. /\ w[1] = CheckComment(s, b.label, FALSE)
      /\ \A n \in 1..L : w[n + 1] = Apply(w[n], b.ops[n])
  BY WalkEquation
<1>20. \A n \in 1..L : b.ops[n] \in Ops
  BY BlockType
<1> HIDE DEF w, L
<1>3. 0 \in Good
  <2>0. b.label \in Comments /\ FALSE \in BOOLEAN
    BY BlockType
  <2>1. /\ CheckComment(s, b.label, FALSE) \in Stacks
        /\ CheckComment(s, b.label, FALSE).inferred = s.inferred
    BY <2>0, CommentStack
  <2>2. w[1] \in Stacks /\ w[1].inferred = s.inferred
    BY <1>2, <2>1
  <2> QED BY <2>2
<1>4. ASSUME NEW n \in Nat, n \in Good PROVE n + 1 \in Good
  <2>1. SUFFICES ASSUME n + 1 + 1 <= L + 1
                 PROVE  w[n + 1 + 1] \in Stacks /\ w[n + 1 + 1].inferred = s.inferred
    OBVIOUS
  <2>2. n + 1 \in 1..L /\ w[n + 1] \in Stacks /\ w[n + 1].inferred = s.inferred
    BY <1>1, <1>4, <2>1
  <2>3. w[n + 1 + 1] = Apply(w[n + 1], b.ops[n + 1]) /\ b.ops[n + 1] \in Ops
    BY <1>2, <1>20, <2>2
  <2> QED BY <2>2, <2>3, ApplyStack
<1>5. Nat \subseteq Good
  <2> HIDE DEF Good
  <2> QED BY <1>3, <1>4, InductiveSet
<1>6. ASSUME NEW n \in 1..(L + 1) PROVE w[n] \in Stacks /\ w[n].inferred = s.inferred
  <2>1. n - 1 \in Nat /\ (n - 1) + 1 = n /\ n <= L + 1
    BY <1>1
  <2>2. n - 1 \in Good
    BY <1>5, <2>1
  <2> QED BY <2>1, <2>2
<1> DEFINE Below == {m \in Nat : m <= L => w[L + 1 - m].grown <= w[L + 1].grown}
<1>7. 0 \in Below
  <2>1. L + 1 - 0 = L + 1 /\ L + 1 \in 1..(L + 1)
    BY <1>1
  <2>2. w[L + 1].grown \in Nat
    BY <1>6, <2>1 DEF Stacks
  <2> QED BY <2>1, <2>2
<1>8. ASSUME NEW m \in Nat, m \in Below PROVE m + 1 \in Below
  <2>1. SUFFICES ASSUME m + 1 <= L PROVE w[L + 1 - (m + 1)].grown <= w[L + 1].grown
    OBVIOUS
  <2> DEFINE n == L + 1 - (m + 1)
  <2>2. n \in 1..L /\ n + 1 = L + 1 - m /\ n \in 1..(L + 1) /\ n + 1 \in 1..(L + 1)
    BY <1>1, <2>1
  <2>3. m <= L
    BY <1>1, <2>1
  <2>4. w[L + 1 - m].grown <= w[L + 1].grown
    BY <1>8, <2>3
  <2> HIDE DEF n
  <2>5. w[n + 1] = Apply(w[n], b.ops[n]) /\ w[n] \in Stacks /\ b.ops[n] \in Ops
    BY <1>2, <1>6, <1>20, <2>2
  <2>6. w[n + 1].grown >= w[n].grown
    BY <2>5, ApplyStack
  <2>7. L + 1 \in 1..(L + 1)
    BY <1>1
  <2>8. w[n].grown \in Nat /\ w[n + 1].grown \in Nat /\ w[L + 1].grown \in Nat
    BY <1>6, <2>2, <2>7 DEF Stacks
  <2>9. w[n].grown <= w[L + 1].grown
    BY <2>2, <2>4, <2>6, <2>8
  <2> QED BY <2>9 DEF n
<1>9. Nat \subseteq Below
  <2> HIDE DEF Below
  <2> QED BY <1>7, <1>8, InductiveSet
<1>13. k \in 1..(L + 1)
  BY DEF L
<1>10. L + 1 - k \in Nat /\ L + 1 - k <= L /\ L + 1 - (L + 1 - k) = k
  BY <1>1, <1>13
<1>11. L + 1 - k \in Below
  BY <1>9, <1>10
<1>12. w[k].grown <= w[L + 1].grown
  BY <1>10, <1>11
<1> QED BY <1>6, <1>12 DEF w, L

-----------------------------------------------------------------------------
(* Programs, predecessors and edges *)

\* The blocks of a program, and where its control goes.
LEMMA ProgramType ==
  ASSUME NEW p, IsProgram(p)
  PROVE  /\ Len(p.blocks) \in Nat /\ Len(p.blocks) > 0 /\ DOMAIN p.blocks = 1..Len(p.blocks)
         /\ 1 \in 1..Len(p.blocks)
         /\ \A i \in 1..Len(p.blocks) : IsBlock(p.blocks[i])
         /\ p.start \in Heights /\ p.inferred \in BOOLEAN
         /\ p.inferred => p.start = [depth |-> 0, wild |-> FALSE]
<1>1. p.blocks \in Seq({p.blocks[i] : i \in DOMAIN p.blocks}) /\ Len(p.blocks) > 0
  BY DEF IsProgram
<1>2. Len(p.blocks) \in Nat /\ DOMAIN p.blocks = 1..Len(p.blocks)
  BY <1>1, LenProperties
<1> QED BY <1>1, <1>2 DEF IsProgram

\* Successors are blocks, two at most.
LEMMA SuccessorsType ==
  ASSUME NEW p, IsProgram(p), NEW i \in 1..Len(p.blocks)
  PROVE  /\ SuccessorsIn(p, i) \in Seq(1..Len(p.blocks))
         /\ DOMAIN SuccessorsIn(p, i) = 1..Len(SuccessorsIn(p, i))
         /\ Len(SuccessorsIn(p, i)) \in Nat
<1> DEFINE S == 1..Len(p.blocks)
           a == IF p.blocks[i].falls /\ i < Len(p.blocks) THEN <<i + 1>> ELSE <<>>
           b == IF p.blocks[i].jump \in S THEN <<p.blocks[i].jump>> ELSE <<>>
<1>1. Len(p.blocks) \in Nat
  BY ProgramType
<1>2. a \in Seq(S)
  <2>1. p.blocks[i].falls /\ i < Len(p.blocks) => i + 1 \in S
    BY <1>1
  <2> HIDE DEF S
  <2> QED BY <2>1
<1>3. b \in Seq(S)
  <2> HIDE DEF S
  <2> QED OBVIOUS
<1>4. SuccessorsIn(p, i) = a \o b
  BY DEF SuccessorsIn
<1> HIDE DEF a, b, S
<1>5. SuccessorsIn(p, i) \in Seq(S)
  BY <1>2, <1>3, <1>4, ConcatProperties
<1> QED BY <1>5 DEF S

Keys  == Nat \X Nat
Preds == UNION {[K -> Heights] : K \in {X \in SUBSET Keys : IsFiniteSet(X)}}
Edges == [key : Keys, to : Nat, height : Heights]
BlockStates == [reached : BOOLEAN, entry : Heights, exit : Heights, preds : Preds]

\* The predecessors of a block with one recorded anew.
Recorded(preds, e) ==
    [k \in DOMAIN preds \cup {e.key} |-> IF k = e.key THEN e.height ELSE preds[k]]

\* The predecessors of a block are finitely many, each with a height.
LEMMA PredsType ==
  ASSUME NEW preds \in Preds
  PROVE  /\ DOMAIN preds \subseteq Keys /\ IsFiniteSet(DOMAIN preds)
         /\ \A k \in DOMAIN preds : preds[k] \in Heights
         /\ preds = [k \in DOMAIN preds |-> preds[k]]
<1>1. PICK K \in SUBSET Keys : IsFiniteSet(K) /\ preds \in [K -> Heights]
  BY DEF Preds
<1> QED BY <1>1

\* Recording an edge adds its key.
LEMMA RecordedType ==
  ASSUME NEW preds \in Preds, NEW e \in Edges
  PROVE  /\ Recorded(preds, e) \in Preds
         /\ DOMAIN Recorded(preds, e) = DOMAIN preds \cup {e.key}
         /\ Recorded(preds, e)[e.key] = e.height
         /\ \A k \in DOMAIN preds : k # e.key => Recorded(preds, e)[k] = preds[k]
<1> DEFINE K == DOMAIN preds \cup {e.key}
<1>1. e.key \in Keys /\ e.height \in Heights
  BY DEF Edges
<1>2. K \subseteq Keys
  BY <1>1, PredsType
<1>3. IsFiniteSet(K)
  BY PredsType, FS_AddElement
<1>4. Recorded(preds, e) \in [K -> Heights]
  BY <1>1, PredsType DEF Recorded
<1>5. Recorded(preds, e) \in Preds
  <2> HIDE DEF K
  <2> QED BY <1>2, <1>3, <1>4 DEF Preds
<1> QED BY <1>5 DEF Recorded

\* A set of numbers has its minimum.
LEMMA MinType ==
  ASSUME NEW S \in SUBSET Nat, S # {}
  PROVE  Min(S) \in S /\ \A m \in S : Min(S) <= m
BY LeastElement DEF Min

\* The merged entry is the least of the heights, and one of them.
LEMMA MergedType ==
  ASSUME NEW preds \in Preds, DOMAIN preds # {}
  PROVE  /\ Merged(preds) \in Heights
         /\ Depths(preds) \subseteq Nat /\ Merged(preds).depth \in Depths(preds)
         /\ \A k \in DOMAIN preds : Merged(preds).depth <= preds[k].depth
         /\ Merged(preds).wild = AnyPredWild(preds)
<1>1. \A k \in DOMAIN preds : preds[k].depth \in Nat
  BY PredsType DEF Heights
<1>2. Depths(preds) \in SUBSET Nat /\ Depths(preds) # {}
  BY <1>1 DEF Depths
<1>3. Min(Depths(preds)) \in Depths(preds) /\ \A m \in Depths(preds) : Min(Depths(preds)) <= m
  BY <1>2, MinType
<1>4. AnyPredWild(preds) \in BOOLEAN
  BY DEF AnyPredWild
<1>5. Merged(preds) = [depth |-> Min(Depths(preds)), wild |-> AnyPredWild(preds)]
  BY DEF Merged
<1>6. \A k \in DOMAIN preds : preds[k].depth \in Depths(preds)
  BY DEF Depths
<1>7. Min(Depths(preds)) \in Nat
  BY <1>2, <1>3
<1> QED BY <1>2, <1>3, <1>4, <1>5, <1>6, <1>7 DEF Heights

\* What is recorded of a block agrees with itself.
StateMerged(bs) ==
    /\ bs.reached => DOMAIN bs.preds # {} /\ bs.entry = Merged(bs.preds)
    /\ ~bs.reached => DOMAIN bs.preds = {}

\* Merging an edge records it, and reaches the block.
LEMMA MergeStep ==
  ASSUME NEW bs \in BlockStates, StateMerged(bs), NEW e \in Edges
  PROVE  /\ MergePredecessor(bs, e) \in BlockStates
         /\ StateMerged(MergePredecessor(bs, e))
         /\ MergePredecessor(bs, e).reached
         /\ MergePredecessor(bs, e).exit = bs.exit
         /\ MergePredecessor(bs, e).preds = Recorded(bs.preds, e)
         /\ e.key \in DOMAIN MergePredecessor(bs, e).preds
<1> DEFINE r == Recorded(bs.preds, e)
<1>1. bs.preds \in Preds
  BY DEF BlockStates
<1>2. /\ r \in Preds /\ DOMAIN r = DOMAIN bs.preds \cup {e.key} /\ r[e.key] = e.height
      /\ \A k \in DOMAIN bs.preds : k # e.key => r[k] = bs.preds[k]
  BY <1>1, RecordedType
<1>3. Merged(r) \in Heights
  BY <1>2, MergedType
<1>4. CASE e.key \in DOMAIN bs.preds /\ bs.preds[e.key] = e.height
  <2>1. MergePredecessor(bs, e) = bs
    BY <1>4 DEF MergePredecessor
  <2>2. r = bs.preds
    <3>1. bs.preds = [k \in DOMAIN bs.preds |-> bs.preds[k]]
      BY <1>1, PredsType
    <3>2. r = [k \in DOMAIN bs.preds \cup {e.key} |-> IF k = e.key THEN e.height ELSE bs.preds[k]]
      BY DEF Recorded
    <3>3. DOMAIN bs.preds \cup {e.key} = DOMAIN bs.preds
      BY <1>4
    <3>4. \A k \in DOMAIN bs.preds : (IF k = e.key THEN e.height ELSE bs.preds[k]) = bs.preds[k]
      BY <1>4
    <3> HIDE DEF r
    <3> QED BY <3>1, <3>2, <3>3, <3>4
  <2>3. bs.reached
    BY <1>4 DEF StateMerged, BlockStates
  <2> HIDE DEF r
  <2> QED BY <1>4, <2>1, <2>2, <2>3 DEF r
<1>5. CASE ~(e.key \in DOMAIN bs.preds /\ bs.preds[e.key] = e.height)
  <2>1. MergePredecessor(bs, e) = [bs EXCEPT !.reached = TRUE, !.preds = r, !.entry = Merged(r)]
    BY <1>5 DEF MergePredecessor, Recorded
  <2> HIDE DEF r
  <2>2. MergePredecessor(bs, e) \in BlockStates
    BY <1>2, <1>3, <2>1 DEF BlockStates
  <2>3. /\ MergePredecessor(bs, e).reached /\ MergePredecessor(bs, e).preds = r
        /\ MergePredecessor(bs, e).entry = Merged(r) /\ MergePredecessor(bs, e).exit = bs.exit
    BY <2>1 DEF BlockStates
  <2> QED BY <1>2, <2>2, <2>3 DEF StateMerged, r
<1> QED BY <1>4, <1>5

-----------------------------------------------------------------------------
(* Types *)

\* Everything has its type; a block that is being walked exists, and so does the statement
\* the walk has come to.
StackTypeInv ==
    /\ prog \in Programs
    /\ phase \in {"start", "walk", "merge", "check", "report", "done", "panic"}
    /\ preGrow \in Nat /\ need \in Nat /\ inputs \in Nat
    /\ states \in [Blocks -> BlockStates] /\ \A i \in Blocks : StateMerged(states[i])
    /\ worklist \in Seq(Blocks)
    /\ cur \in 1..(N + 1) /\ (phase \in {"walk", "merge", "report"} => cur \in Blocks)
    /\ at \in Nat /\ (phase \in {"walk", "report"} => at \in 1..(Len(Block.ops) + 1))
    /\ stk \in Stacks /\ stk.inferred = prog.inferred
    /\ edges \in Seq(Edges)

\* The program under analysis is one.
LEMMA ProgFacts ==
  ASSUME prog \in Programs
  PROVE  /\ IsProgram(prog) /\ N \in Nat /\ N > 0 /\ 1 \in Blocks
         /\ \A i \in Blocks : IsBlock(prog.blocks[i])
         /\ prog.start \in Heights /\ prog.inferred \in BOOLEAN
         /\ prog.inferred => prog.start = [depth |-> 0, wild |-> FALSE]
BY ProgramsAssumption, ProgramType DEF N, Blocks

\* A new stack has the height it is made from.
LEMMA NewStackType ==
  ASSUME NEW h \in Heights, NEW inf \in BOOLEAN
  PROVE  /\ NewStack(h, inf) \in Stacks /\ NewStack(h, inf).inferred = inf
         /\ NewStack(h, inf).depth = h.depth /\ NewStack(h, inf).wild = h.wild
         /\ NewStack(h, inf).grown = 0
BY DEF NewStack, Stacks, Heights

\* The height of a stack.
LEMMA HeightType ==
  ASSUME NEW s \in Stacks
  PROVE  Height(s) \in Heights /\ Height(s).depth = s.depth /\ Height(s).wild = s.wild
BY DEF Height, Stacks, Heights

\* The first walk starts with the items added below, which count as invented.
LEMMA InitialStackType ==
  ASSUME prog \in Programs, preGrow \in Nat
  PROVE  /\ InitialStack \in Stacks /\ InitialStack.inferred = prog.inferred
         /\ InitialStack.wild = prog.start.wild
         /\ InitialStack.grown = IF prog.inferred THEN preGrow ELSE 0
         /\ ~prog.inferred => InitialStack = NewStack(prog.start, prog.inferred)
         /\ prog.inferred => InitialStack.depth = preGrow
<1> DEFINE s == NewStack(prog.start, prog.inferred)
<1>1. prog.inferred \in BOOLEAN
  BY ProgFacts
<1>2. /\ s \in Stacks /\ s.inferred = prog.inferred /\ s.wild = prog.start.wild
      /\ s.grown = 0 /\ s.depth = prog.start.depth
  BY ProgFacts, NewStackType
<1>3. InitialStack = IF prog.inferred THEN GrowBottom(s, preGrow) ELSE s
  BY DEF InitialStack
<1> HIDE DEF s
<1>4. CASE prog.inferred
  <2>1. s.depth = 0
    BY <1>2, <1>4, ProgFacts
  <2>2. GrowBottom(s, preGrow) = [s EXCEPT !.depth = preGrow, !.grown = preGrow]
    <3>1. s.depth + preGrow = preGrow /\ s.grown + preGrow = preGrow
      BY <1>2, <2>1
    <3>2. GrowBottom(s, preGrow) = [s EXCEPT !.depth = s.depth + preGrow,
              !.grown = IF s.inferred THEN s.grown + preGrow ELSE s.grown]
      BY DEF GrowBottom
    <3> QED BY <1>2, <1>4, <3>1, <3>2
  <2> QED BY <1>2, <1>3, <1>4, <2>2 DEF Stacks
<1>5. CASE ~prog.inferred
  BY <1>2, <1>3, <1>5 DEF s
<1> QED BY <1>1, <1>4, <1>5

\* The edges of the jumps out of a call.
LEMMA ExternalEdgesType ==
  ASSUME NEW s \in Stacks, NEW op \in Ops, cur \in Nat, edges \in Seq(Edges)
  PROVE  /\ ExternalJumpEdges(s, op) \in Seq(Edges)
         /\ Len(ExternalJumpEdges(s, op)) = Len(op.jumps)
         /\ \A j \in 1..Len(op.jumps) :
              /\ op.jumps[j] \in Jumps
              /\ ExternalJumpEdges(s, op)[j].key = <<cur, Len(edges) + j>>
              /\ ExternalJumpEdges(s, op)[j].to = op.jumps[j].to
              /\ ExternalJumpEdges(s, op)[j].height =
                   [depth |-> op.jumps[j].depth + (IF s.depth > op.in THEN s.depth - op.in ELSE 0),
                    wild  |-> op.jumps[j].wild \/ s.wild]
<1> DEFINE below == IF s.depth > op.in THEN s.depth - op.in ELSE 0
           J == op.jumps
           E(j) == [key |-> <<cur, Len(edges) + j>>, to |-> J[j].to,
                    height |-> [depth |-> J[j].depth + below, wild |-> J[j].wild \/ s.wild]]
<1>1. below \in Nat
  BY OpType DEF Stacks
<1>2. J \in Seq(Jumps) /\ Len(J) \in Nat /\ DOMAIN J = 1..Len(J)
  BY OpType, LenProperties
<1>3. ExternalJumpEdges(s, op) = [j \in DOMAIN J |-> E(j)]
  BY DEF ExternalJumpEdges
<1>4. Len(edges) \in Nat
  BY LenProperties
<1> HIDE DEF below, J
<1>5. ASSUME NEW j \in 1..Len(J) PROVE J[j] \in Jumps /\ E(j) \in Edges
  <2>1. J[j] \in Jumps
    BY <1>2
  <2>2. <<cur, Len(edges) + j>> \in Keys
    BY <1>4 DEF Keys
  <2>3. [depth |-> J[j].depth + below, wild |-> J[j].wild \/ s.wild] \in Heights
    BY <1>1, <2>1 DEF Heights, Jumps
  <2>4. J[j].to \in Nat
    BY <2>1 DEF Jumps
  <2> QED BY <2>1, <2>2, <2>3, <2>4 DEF Edges
<1> DEFINE X == ExternalJumpEdges(s, op)
<1>6. X \in [1..Len(J) -> Edges] /\ \A j \in 1..Len(J) : X[j] = E(j)
  <2> HIDE DEF E
  <2> QED BY <1>2, <1>3, <1>5
<1>7. X \in Seq(Edges) /\ Len(X) = Len(J)
  <2> HIDE DEF X
  <2> QED BY <1>2, <1>6
<1>8. ASSUME NEW j \in 1..Len(J)
      PROVE  /\ X[j].key = <<cur, Len(edges) + j>> /\ X[j].to = J[j].to
             /\ X[j].height = [depth |-> J[j].depth + below, wild |-> J[j].wild \/ s.wild]
  <2> HIDE DEF X
  <2> QED BY <1>6
<1> QED BY <1>5, <1>7, <1>8 DEF J, below

\* The edges at the end of a block.
LEMMA ExitEdgesType ==
  ASSUME prog \in Programs, NEW i \in Blocks, NEW h \in Heights
  PROVE  /\ ExitEdges(i, h) \in Seq(Edges) /\ Len(ExitEdges(i, h)) = Len(Successors(i))
         /\ DOMAIN Successors(i) = 1..Len(Successors(i)) /\ Len(Successors(i)) \in Nat
         /\ \A j \in 1..Len(Successors(i)) :
              /\ Successors(i)[j] \in Blocks
              /\ ExitEdges(i, h)[j] = [key |-> <<i, 0>>, to |-> Successors(i)[j], height |-> h]
<1> DEFINE S == Successors(i)
           E(j) == [key |-> <<i, 0>>, to |-> S[j], height |-> h]
           X == ExitEdges(i, h)
<1>1. S \in Seq(Blocks) /\ DOMAIN S = 1..Len(S) /\ Len(S) \in Nat
  BY ProgFacts, SuccessorsType DEF Successors, Blocks, N
<1>2. Blocks \subseteq Nat
  BY ProgFacts DEF Blocks
<1>3. X = [j \in DOMAIN S |-> E(j)]
  BY DEF ExitEdges
<1> HIDE DEF S
<1>4. ASSUME NEW j \in 1..Len(S) PROVE S[j] \in Blocks /\ E(j) \in Edges
  <2>1. S[j] \in Blocks
    BY <1>1
  <2>2. <<i, 0>> \in Keys
    BY <1>2 DEF Keys
  <2> QED BY <1>2, <2>1, <2>2 DEF Edges
<1>5. X \in [1..Len(S) -> Edges] /\ \A j \in 1..Len(S) : X[j] = E(j)
  <2> HIDE DEF E, X
  <2> QED BY <1>1, <1>3, <1>4
<1>6. X \in Seq(Edges) /\ Len(X) = Len(S)
  <2> HIDE DEF X
  <2> QED BY <1>1, <1>5
<1> QED BY <1>1, <1>4, <1>5, <1>6 DEF S

\* A block no edge has reached yet.
LEMMA UnreachedType == Unreached \in BlockStates /\ StateMerged(Unreached)
<1> DEFINE none == [depth |-> 0, wild |-> FALSE]
<1>1. none \in Heights
  BY DEF Heights
<1>2. DOMAIN <<>> = {}
  OBVIOUS
<1>3. <<>> \in [{} -> Heights]
  OBVIOUS
<1>4. {} \in SUBSET Keys /\ IsFiniteSet({})
  BY FS_EmptySet
<1>5. <<>> \in Preds
  BY <1>3, <1>4 DEF Preds
<1>6. Unreached = [reached |-> FALSE, entry |-> none, exit |-> none, preds |-> <<>>]
  BY DEF Unreached
<1> HIDE DEF none
<1> QED BY <1>1, <1>2, <1>5, <1>6 DEF BlockStates, StateMerged

\* The first block when a round has opened: only the start has led to it.
LEMMA FirstStateType ==
  ASSUME NEW s \in Heights, NEW h \in Heights,
         NEW bs, bs = [reached |-> TRUE, entry |-> s, exit |-> h, preds |-> [k \in {Initial} |-> s]]
  PROVE  bs \in BlockStates /\ StateMerged(bs)
<1> DEFINE P == [k \in {Initial} |-> s]
<1>1. Initial \in Keys
  BY DEF Initial, Keys
<1>2. {Initial} \in SUBSET Keys /\ IsFiniteSet({Initial})
  BY <1>1, FS_Singleton
<1>3. P \in [{Initial} -> Heights]
  OBVIOUS
<1>4. P \in Preds
  BY <1>2, <1>3 DEF Preds
<1>5. DOMAIN P = {Initial} /\ P[Initial] = s
  OBVIOUS
<1> HIDE DEF P
<1>6. Merged(P).depth \in Depths(P) /\ Merged(P).wild = AnyPredWild(P) /\ Merged(P) \in Heights
  BY <1>4, <1>5, MergedType
<1>7. Depths(P) = {s.depth}
  BY <1>5 DEF Depths
<1>8. AnyPredWild(P) = s.wild
  BY <1>5 DEF AnyPredWild, Heights
<1>9. Merged(P) = s
  BY <1>6, <1>7, <1>8 DEF Heights
<1>10. bs = [reached |-> TRUE, entry |-> s, exit |-> h, preds |-> P]
  BY DEF P
<1> QED BY <1>4, <1>5, <1>9, <1>10 DEF BlockStates, StateMerged

\* The analysis of a block never leaves the program.
LEMMA TypeInit == Init => StackTypeInv
<1> SUFFICES ASSUME Init PROVE StackTypeInv
  OBVIOUS
<1>1. prog \in Programs /\ phase = "start" /\ preGrow = 0 /\ need = 0 /\ inputs = 0
      /\ worklist = <<>> /\ cur = 1 /\ at = 1 /\ edges = <<>>
  BY DEF Init
<1>2. Unreached \in BlockStates /\ StateMerged(Unreached)
  BY UnreachedType
<1>3. states = [i \in Blocks |-> Unreached]
  BY DEF Init
<1>4. states \in [Blocks -> BlockStates] /\ \A i \in Blocks : StateMerged(states[i])
  BY <1>2, <1>3
<1>5. stk \in Stacks /\ stk.inferred = prog.inferred
  BY <1>1, ProgFacts, NewStackType DEF Init
<1>6. 1 \in 1..(N + 1)
  BY <1>1, ProgFacts
<1> QED BY <1>1, <1>4, <1>5, <1>6 DEF StackTypeInv

\* The label of a block keeps a stack a stack.
LEMMA LabelStack ==
  ASSUME prog \in Programs, NEW i \in Blocks, NEW s \in Stacks
  PROVE  ApplyLabelComment(s, i) \in Stacks /\ ApplyLabelComment(s, i).inferred = s.inferred
<1>1. prog.blocks[i].label \in Comments /\ FALSE \in BOOLEAN
  BY ProgFacts, BlockType
<1> QED BY <1>1, CommentStack DEF ApplyLabelComment

\* So does the statement that is walked.
LEMMA StmtStack ==
  ASSUME StackTypeInv, phase \in {"walk", "report"}, ~AtEnd
  PROVE  /\ Stmt \in Ops /\ Apply(stk, Stmt) \in Stacks
         /\ Apply(stk, Stmt).inferred = stk.inferred
         /\ at + 1 \in 1..(Len(Block.ops) + 1) /\ at \in 1..Len(Block.ops) /\ cur \in Blocks
<1>1. cur \in Blocks /\ at \in 1..(Len(Block.ops) + 1) /\ stk \in Stacks
  BY DEF StackTypeInv
<1>2. IsBlock(Block)
  BY <1>1, ProgFacts DEF StackTypeInv, Block
<1>3. Len(Block.ops) \in Nat
  BY <1>2, BlockType
<1>4. at \in 1..Len(Block.ops) /\ at + 1 \in 1..(Len(Block.ops) + 1)
  BY <1>1, <1>3 DEF AtEnd
<1>5. Stmt \in Ops
  BY <1>2, <1>4, BlockType DEF Stmt
<1> QED BY <1>1, <1>4, <1>5, ApplyStack

\* Each step keeps the types.
LEMMA TypeStep == StackTypeInv /\ [Next]_vars => StackTypeInv'
<1> SUFFICES ASSUME StackTypeInv, [Next]_vars PROVE StackTypeInv'
  OBVIOUS
<1>1. prog' = prog
  BY DEF Next, vars, StartRound, WalkStatement, WalkPanics, FirstExit, BlockExit, MergeEdge,
         TakeBlock, GrowInitialStack, PropagationDone, CheckBlock, SkipBlock, ReportStatement,
         ReportPanics, BlockReported, CheckJumpDepths, Stopped
<1>2. Blocks' = Blocks /\ N' = N /\ N \in Nat /\ 1 \in Blocks /\ Blocks = 1..N
      /\ prog \in Programs /\ IsProgram(prog)
  BY <1>1, ProgFacts DEF Blocks, N, StackTypeInv
<1>3. \A h \in Heights : NewStack(h, prog.inferred) \in Stacks
                         /\ NewStack(h, prog.inferred).inferred = prog.inferred
  BY <1>2, ProgFacts, NewStackType
<1>4. Unreached \in BlockStates /\ StateMerged(Unreached)
  BY UnreachedType
<1>5. \A i \in Blocks : states[i] \in BlockStates
  BY DEF StackTypeInv
<1>6. Height(stk) \in Heights
  BY HeightType DEF StackTypeInv
<1>7. CASE StartRound
  <2>1. states' = [i \in Blocks |-> Unreached]
    BY <1>7 DEF StartRound
  <2>2. states' \in [Blocks -> BlockStates] /\ \A i \in Blocks : StateMerged(states'[i])
    BY <1>4, <2>1
  <2>3. InitialStack \in Stacks /\ InitialStack.inferred = prog.inferred
    BY <1>2, InitialStackType DEF StackTypeInv
  <2>4. stk' \in Stacks /\ stk'.inferred = prog.inferred
    BY <1>2, <1>7, <2>3, LabelStack DEF StartRound
  <2>5. IsBlock(prog.blocks[1]) /\ cur' = 1 /\ at' = 1
    BY <1>2, <1>7, ProgFacts DEF StartRound
  <2>6. 1 \in 1..(Len(prog.blocks[1].ops) + 1) /\ 1 \in 1..(N + 1)
    BY <1>2, <2>5, BlockType
  <2>7. /\ phase' = "walk" /\ preGrow' = preGrow /\ need' = 0 /\ inputs' = inputs
        /\ worklist' = worklist /\ edges' = edges
    BY <1>7 DEF StartRound
  <2> QED BY <1>1, <1>2, <2>2, <2>4, <2>5, <2>6, <2>7 DEF StackTypeInv, Block
<1>8. CASE WalkStatement
  <2>1. /\ Stmt \in Ops /\ Apply(stk, Stmt) \in Stacks
        /\ Apply(stk, Stmt).inferred = stk.inferred
        /\ at + 1 \in 1..(Len(Block.ops) + 1) /\ cur \in Blocks
    BY <1>8, StmtStack DEF WalkStatement
  <2>2. ExternalJumpEdges(stk, Stmt) \in Seq(Edges)
    BY <1>2, <2>1, ExternalEdgesType DEF StackTypeInv
  <2>3. edges' \in Seq(Edges)
    BY <1>8, <2>2, ConcatProperties DEF WalkStatement, StackTypeInv
  <2> QED BY <1>1, <1>2, <1>8, <2>1, <2>3 DEF WalkStatement, StackTypeInv, Block
<1>9. CASE WalkPanics \/ ReportPanics
  BY <1>1, <1>2, <1>9 DEF WalkPanics, ReportPanics, StackTypeInv, Block
<1>10. CASE FirstExit
  <2> DEFINE bs == [reached |-> TRUE, entry |-> prog.start, exit |-> Height(stk),
                    preds |-> [k \in {Initial} |-> prog.start]]
  <2>1. bs \in BlockStates /\ StateMerged(bs)
    BY <1>2, <1>6, ProgFacts, FirstStateType
  <2>2. states' = [states EXCEPT ![1] = bs]
    BY <1>10 DEF FirstExit
  <2> HIDE DEF bs
  <2>3. states' \in [Blocks -> BlockStates] /\ \A i \in Blocks : StateMerged(states'[i])
    BY <1>2, <2>1, <2>2 DEF StackTypeInv
  <2>4. ExitEdges(1, Height(stk)) \in Seq(Edges)
    BY <1>2, <1>6, ExitEdgesType
  <2>5. edges' \in Seq(Edges)
    BY <1>10, <2>4, ConcatProperties DEF FirstExit, StackTypeInv
  <2>6. stk.grown \in Nat
    BY DEF StackTypeInv, Stacks
  <2> QED BY <1>1, <1>2, <1>10, <2>3, <2>5, <2>6 DEF FirstExit, StackTypeInv, Block
<1>11. CASE BlockExit
  <2>1. cur \in Blocks
    BY <1>11 DEF BlockExit, StackTypeInv
  <2>2. states' = [states EXCEPT ![cur] = [states[cur] EXCEPT !.exit = Height(stk)]]
    BY <1>11 DEF BlockExit
  <2> DEFINE bs == [states[cur] EXCEPT !.exit = Height(stk)]
  <2>3. bs \in BlockStates /\ StateMerged(bs)
    <3>1. states[cur] \in BlockStates /\ StateMerged(states[cur])
      BY <2>1 DEF StackTypeInv
    <3>2. bs \in BlockStates /\ bs.reached = states[cur].reached /\ bs.preds = states[cur].preds
          /\ bs.entry = states[cur].entry
      BY <1>6, <3>1 DEF BlockStates
    <3> QED BY <3>1, <3>2 DEF StateMerged
  <2> HIDE DEF bs
  <2>4. states' \in [Blocks -> BlockStates] /\ \A i \in Blocks : StateMerged(states'[i])
    BY <1>2, <2>1, <2>2, <2>3 DEF StackTypeInv, bs
  <2>5. ExitEdges(cur, Height(stk)) \in Seq(Edges)
    BY <1>2, <1>6, <2>1, ExitEdgesType
  <2>6. edges' \in Seq(Edges)
    BY <1>11, <2>5, ConcatProperties DEF BlockExit, StackTypeInv
  <2>7. stk.grown \in Nat
    BY DEF StackTypeInv, Stacks
  <2> QED BY <1>1, <1>2, <1>11, <2>1, <2>4, <2>6, <2>7 DEF BlockExit, StackTypeInv, Block
<1>12. CASE MergeEdge
  <2> DEFINE e == Head(edges)
  <2>1. e \in Edges /\ Tail(edges) \in Seq(Edges)
    BY <1>12, HeadTailProperties DEF MergeEdge, StackTypeInv
  <2>2. states' \in [Blocks -> BlockStates] /\ \A i \in Blocks : StateMerged(states'[i])
    <3>1. CASE e.to \in Blocks
      <4>1. states' = [states EXCEPT ![e.to] = MergePredecessor(states[e.to], e)]
        BY <1>12, <3>1 DEF MergeEdge
      <4>2. states[e.to] \in BlockStates /\ StateMerged(states[e.to])
        BY <3>1 DEF StackTypeInv
      <4> HIDE DEF e
      <4>3. MergePredecessor(states[e.to], e) \in BlockStates
            /\ StateMerged(MergePredecessor(states[e.to], e))
        BY <2>1, <4>2, MergeStep
      <4> QED BY <3>1, <4>1, <4>3 DEF StackTypeInv
    <3>2. CASE e.to \notin Blocks
      BY <1>12, <3>2 DEF MergeEdge, StackTypeInv
    <3> QED BY <3>1, <3>2
  <2>3. worklist' \in Seq(Blocks)
    <3>1. worklist' = worklist \/ (e.to \in Blocks /\ worklist' = Append(worklist, e.to))
      BY <1>12 DEF MergeEdge
    <3>2. worklist \in Seq(Blocks)
      BY DEF StackTypeInv
    <3> HIDE DEF e
    <3> QED BY <3>1, <3>2, AppendProperties
  <2>4. edges' = Tail(edges)
    BY <1>12 DEF MergeEdge
  <2> HIDE DEF e
  <2> QED BY <1>1, <1>2, <1>12, <2>1, <2>2, <2>3, <2>4 DEF MergeEdge, StackTypeInv, Block
<1>13. CASE TakeBlock
  <2>1. worklist \in Seq(Blocks) /\ worklist # <<>> /\ Len(worklist) \in 1..Len(worklist)
    BY <1>13, EmptySeq DEF TakeBlock, StackTypeInv
  <2>2. cur' = worklist[Len(worklist)] /\ cur' \in Blocks
    BY <1>13, <2>1 DEF TakeBlock
  <2>3. worklist' \in Seq(Blocks)
    <3>1. worklist' = SubSeq(worklist, 1, Len(worklist) - 1)
      BY <1>13 DEF TakeBlock
    <3>2. \A i \in 1..(Len(worklist) - 1) : worklist[i] \in Blocks
      BY <2>1
    <3>3. 1 \in Int /\ Len(worklist) - 1 \in Int
      BY <2>1
    <3> QED BY <3>1, <3>2, <3>3, SubSeqProperties
  <2>4. states[cur'].entry \in Heights
    BY <1>5, <2>2 DEF BlockStates
  <2>5. stk' \in Stacks /\ stk'.inferred = prog.inferred
    <3>1. NewStack(states[cur'].entry, prog.inferred) \in Stacks
          /\ NewStack(states[cur'].entry, prog.inferred).inferred = prog.inferred
      BY <1>3, <2>4
    <3>2. stk' = ApplyLabelComment(NewStack(states[cur'].entry, prog.inferred), cur')
      BY <1>13 DEF TakeBlock
    <3> QED BY <1>2, <2>2, <3>1, <3>2, LabelStack
  <2>6. cur' \in 1..(N + 1) /\ 1 \in 1..(Len(prog.blocks[cur'].ops) + 1)
    <3>1. ASSUME NEW i \in Blocks
          PROVE  i \in 1..(N + 1) /\ 1 \in 1..(Len(prog.blocks[i].ops) + 1)
      <4>1. Len(prog.blocks[i].ops) \in Nat
        BY <1>2, ProgFacts, BlockType
      <4> QED BY <1>2, <4>1
    <3> QED BY <2>2, <3>1
  <2>7. /\ phase' = "walk" /\ preGrow' = preGrow /\ need' = need /\ inputs' = inputs
        /\ at' = 1 /\ edges' = edges /\ states' = states
    BY <1>13 DEF TakeBlock
  <2> QED BY <1>1, <1>2, <2>2, <2>3, <2>5, <2>6, <2>7 DEF StackTypeInv, Block
<1>14. CASE GrowInitialStack
  <2>1. preGrow' \in Nat
    BY <1>14 DEF GrowInitialStack, StackTypeInv
  <2> QED BY <1>1, <1>2, <1>14, <2>1 DEF GrowInitialStack, StackTypeInv, Block
<1>15. CASE PropagationDone
  <2>1. 1 \in 1..(N + 1)
    BY <1>2
  <2> QED BY <1>1, <1>2, <1>15, <2>1 DEF PropagationDone, StackTypeInv, Block
<1>16. CASE CheckBlock
  <2>1. cur \in Blocks
    BY <1>16 DEF CheckBlock
  <2>2. EntryStack(cur) \in Stacks /\ EntryStack(cur).inferred = prog.inferred
    <3>1. InitialStack \in Stacks /\ InitialStack.inferred = prog.inferred
      BY <1>2, InitialStackType DEF StackTypeInv
    <3>2. states[cur].entry \in Heights
      BY <1>5, <2>1 DEF BlockStates
    <3> QED BY <1>3, <3>1, <3>2 DEF EntryStack
  <2>3. stk' \in Stacks /\ stk'.inferred = prog.inferred
    BY <1>2, <1>16, <2>1, <2>2, LabelStack DEF CheckBlock
  <2>4. 1 \in 1..(Len(prog.blocks[cur].ops) + 1)
    BY <1>2, <2>1, ProgFacts, BlockType
  <2> QED BY <1>1, <1>2, <1>16, <2>1, <2>3, <2>4 DEF CheckBlock, StackTypeInv, Block
<1>17. CASE SkipBlock \/ BlockReported
  <2>1. cur \in Blocks /\ cur + 1 \in 1..(N + 1)
    BY <1>2, <1>17 DEF SkipBlock, BlockReported, StackTypeInv
  <2> QED BY <1>1, <1>2, <1>17, <2>1 DEF SkipBlock, BlockReported, StackTypeInv, Block
<1>18. CASE ReportStatement
  <2>1. /\ Apply(stk, Stmt) \in Stacks /\ Apply(stk, Stmt).inferred = stk.inferred
        /\ at + 1 \in 1..(Len(Block.ops) + 1) /\ cur \in Blocks
    BY <1>18, StmtStack DEF ReportStatement
  <2> QED BY <1>1, <1>2, <1>18, <2>1 DEF ReportStatement, StackTypeInv, Block
<1>19. CASE CheckJumpDepths
  BY <1>1, <1>2, <1>19 DEF CheckJumpDepths, StackTypeInv, Block
<1>20. CASE Stopped \/ UNCHANGED vars
  BY <1>1, <1>2, <1>20 DEF Stopped, vars, StackTypeInv, Block
<1> QED BY <1>7, <1>8, <1>9, <1>10, <1>11, <1>12, <1>13, <1>14, <1>15, <1>16, <1>17, <1>18,
           <1>19, <1>20 DEF Next

-----------------------------------------------------------------------------
(* The order of phase 1 *)

Key(p)    == edges[p].key

\* Where phase 1 stands: a round opens with the first block and nothing reached; edges leave
\* the block walked last; and both queues are empty when the checks begin.
ControlInv ==
    /\ phase \notin {"walk", "merge", "panic"} => edges = <<>> /\ worklist = <<>>
    /\ phase \in {"merge", "check", "report", "done"} => states[1].reached
    /\ phase = "walk" /\ ~states[1].reached =>
          cur = 1 /\ worklist = <<>> /\ \A i \in Blocks : ~states[i].reached
    /\ phase \in {"walk", "merge"} /\ states[1].reached => states[cur].reached
    /\ \A k \in DOMAIN worklist : states[worklist[k]].reached
    /\ \A p \in DOMAIN edges :
          /\ Key(p)[1] = cur
          /\ phase = "walk" => Key(p)[2] > 0
          /\ phase = "merge" /\ Key(p)[2] = 0 => edges[p].height = states[cur].exit

\* The empty sequence has no places.
LEMMA NoPlaces == DOMAIN <<>> = {}
OBVIOUS

\* What merging the next edge does to the blocks.
LEMMA MergeEffect ==
  ASSUME StackTypeInv, MergeEdge, NEW e, e = Head(edges)
  PROVE  /\ e = edges[1] /\ e \in Edges /\ 1 \in DOMAIN edges
         /\ edges' \in Seq(Edges) /\ prog' = prog /\ Blocks' = Blocks
         /\ \A p \in DOMAIN edges' : p + 1 \in DOMAIN edges /\ edges'[p] = edges[p + 1]
         /\ \A p \in DOMAIN edges : p = 1 \/ (p - 1 \in DOMAIN edges' /\ edges'[p - 1] = edges[p])
         /\ \A t \in Blocks :
              /\ states'[t].exit = states[t].exit
              /\ t # e.to => states'[t] = states[t]
              /\ t = e.to => states'[t] = MergePredecessor(states[t], e)
                             /\ states'[t].reached
                             /\ states'[t].preds = Recorded(states[t].preds, e)
                             /\ (EntryChanges(states[t], e) => Queued(t)')
              /\ Queued(t) => Queued(t)'
              /\ Queued(t)' => Queued(t) \/ t = e.to
<1>1. edges \in Seq(Edges) /\ edges # <<>> /\ worklist \in Seq(Blocks)
  BY DEF MergeEdge, StackTypeInv
<1>2. /\ e \in Edges /\ edges' = Tail(edges) /\ Tail(edges) \in Seq(Edges)
      /\ Len(Tail(edges)) = Len(edges) - 1
      /\ \A p \in 1..Len(Tail(edges)) : Tail(edges)[p] = edges[p + 1]
  BY <1>1, HeadTailProperties DEF MergeEdge
<1>3. /\ DOMAIN edges = 1..Len(edges) /\ DOMAIN edges' = 1..(Len(edges) - 1)
      /\ Len(edges) \in Nat /\ Len(edges) > 0
  <2>1. DOMAIN edges = 1..Len(edges) /\ Len(edges) \in Nat /\ DOMAIN edges' = 1..Len(edges')
    BY <1>1, <1>2, LenProperties
  <2>2. Len(edges) \in Nat \ {0}
    BY <1>1, EmptySeq
  <2> QED BY <1>2, <2>1, <2>2
<1>4. e = edges[1] /\ 1 \in DOMAIN edges
  BY <1>1, <1>3
<1>5. \A p \in DOMAIN edges' : p + 1 \in DOMAIN edges /\ edges'[p] = edges[p + 1]
  BY <1>2, <1>3
<1>6. \A p \in DOMAIN edges : p = 1 \/ (p - 1 \in DOMAIN edges' /\ edges'[p - 1] = edges[p])
  <2>1. ASSUME NEW p \in DOMAIN edges, p # 1
        PROVE  p - 1 \in DOMAIN edges' /\ edges'[p - 1] = edges[p]
    <3>1. p - 1 \in DOMAIN edges' /\ (p - 1) + 1 = p
      BY <1>3, <2>1
    <3> QED BY <1>5, <3>1
  <2> QED BY <2>1
<1>7. prog' = prog /\ Blocks' = Blocks
  BY DEF MergeEdge, Blocks, N
<1>8. \/ e.to \in Blocks
         /\ states' = [states EXCEPT ![e.to] = MergePredecessor(states[e.to], e)]
         /\ worklist' = IF EntryChanges(states[e.to], e) /\ ~Queued(e.to)
                        THEN Append(worklist, e.to) ELSE worklist
      \/ e.to \notin Blocks /\ states' = states /\ worklist' = worklist
  BY DEF MergeEdge
<1>9. ASSUME NEW t \in Blocks
      PROVE  /\ Queued(t) => Queued(t)'
             /\ Queued(t)' => Queued(t) \/ t = e.to
             /\ t = e.to /\ EntryChanges(states[t], e) => Queued(t)'
  <2>1. CASE worklist' = worklist
    BY <1>8, <2>1 DEF Queued
  <2>2. CASE e.to \in Blocks /\ worklist' = Append(worklist, e.to)
    <3>1. /\ worklist' \in Seq(Blocks) /\ Len(worklist') = Len(worklist) + 1
          /\ \A k \in 1..Len(worklist) : worklist'[k] = worklist[k]
          /\ worklist'[Len(worklist) + 1] = e.to
      BY <1>1, <2>2, AppendProperties
    <3>2. /\ DOMAIN worklist = 1..Len(worklist) /\ Len(worklist) \in Nat
          /\ DOMAIN worklist' = 1..(Len(worklist) + 1)
      BY <1>1, <3>1, LenProperties
    <3>3. \A k \in 1..(Len(worklist) + 1) : k \in 1..Len(worklist) \/ k = Len(worklist) + 1
      BY <3>2
    <3>4. Len(worklist) + 1 \in 1..(Len(worklist) + 1)
          /\ \A k \in 1..Len(worklist) : k \in 1..(Len(worklist) + 1)
      BY <3>2
    <3> QED BY <3>1, <3>2, <3>3, <3>4 DEF Queued
  <2> QED BY <1>8, <2>1, <2>2
<1>10. ASSUME NEW t \in Blocks
       PROVE  /\ states'[t].exit = states[t].exit
              /\ t # e.to => states'[t] = states[t]
              /\ t = e.to => states'[t] = MergePredecessor(states[t], e)
                             /\ states'[t].reached
                             /\ states'[t].preds = Recorded(states[t].preds, e)
  <2>1. states[t] \in BlockStates /\ StateMerged(states[t]) /\ states \in [Blocks -> BlockStates]
    BY DEF StackTypeInv
  <2>2. /\ MergePredecessor(states[t], e).reached
        /\ MergePredecessor(states[t], e).exit = states[t].exit
        /\ MergePredecessor(states[t], e).preds = Recorded(states[t].preds, e)
    BY <1>2, <2>1, MergeStep
  <2> QED BY <1>8, <2>1, <2>2
<1> QED BY <1>2, <1>4, <1>5, <1>6, <1>7, <1>9, <1>10

\* The places of a concatenation are those of its parts.
LEMMA ConcatPlaces ==
  ASSUME NEW S, NEW s \in Seq(S), NEW t \in Seq(S)
  PROVE  /\ s \o t \in Seq(S)
         /\ \A p \in DOMAIN s : p \in DOMAIN (s \o t) /\ (s \o t)[p] = s[p]
         /\ \A p \in DOMAIN t : Len(s) + p \in DOMAIN (s \o t) /\ (s \o t)[Len(s) + p] = t[p]
         /\ \A p \in DOMAIN (s \o t) :
               p \in DOMAIN s \/ \E q \in DOMAIN t : p = Len(s) + q
<1> DEFINE c == s \o t
<1>1. /\ c \in Seq(S) /\ Len(c) = Len(s) + Len(t)
      /\ \A i \in 1..(Len(s) + Len(t)) : c[i] = IF i <= Len(s) THEN s[i] ELSE t[i - Len(s)]
  BY ConcatProperties
<1> HIDE DEF c
<1>2. /\ DOMAIN s = 1..Len(s) /\ DOMAIN t = 1..Len(t) /\ DOMAIN c = 1..(Len(s) + Len(t))
      /\ Len(s) \in Nat /\ Len(t) \in Nat
  BY <1>1, LenProperties
<1>3. \A p \in DOMAIN s : p \in DOMAIN c /\ c[p] = s[p]
  BY <1>1, <1>2
<1>4. \A p \in DOMAIN t : Len(s) + p \in DOMAIN c /\ c[Len(s) + p] = t[p]
  <2>1. ASSUME NEW p \in DOMAIN t PROVE Len(s) + p \in DOMAIN c /\ c[Len(s) + p] = t[p]
    <3>1. /\ Len(s) + p \in 1..(Len(s) + Len(t)) /\ ~(Len(s) + p <= Len(s))
          /\ Len(s) + p - Len(s) = p
      BY <1>2
    <3> QED BY <1>1, <1>2, <3>1
  <2> QED BY <2>1
<1>5. \A p \in DOMAIN c : p \in DOMAIN s \/ \E q \in DOMAIN t : p = Len(s) + q
  <2>1. ASSUME NEW p \in DOMAIN c, p \notin DOMAIN s
        PROVE  p - Len(s) \in DOMAIN t /\ p = Len(s) + (p - Len(s))
    BY <1>2, <2>1
  <2> QED BY <2>1
<1> QED BY <1>1, <1>3, <1>4, <1>5 DEF c

\* Walking a statement appends the edges of its jumps.
LEMMA WalkEffect ==
  ASSUME StackTypeInv, WalkStatement
  PROVE  /\ Stmt \in Ops /\ Stmt.jumps \in Seq(Jumps) /\ prog' = prog /\ Blocks' = Blocks
         /\ DOMAIN edges = 1..Len(edges) /\ Len(edges) \in Nat
         /\ \A p \in DOMAIN edges : p \in DOMAIN edges' /\ edges'[p] = edges[p]
         /\ \A j \in 1..Len(Stmt.jumps) :
              /\ Len(edges) + j \in DOMAIN edges'
              /\ edges'[Len(edges) + j] = ExternalJumpEdges(stk, Stmt)[j]
         /\ \A p \in DOMAIN edges' :
              p \in DOMAIN edges \/ \E j \in 1..Len(Stmt.jumps) : p = Len(edges) + j
<1> DEFINE X == ExternalJumpEdges(stk, Stmt)
<1>1. Stmt \in Ops /\ stk \in Stacks /\ edges \in Seq(Edges) /\ cur \in Nat
  BY StmtStack, ProgFacts DEF StackTypeInv, WalkStatement, Blocks
<1>2. X \in Seq(Edges) /\ Len(X) = Len(Stmt.jumps)
  BY <1>1, ExternalEdgesType
<1>3. edges' = edges \o X
  BY DEF WalkStatement
<1>4. DOMAIN X = 1..Len(Stmt.jumps) /\ DOMAIN edges = 1..Len(edges) /\ Len(edges) \in Nat
  BY <1>1, <1>2, LenProperties
<1>5. prog' = prog /\ Blocks' = Blocks
  BY DEF WalkStatement, Blocks, N
<1>6. Stmt.jumps \in Seq(Jumps)
  BY <1>1, OpType
<1> HIDE DEF X
<1>7. /\ \A p \in DOMAIN edges : p \in DOMAIN edges' /\ edges'[p] = edges[p]
      /\ \A p \in DOMAIN X : Len(edges) + p \in DOMAIN edges' /\ edges'[Len(edges) + p] = X[p]
      /\ \A p \in DOMAIN edges' : p \in DOMAIN edges \/ \E q \in DOMAIN X : p = Len(edges) + q
  BY <1>1, <1>2, <1>3, ConcatPlaces
<1> QED BY <1>1, <1>4, <1>5, <1>6, <1>7 DEF X

\* Leaving a block puts the edges to its successors in front.
LEMMA ExitEffect ==
  ASSUME StackTypeInv, NEW i \in Blocks, edges' = ExitEdges(i, Height(stk)) \o edges
  PROVE  /\ DOMAIN Successors(i) = 1..Len(Successors(i)) /\ Len(Successors(i)) \in Nat
         /\ \A j \in DOMAIN Successors(i) :
              /\ Successors(i)[j] \in Blocks /\ j \in DOMAIN edges'
              /\ edges'[j] = [key |-> <<i, 0>>, to |-> Successors(i)[j], height |-> Height(stk)]
         /\ \A p \in DOMAIN edges :
              /\ Len(Successors(i)) + p \in DOMAIN edges'
              /\ edges'[Len(Successors(i)) + p] = edges[p]
         /\ \A p \in DOMAIN edges' :
              p \in DOMAIN Successors(i) \/ \E q \in DOMAIN edges : p = Len(Successors(i)) + q
<1> DEFINE X == ExitEdges(i, Height(stk))
<1>1. prog \in Programs /\ Height(stk) \in Heights /\ edges \in Seq(Edges)
  BY HeightType DEF StackTypeInv
<1>2. /\ X \in Seq(Edges) /\ Len(X) = Len(Successors(i))
      /\ DOMAIN Successors(i) = 1..Len(Successors(i)) /\ Len(Successors(i)) \in Nat
      /\ \A j \in 1..Len(Successors(i)) :
           /\ Successors(i)[j] \in Blocks
           /\ X[j] = [key |-> <<i, 0>>, to |-> Successors(i)[j], height |-> Height(stk)]
  BY <1>1, ExitEdgesType
<1> HIDE DEF X
<1>3. DOMAIN X = DOMAIN Successors(i)
  BY <1>2, LenProperties
<1>4. /\ \A p \in DOMAIN X : p \in DOMAIN (X \o edges) /\ (X \o edges)[p] = X[p]
      /\ \A p \in DOMAIN edges : Len(X) + p \in DOMAIN (X \o edges)
                                 /\ (X \o edges)[Len(X) + p] = edges[p]
      /\ \A p \in DOMAIN (X \o edges) :
            p \in DOMAIN X \/ \E q \in DOMAIN edges : p = Len(X) + q
  BY <1>1, <1>2, ConcatPlaces
<1>5. edges' = X \o edges
  BY DEF X
<1> QED BY <1>2, <1>3, <1>4, <1>5

\* An edge is a number of its block.
LEMMA KeyType ==
  ASSUME StackTypeInv, NEW p \in DOMAIN edges
  PROVE  /\ edges[p] \in Edges /\ Key(p) \in Keys /\ Key(p)[1] \in Nat /\ Key(p)[2] \in Nat
         /\ Key(p) = <<Key(p)[1], Key(p)[2]>>
         /\ ~(Key(p)[2] > 0 /\ Key(p)[2] = 0)
<1>1. edges[p] \in Edges
  BY DEF StackTypeInv
<1>2. Key(p) \in Nat \X Nat
  BY <1>1 DEF Edges, Keys, Key
<1> QED BY <1>1, <1>2 DEF Keys

\* Phase 1 keeps its order.
LEMMA ControlStep == StackTypeInv /\ ControlInv /\ [Next]_vars => ControlInv'
<1> SUFFICES ASSUME StackTypeInv, ControlInv, [Next]_vars PROVE ControlInv'
  OBVIOUS
<1>1. states \in [Blocks -> BlockStates] /\ 1 \in Blocks /\ DOMAIN <<>> = {}
  BY ProgFacts, NoPlaces DEF StackTypeInv
<1>2. CASE StartRound
  <2>1. /\ phase' = "walk" /\ cur' = 1 /\ worklist' = <<>> /\ edges' = <<>> /\ Blocks' = Blocks
        /\ states' = [i \in Blocks |-> Unreached]
    BY <1>2 DEF StartRound, ControlInv, Blocks, N
  <2>2. \A i \in Blocks : ~states'[i].reached
    BY <2>1 DEF Unreached
  <2> QED BY <1>1, <2>1, <2>2 DEF ControlInv
<1>3. CASE WalkStatement
  <2>1. ASSUME NEW p \in DOMAIN edges' PROVE Key(p)'[1] = cur' /\ Key(p)'[2] > 0
    <3>1. CASE p \in DOMAIN edges
      BY <1>3, <2>1, <3>1, WalkEffect DEF ControlInv, WalkStatement, Key
    <3>2. ASSUME NEW j \in 1..Len(Stmt.jumps), p = Len(edges) + j
          PROVE  Key(p)'[1] = cur' /\ Key(p)'[2] > 0
      <4>1. Key(p)' = ExternalJumpEdges(stk, Stmt)[j].key
        BY <1>3, <3>2, WalkEffect DEF Key
      <4>2. ExternalJumpEdges(stk, Stmt)[j].key = <<cur, Len(edges) + j>>
        <5>1. stk \in Stacks /\ cur \in Nat /\ edges \in Seq(Edges)
          BY ProgFacts DEF StackTypeInv
        <5>2. Stmt \in Ops
          BY <1>3, WalkEffect
        <5> QED BY <3>2, <5>1, <5>2, ExternalEdgesType
      <4>3. cur' = cur /\ Len(edges) \in Nat
        BY <1>3, WalkEffect DEF WalkStatement
      <4> QED BY <4>1, <4>2, <4>3
    <3> QED BY <1>3, <2>1, <3>1, <3>2, WalkEffect
  <2>2. /\ phase = "walk" /\ phase' = "walk" /\ cur' = cur /\ worklist' = worklist
        /\ states' = states /\ Blocks' = Blocks
    BY <1>3, WalkEffect DEF WalkStatement
  <2> QED BY <2>1, <2>2 DEF ControlInv
<1>4. CASE WalkPanics \/ ReportPanics
  BY <1>4 DEF WalkPanics, ReportPanics, ControlInv, Key, Blocks, N
<1>5. CASE FirstExit
  <2>1. /\ phase = "walk" /\ ~states[1].reached /\ phase' = "merge" /\ cur' = cur /\ cur = 1
        /\ worklist = <<>> /\ worklist' = <<>> /\ edges' = ExitEdges(1, Height(stk)) \o edges
    BY <1>5 DEF FirstExit, ControlInv
  <2>2. states'[1].reached /\ states'[1].exit = Height(stk)
    BY <1>1, <1>5 DEF FirstExit
  <2>3. ASSUME NEW p \in DOMAIN edges'
        PROVE  Key(p)'[1] = 1 /\ (Key(p)'[2] = 0 => edges'[p].height = Height(stk))
    <3>1. CASE p \in DOMAIN Successors(1)
      <4>1. edges'[p] = [key |-> <<1, 0>>, to |-> Successors(1)[p], height |-> Height(stk)]
        BY <1>1, <2>1, <3>1, ExitEffect
      <4> QED BY <4>1 DEF Key
    <3>2. ASSUME NEW q \in DOMAIN edges, p = Len(Successors(1)) + q
          PROVE  Key(p)'[1] = 1 /\ (Key(p)'[2] = 0 => edges'[p].height = Height(stk))
      <4>1. edges'[p] = edges[q]
        BY <1>1, <2>1, <3>2, ExitEffect
      <4>2. Key(q)[1] = 1 /\ ~(Key(q)[2] = 0)
        BY <2>1, KeyType DEF ControlInv
      <4> QED BY <4>1, <4>2 DEF Key
    <3> QED BY <1>1, <2>1, <2>3, <3>1, <3>2, ExitEffect
  <2> QED BY <1>1, <2>1, <2>2, <2>3 DEF ControlInv
<1>6. CASE BlockExit
  <2>1. /\ phase = "walk" /\ states[1].reached /\ phase' = "merge" /\ cur' = cur /\ cur \in Blocks
        /\ worklist' = worklist /\ edges' = ExitEdges(cur, Height(stk)) \o edges
        /\ states[cur].reached /\ \A k \in DOMAIN worklist : states[worklist[k]].reached
    BY <1>6 DEF BlockExit, ControlInv, StackTypeInv
  <2>2. /\ states'[cur].exit = Height(stk)
        /\ \A i \in Blocks : states'[i].reached = states[i].reached
    BY <1>1, <1>6, <2>1 DEF BlockExit, BlockStates
  <2>3. ASSUME NEW p \in DOMAIN edges'
        PROVE  Key(p)'[1] = cur /\ (Key(p)'[2] = 0 => edges'[p].height = Height(stk))
    <3>1. CASE p \in DOMAIN Successors(cur)
      <4>1. edges'[p] = [key |-> <<cur, 0>>, to |-> Successors(cur)[p], height |-> Height(stk)]
        BY <2>1, <3>1, ExitEffect
      <4> QED BY <4>1 DEF Key
    <3>2. ASSUME NEW q \in DOMAIN edges, p = Len(Successors(cur)) + q
          PROVE  Key(p)'[1] = cur /\ (Key(p)'[2] = 0 => edges'[p].height = Height(stk))
      <4>1. edges'[p] = edges[q]
        BY <2>1, <3>2, ExitEffect
      <4>2. Key(q)[1] = cur /\ ~(Key(q)[2] = 0)
        BY <2>1, KeyType DEF ControlInv
      <4> QED BY <4>1, <4>2 DEF Key
    <3> QED BY <2>1, <2>3, <3>1, <3>2, ExitEffect
  <2>4. \A k \in DOMAIN worklist : worklist[k] \in Blocks
    BY DEF StackTypeInv
  <2> QED BY <1>1, <2>1, <2>2, <2>3, <2>4 DEF ControlInv
<1>7. CASE MergeEdge
  <2> DEFINE e == Head(edges)
  <2>1. /\ phase = "merge" /\ phase' = "merge" /\ cur' = cur /\ cur \in Blocks
        /\ states[1].reached /\ states[cur].reached
    BY <1>7 DEF MergeEdge, ControlInv, StackTypeInv
  <2>2. ASSUME NEW t \in Blocks
        PROVE  /\ states[t].reached => states'[t].reached
               /\ states'[t].exit = states[t].exit
               /\ Queued(t)' => states'[t].reached
    <3>1. Queued(t) => states[t].reached
      BY DEF Queued, ControlInv
    <3> QED BY <1>7, <3>1, MergeEffect
  <2>3. ASSUME NEW p \in DOMAIN edges'
        PROVE  Key(p)'[1] = cur /\ (Key(p)'[2] = 0 => edges'[p].height = states[cur].exit)
    <3>1. p + 1 \in DOMAIN edges /\ edges'[p] = edges[p + 1]
      BY <1>7, <2>3, MergeEffect
    <3>2. Key(p + 1)[1] = cur /\ (Key(p + 1)[2] = 0 => edges[p + 1].height = states[cur].exit)
      BY <2>1, <3>1 DEF ControlInv
    <3> QED BY <3>1, <3>2 DEF Key
  <2>4. ASSUME NEW k \in DOMAIN worklist', NEW t, t = worklist'[k] PROVE states'[t].reached
    <3>1. t \in Blocks
      <4>1. worklist' \in Seq(Blocks)
        BY <1>7, TypeStep, MergeEffect DEF StackTypeInv, Next
      <4> QED BY <2>4, <4>1
    <3>2. Queued(t)'
      BY <2>4 DEF Queued
    <3> QED BY <2>2, <3>1, <3>2
  <2> QED BY <1>1, <2>1, <2>2, <2>3, <2>4 DEF ControlInv
<1>8. CASE TakeBlock
  <2>1. /\ phase = "merge" /\ phase' = "walk" /\ edges' = <<>> /\ states' = states
        /\ worklist \in Seq(Blocks) /\ worklist # <<>> /\ cur' = worklist[Len(worklist)]
        /\ worklist' = SubSeq(worklist, 1, Len(worklist) - 1) /\ states[1].reached
    BY <1>8 DEF TakeBlock, StackTypeInv, ControlInv
  <2>2. IsSeq(worklist) /\ Len(worklist) > 0 /\ DOMAIN worklist = 1..Len(worklist)
    BY <2>1, SeqType DEF IsSeq
  <2>3. /\ DOMAIN worklist' = 1..(Len(worklist) - 1)
        /\ \A k \in 1..(Len(worklist) - 1) : worklist'[k] = worklist[k]
    BY <2>1, <2>2, ButLast, SeqType
  <2>4. Len(worklist) \in DOMAIN worklist
        /\ \A k \in 1..(Len(worklist) - 1) : k \in DOMAIN worklist
    BY <2>2
  <2>5. states[cur'].reached /\ \A k \in DOMAIN worklist' : states[worklist'[k]].reached
    BY <2>1, <2>3, <2>4 DEF ControlInv
  <2> QED BY <1>1, <2>1, <2>5 DEF ControlInv
<1>9. CASE GrowInitialStack \/ PropagationDone
  BY <1>1, <1>9 DEF GrowInitialStack, PropagationDone, RoundOver, ControlInv
<1>10. CASE CheckBlock \/ SkipBlock \/ ReportStatement \/ BlockReported \/ CheckJumpDepths
  BY <1>1, <1>10 DEF CheckBlock, SkipBlock, ReportStatement, BlockReported, CheckJumpDepths,
                     ControlInv
<1>11. CASE Stopped \/ UNCHANGED vars
  BY <1>11 DEF Stopped, vars, ControlInv, Key, Blocks, N
<1> QED BY <1>2, <1>3, <1>4, <1>5, <1>6, <1>7, <1>8, <1>9, <1>10, <1>11 DEF Next

-----------------------------------------------------------------------------
(* Exits are delivered *)

\* Block t has recorded height h under a key, or an edge with the key is on its way.
Got(t, key, h)   == states[t].reached /\ key \in DOMAIN states[t].preds
                    /\ states[t].preds[key] = h
OnItsWay(t, key) == \E p \in DOMAIN edges : Key(p) = key /\ edges[p].to = t

\* Block i waits to be walked or is being walked.
Unfinished(i) == Queued(i) \/ (phase = "walk" /\ cur = i)

HandedOn(i, t) == Got(t, <<i, 0>>, states[i].exit) \/ OnItsWay(t, <<i, 0>>)

\* A reached block that is not to be walked again has handed its exit on, or is doing so.
DeliverInv ==
    phase \in {"walk", "merge", "check", "report", "done"} =>
        \A i \in Blocks : states[i].reached /\ ~Unfinished(i) =>
            \A j \in DOMAIN Successors(i) : HandedOn(i, Successors(i)[j])

\* The block that is taken from the worklist is walked, the others stay.
LEMMA TakeEffect ==
  ASSUME StackTypeInv, TakeBlock, NEW i \in Blocks
  PROVE  /\ Queued(i) => Queued(i)' \/ cur' = i
         /\ Queued(i)' => Queued(i)
         /\ prog' = prog /\ Blocks' = Blocks /\ cur' \in Blocks /\ Queued(cur')
<1>1. /\ worklist \in Seq(Blocks) /\ worklist # <<>> /\ cur' = worklist[Len(worklist)]
      /\ worklist' = SubSeq(worklist, 1, Len(worklist) - 1)
  BY DEF TakeBlock, StackTypeInv
<1>2. IsSeq(worklist) /\ Len(worklist) > 0 /\ DOMAIN worklist = 1..Len(worklist)
      /\ Len(worklist) \in Nat
  BY <1>1, SeqType DEF IsSeq
<1>3. /\ DOMAIN worklist' = 1..(Len(worklist) - 1)
      /\ \A k \in 1..(Len(worklist) - 1) : worklist'[k] = worklist[k]
  BY <1>1, <1>2, ButLast, SeqType
<1>4. \A k \in DOMAIN worklist : k = Len(worklist) \/ k \in 1..(Len(worklist) - 1)
  BY <1>2
<1>5. (\A k \in 1..(Len(worklist) - 1) : k \in DOMAIN worklist) /\ Len(worklist) \in DOMAIN worklist
  BY <1>2
<1>6. prog' = prog /\ Blocks' = Blocks
  BY DEF TakeBlock, Blocks, N
<1>7. cur' \in Blocks
  BY <1>1, <1>5
<1>8. Queued(cur')
  BY <1>1, <1>5 DEF Queued
<1>9. (Queued(i) => Queued(i)' \/ cur' = i) /\ (Queued(i)' => Queued(i))
  BY <1>1, <1>3, <1>4, <1>5 DEF Queued
<1> QED BY <1>6, <1>7, <1>8, <1>9

\* No step loses an exit: an edge is delivered, or its target is told, before the block is
\* done with.
LEMMA DeliverStep ==
  StackTypeInv /\ ControlInv /\ DeliverInv /\ [Next]_vars => DeliverInv'
<1> SUFFICES ASSUME StackTypeInv, ControlInv, DeliverInv, [Next]_vars,
                    NEW i \in Blocks', (states[i].reached)', ~Unfinished(i)',
                    phase' \in {"walk", "merge", "check", "report", "done"},
                    NEW j \in DOMAIN Successors(i)',
                    NEW t, t = Successors(i)[j]'
             PROVE  HandedOn(i, t)'
  BY DEF DeliverInv
<1>0. prog' = prog
  BY DEF Next, vars, StartRound, WalkStatement, WalkPanics, FirstExit, BlockExit, MergeEdge,
         TakeBlock, GrowInitialStack, PropagationDone, CheckBlock, SkipBlock, ReportStatement,
         ReportPanics, BlockReported, CheckJumpDepths, Stopped
<1>1. i \in Blocks /\ j \in DOMAIN Successors(i) /\ t = Successors(i)[j] /\ t \in Blocks
  <2>1. i \in Blocks /\ j \in DOMAIN Successors(i) /\ t = Successors(i)[j]
    BY <1>0 DEF Blocks, N, Successors
  <2>2. Successors(i) \in Seq(Blocks)
    BY <2>1, ProgFacts, SuccessorsType DEF Successors, Blocks, N, StackTypeInv
  <2> QED BY <2>1, <2>2
<1>2. states \in [Blocks -> BlockStates] /\ 1 \in Blocks /\ cur \in Nat
  BY ProgFacts DEF StackTypeInv, Blocks
<1>3. \* nothing about the blocks or the queues has changed
      ASSUME UNCHANGED <<states, edges, worklist>>,
             Unfinished(i) => Unfinished(i)',
             phase \in {"walk", "merge", "check", "report", "done"}
      PROVE  HandedOn(i, t)'
  <2>1. states[i].reached /\ ~Unfinished(i)
    BY <1>3
  <2>2. HandedOn(i, t)
    BY <1>1, <1>3, <2>1 DEF DeliverInv
  <2> QED BY <1>3, <2>2 DEF HandedOn, Got, OnItsWay, Key
<1>4. CASE StartRound
  BY <1>1, <1>4 DEF StartRound, Unreached
<1>5. CASE WalkStatement
  <2>1. phase = "walk" /\ phase' = "walk" /\ cur' = cur /\ states' = states /\ worklist' = worklist
    BY <1>5 DEF WalkStatement
  <2>2. states[i].reached /\ ~Unfinished(i)
    BY <2>1 DEF Unfinished, Queued
  <2>3. HandedOn(i, t)
    BY <1>1, <2>1, <2>2 DEF DeliverInv
  <2>4. OnItsWay(t, <<i, 0>>) => OnItsWay(t, <<i, 0>>)'
    BY <1>5, WalkEffect DEF OnItsWay, Key
  <2> QED BY <2>1, <2>3, <2>4 DEF HandedOn, Got
<1>6. CASE WalkPanics \/ ReportPanics
  BY <1>6 DEF WalkPanics, ReportPanics
<1>7. CASE FirstExit
  <2>1. edges' = ExitEdges(1, Height(stk)) \o edges /\ i = 1
    BY <1>1, <1>2, <1>7 DEF FirstExit, ControlInv
  <2>2. j \in DOMAIN edges' /\ edges'[j] = [key |-> <<1, 0>>, to |-> t, height |-> Height(stk)]
    <3>1. j \in DOMAIN Successors(1) /\ t = Successors(1)[j] /\ 1 \in Blocks
      BY <1>1, <1>2, <2>1
    <3> QED BY <2>1, <3>1, ExitEffect
  <2>3. Key(j)' = <<1, 0>> /\ edges'[j].to = t
    BY <2>2 DEF Key
  <2> QED BY <2>1, <2>2, <2>3 DEF HandedOn, OnItsWay
<1>8. CASE BlockExit
  <2>1. /\ phase = "walk" /\ states[1].reached /\ phase' = "merge" /\ cur' = cur /\ cur \in Blocks
        /\ worklist' = worklist /\ edges' = ExitEdges(cur, Height(stk)) \o edges
    BY <1>8 DEF BlockExit, StackTypeInv
  <2>2. CASE i = cur
    <3>1. j \in DOMAIN edges' /\ edges'[j] = [key |-> <<i, 0>>, to |-> t, height |-> Height(stk)]
      BY <1>1, <2>1, <2>2, ExitEffect
    <3>2. Key(j)' = <<i, 0>> /\ edges'[j].to = t
      BY <3>1 DEF Key
    <3> QED BY <3>1, <3>2 DEF HandedOn, OnItsWay
  <2>3. CASE i # cur
    <3>1. states'[i] = states[i] /\ \A u \in Blocks : states'[u].reached = states[u].reached
                                                  /\ states'[u].preds = states[u].preds
      BY <1>1, <1>2, <1>8, <2>1, <2>3 DEF BlockExit, BlockStates
    <3>2. states[i].reached /\ ~Unfinished(i)
      BY <2>1, <2>3, <3>1 DEF Unfinished, Queued
    <3>3. HandedOn(i, t)
      BY <1>1, <2>1, <3>2 DEF DeliverInv
    <3>4. OnItsWay(t, <<i, 0>>) => OnItsWay(t, <<i, 0>>)'
      <4>1. SUFFICES ASSUME NEW p \in DOMAIN edges, Key(p) = <<i, 0>>, edges[p].to = t
                     PROVE  OnItsWay(t, <<i, 0>>)'
        BY DEF OnItsWay
      <4>2. /\ Len(Successors(cur)) + p \in DOMAIN edges'
            /\ edges'[Len(Successors(cur)) + p] = edges[p]
        BY <2>1, <4>1, ExitEffect
      <4> QED BY <4>1, <4>2 DEF OnItsWay, Key
    <3> QED BY <1>1, <3>1, <3>3, <3>4 DEF HandedOn, Got
  <2> QED BY <2>2, <2>3
<1>9. CASE MergeEdge
  <2> DEFINE e == Head(edges)
             key == <<i, 0>>
             h == states[i].exit
  <2>1. phase = "merge" /\ phase' = "merge" /\ cur' = cur
    BY <1>9 DEF MergeEdge
  <2>2. /\ e = edges[1] /\ e \in Edges /\ 1 \in DOMAIN edges /\ states'[i].exit = h
        /\ t # e.to => states'[t] = states[t]
        /\ t = e.to => states'[t].reached /\ states'[t].preds = Recorded(states[t].preds, e)
        /\ i # e.to => states'[i] = states[i]
        /\ i = e.to /\ EntryChanges(states[i], e) => Queued(i)'
        /\ Queued(i) => Queued(i)'
    BY <1>1, <1>9, MergeEffect
  <2>3. states[i].reached /\ ~Unfinished(i)
    BY <2>1, <2>2 DEF Unfinished, EntryChanges
  <2>4. HandedOn(i, t)
    BY <1>1, <2>1, <2>3 DEF DeliverInv
  <2>5. states[t].preds \in Preds
    BY <1>1, <1>2 DEF BlockStates
  <2>6. /\ DOMAIN Recorded(states[t].preds, e) = DOMAIN states[t].preds \cup {e.key}
        /\ Recorded(states[t].preds, e)[e.key] = e.height
        /\ \A k \in DOMAIN states[t].preds :
              k # e.key => Recorded(states[t].preds, e)[k] = states[t].preds[k]
    BY <2>2, <2>5, RecordedType
  <2>7. e.key = key => e.height = h
    <3>1. SUFFICES ASSUME e.key = key PROVE e.height = h
      OBVIOUS
    <3>2. Key(1) = <<i, 0>> /\ Key(1)[1] = cur /\ (Key(1)[2] = 0 => e.height = states[cur].exit)
      BY <2>1, <2>2, <3>1 DEF ControlInv, Key
    <3> QED BY <3>2
  <2> HIDE DEF e, h, key
  <2>8. CASE Got(t, key, h)
    <3>1. Got(t, key, h)'
      <4>1. CASE t # e.to
        BY <2>2, <2>8, <4>1 DEF Got, h, key
      <4>2. CASE t = e.to
        <5>1. key \in DOMAIN states[t].preds /\ states[t].preds[key] = h
          BY <2>8 DEF Got
        <5>2. Recorded(states[t].preds, e)[key] = h
          BY <2>6, <2>7, <5>1
        <5>3. key \in DOMAIN Recorded(states[t].preds, e)
          BY <2>6, <5>1
        <5>4. states'[t].reached /\ states'[t].preds = Recorded(states[t].preds, e)
          BY <2>2, <4>2
        <5>5. key \in DOMAIN states'[t].preds /\ states'[t].preds[key] = states'[i].exit
          BY <2>2, <5>2, <5>3, <5>4
        <5> QED BY <2>2, <5>4, <5>5 DEF Got, key, h
      <4> QED BY <4>1, <4>2
    <3> QED BY <2>2, <3>1 DEF HandedOn, Got, key, h
  <2>9. CASE OnItsWay(t, key)
    <3>1. PICK p \in DOMAIN edges : Key(p) = key /\ edges[p].to = t
      BY <2>9 DEF OnItsWay
    <3>2. CASE p = 1
      <4>1. e.key = key /\ e.to = t
        BY <2>2, <3>1, <3>2 DEF Key
      <4>2. states'[t].reached /\ states'[t].preds = Recorded(states[t].preds, e)
        BY <2>2, <4>1
      <4>3. key \in DOMAIN states'[t].preds /\ states'[t].preds[key] = states'[i].exit
        BY <2>2, <2>6, <2>7, <4>1, <4>2
      <4> QED BY <4>2, <4>3 DEF HandedOn, Got, key
    <3>3. CASE p # 1
      <4>1. p - 1 \in DOMAIN edges' /\ edges'[p - 1] = edges[p]
        BY <1>9, <3>1, <3>3, MergeEffect DEF e
      <4> QED BY <3>1, <4>1 DEF HandedOn, OnItsWay, Key, key
    <3> QED BY <3>2, <3>3
  <2> QED BY <2>4, <2>8, <2>9 DEF HandedOn, key, h
<1>10. CASE TakeBlock
  <2>1. UNCHANGED <<states, edges>> /\ phase = "merge" /\ phase' = "walk"
    BY <1>10 DEF TakeBlock
  <2>2. Unfinished(i) => Unfinished(i)'
    BY <1>1, <1>10, <2>1, TakeEffect DEF Unfinished
  <2>3. states[i].reached /\ ~Unfinished(i)
    BY <2>1, <2>2
  <2>4. HandedOn(i, t)
    BY <1>1, <2>1, <2>3 DEF DeliverInv
  <2> QED BY <2>1, <2>4 DEF HandedOn, Got, OnItsWay, Key
<1>11. CASE GrowInitialStack
  BY <1>11 DEF GrowInitialStack
<1>12. CASE PropagationDone
  BY <1>3, <1>12 DEF PropagationDone, RoundOver, Unfinished, Queued
<1>13. CASE CheckBlock \/ SkipBlock \/ ReportStatement \/ BlockReported \/ CheckJumpDepths
  <2>1. UNCHANGED <<states, edges, worklist>> /\ phase # "walk"
        /\ phase \in {"walk", "merge", "check", "report", "done"}
    BY <1>13 DEF CheckBlock, SkipBlock, ReportStatement, BlockReported, CheckJumpDepths
  <2> QED BY <1>3, <2>1 DEF Unfinished, Queued
<1>14. CASE Stopped \/ UNCHANGED vars
  BY <1>3, <1>14 DEF Stopped, vars, Unfinished, Queued
<1> QED BY <1>4, <1>5, <1>6, <1>7, <1>8, <1>9, <1>10, <1>11, <1>12, <1>13, <1>14 DEF Next

\* When the checks begin every exit has arrived.
LEMMA Delivered == StackTypeInv /\ ControlInv /\ DeliverInv => ExitsDelivered
<1> SUFFICES ASSUME StackTypeInv, ControlInv, DeliverInv, phase \in {"check", "report", "done"},
                    NEW i \in Blocks, states[i].reached
             PROVE  /\ states[i].entry = Merged(states[i].preds)
                    /\ \A j \in DOMAIN Successors(i) :
                          /\ states[Successors(i)[j]].reached
                          /\ <<i, 0>> \in DOMAIN states[Successors(i)[j]].preds
                          /\ states[Successors(i)[j]].preds[<<i, 0>>] = states[i].exit
  BY DEF ExitsDelivered
<1>1. edges = <<>> /\ worklist = <<>>
  BY DEF ControlInv
<1>2. ~Unfinished(i) /\ \A t : ~OnItsWay(t, <<i, 0>>)
  BY <1>1, NoPlaces DEF Unfinished, Queued, OnItsWay
<1>3. \A j \in DOMAIN Successors(i) : HandedOn(i, Successors(i)[j])
  BY <1>2 DEF DeliverInv
<1>4. \A j \in DOMAIN Successors(i) : Got(Successors(i)[j], <<i, 0>>, states[i].exit)
  BY <1>2, <1>3 DEF HandedOn
<1> QED BY <1>4 DEF Got, StackTypeInv, StateMerged

\* At the end of phase 1 each reached block has handed its last exit to each of its successors,
\* and its entry is what its predecessors have handed to it: nothing that was walked with an
\* entry that has changed since is left (check.go:371).
THEOREM StackExitsDelivered == Spec => []ExitsDelivered
<1> DEFINE Inv == StackTypeInv /\ ControlInv /\ DeliverInv
<1>1. Init => Inv
  <2> SUFFICES ASSUME Init PROVE ControlInv /\ DeliverInv
    BY TypeInit
  <2> QED BY NoPlaces DEF Init, ControlInv, DeliverInv
<1>2. Inv /\ [Next]_vars => Inv'
  BY TypeStep, ControlStep, DeliverStep
<1>3. Inv => ExitsDelivered
  BY Delivered
<1> QED BY <1>1, <1>2, <1>3, PTL DEF Spec

-----------------------------------------------------------------------------
(* The first block *)

\* The program stays the one under analysis.
LEMMA ProgStays ==
  ASSUME [Next]_vars
  PROVE  prog' = prog /\ Blocks' = Blocks /\ N' = N
<1>1. prog' = prog
  BY DEF Next, vars, StartRound, WalkStatement, WalkPanics, FirstExit, BlockExit, MergeEdge,
         TakeBlock, GrowInitialStack, PropagationDone, CheckBlock, SkipBlock, ReportStatement,
         ReportPanics, BlockReported, CheckJumpDepths, Stopped
<1> QED BY <1>1 DEF Blocks, N

\* The edges to the first block are those the checks expect: the start and, in code with a
\* declared input, ends of blocks.
FirstInv ==
    /\ \A p \in DOMAIN edges : edges[p].to = 1 => Key(p)[2] = 0 /\ ~prog.inferred
    /\ states[1].reached =>
          /\ Initial \in DOMAIN states[1].preds /\ states[1].preds[Initial] = prog.start
          /\ \A k \in DOMAIN states[1].preds :
                k = Initial \/ (k[1] > 0 /\ k[2] = 0 /\ ~prog.inferred)
    /\ prog.inferred => ~Queued(1)
    /\ prog.inferred /\ phase = "walk" /\ states[1].reached => cur # 1

\* The jumps of the statement that is walked do not lead to the first block.
LEMMA StmtJumps ==
  ASSUME StackTypeInv, FirstBlockChecked, phase = "walk", ~AtEnd, NEW j \in DOMAIN Stmt.jumps
  PROVE  Stmt.jumps[j].to # 1
<1>1. at \in 1..Len(Block.ops) /\ cur \in Blocks
  BY StmtStack
<1>2. DOMAIN Block.ops = 1..Len(Block.ops)
  BY <1>1, ProgFacts, BlockType DEF StackTypeInv, Block
<1> QED BY <1>1, <1>2 DEF FirstBlockChecked, Block, Stmt

\* Nor do, in inferred code, the ends of blocks.
LEMMA ExitJumps ==
  ASSUME FirstBlockChecked, NEW i \in Blocks, NEW j \in DOMAIN Successors(i),
         Successors(i)[j] = 1
  PROVE  ~prog.inferred
BY DEF FirstBlockChecked

\* The edges at the end of a block keep to that.
LEMMA FirstEdges ==
  ASSUME StackTypeInv, FirstBlockChecked, FirstInv, NEW i \in Blocks,
         edges' = ExitEdges(i, Height(stk)) \o edges, NEW p \in DOMAIN edges', edges'[p].to = 1
  PROVE  Key(p)'[2] = 0 /\ ~prog.inferred
<1>1. CASE p \in DOMAIN Successors(i)
  <2>1. edges'[p] = [key |-> <<i, 0>>, to |-> Successors(i)[p], height |-> Height(stk)]
    BY <1>1, ExitEffect
  <2>2. Successors(i)[p] = 1 /\ edges'[p].key[2] = 0
    BY <2>1
  <2> QED BY <1>1, <2>2, ExitJumps DEF Key
<1>2. ASSUME NEW q \in DOMAIN edges, p = Len(Successors(i)) + q
      PROVE  Key(p)'[2] = 0 /\ ~prog.inferred
  <2>1. edges'[p] = edges[q]
    BY <1>2, ExitEffect
  <2>2. edges[q].to = 1
    BY <2>1
  <2>3. Key(q)[2] = 0 /\ ~prog.inferred
    BY <2>2 DEF FirstInv
  <2> QED BY <2>1, <2>3 DEF Key
<1> QED BY <1>1, <1>2, ExitEffect

\* Each step keeps jumps away from the first block.
LEMMA FirstStep ==
  StackTypeInv /\ ControlInv /\ FirstBlockChecked /\ FirstInv /\ [Next]_vars => FirstInv'
<1> SUFFICES ASSUME StackTypeInv, ControlInv, FirstBlockChecked, FirstInv, [Next]_vars
             PROVE  FirstInv'
  OBVIOUS
<1>1. prog' = prog /\ 1 \in Blocks /\ Blocks \subseteq Nat /\ states \in [Blocks -> BlockStates]
      /\ 0 \notin Blocks
  BY ProgStays, ProgFacts DEF StackTypeInv, Blocks
<1>2. CASE StartRound
  <2>1. /\ edges' = <<>> /\ worklist' = <<>> /\ ~states'[1].reached
    BY <1>1, <1>2 DEF StartRound, ControlInv, Unreached
  <2> QED BY <2>1, NoPlaces DEF FirstInv, Queued
<1>3. CASE WalkStatement
  <2>1. UNCHANGED <<states, worklist, cur, phase>> /\ phase = "walk" /\ ~AtEnd
    BY <1>3 DEF WalkStatement
  <2>2. ASSUME NEW p \in DOMAIN edges', edges'[p].to = 1
        PROVE  Key(p)'[2] = 0 /\ ~prog.inferred
    <3>1. CASE p \in DOMAIN edges
      <4>1. edges'[p] = edges[p]
        BY <1>3, <3>1, WalkEffect
      <4>2. Key(p)[2] = 0 /\ ~prog.inferred
        BY <2>2, <3>1, <4>1 DEF FirstInv
      <4> QED BY <4>1, <4>2 DEF Key
    <3>2. ASSUME NEW j \in 1..Len(Stmt.jumps), p = Len(edges) + j PROVE FALSE
      <4>1. edges'[p] = ExternalJumpEdges(stk, Stmt)[j]
        BY <1>3, <3>2, WalkEffect
      <4>2. ExternalJumpEdges(stk, Stmt)[j].to = Stmt.jumps[j].to
        <5>1. stk \in Stacks /\ cur \in Nat /\ edges \in Seq(Edges)
          BY ProgFacts DEF StackTypeInv
        <5>2. Stmt \in Ops
          BY <1>3, WalkEffect
        <5> QED BY <3>2, <5>1, <5>2, ExternalEdgesType
      <4>3. j \in DOMAIN Stmt.jumps
        BY <1>3, WalkEffect, LenProperties
      <4>4. Stmt.jumps[j].to # 1
        BY <2>1, <4>3, StmtJumps
      <4> QED BY <2>2, <4>1, <4>2, <4>4
    <3> QED BY <1>3, <3>1, <3>2, WalkEffect
  <2> QED BY <1>1, <2>1, <2>2 DEF FirstInv, Queued
<1>4. CASE WalkPanics \/ ReportPanics
  BY <1>1, <1>4 DEF WalkPanics, ReportPanics, FirstInv, Queued, Key
<1>5. CASE FirstExit
  <2>1. /\ edges' = ExitEdges(1, Height(stk)) \o edges /\ phase' = "merge" /\ worklist' = worklist
    BY <1>5 DEF FirstExit
  <2>2. states'[1].preds = [k \in {Initial} |-> prog.start]
    BY <1>1, <1>5 DEF FirstExit
  <2>3. \A p \in DOMAIN edges' : edges'[p].to = 1 => Key(p)'[2] = 0 /\ ~prog.inferred
    BY <1>1, <2>1, FirstEdges
  <2> QED BY <1>1, <2>1, <2>2, <2>3 DEF FirstInv, Queued
<1>6. CASE BlockExit
  <2>1. /\ edges' = ExitEdges(cur, Height(stk)) \o edges /\ phase' = "merge"
        /\ worklist' = worklist /\ cur \in Blocks
    BY <1>6 DEF BlockExit, StackTypeInv
  <2>2. states'[1].preds = states[1].preds /\ states'[1].reached = states[1].reached
    BY <1>1, <1>6 DEF BlockExit, BlockStates
  <2>3. \A p \in DOMAIN edges' : edges'[p].to = 1 => Key(p)'[2] = 0 /\ ~prog.inferred
    BY <2>1, FirstEdges
  <2> QED BY <1>1, <2>1, <2>2, <2>3 DEF FirstInv, Queued
<1>7. CASE MergeEdge
  <2> DEFINE e == Head(edges)
  <2>1. /\ e = edges[1] /\ e \in Edges /\ 1 \in DOMAIN edges
        /\ \A p \in DOMAIN edges' : p + 1 \in DOMAIN edges /\ edges'[p] = edges[p + 1]
        /\ 1 # e.to => states'[1] = states[1]
        /\ 1 = e.to => states'[1].preds = Recorded(states[1].preds, e)
        /\ Queued(1)' => Queued(1) \/ 1 = e.to
    BY <1>1, <1>7, MergeEffect
  <2>2. /\ phase = "merge" /\ phase' = "merge" /\ states[1].reached /\ cur \in Blocks
    BY <1>7 DEF MergeEdge, ControlInv, StackTypeInv
  <2>3. \A p \in DOMAIN edges' : edges'[p].to = 1 => Key(p)'[2] = 0 /\ ~prog.inferred
    BY <2>1 DEF FirstInv, Key
  <2>4. e.to = 1 => e.key[2] = 0 /\ ~prog.inferred
    BY <2>1 DEF FirstInv, Key
  <2>5. e.key[1] = cur /\ cur > 0
    BY <1>1, <2>1, <2>2 DEF ControlInv, Key
  <2>6. e.key # Initial
    BY <2>5 DEF Initial
  <2>7. states[1].preds \in Preds
    BY <1>1 DEF BlockStates
  <2>8. /\ DOMAIN Recorded(states[1].preds, e) = DOMAIN states[1].preds \cup {e.key}
        /\ \A k \in DOMAIN states[1].preds :
              k # e.key => Recorded(states[1].preds, e)[k] = states[1].preds[k]
    BY <2>1, <2>7, RecordedType
  <2> HIDE DEF e
  <2>9. /\ Initial \in DOMAIN states'[1].preds /\ states'[1].preds[Initial] = prog.start
        /\ \A k \in DOMAIN states'[1].preds :
              k = Initial \/ (k[1] > 0 /\ k[2] = 0 /\ ~prog.inferred)
    BY <2>1, <2>2, <2>4, <2>5, <2>6, <2>8 DEF FirstInv
  <2>10. prog.inferred => ~Queued(1)'
    BY <2>1, <2>4 DEF FirstInv
  <2> QED BY <1>1, <2>2, <2>3, <2>9, <2>10 DEF FirstInv
<1>8. CASE TakeBlock
  <2>1. UNCHANGED <<states, edges>>
    BY <1>8 DEF TakeBlock
  <2>2. /\ Queued(1)' => Queued(1)
        /\ Queued(cur')
    BY <1>1, <1>8, TakeEffect
  <2>3. prog.inferred => cur' # 1
    BY <2>2 DEF FirstInv
  <2> QED BY <1>1, <2>1, <2>2, <2>3 DEF FirstInv, Key
<1>9. CASE \/ GrowInitialStack \/ PropagationDone \/ CheckBlock \/ SkipBlock
           \/ ReportStatement \/ BlockReported \/ CheckJumpDepths
  <2>1. UNCHANGED <<states, edges, worklist>> /\ phase' # "walk"
    BY <1>9 DEF GrowInitialStack, PropagationDone, CheckBlock, SkipBlock,
                ReportStatement, BlockReported, CheckJumpDepths, RoundOver
  <2> QED BY <1>1, <2>1 DEF FirstInv, Queued, Key
<1>10. CASE Stopped \/ UNCHANGED vars
  BY <1>10 DEF Stopped, vars, FirstInv, Queued, Key
<1> QED BY <1>2, <1>3, <1>4, <1>5, <1>6, <1>7, <1>8, <1>9, <1>10 DEF Next

-----------------------------------------------------------------------------
(* No wildcards *)

\* Code without wildcards has none anywhere.
PlainInv ==
    Plain =>
      /\ ~stk.wild
      /\ \A p \in DOMAIN edges : ~edges[p].height.wild
      /\ \A i \in Blocks : \A k \in DOMAIN states[i].preds : ~states[i].preds[k].wild

\* A block of plain code has no wildcards.
LEMMA PlainBlock ==
  ASSUME prog \in Programs, Plain, NEW i \in Blocks
  PROVE  /\ ~prog.start.wild /\ ~prog.blocks[i].label.wild /\ prog.blocks[i].label \in Comments
         /\ \A k \in 1..Len(prog.blocks[i].ops) :
              /\ prog.blocks[i].ops[k] \in Ops /\ ~prog.blocks[i].ops[k].note.wild
              /\ \A j \in 1..Len(prog.blocks[i].ops[k].jumps) :
                    /\ j \in DOMAIN prog.blocks[i].ops[k].jumps
                    /\ ~prog.blocks[i].ops[k].jumps[j].wild
<1>1. IsBlock(prog.blocks[i])
  BY ProgFacts
<1>2. /\ DOMAIN prog.blocks[i].ops = 1..Len(prog.blocks[i].ops)
      /\ prog.blocks[i].label \in Comments
      /\ \A k \in 1..Len(prog.blocks[i].ops) : prog.blocks[i].ops[k] \in Ops
  BY <1>1, BlockType
<1>3. ASSUME NEW k \in 1..Len(prog.blocks[i].ops)
      PROVE  DOMAIN prog.blocks[i].ops[k].jumps = 1..Len(prog.blocks[i].ops[k].jumps)
  <2>1. prog.blocks[i].ops[k].jumps \in Seq(Jumps)
    BY <1>2, <1>3, OpType
  <2> QED BY <2>1, LenProperties
<1> QED BY <1>2, <1>3 DEF Plain

\* A predecessor that is recorded has the height of the edge or the one it had.
LEMMA PlainMerge ==
  ASSUME StackTypeInv, MergeEdge, Plain, PlainInv, NEW i \in Blocks,
         NEW k \in DOMAIN states'[i].preds
  PROVE  ~states'[i].preds[k].wild
<1> DEFINE e == Head(edges)
<1>1. /\ e = edges[1] /\ e \in Edges /\ 1 \in DOMAIN edges
      /\ i # e.to => states'[i] = states[i]
      /\ i = e.to => states'[i].preds = Recorded(states[i].preds, e)
  BY MergeEffect
<1>2. ~e.height.wild
  BY <1>1 DEF PlainInv
<1>3. states[i].preds \in Preds
  BY DEF StackTypeInv, BlockStates
<1> HIDE DEF e
<1>4. /\ DOMAIN Recorded(states[i].preds, e) = DOMAIN states[i].preds \cup {e.key}
      /\ Recorded(states[i].preds, e)[e.key] = e.height
      /\ \A l \in DOMAIN states[i].preds :
            l # e.key => Recorded(states[i].preds, e)[l] = states[i].preds[l]
  BY <1>1, <1>3, RecordedType
<1>5. \A l \in DOMAIN states[i].preds : ~states[i].preds[l].wild
  BY DEF PlainInv
<1>6. CASE i # e.to
  BY <1>1, <1>5, <1>6
<1>7. CASE i = e.to
  <2>1. states'[i].preds = Recorded(states[i].preds, e)
    BY <1>1, <1>7
  <2>2. k = e.key \/ (k \in DOMAIN states[i].preds /\ k # e.key)
    BY <1>4, <2>1
  <2> QED BY <1>2, <1>4, <1>5, <2>1, <2>2
<1> QED BY <1>6, <1>7

\* No wildcard comes up.
LEMMA PlainStep == StackTypeInv /\ ControlInv /\ PlainInv /\ [Next]_vars => PlainInv'
<1> SUFFICES ASSUME StackTypeInv, ControlInv, PlainInv, [Next]_vars, Plain'
             PROVE  PlainInv'
  BY DEF PlainInv
<1>1. prog' = prog /\ Blocks' = Blocks /\ states \in [Blocks -> BlockStates] /\ stk \in Stacks
      /\ prog \in Programs /\ preGrow \in Nat /\ FALSE \in BOOLEAN
  BY ProgStays DEF StackTypeInv
<1>2. Plain
  BY <1>1 DEF Plain
<1>3. ASSUME phase \in {"walk", "report"}, ~AtEnd PROVE ~Apply(stk, Stmt).wild
  <2>1. at \in 1..Len(Block.ops) /\ cur \in Blocks /\ Stmt \in Ops
    BY <1>3, StmtStack
  <2>2. ~Stmt.note.wild
    BY <1>1, <1>2, <2>1, PlainBlock DEF Stmt, Block
  <2> QED BY <1>1, <1>2, <2>1, <2>2, PlainApply DEF PlainInv
<1>4. ASSUME NEW i \in Blocks, NEW s \in Stacks, ~s.wild PROVE ~ApplyLabelComment(s, i).wild
  BY <1>1, <1>2, <1>4, PlainBlock, PlainComment DEF ApplyLabelComment
<1>5. ~Height(stk).wild
  BY <1>1, <1>2, HeightType DEF PlainInv
<1>6. ASSUME NEW i \in Blocks, edges' = ExitEdges(i, Height(stk)) \o edges,
             NEW p \in DOMAIN edges'
      PROVE  ~edges'[p].height.wild
  <2>1. CASE p \in DOMAIN Successors(i)
    <3>1. edges'[p] = [key |-> <<i, 0>>, to |-> Successors(i)[p], height |-> Height(stk)]
      BY <1>6, <2>1, ExitEffect
    <3> QED BY <1>5, <3>1
  <2>2. ASSUME NEW q \in DOMAIN edges, p = Len(Successors(i)) + q
        PROVE  ~edges'[p].height.wild
    <3>1. edges'[p] = edges[q]
      BY <1>6, <2>2, ExitEffect
    <3> QED BY <1>2, <3>1 DEF PlainInv
  <2> QED BY <1>6, <2>1, <2>2, ExitEffect
<1>7. CASE StartRound
  <2>1. /\ edges' = <<>> /\ states' = [i \in Blocks |-> Unreached]
        /\ stk' = ApplyLabelComment(InitialStack, 1)
    BY <1>7 DEF StartRound, ControlInv
  <2>2. ~stk'.wild
    <3>1. 1 \in Blocks /\ InitialStack \in Stacks /\ ~InitialStack.wild
      BY <1>1, <1>2, ProgFacts, InitialStackType DEF Plain
    <3> QED BY <1>4, <2>1, <3>1
  <2>3. \A i \in Blocks : DOMAIN states'[i].preds = {}
    BY <2>1, NoPlaces DEF Unreached
  <2> QED BY <1>1, <2>1, <2>2, <2>3, NoPlaces DEF PlainInv
<1>8. CASE WalkStatement
  <2>1. ~stk'.wild /\ states' = states
    BY <1>3, <1>8 DEF WalkStatement
  <2>2. ASSUME NEW p \in DOMAIN edges' PROVE ~edges'[p].height.wild
    <3>1. CASE p \in DOMAIN edges
      <4>1. edges'[p] = edges[p]
        BY <1>8, <3>1, WalkEffect
      <4> QED BY <1>2, <3>1, <4>1 DEF PlainInv
    <3>2. ASSUME NEW j \in 1..Len(Stmt.jumps), p = Len(edges) + j PROVE ~edges'[p].height.wild
      <4>1. edges'[p] = ExternalJumpEdges(stk, Stmt)[j]
        BY <1>8, <3>2, WalkEffect
      <4>2. ExternalJumpEdges(stk, Stmt)[j].height =
              [depth |-> Stmt.jumps[j].depth
                         + (IF stk.depth > Stmt.in THEN stk.depth - Stmt.in ELSE 0),
               wild  |-> Stmt.jumps[j].wild \/ stk.wild]
        <5>1. stk \in Stacks /\ cur \in Nat /\ edges \in Seq(Edges)
          BY ProgFacts DEF StackTypeInv
        <5>2. Stmt \in Ops
          BY <1>8, WalkEffect
        <5> QED BY <3>2, <5>1, <5>2, ExternalEdgesType
      <4>3. ~Stmt.jumps[j].wild
        <5>1. at \in 1..Len(Block.ops) /\ cur \in Blocks
          BY <1>8, StmtStack DEF WalkStatement
        <5> QED BY <1>1, <1>2, <3>2, <5>1, PlainBlock DEF Stmt, Block
      <4>4. ~(Stmt.jumps[j].wild \/ stk.wild)
        BY <1>2, <4>3 DEF PlainInv
      <4>5. \E d : ExternalJumpEdges(stk, Stmt)[j].height =
                      [depth |-> d, wild |-> Stmt.jumps[j].wild \/ stk.wild]
        BY <4>2
      <4>6. ASSUME NEW h, NEW b \in BOOLEAN, ~b, NEW d, h = [depth |-> d, wild |-> b]
            PROVE  ~h.wild
        BY <4>6
      <4>7. ~ExternalJumpEdges(stk, Stmt)[j].height.wild
        BY <4>4, <4>5, <4>6, Zenon
      <4> QED BY <4>1, <4>7
    <3> QED BY <1>8, <2>2, <3>1, <3>2, WalkEffect
  <2> QED BY <1>1, <1>2, <2>1, <2>2 DEF PlainInv
<1>9. CASE FirstExit
  <2>1. /\ edges' = ExitEdges(1, Height(stk)) \o edges /\ stk' = stk /\ 1 \in Blocks
    BY <1>1, <1>9, ProgFacts DEF FirstExit
  <2>2. /\ states'[1].preds = [k \in {Initial} |-> prog.start]
        /\ \A i \in Blocks : i # 1 => states'[i] = states[i]
    BY <1>1, <1>9, <2>1 DEF FirstExit
  <2>3. ~prog.start.wild
    BY <1>2 DEF Plain
  <2>4. \A i \in Blocks : \A k \in DOMAIN states'[i].preds : ~states'[i].preds[k].wild
    BY <1>2, <2>2, <2>3 DEF PlainInv
  <2> QED BY <1>1, <1>2, <1>6, <2>1, <2>4 DEF PlainInv
<1>10. CASE BlockExit
  <2>1. /\ edges' = ExitEdges(cur, Height(stk)) \o edges /\ stk' = stk /\ cur \in Blocks
    BY <1>10 DEF BlockExit, StackTypeInv
  <2>2. \A i \in Blocks : states'[i].preds = states[i].preds
    BY <1>1, <1>10 DEF BlockExit, BlockStates
  <2> QED BY <1>1, <1>2, <1>6, <2>1, <2>2 DEF PlainInv
<1>11. CASE MergeEdge
  <2>1. \A p \in DOMAIN edges' : p + 1 \in DOMAIN edges /\ edges'[p] = edges[p + 1]
    BY <1>11, MergeEffect
  <2>2. stk' = stk
    BY <1>11 DEF MergeEdge
  <2>3. \A i \in Blocks : \A k \in DOMAIN states'[i].preds : ~states'[i].preds[k].wild
    BY <1>2, <1>11, PlainMerge
  <2> QED BY <1>1, <1>2, <2>1, <2>2, <2>3 DEF PlainInv
<1>12. CASE TakeBlock
  <2>1. /\ UNCHANGED <<states, edges>> /\ cur' \in Blocks /\ Queued(cur')
    BY <1>1, <1>12, TakeEffect, ProgFacts DEF TakeBlock
  <2>2. ASSUME NEW i \in Blocks, Queued(i)
        PROVE  ~ApplyLabelComment(NewStack(states[i].entry, prog.inferred), i).wild
    <3>1. states[i].reached
      BY <2>2 DEF Queued, ControlInv
    <3>2. states[i] \in BlockStates /\ StateMerged(states[i]) /\ prog.inferred \in BOOLEAN
      BY <1>1, ProgFacts DEF StackTypeInv
    <3>3. states[i].entry \in Heights /\ states[i].preds \in Preds
          /\ states[i].entry = Merged(states[i].preds) /\ DOMAIN states[i].preds # {}
      BY <3>1, <3>2 DEF StateMerged, BlockStates
    <3>4. ~AnyPredWild(states[i].preds)
      BY <1>2 DEF PlainInv, AnyPredWild
    <3>5. ~states[i].entry.wild
      BY <3>3, <3>4, MergedType
    <3>6. NewStack(states[i].entry, prog.inferred) \in Stacks
          /\ ~NewStack(states[i].entry, prog.inferred).wild
      BY <3>2, <3>3, <3>5, NewStackType
    <3> QED BY <1>4, <3>6
  <2>3. stk' = ApplyLabelComment(NewStack(states[cur'].entry, prog.inferred), cur')
    BY <1>12 DEF TakeBlock
  <2>4. ~stk'.wild
    BY <2>1, <2>2, <2>3
  <2> QED BY <1>1, <1>2, <2>1, <2>4 DEF PlainInv
<1>13. CASE CheckBlock
  <2>1. /\ UNCHANGED <<states, edges>> /\ cur \in Blocks /\ states[cur].reached
        /\ stk' = ApplyLabelComment(EntryStack(cur), cur)
    BY <1>13 DEF CheckBlock
  <2>2. EntryStack(cur) \in Stacks /\ ~EntryStack(cur).wild
    <3>1. CASE cur = 1
      BY <1>1, <1>2, <3>1, InitialStackType DEF EntryStack, Plain
    <3>2. CASE cur # 1
      <4>1. states[cur] \in BlockStates /\ StateMerged(states[cur]) /\ prog.inferred \in BOOLEAN
        BY <1>1, <2>1, ProgFacts DEF StackTypeInv
      <4>2. states[cur].entry \in Heights /\ states[cur].preds \in Preds
            /\ states[cur].entry = Merged(states[cur].preds) /\ DOMAIN states[cur].preds # {}
        BY <2>1, <4>1 DEF StateMerged, BlockStates
      <4>3. ~AnyPredWild(states[cur].preds)
        BY <1>2, <2>1 DEF PlainInv, AnyPredWild
      <4>4. ~states[cur].entry.wild
        BY <4>2, <4>3, MergedType
      <4> QED BY <3>2, <4>1, <4>2, <4>4, NewStackType DEF EntryStack
    <3> QED BY <3>1, <3>2
  <2>3. ~stk'.wild
    BY <1>4, <2>1, <2>2
  <2> QED BY <1>1, <1>2, <2>1, <2>3 DEF PlainInv
<1>14. CASE ReportStatement
  BY <1>1, <1>2, <1>3, <1>14 DEF ReportStatement, PlainInv
<1>15. CASE \/ WalkPanics \/ GrowInitialStack \/ PropagationDone \/ SkipBlock \/ ReportPanics
            \/ BlockReported \/ CheckJumpDepths \/ Stopped \/ UNCHANGED vars
  <2>1. UNCHANGED <<states, edges, stk>>
    BY <1>15 DEF WalkPanics, GrowInitialStack, PropagationDone, SkipBlock, ReportPanics,
                 BlockReported, CheckJumpDepths, Stopped, vars
  <2> QED BY <1>1, <1>2, <2>1 DEF PlainInv
<1> QED BY <1>7, <1>8, <1>9, <1>10, <1>11, <1>12, <1>13, <1>14, <1>15 DEF Next

-----------------------------------------------------------------------------
(* Walks and their results *)

Size(i) == Len(prog.blocks[i].ops)

\* The stack block i is walked from, the stacks along the walk and the last of them.
StartOf(i) ==
    IF i = 1 /\ (prog.inferred \/ ~states[1].reached) THEN InitialStack
    ELSE NewStack(states[i].entry, prog.inferred)
W(i)     == WalkOf(prog.blocks[i], StartOf(i))
EndOf(i) == W(i)[Size(i) + 1]

\* The height at which statement op, met with stack s, jumps out.
JumpHeight(s, op, j) ==
    [depth |-> op.jumps[j].depth + (IF s.depth > op.in THEN s.depth - op.in ELSE 0),
     wild  |-> op.jumps[j].wild \/ s.wild]

\* An edge with this key, target and height is on its way.
Coming(key, t, h) == \E p \in DOMAIN edges : Key(p) = key /\ edges[p].to = t /\ edges[p].height = h

\* A jump out of block i has been recorded by its target, with no edge to change that on its
\* way, or is about to be.
JumpHandedOn(i, t, h) ==
    \E m \in Nat \ {0} :
        \/ Got(t, <<i, m>>, h) /\ \A p \in DOMAIN edges : Key(p) # <<i, m>>
        \/ Coming(<<i, m>>, t, h)

\* The jumps of a walk have numbers of their own.
DistinctInv ==
    /\ phase = "walk" => \A p \in DOMAIN edges : Key(p)[2] = p
    /\ phase = "merge" => \A p, q \in DOMAIN edges : Key(p) = Key(q) /\ Key(p)[2] > 0 => p = q

\* The stack is that of the walk over the current block, whose jumps are on their way.
WalkInv ==
    phase = "walk" =>
        /\ stk = W(cur)[at]
        /\ \A k \in 1..(at - 1) : \A j \in 1..Len(Block.ops[k].jumps) :
              \E m \in Nat \ {0} : Coming(<<cur, m>>, Block.ops[k].jumps[j].to,
                                         JumpHeight(W(cur)[k], Block.ops[k], j))

\* What is known of a block that has been walked with its present entry.
Settled(i) ==
    /\ states[i].exit = Height(EndOf(i))
    /\ prog.inferred => IF i = 1 THEN EndOf(i).grown = inputs ELSE EndOf(i).grown <= need
    /\ \A k \in 1..Size(i) : \A j \in 1..Len(prog.blocks[i].ops[k].jumps) :
          prog.blocks[i].ops[k].jumps[j].to \in Blocks =>
            JumpHandedOn(i, prog.blocks[i].ops[k].jumps[j].to,
                         JumpHeight(W(i)[k], prog.blocks[i].ops[k], j))

SettledInv ==
    phase \in {"walk", "merge", "check", "report", "done"} =>
        \A i \in Blocks : states[i].reached /\ ~Unfinished(i) => Settled(i)

\* A walk starts from a stack.
LEMMA StartType ==
  ASSUME StackTypeInv, NEW i \in Blocks
  PROVE  /\ StartOf(i) \in Stacks /\ StartOf(i).inferred = prog.inferred
         /\ IsBlock(prog.blocks[i]) /\ Size(i) \in Nat
<1>1. prog \in Programs /\ preGrow \in Nat /\ prog.inferred \in BOOLEAN
      /\ states[i].entry \in Heights
  BY ProgFacts DEF StackTypeInv, BlockStates
<1>2. IsBlock(prog.blocks[i])
  BY <1>1, ProgFacts
<1> QED BY <1>1, <1>2, InitialStackType, NewStackType, BlockType DEF StartOf, Size

\* The walk over a block, at the level of the analysis.
LEMMA WalkFacts ==
  ASSUME StackTypeInv, NEW i \in Blocks
  PROVE  /\ W(i)[1] = ApplyLabelComment(StartOf(i), i)
         /\ \A k \in 1..Size(i) : /\ W(i)[k + 1] = Apply(W(i)[k], prog.blocks[i].ops[k])
                                  /\ prog.blocks[i].ops[k] \in Ops
         /\ \A k \in 1..(Size(i) + 1) :
               W(i)[k] \in Stacks /\ W(i)[k].inferred = prog.inferred
               /\ W(i)[k].grown <= EndOf(i).grown
         /\ Size(i) \in Nat /\ EndOf(i) \in Stacks
<1>1. /\ StartOf(i) \in Stacks /\ StartOf(i).inferred = prog.inferred
      /\ IsBlock(prog.blocks[i]) /\ Size(i) \in Nat
  BY StartType
<1>2. W(i)[1] = ApplyLabelComment(StartOf(i), i)
  BY <1>1, WalkEquation DEF W, ApplyLabelComment
<1>3. \A k \in 1..Size(i) : /\ W(i)[k + 1] = Apply(W(i)[k], prog.blocks[i].ops[k])
                            /\ prog.blocks[i].ops[k] \in Ops
  BY <1>1, WalkEquation, BlockType DEF W, Size
<1>4. ASSUME NEW k \in 1..(Size(i) + 1)
      PROVE  W(i)[k] \in Stacks /\ W(i)[k].inferred = prog.inferred
             /\ W(i)[k].grown <= EndOf(i).grown
  BY <1>1, <1>4, WalkStacks DEF W, EndOf, Size
<1>5. Size(i) + 1 \in 1..(Size(i) + 1)
  BY <1>1
<1> QED BY <1>1, <1>2, <1>3, <1>4, <1>5 DEF EndOf

\* A walk depends on the stack it starts from alone.
LEMMA SameWalk ==
  ASSUME prog' = prog, NEW i, StartOf(i)' = StartOf(i)
  PROVE  W(i)' = W(i) /\ Size(i)' = Size(i) /\ EndOf(i)' = EndOf(i)
<1>1. W(i)' = W(i) /\ Size(i)' = Size(i)
  BY DEF W, Size
<1> QED BY <1>1 DEF EndOf

\* And that stack on the recorded entry.
LEMMA SameStart ==
  ASSUME prog' = prog, preGrow' = preGrow, NEW i,
         states'[i].entry = states[i].entry, states'[1].reached <=> states[1].reached
  PROVE  StartOf(i)' = StartOf(i)
<1>1. InitialStack' = InitialStack
  BY DEF InitialStack
<1> QED BY <1>1 DEF StartOf

\* A settled block stays so while its entry does and its jumps are not lost.
LEMMA SettledStays ==
  ASSUME StackTypeInv, NEW i \in Blocks, Settled(i), prog' = prog, Blocks' = Blocks,
         StartOf(i)' = StartOf(i), states'[i].exit = states[i].exit, inputs' = inputs,
         need' \in Nat, need' >= need,
         \A t \in Blocks : \A h : JumpHandedOn(i, t, h) => JumpHandedOn(i, t, h)'
  PROVE  Settled(i)'
<1>1. W(i)' = W(i) /\ Size(i)' = Size(i) /\ EndOf(i)' = EndOf(i)
  BY SameWalk
<1>2. EndOf(i).grown \in Nat /\ need \in Nat
  BY WalkFacts DEF Stacks, StackTypeInv
<1>3. EndOf(i).grown <= need => EndOf(i).grown <= need'
  BY <1>2
<1>4. (states[i].exit = Height(EndOf(i)))'
  BY <1>1 DEF Settled
<1>5. (prog.inferred => IF i = 1 THEN EndOf(i).grown = inputs ELSE EndOf(i).grown <= need)'
  BY <1>1, <1>3 DEF Settled
<1>6. ASSUME NEW k \in 1..Size(i)', NEW j \in 1..Len(prog'.blocks[i].ops[k].jumps),
             prog'.blocks[i].ops[k].jumps[j].to \in Blocks'
      PROVE  JumpHandedOn(i, prog.blocks[i].ops[k].jumps[j].to,
                          JumpHeight(W(i)[k], prog.blocks[i].ops[k], j))'
  <2> DEFINE t == prog.blocks[i].ops[k].jumps[j].to
             h == JumpHeight(W(i)[k], prog.blocks[i].ops[k], j)
  <2>1. k \in 1..Size(i) /\ j \in 1..Len(prog.blocks[i].ops[k].jumps) /\ t \in Blocks
    BY <1>1, <1>6
  <2>2. JumpHandedOn(i, t, h)
    BY <2>1 DEF Settled
  <2>3. t' = t /\ h' = h
    BY <1>1
  <2> HIDE DEF t, h
  <2>4. JumpHandedOn(i, t, h)'
    BY <2>1, <2>2, <2>3 DEF JumpHandedOn
  <2> QED BY <2>4 DEF t, h
<1> QED BY <1>4, <1>5, <1>6 DEF Settled

\* The edges at the end of a block have the number zero, which no jump has.
LEMMA DistinctExit ==
  ASSUME StackTypeInv, DistinctInv, phase = "walk", NEW i \in Blocks,
         edges' = ExitEdges(i, Height(stk)) \o edges,
         NEW p \in DOMAIN edges', NEW q \in DOMAIN edges', Key(p)' = Key(q)', Key(p)'[2] > 0
  PROVE  p = q
<1>1. ASSUME NEW r \in DOMAIN edges', Key(r)'[2] > 0
      PROVE  \E s \in DOMAIN edges : /\ r = Len(Successors(i)) + s
                                     /\ Key(r)' = Key(s) /\ Key(s)[2] = s
  <2>1. CASE r \in DOMAIN Successors(i)
    <3>1. edges'[r] = [key |-> <<i, 0>>, to |-> Successors(i)[r], height |-> Height(stk)]
      BY <1>1, <2>1, ExitEffect
    <3>2. Key(r)'[2] = 0
      BY <3>1 DEF Key
    <3> QED BY <1>1, <3>2
  <2>2. ASSUME NEW s \in DOMAIN edges, r = Len(Successors(i)) + s
        PROVE  Key(r)' = Key(s) /\ Key(s)[2] = s
    <3>1. edges'[r] = edges[s]
      BY <2>2, ExitEffect
    <3> QED BY <3>1 DEF Key, DistinctInv
  <2> QED BY <1>1, <2>1, <2>2, ExitEffect
<1>2. PICK s \in DOMAIN edges : p = Len(Successors(i)) + s /\ Key(p)' = Key(s) /\ Key(s)[2] = s
  BY <1>1
<1>3. PICK t \in DOMAIN edges : q = Len(Successors(i)) + t /\ Key(q)' = Key(t) /\ Key(t)[2] = t
  BY <1>1
<1>4. s = t
  BY <1>2, <1>3
<1> QED BY <1>2, <1>3, <1>4

\* Jumps keep their numbers.
LEMMA DistinctStep == StackTypeInv /\ ControlInv /\ DistinctInv /\ [Next]_vars => DistinctInv'
<1> SUFFICES ASSUME StackTypeInv, ControlInv, DistinctInv, [Next]_vars PROVE DistinctInv'
  OBVIOUS
<1>2. CASE StartRound
  BY <1>2, NoPlaces DEF StartRound, ControlInv, DistinctInv
<1>3. CASE WalkStatement
  <2>1. ASSUME NEW p \in DOMAIN edges' PROVE Key(p)'[2] = p
    <3>1. CASE p \in DOMAIN edges
      BY <1>3, <3>1, WalkEffect DEF DistinctInv, WalkStatement, Key
    <3>2. ASSUME NEW j \in 1..Len(Stmt.jumps), p = Len(edges) + j
          PROVE  Key(p)'[2] = p
      <4>1. Key(p)' = ExternalJumpEdges(stk, Stmt)[j].key
        BY <1>3, <3>2, WalkEffect DEF Key
      <4>2. ExternalJumpEdges(stk, Stmt)[j].key = <<cur, Len(edges) + j>>
        <5>1. stk \in Stacks /\ cur \in Nat /\ edges \in Seq(Edges)
          BY ProgFacts DEF StackTypeInv
        <5>2. Stmt \in Ops
          BY <1>3, WalkEffect
        <5> QED BY <3>2, <5>1, <5>2, ExternalEdgesType
      <4> QED BY <3>2, <4>1, <4>2
    <3> QED BY <1>3, <2>1, <3>1, <3>2, WalkEffect
  <2>2. phase' = "walk"
    BY <1>3 DEF WalkStatement
  <2> QED BY <2>1, <2>2 DEF DistinctInv
<1>5. CASE FirstExit
  <2>1. phase = "walk" /\ phase' = "merge" /\ edges' = ExitEdges(1, Height(stk)) \o edges
        /\ 1 \in Blocks
    BY <1>5, ProgFacts DEF FirstExit, StackTypeInv
  <2> QED BY <2>1, DistinctExit DEF DistinctInv
<1>6. CASE BlockExit
  <2>1. phase = "walk" /\ phase' = "merge" /\ edges' = ExitEdges(cur, Height(stk)) \o edges
        /\ cur \in Blocks
    BY <1>6 DEF BlockExit, StackTypeInv
  <2> QED BY <2>1, DistinctExit DEF DistinctInv
<1>7. CASE MergeEdge
  <2>1. phase = "merge" /\ phase' = "merge"
    BY <1>7 DEF MergeEdge
  <2>2. ASSUME NEW p \in DOMAIN edges', NEW q \in DOMAIN edges', Key(p)' = Key(q)', Key(p)'[2] > 0
        PROVE  p = q
    <3>1. /\ p + 1 \in DOMAIN edges /\ edges'[p] = edges[p + 1]
          /\ q + 1 \in DOMAIN edges /\ edges'[q] = edges[q + 1]
      BY <1>7, <2>2, MergeEffect
    <3>2. p + 1 = q + 1
      BY <2>1, <2>2, <3>1 DEF DistinctInv, Key
    <3>3. p \in Nat /\ q \in Nat
      <4>1. edges' \in Seq(Edges)
        BY <1>7, MergeEffect
      <4>2. DOMAIN edges' = 1..Len(edges') /\ Len(edges') \in Nat
        BY <4>1, LenProperties
      <4> QED BY <2>2, <4>2
    <3> QED BY <3>2, <3>3
  <2> QED BY <2>1, <2>2 DEF DistinctInv
<1>8. CASE TakeBlock
  BY <1>8, NoPlaces DEF TakeBlock, DistinctInv
<1>9. CASE \/ WalkPanics \/ ReportPanics \/ GrowInitialStack \/ PropagationDone \/ CheckBlock
           \/ SkipBlock \/ ReportStatement \/ BlockReported \/ CheckJumpDepths
  <2>1. phase' \notin {"walk", "merge"}
    BY <1>9 DEF WalkPanics, ReportPanics, GrowInitialStack, PropagationDone, CheckBlock,
                SkipBlock, ReportStatement, BlockReported, CheckJumpDepths, RoundOver
  <2> QED BY <2>1 DEF DistinctInv
<1>10. CASE Stopped \/ UNCHANGED vars
  BY <1>10 DEF Stopped, vars, DistinctInv, Key
<1> QED BY <1>2, <1>3, <1>5, <1>6, <1>7, <1>8, <1>9, <1>10 DEF Next

\* The walk goes on as WalkOf says.
LEMMA WalkStep ==
  StackTypeInv /\ ControlInv /\ FirstBlockChecked /\ FirstInv /\ WalkInv /\ [Next]_vars => WalkInv'
<1> SUFFICES ASSUME StackTypeInv, ControlInv, FirstBlockChecked, FirstInv, WalkInv, [Next]_vars
             PROVE  WalkInv'
  OBVIOUS
<1>1. prog' = prog /\ Blocks' = Blocks /\ 1 \in Blocks
  BY ProgStays, ProgFacts DEF StackTypeInv
<1>2. CASE StartRound
  <2>1. /\ cur' = 1 /\ at' = 1 /\ stk' = ApplyLabelComment(InitialStack, 1) /\ preGrow' = preGrow
        /\ states' = [i \in Blocks |-> Unreached]
    BY <1>2 DEF StartRound
  <2>2. ~states'[1].reached
    BY <1>1, <2>1 DEF Unreached
  <2>3. InitialStack' = InitialStack /\ StartOf(1)' = InitialStack'
    BY <1>1, <2>1, <2>2 DEF InitialStack, StartOf
  <2>4. InitialStack \in Stacks /\ IsBlock(prog.blocks[1])
    BY <1>1, InitialStackType, ProgFacts DEF StackTypeInv
  <2>5. WalkOf(prog.blocks[1], InitialStack)[1] = ApplyLabelComment(InitialStack, 1)
    BY <2>4, WalkEquation DEF ApplyLabelComment
  <2>6. W(1)' = WalkOf(prog.blocks[1], InitialStack)
    BY <1>1, <2>3 DEF W
  <2>7. (stk = W(cur)[at])'
    BY <2>1, <2>5, <2>6
  <2>8. 1..(at' - 1) = {}
    BY <2>1
  <2> QED BY <2>7, <2>8 DEF WalkInv
<1>3. CASE WalkStatement
  <2>1. /\ UNCHANGED <<states, cur, preGrow, phase>> /\ phase = "walk" /\ ~AtEnd
        /\ stk' = Apply(stk, Stmt) /\ at' = at + 1 /\ cur \in Blocks /\ Block' = Block
    BY <1>1, <1>3 DEF WalkStatement, StackTypeInv, Block
  <2>2. StartOf(cur)' = StartOf(cur)
    BY <1>1, <2>1 DEF StartOf, InitialStack
  <2>3. W(cur)' = W(cur) /\ Size(cur)' = Size(cur)
    BY <1>1, <2>1, <2>2 DEF W, Size
  <2>4. at \in 1..Size(cur) /\ stk \in Stacks
    BY <2>1, StmtStack DEF Size, Block, StackTypeInv
  <2>5. W(cur)[at + 1] = Apply(stk, Stmt)
    BY <2>1, <2>4, WalkFacts DEF WalkInv, Stmt, Block
  <2>6. ASSUME NEW k \in 1..(at' - 1), NEW j \in 1..Len(Block.ops[k].jumps)
        PROVE  \E m \in Nat \ {0} :
                 \E p \in DOMAIN edges' :
                    /\ Key(p)' = <<cur, m>> /\ edges'[p].to = Block.ops[k].jumps[j].to
                    /\ edges'[p].height = JumpHeight(W(cur)[k], Block.ops[k], j)
    <3>1. k \in 1..(at - 1) \/ k = at
      BY <2>1, <2>4, <2>6
    <3>2. CASE k \in 1..(at - 1)
      <4>1. PICK m \in Nat \ {0} : Coming(<<cur, m>>, Block.ops[k].jumps[j].to,
                                         JumpHeight(W(cur)[k], Block.ops[k], j))
        BY <2>1, <2>6, <3>2 DEF WalkInv
      <4>2. PICK p \in DOMAIN edges :
              /\ Key(p) = <<cur, m>> /\ edges[p].to = Block.ops[k].jumps[j].to
              /\ edges[p].height = JumpHeight(W(cur)[k], Block.ops[k], j)
        BY <4>1 DEF Coming
      <4>3. p \in DOMAIN edges' /\ edges'[p] = edges[p]
        BY <1>3, WalkEffect
      <4> QED BY <4>2, <4>3 DEF Key
    <3>3. CASE k = at
      <4>1. j \in 1..Len(Stmt.jumps) /\ Stmt = Block.ops[k]
        BY <2>6, <3>3 DEF Stmt
      <4>2. /\ Len(edges) + j \in DOMAIN edges' /\ Len(edges) \in Nat
            /\ edges'[Len(edges) + j] = ExternalJumpEdges(stk, Stmt)[j]
        BY <1>3, <4>1, WalkEffect
      <4>3. Stmt \in Ops /\ cur \in Nat /\ edges \in Seq(Edges)
        BY <1>3, WalkEffect, ProgFacts DEF StackTypeInv
      <4>4. /\ ExternalJumpEdges(stk, Stmt)[j].key = <<cur, Len(edges) + j>>
            /\ ExternalJumpEdges(stk, Stmt)[j].to = Stmt.jumps[j].to
            /\ ExternalJumpEdges(stk, Stmt)[j].height = JumpHeight(stk, Stmt, j)
        BY <2>4, <4>1, <4>3, ExternalEdgesType DEF JumpHeight
      <4>5. W(cur)[k] = stk
        BY <2>1, <3>3 DEF WalkInv
      <4>6. Len(edges) + j \in Nat \ {0}
        BY <2>6, <4>2
      <4> QED BY <4>1, <4>2, <4>4, <4>5, <4>6 DEF Key
    <3> QED BY <3>1, <3>2, <3>3
  <2>7. (stk = W(cur)[at])'
    BY <2>1, <2>3, <2>5
  <2>8. \A k \in 1..(at' - 1) : \A j \in 1..Len(Block'.ops[k].jumps) :
           (\E m \in Nat \ {0} : Coming(<<cur, m>>, Block.ops[k].jumps[j].to,
                                      JumpHeight(W(cur)[k], Block.ops[k], j)))'
    <3> SUFFICES ASSUME NEW k \in 1..(at' - 1), NEW j \in 1..Len(Block'.ops[k].jumps)
                 PROVE  (\E m \in Nat \ {0} :
                           Coming(<<cur, m>>, Block.ops[k].jumps[j].to,
                                  JumpHeight(W(cur)[k], Block.ops[k], j)))'
      OBVIOUS
    <3>1. j \in 1..Len(Block.ops[k].jumps)
      BY <2>1
    <3>2. PICK m \in Nat \ {0} : \E p \in DOMAIN edges' :
            /\ Key(p)' = <<cur, m>> /\ edges'[p].to = Block.ops[k].jumps[j].to
            /\ edges'[p].height = JumpHeight(W(cur)[k], Block.ops[k], j)
      BY <2>6, <3>1
    <3>3. \E p \in DOMAIN edges' :
            /\ Key(p)' = <<cur', m>> /\ edges'[p].to = Block'.ops[k].jumps[j].to
            /\ edges'[p].height = JumpHeight(W(cur)[k], Block.ops[k], j)'
      <4>1. JumpHeight(W(cur)[k], Block.ops[k], j)' = JumpHeight(W(cur)[k], Block.ops[k], j)
        BY <2>1, <2>3
      <4> QED BY <2>1, <3>2, <4>1
    <3> QED BY <3>3 DEF Coming
  <2> QED BY <2>7, <2>8 DEF WalkInv
<1>4. CASE TakeBlock
  <2>1. /\ UNCHANGED <<states, preGrow>> /\ at' = 1 /\ states[1].reached
        /\ stk' = ApplyLabelComment(NewStack(states[cur'].entry, prog.inferred), cur')
    BY <1>4 DEF TakeBlock, ControlInv
  <2>2. cur' \in Blocks /\ Queued(cur')
    BY <1>1, <1>4, TakeEffect
  <2>3. ASSUME NEW i \in Blocks, Queued(i)
        PROVE  W(i)'[1] = ApplyLabelComment(NewStack(states[i].entry, prog.inferred), i)
    <3>1. i = 1 => ~prog.inferred
      BY <2>3 DEF FirstInv
    <3>2. StartOf(i) = NewStack(states[i].entry, prog.inferred)
      BY <2>1, <3>1 DEF StartOf
    <3>3. StartOf(i)' = StartOf(i)
      BY <1>1, <2>1 DEF StartOf, InitialStack
    <3>4. W(i)' = W(i)
      BY <1>1, <3>3 DEF W
    <3> QED BY <2>3, <3>2, <3>4, WalkFacts
  <2>4. (stk = W(cur)[at])'
    <3>1. stk' = W(cur)'[1]
      BY <2>1, <2>2, <2>3 DEF W, StartOf
    <3> QED BY <2>1, <3>1
  <2>5. 1..(at' - 1) = {}
    BY <2>1
  <2> QED BY <2>4, <2>5 DEF WalkInv
<1>5. CASE \/ WalkPanics \/ FirstExit \/ BlockExit \/ MergeEdge \/ ReportPanics
           \/ GrowInitialStack \/ PropagationDone \/ CheckBlock
           \/ SkipBlock \/ ReportStatement \/ BlockReported \/ CheckJumpDepths
  <2>1. phase' # "walk"
    BY <1>5 DEF WalkPanics, FirstExit, BlockExit, MergeEdge, ReportPanics, GrowInitialStack,
                PropagationDone, CheckBlock, SkipBlock, ReportStatement, BlockReported,
                CheckJumpDepths, RoundOver
  <2> QED BY <2>1 DEF WalkInv
<1>6. CASE Stopped \/ UNCHANGED vars
  <2>1. UNCHANGED vars
    BY <1>6 DEF Stopped
  <2>2. UNCHANGED <<prog, phase, preGrow, states, cur, at, stk, edges>>
    BY <2>1 DEF vars
  <2>3. W(cur)' = W(cur) /\ Block' = Block
    BY <2>2 DEF W, StartOf, InitialStack, Block
  <2>4. SUFFICES ASSUME phase = "walk"
                 PROVE  /\ (stk = W(cur)[at])'
                        /\ \A k \in 1..(at' - 1) : \A j \in 1..Len(Block'.ops[k].jumps) :
                             (\E m \in Nat \ {0} :
                                Coming(<<cur, m>>, Block.ops[k].jumps[j].to,
                                       JumpHeight(W(cur)[k], Block.ops[k], j)))'
    BY <2>2 DEF WalkInv
  <2>5. ASSUME NEW k \in 1..(at - 1), NEW j \in 1..Len(Block.ops[k].jumps)
        PROVE  \E m \in Nat \ {0} : Coming(<<cur, m>>, Block.ops[k].jumps[j].to,
                                           JumpHeight(W(cur)[k], Block.ops[k], j))
    BY <2>4, <2>5 DEF WalkInv
  <2>6. stk = W(cur)[at]
    BY <2>4 DEF WalkInv
  <2>7. ASSUME NEW k \in 1..(at' - 1), NEW j \in 1..Len(Block'.ops[k].jumps)
        PROVE  (\E m \in Nat \ {0} : Coming(<<cur, m>>, Block.ops[k].jumps[j].to,
                                           JumpHeight(W(cur)[k], Block.ops[k], j)))'
    <3>1. k \in 1..(at - 1) /\ j \in 1..Len(Block.ops[k].jumps)
      BY <2>2, <2>3, <2>7
    <3>2. PICK m \in Nat \ {0} : Coming(<<cur, m>>, Block.ops[k].jumps[j].to,
                                       JumpHeight(W(cur)[k], Block.ops[k], j))
      BY <2>5, <3>1
    <3> QED BY <2>2, <2>3, <3>2 DEF Coming, Key
  <2> QED BY <2>2, <2>3, <2>6, <2>7
<1> QED BY <1>2, <1>3, <1>4, <1>5, <1>6 DEF Next

\* Walking another block does not disturb the jumps out of block i.
LEMMA JumpsWalk ==
  ASSUME StackTypeInv, WalkStatement, NEW i, i # cur, NEW t, NEW h, JumpHandedOn(i, t, h)
  PROVE  JumpHandedOn(i, t, h)'
<1>1. PICK m \in Nat \ {0} :
        \/ Got(t, <<i, m>>, h) /\ \A p \in DOMAIN edges : Key(p) # <<i, m>>
        \/ Coming(<<i, m>>, t, h)
  BY DEF JumpHandedOn
<1>2. states' = states
  BY DEF WalkStatement
<1>3. /\ \A p \in DOMAIN edges : p \in DOMAIN edges' /\ edges'[p] = edges[p]
      /\ \A p \in DOMAIN edges' :
            p \in DOMAIN edges \/ \E j \in 1..Len(Stmt.jumps) : p = Len(edges) + j
  BY WalkEffect
<1>4. CASE Got(t, <<i, m>>, h) /\ \A p \in DOMAIN edges : Key(p) # <<i, m>>
  <2>1. ASSUME NEW p \in DOMAIN edges' PROVE Key(p)' # <<i, m>>
    <3>1. CASE p \in DOMAIN edges
      BY <1>3, <1>4, <3>1 DEF Key
    <3>2. ASSUME NEW j \in 1..Len(Stmt.jumps), p = Len(edges) + j PROVE Key(p)' # <<i, m>>
      <4>1. Key(p)' = ExternalJumpEdges(stk, Stmt)[j].key
        BY <3>2, WalkEffect DEF Key
      <4>2. ExternalJumpEdges(stk, Stmt)[j].key = <<cur, Len(edges) + j>>
        <5>1. stk \in Stacks /\ cur \in Nat /\ edges \in Seq(Edges)
          BY ProgFacts DEF StackTypeInv
        <5>2. Stmt \in Ops
          BY WalkEffect
        <5> QED BY <3>2, <5>1, <5>2, ExternalEdgesType
      <4> QED BY <4>1, <4>2
    <3> QED BY <1>3, <2>1, <3>1, <3>2
  <2> QED BY <1>2, <1>4, <2>1 DEF JumpHandedOn, Got
<1>5. CASE Coming(<<i, m>>, t, h)
  BY <1>3, <1>5 DEF JumpHandedOn, Coming, Key
<1> QED BY <1>1, <1>4, <1>5

\* Nor does the end of a block.
LEMMA JumpsExit ==
  ASSUME StackTypeInv, NEW c \in Blocks, edges' = ExitEdges(c, Height(stk)) \o edges,
         NEW i, NEW t, states'[t].reached = states[t].reached, states'[t].preds = states[t].preds,
         NEW h, JumpHandedOn(i, t, h)
  PROVE  JumpHandedOn(i, t, h)'
<1>1. PICK m \in Nat \ {0} :
        \/ Got(t, <<i, m>>, h) /\ \A p \in DOMAIN edges : Key(p) # <<i, m>>
        \/ Coming(<<i, m>>, t, h)
  BY DEF JumpHandedOn
<1>2. /\ \A p \in DOMAIN edges : /\ Len(Successors(c)) + p \in DOMAIN edges'
                                 /\ edges'[Len(Successors(c)) + p] = edges[p]
      /\ \A p \in DOMAIN edges' :
            p \in DOMAIN Successors(c) \/ \E q \in DOMAIN edges : p = Len(Successors(c)) + q
  BY ExitEffect
<1>3. CASE Got(t, <<i, m>>, h) /\ \A p \in DOMAIN edges : Key(p) # <<i, m>>
  <2>1. ASSUME NEW p \in DOMAIN edges' PROVE Key(p)' # <<i, m>>
    <3>1. CASE p \in DOMAIN Successors(c)
      <4>1. edges'[p] = [key |-> <<c, 0>>, to |-> Successors(c)[p], height |-> Height(stk)]
        BY <3>1, ExitEffect
      <4>2. Key(p)' = <<c, 0>>
        BY <4>1 DEF Key
      <4> QED BY <4>2
    <3>2. ASSUME NEW q \in DOMAIN edges, p = Len(Successors(c)) + q PROVE Key(p)' # <<i, m>>
      BY <1>2, <1>3, <3>2 DEF Key
    <3> QED BY <1>2, <2>1, <3>1, <3>2
  <2> QED BY <1>3, <2>1 DEF JumpHandedOn, Got
<1>4. CASE Coming(<<i, m>>, t, h)
  <2>1. PICK p \in DOMAIN edges : Key(p) = <<i, m>> /\ edges[p].to = t /\ edges[p].height = h
    BY <1>4 DEF Coming
  <2>2. /\ Len(Successors(c)) + p \in DOMAIN edges'
        /\ edges'[Len(Successors(c)) + p] = edges[p]
    BY <1>2
  <2>3. Coming(<<i, m>>, t, h)'
    BY <2>1, <2>2 DEF Coming, Key
  <2> QED BY <2>3 DEF JumpHandedOn
<1> QED BY <1>1, <1>3, <1>4

\* Merging an edge records it or leaves it for later.
LEMMA JumpsMerge ==
  ASSUME StackTypeInv, DistinctInv, MergeEdge, NEW i, NEW t \in Blocks, NEW h,
         JumpHandedOn(i, t, h)
  PROVE  JumpHandedOn(i, t, h)'
<1> DEFINE e == Head(edges)
<1>1. PICK m \in Nat \ {0} :
        \/ Got(t, <<i, m>>, h) /\ \A p \in DOMAIN edges : Key(p) # <<i, m>>
        \/ Coming(<<i, m>>, t, h)
  BY DEF JumpHandedOn
<1>2. /\ e = edges[1] /\ e \in Edges /\ 1 \in DOMAIN edges
      /\ \A p \in DOMAIN edges' : p + 1 \in DOMAIN edges /\ edges'[p] = edges[p + 1]
      /\ \A p \in DOMAIN edges : p = 1 \/ (p - 1 \in DOMAIN edges' /\ edges'[p - 1] = edges[p])
      /\ t # e.to => states'[t] = states[t]
      /\ t = e.to => states'[t].reached /\ states'[t].preds = Recorded(states[t].preds, e)
  BY MergeEffect
<1>3. states[t].preds \in Preds /\ phase = "merge"
  BY DEF StackTypeInv, BlockStates, MergeEdge
<1> HIDE DEF e
<1>4. /\ DOMAIN Recorded(states[t].preds, e) = DOMAIN states[t].preds \cup {e.key}
      /\ Recorded(states[t].preds, e)[e.key] = e.height
      /\ \A k \in DOMAIN states[t].preds :
            k # e.key => Recorded(states[t].preds, e)[k] = states[t].preds[k]
  <2>1. e \in Edges
    BY <1>2
  <2> QED BY <1>3, <2>1, RecordedType
<1>5. CASE Got(t, <<i, m>>, h) /\ \A p \in DOMAIN edges : Key(p) # <<i, m>>
  <2>1. e.key # <<i, m>>
    BY <1>2, <1>5 DEF Key
  <2>2. Got(t, <<i, m>>, h)'
    <3>1. states[t].reached /\ <<i, m>> \in DOMAIN states[t].preds
          /\ states[t].preds[<<i, m>>] = h
      BY <1>5 DEF Got
    <3>2. CASE t # e.to
      BY <1>2, <3>1, <3>2 DEF Got
    <3>3. CASE t = e.to
      <4>1. states'[t].reached /\ states'[t].preds = Recorded(states[t].preds, e)
        BY <1>2, <3>3
      <4>2. <<i, m>> \in DOMAIN Recorded(states[t].preds, e)
            /\ Recorded(states[t].preds, e)[<<i, m>>] = h
        BY <1>4, <2>1, <3>1
      <4> QED BY <4>1, <4>2 DEF Got
    <3> QED BY <3>2, <3>3
  <2>3. \A p \in DOMAIN edges' : Key(p)' # <<i, m>>
    BY <1>2, <1>5 DEF Key
  <2> QED BY <2>2, <2>3 DEF JumpHandedOn
<1>6. ASSUME NEW p \in DOMAIN edges, Key(p) = <<i, m>>, edges[p].to = t, edges[p].height = h
      PROVE  JumpHandedOn(i, t, h)'
  <2>1. CASE p # 1
    <3>1. p - 1 \in DOMAIN edges' /\ edges'[p - 1] = edges[p]
      BY <1>2, <1>6, <2>1
    <3>2. Coming(<<i, m>>, t, h)'
      BY <1>6, <3>1 DEF Coming, Key
    <3> QED BY <3>2 DEF JumpHandedOn
  <2>2. CASE p = 1
    <3>1. e.key = <<i, m>> /\ e.to = t /\ e.height = h
      BY <1>2, <1>6, <2>2 DEF Key
    <3>2. states'[t].reached /\ states'[t].preds = Recorded(states[t].preds, e)
      BY <1>2, <3>1
    <3>3. <<i, m>> \in DOMAIN Recorded(states[t].preds, e)
          /\ Recorded(states[t].preds, e)[<<i, m>>] = h
      BY <1>4, <3>1
    <3>4. Got(t, <<i, m>>, h)'
      BY <3>2, <3>3 DEF Got
    <3>5. ASSUME NEW q \in DOMAIN edges' PROVE Key(q)' # <<i, m>>
      <4>1. q + 1 \in DOMAIN edges /\ edges'[q] = edges[q + 1]
        BY <1>2, <3>5
      <4>2. q + 1 # 1
        <5>1. edges' \in Seq(Edges)
          BY MergeEffect
        <5>2. DOMAIN edges' = 1..Len(edges') /\ Len(edges') \in Nat
          BY <5>1, LenProperties
        <5> QED BY <3>5, <5>2
      <4>3. Key(p)[2] > 0
        <5>1. Key(p)[2] = m
          BY <1>6
        <5> QED BY <5>1
      <4>4. Key(q + 1) # Key(p)
        BY <1>3, <1>6, <2>2, <4>1, <4>2, <4>3 DEF DistinctInv
      <4> QED BY <1>6, <4>1, <4>4 DEF Key
    <3> QED BY <3>4, <3>5 DEF JumpHandedOn
  <2> QED BY <2>1, <2>2
<1> QED BY <1>1, <1>5, <1>6 DEF Coming

\* The block whose walk ends is settled.
LEMMA SettledExit ==
  ASSUME StackTypeInv, WalkInv, phase = "walk", AtEnd, prog' = prog, Blocks' = Blocks,
         edges' = ExitEdges(cur, Height(stk)) \o edges, NEW c, c = cur,
         states'[c].exit = Height(stk), StartOf(c)' = StartOf(c),
         prog.inferred => IF c = 1 THEN inputs' = stk.grown ELSE stk.grown <= need'
  PROVE  Settled(c)'
<1>1. c \in Blocks /\ at = Size(c) + 1
  <2>1. cur \in Blocks /\ at \in 1..(Len(Block.ops) + 1) /\ IsBlock(Block)
    BY ProgFacts DEF StackTypeInv, Block
  <2>2. Len(Block.ops) \in Nat
    BY <2>1, BlockType
  <2>3. PICK n \in Nat : n = Len(Block.ops)
    BY <2>2
  <2>4. at \in 1..(n + 1) /\ at > n
    BY <2>1, <2>3 DEF AtEnd
  <2>5. at = n + 1
    BY <2>4
  <2>6. Size(c) = n
    BY <2>3 DEF Size, Block
  <2> QED BY <2>1, <2>5, <2>6
<1>2. W(c)' = W(c) /\ Size(c)' = Size(c) /\ EndOf(c)' = EndOf(c) /\ EndOf(c) = stk
  BY <1>1, SameWalk DEF EndOf, WalkInv
<1>3. ASSUME NEW k \in 1..Size(c), NEW j \in 1..Len(prog.blocks[c].ops[k].jumps)
      PROVE  JumpHandedOn(c, prog.blocks[c].ops[k].jumps[j].to,
                          JumpHeight(W(c)[k], prog.blocks[c].ops[k], j))'
  <2> DEFINE t == prog.blocks[c].ops[k].jumps[j].to
             h == JumpHeight(W(c)[k], prog.blocks[c].ops[k], j)
  <2>1. k \in 1..(at - 1)
    BY <1>1, <1>3, WalkFacts
  <2>2. PICK m \in Nat \ {0} : Coming(<<c, m>>, t, h)
    BY <1>3, <2>1 DEF WalkInv, Block
  <2>3. t' = t /\ h' = h
    BY <1>2
  <2> HIDE DEF t, h
  <2>4. PICK p \in DOMAIN edges : Key(p) = <<c, m>> /\ edges[p].to = t /\ edges[p].height = h
    BY <2>2 DEF Coming
  <2>5. /\ Len(Successors(c)) + p \in DOMAIN edges'
        /\ edges'[Len(Successors(c)) + p] = edges[p]
    BY <1>1, <2>4, ExitEffect
  <2>6. JumpHandedOn(c, t, h)'
    BY <2>3, <2>4, <2>5 DEF JumpHandedOn, Coming, Key
  <2> QED BY <2>6 DEF t, h
<1>4. (states[c].exit = Height(EndOf(c)))'
  BY <1>2
<1>5. (prog.inferred => IF c = 1 THEN EndOf(c).grown = inputs ELSE EndOf(c).grown <= need)'
  BY <1>2
<1> QED BY <1>2, <1>3, <1>4, <1>5 DEF Settled

\* Settled blocks stay settled, and the block that has been walked is.
LEMMA SettledStep ==
  /\ StackTypeInv /\ ControlInv /\ FirstBlockChecked /\ FirstInv /\ DistinctInv /\ WalkInv
  /\ SettledInv /\ [Next]_vars
  => SettledInv'
<1> SUFFICES ASSUME StackTypeInv, ControlInv, FirstBlockChecked, FirstInv, DistinctInv, WalkInv,
                    SettledInv, [Next]_vars,
                    (phase \in {"walk", "merge", "check", "report", "done"})',
                    NEW i \in Blocks', states'[i].reached, ~Unfinished(i)'
             PROVE  Settled(i)'
  BY DEF SettledInv
<1>1. prog' = prog /\ Blocks' = Blocks /\ 1 \in Blocks /\ i \in Blocks /\ prog \in Programs
      /\ states \in [Blocks -> BlockStates] /\ need \in Nat
  BY ProgStays, ProgFacts DEF StackTypeInv
<1>2. CASE StartRound
  <2>1. states' = [k \in Blocks |-> Unreached]
    BY <1>2 DEF StartRound
  <2>2. ~states'[i].reached
    BY <1>1, <2>1 DEF Unreached
  <2> QED BY <2>2
<1>3. CASE WalkStatement
  <2>1. /\ UNCHANGED <<states, worklist, preGrow, inputs, need, cur, phase>> /\ phase = "walk"
    BY <1>3 DEF WalkStatement
  <2>2. states[i].reached /\ ~Unfinished(i) /\ i # cur
    BY <2>1 DEF Unfinished, Queued
  <2>3. Settled(i)
    BY <1>1, <2>1, <2>2 DEF SettledInv
  <2>4. StartOf(i)' = StartOf(i)
    BY <1>1, <2>1, SameStart
  <2>5. \A t \in Blocks : \A h : JumpHandedOn(i, t, h) => JumpHandedOn(i, t, h)'
    BY <1>3, <2>2, JumpsWalk
  <2>6. need' \in Nat /\ need' >= need
    BY <1>1, <2>1
  <2> QED BY <1>1, <2>1, <2>3, <2>4, <2>5, <2>6, SettledStays
<1>4. CASE FirstExit
  <2>1. /\ phase = "walk" /\ AtEnd /\ ~states[1].reached /\ cur = 1
        /\ UNCHANGED <<preGrow, worklist>> /\ inputs' = stk.grown
        /\ edges' = ExitEdges(cur, Height(stk)) \o edges
    BY <1>4 DEF FirstExit, ControlInv
  <2>2. /\ states'[1].exit = Height(stk) /\ states'[1].reached /\ states'[1].entry = prog.start
        /\ \A k \in Blocks : k # 1 => states'[k] = states[k]
    BY <1>1, <1>4 DEF FirstExit
  <2>3. i = 1
    BY <1>1, <2>1, <2>2 DEF ControlInv
  <2>4. StartOf(1)' = StartOf(1)
    <3>1. InitialStack' = InitialStack /\ StartOf(1) = InitialStack
      BY <1>1, <2>1 DEF InitialStack, StartOf
    <3>2. ~prog.inferred => InitialStack = NewStack(prog.start, prog.inferred)
      BY <1>1, InitialStackType DEF StackTypeInv
    <3> QED BY <1>1, <2>2, <3>1, <3>2 DEF StartOf
  <2> QED BY <1>1, <2>1, <2>2, <2>3, <2>4, SettledExit
<1>5. CASE BlockExit
  <2>1. /\ phase = "walk" /\ AtEnd /\ states[1].reached /\ phase' = "merge"
        /\ UNCHANGED <<preGrow, worklist, inputs>> /\ cur \in Blocks
        /\ need' = IF stk.grown > need THEN stk.grown ELSE need
        /\ edges' = ExitEdges(cur, Height(stk)) \o edges
    BY <1>5 DEF BlockExit, StackTypeInv
  <2>2. \A k \in Blocks : /\ states'[k].entry = states[k].entry
                          /\ states'[k].reached = states[k].reached
                          /\ states'[k].preds = states[k].preds
                          /\ k # cur => states'[k] = states[k]
                          /\ k = cur => states'[k].exit = Height(stk)
    BY <1>1, <1>5 DEF BlockExit, BlockStates
  <2>3. StartOf(i)' = StartOf(i)
    BY <1>1, <2>1, <2>2, SameStart
  <2>4. stk.grown \in Nat /\ need' \in Nat /\ need' >= need /\ stk.grown <= need'
    <3>1. stk.grown \in Nat
      BY DEF StackTypeInv, Stacks
    <3> QED BY <1>1, <2>1, <3>1
  <2>5. CASE i = cur
    <3>1. prog.inferred => cur # 1
      BY <2>1 DEF FirstInv
    <3> QED BY <1>1, <2>1, <2>2, <2>3, <2>4, <2>5, <3>1, SettledExit
  <2>6. CASE i # cur
    <3>1. states[i].reached /\ ~Unfinished(i)
      BY <1>1, <2>1, <2>2, <2>6 DEF Unfinished, Queued
    <3>2. Settled(i)
      BY <1>1, <2>1, <3>1 DEF SettledInv
    <3>3. \A t \in Blocks : \A h : JumpHandedOn(i, t, h) => JumpHandedOn(i, t, h)'
      BY <1>1, <2>1, <2>2, JumpsExit
    <3>4. states'[i].exit = states[i].exit
      BY <1>1, <2>2, <2>6
    <3> QED BY <1>1, <2>1, <2>3, <2>4, <3>2, <3>3, <3>4, SettledStays
  <2> QED BY <2>5, <2>6
<1>6. CASE MergeEdge
  <2> DEFINE e == Head(edges)
  <2>1. /\ phase = "merge" /\ UNCHANGED <<preGrow, inputs, need, phase, cur>>
        /\ states[1].reached
    BY <1>6 DEF MergeEdge, ControlInv
  <2>2. \A k \in Blocks :
          /\ states'[k].exit = states[k].exit
          /\ k # e.to => states'[k] = states[k]
          /\ k = e.to => /\ states'[k] = MergePredecessor(states[k], e)
                         /\ states'[k].reached /\ (EntryChanges(states[k], e) => Queued(k)')
          /\ Queued(k) => Queued(k)'
    BY <1>6, MergeEffect
  <2> HIDE DEF e
  <2>3. ~Queued(i)' /\ ~Queued(i)
    BY <1>1, <2>2 DEF Unfinished
  <2>4. states[i].reached /\ states'[i].entry = states[i].entry
    BY <1>1, <2>2, <2>3 DEF EntryChanges
  <2>5. states'[1].reached <=> states[1].reached
    BY <1>1, <2>1, <2>2
  <2>6. StartOf(i)' = StartOf(i)
    BY <1>1, <2>1, <2>4, <2>5, SameStart
  <2>7. Settled(i)
    BY <1>1, <2>1, <2>3, <2>4 DEF SettledInv, Unfinished
  <2>8. \A t \in Blocks : \A h : JumpHandedOn(i, t, h) => JumpHandedOn(i, t, h)'
    BY <1>6, JumpsMerge
  <2>9. need' \in Nat /\ need' >= need
    BY <1>1, <2>1
  <2> QED BY <1>1, <2>1, <2>2, <2>6, <2>7, <2>8, <2>9, SettledStays
<1>7. CASE \/ TakeBlock \/ PropagationDone \/ CheckBlock \/ SkipBlock \/ ReportStatement
           \/ BlockReported \/ CheckJumpDepths \/ Stopped \/ UNCHANGED vars
  <2>1. /\ UNCHANGED <<states, preGrow, inputs, need, edges>>
        /\ phase \in {"walk", "merge", "check", "report", "done"}
    BY <1>7 DEF TakeBlock, PropagationDone, RoundOver, CheckBlock, SkipBlock, ReportStatement,
                BlockReported, CheckJumpDepths, Stopped, vars
  <2>2. states[i].reached /\ ~Unfinished(i)
    <3>1. CASE TakeBlock
      BY <1>1, <2>1, <3>1, TakeEffect DEF TakeBlock, Unfinished
    <3>2. CASE PropagationDone
      BY <2>1, <3>2, NoPlaces DEF PropagationDone, RoundOver, Unfinished, Queued
    <3>3. CASE \/ CheckBlock \/ SkipBlock \/ ReportStatement
               \/ BlockReported \/ CheckJumpDepths \/ Stopped \/ UNCHANGED vars
      <4>1. UNCHANGED worklist /\ (phase = "walk" => phase' = "walk" /\ cur' = cur)
        BY <3>3 DEF CheckBlock, SkipBlock, ReportStatement, BlockReported, CheckJumpDepths,
                    Stopped, vars
      <4> QED BY <2>1, <4>1 DEF Unfinished, Queued
    <3> QED BY <1>7, <3>1, <3>2, <3>3
  <2>3. Settled(i)
    BY <1>1, <2>1, <2>2 DEF SettledInv
  <2>4. StartOf(i)' = StartOf(i)
    BY <1>1, <2>1, SameStart
  <2>5. \A t \in Blocks : \A h : JumpHandedOn(i, t, h) => JumpHandedOn(i, t, h)'
    BY <2>1 DEF JumpHandedOn, Got, Coming, Key
  <2>6. need' \in Nat /\ need' >= need
    BY <1>1, <2>1
  <2> QED BY <1>1, <2>1, <2>3, <2>4, <2>5, <2>6, SettledStays
<1>8. CASE WalkPanics \/ ReportPanics \/ GrowInitialStack
  BY <1>8 DEF WalkPanics, ReportPanics, GrowInitialStack
<1> QED BY <1>2, <1>3, <1>4, <1>5, <1>6, <1>7, <1>8 DEF Next

-----------------------------------------------------------------------------
(* What a silent check says *)

\* The walk phase 2 makes over block i, and what it says of the block without a warning.
V(i) == WalkOf(prog.blocks[i], EntryStack(i))
HeadChecked(i) ==
    /\ i # 1 => CheckMergeDepth(i) = {}
    /\ CheckLoopBalance(i) = {}
    /\ CheckLabelComment(i, EntryStack(i)) = {}
OpsChecked(i, n) == \A k \in 1..n : ApplyErrors(V(i)[k], prog.blocks[i].ops[k]) = {}

\* Phase 2 walks each reached block once, and has said nothing about those it has passed.
CheckInv ==
    /\ phase \in {"check", "report", "done"} => need = 0
    /\ phase = "report" => states[cur].reached /\ stk = V(cur)[at]
    /\ phase = "done" => cur = N + 1
    /\ phase \in {"check", "report", "done"} /\ warnings = {} =>
          \A i \in Blocks : states[i].reached =>
             /\ i < cur => HeadChecked(i) /\ OpsChecked(i, Size(i))
             /\ phase = "report" /\ i = cur => HeadChecked(i) /\ OpsChecked(i, at - 1)
    /\ Quiet => \A i \in Blocks : WrongJumps(i) = {}

\* Phase 2 looks at the program and the states of its blocks.
LEMMA SameCheck ==
  ASSUME UNCHANGED <<prog, states, preGrow>>, NEW i
  PROVE  /\ V(i)' = V(i) /\ Size(i)' = Size(i) /\ EntryStack(i)' = EntryStack(i)
         /\ HeadChecked(i) => HeadChecked(i)'
         /\ \A n : OpsChecked(i, n) => OpsChecked(i, n)'
         /\ WrongJumps(i)' = WrongJumps(i)
<1>1. EntryStack(i)' = EntryStack(i)
  <2>1. InitialStack' = InitialStack
    BY DEF InitialStack
  <2> QED BY <2>1 DEF EntryStack
<1>2. V(i)' = V(i) /\ Size(i)' = Size(i)
  BY <1>1 DEF V, Size
<1>3. /\ ForwardDepths(i)' = ForwardDepths(i) /\ BackDepths(i)' = BackDepths(i)
      /\ Lenient(i)' = Lenient(i) /\ OnlyVirtualPreds(i)' = OnlyVirtualPreds(i)
      /\ SomePredMatches(i)' = SomePredMatches(i)
  BY DEF ForwardDepths, BackDepths, Lenient, OnlyVirtualPreds, SomePredMatches
<1>4. CheckMergeDepth(i)' = CheckMergeDepth(i) /\ CheckLoopBalance(i)' = CheckLoopBalance(i)
  BY <1>3 DEF CheckMergeDepth, CheckLoopBalance
<1>5. CheckLabelComment(i, EntryStack(i))' = CheckLabelComment(i, EntryStack(i))
  BY <1>1, <1>3 DEF CheckLabelComment
<1>6. WrongJumps(i)' = WrongJumps(i)
  BY <1>3 DEF WrongJumps
<1> QED BY <1>1, <1>2, <1>4, <1>5, <1>6 DEF HeadChecked, OpsChecked

\* Nothing is reported where there is nothing to report.
LEMMA NoWarning ==
  ASSUME NEW i, NEW k, NEW kinds, Warn(i, k, kinds) = {}
  PROVE  kinds = {}
BY DEF Warn

\* Phase 2 keeps count of what it has said nothing about.
LEMMA CheckStep == StackTypeInv /\ ControlInv /\ CheckInv /\ [Next]_vars => CheckInv'
<1> SUFFICES ASSUME StackTypeInv, ControlInv, CheckInv, [Next]_vars PROVE CheckInv'
  OBVIOUS
<1>1. prog' = prog /\ Blocks' = Blocks /\ N' = N /\ Blocks = 1..N /\ N \in Nat /\ cur \in 1..(N + 1)
      /\ cur \in Nat
  BY ProgStays, ProgFacts DEF StackTypeInv, Blocks
<1>2. CASE StartRound \/ WalkStatement \/ WalkPanics \/ FirstExit \/ BlockExit \/ MergeEdge
           \/ TakeBlock \/ GrowInitialStack \/ ReportPanics
  <2>1. phase' \notin {"check", "report", "done"}
    BY <1>2 DEF StartRound, WalkStatement, WalkPanics, FirstExit, BlockExit, MergeEdge,
                TakeBlock, GrowInitialStack, ReportPanics, RoundOver
  <2> QED BY <2>1 DEF CheckInv, Quiet, Done
<1>3. CASE PropagationDone
  <2>1. phase' = "check" /\ need' = 0 /\ cur' = 1
    BY <1>3 DEF PropagationDone
  <2>2. \A i \in Blocks : ~(i < cur')
    BY <1>1, <2>1
  <2> QED BY <1>1, <2>1, <2>2 DEF CheckInv, Quiet, Done
<1> DEFINE Passed(i) == HeadChecked(i) /\ OpsChecked(i, Size(i))
<1>4. ASSUME UNCHANGED <<states, preGrow>>, NEW i \in Blocks
      PROVE  /\ Passed(i) => Passed(i)'
             /\ HeadChecked(i) => HeadChecked(i)'
             /\ \A n : OpsChecked(i, n) => OpsChecked(i, n)'
             /\ V(i)' = V(i) /\ Size(i)' = Size(i)
  BY <1>1, <1>4, SameCheck
<1>5. CASE CheckBlock
  <2>1. /\ UNCHANGED <<states, preGrow, need, cur>> /\ phase = "check" /\ phase' = "report"
        /\ at' = 1 /\ cur \in Blocks /\ states[cur].reached
        /\ stk' = ApplyLabelComment(EntryStack(cur), cur)
        /\ warnings' = warnings \cup Warn(cur, 0,
             (IF cur = 1 THEN {} ELSE CheckMergeDepth(cur))
             \cup CheckLoopBalance(cur) \cup CheckLabelComment(cur, EntryStack(cur)))
    BY <1>5 DEF CheckBlock
  <2>2. V(cur)[1] = ApplyLabelComment(EntryStack(cur), cur)
    <3>1. IsBlock(prog.blocks[cur])
      BY <2>1, ProgFacts DEF StackTypeInv
    <3> QED BY <3>1, WalkEquation DEF V, ApplyLabelComment
  <2>3. (states[cur].reached /\ stk = V(cur)[at])'
    <3>1. V(cur)' = V(cur)
      BY <1>1, <2>1, SameCheck DEF V, EntryStack
    <3> QED BY <2>1, <2>2, <3>1
  <2>4. ASSUME warnings' = {}, NEW i \in Blocks, states[i].reached
        PROVE  /\ i < cur => Passed(i)'
               /\ i = cur => HeadChecked(i)' /\ (OpsChecked(i, at - 1))'
    <3>1. warnings = {} /\ Warn(cur, 0,
             (IF cur = 1 THEN {} ELSE CheckMergeDepth(cur))
             \cup CheckLoopBalance(cur) \cup CheckLabelComment(cur, EntryStack(cur))) = {}
      BY <2>1, <2>4
    <3>2. (IF cur = 1 THEN {} ELSE CheckMergeDepth(cur))
             \cup CheckLoopBalance(cur) \cup CheckLabelComment(cur, EntryStack(cur)) = {}
      BY <3>1, NoWarning
    <3>3. HeadChecked(cur)
      BY <3>2 DEF HeadChecked
    <3>4. 1..(at' - 1) = {}
      BY <2>1
    <3>5. i < cur => Passed(i)
      BY <2>1, <2>4, <3>1 DEF CheckInv
    <3>6. (OpsChecked(i, at - 1))'
      BY <3>4 DEF OpsChecked
    <3> QED BY <1>4, <2>1, <2>4, <3>3, <3>5, <3>6
  <2> QED BY <1>1, <2>1, <2>3, <2>4 DEF CheckInv, Quiet, Done
<1>6. CASE SkipBlock
  <2>1. /\ UNCHANGED <<states, preGrow, need, warnings>> /\ phase = "check" /\ phase' = "check"
        /\ cur \in Blocks /\ ~states[cur].reached /\ cur' = cur + 1
    BY <1>6 DEF SkipBlock
  <2>2. ASSUME warnings' = {}, NEW i \in Blocks, states[i].reached, i < cur' PROVE Passed(i)'
    <3>1. i < cur
      <4>1. i # cur
        BY <2>1, <2>2
      <4> QED BY <1>1, <2>1, <2>2, <4>1
    <3>2. Passed(i)
      BY <2>1, <2>2, <3>1 DEF CheckInv
    <3> QED BY <1>4, <2>1, <3>2
  <2> QED BY <1>1, <2>1, <2>2 DEF CheckInv, Quiet, Done
<1>7. CASE ReportStatement
  <2>1. /\ UNCHANGED <<states, preGrow, need, cur>> /\ phase = "report" /\ phase' = "report"
        /\ ~AtEnd /\ at' = at + 1 /\ stk' = Apply(stk, Stmt)
        /\ warnings' = warnings \cup Warn(cur, at, ApplyErrors(stk, Stmt))
    BY <1>7 DEF ReportStatement
  <2>2. at \in 1..Size(cur) /\ cur \in Blocks /\ at \in Nat
    BY <2>1, StmtStack DEF Size, Block
  <2>3. states[cur].reached /\ stk = V(cur)[at]
    BY <2>1 DEF CheckInv
  <2>4. V(cur)[at + 1] = Apply(stk, Stmt)
    <3>1. IsBlock(prog.blocks[cur])
      BY <2>2, ProgFacts DEF StackTypeInv
    <3> QED BY <2>2, <2>3, <3>1, WalkEquation DEF V, Stmt, Block, Size
  <2>5. (states[cur].reached /\ stk = V(cur)[at])'
    <3>1. V(cur)' = V(cur)
      BY <1>1, <2>1, SameCheck DEF V, EntryStack
    <3> QED BY <2>1, <2>3, <2>4, <3>1
  <2>6. ASSUME warnings' = {}, NEW i \in Blocks, states[i].reached
        PROVE  /\ i < cur => Passed(i)'
               /\ i = cur => HeadChecked(i)' /\ (OpsChecked(i, at - 1))'
    <3>1. warnings = {} /\ Warn(cur, at, ApplyErrors(stk, Stmt)) = {}
      BY <2>1, <2>6
    <3>2. ApplyErrors(stk, Stmt) = {}
      BY <3>1, NoWarning
    <3>3. /\ i < cur => Passed(i)
          /\ i = cur => HeadChecked(i) /\ OpsChecked(i, at - 1)
      BY <2>1, <2>6, <3>1 DEF CheckInv
    <3>4. \A k \in 1..(at' - 1) : k \in 1..(at - 1) \/ k = at
      BY <2>1, <2>2
    <3>5. ASSUME i = cur PROVE (OpsChecked(i, at - 1))'
      <4>1. \A k \in 1..(at' - 1) : ApplyErrors(V(i)[k], prog.blocks[i].ops[k]) = {}
        BY <2>3, <3>2, <3>3, <3>4, <3>5 DEF OpsChecked, Stmt, Block
      <4>2. V(i)' = V(i)
        BY <1>4, <2>1
      <4> QED BY <1>1, <4>1, <4>2 DEF OpsChecked
    <3> QED BY <1>4, <2>1, <2>6, <3>3, <3>5
  <2> QED BY <1>1, <2>1, <2>5, <2>6 DEF CheckInv, Quiet, Done
<1>8. CASE BlockReported
  <2>1. /\ UNCHANGED <<states, preGrow, need, warnings>> /\ phase = "report" /\ phase' = "check"
        /\ AtEnd /\ cur' = cur + 1
    BY <1>8 DEF BlockReported
  <2>2. cur \in Blocks /\ at - 1 = Size(cur)
    <3>1. cur \in Blocks /\ at \in 1..(Len(Block.ops) + 1) /\ IsBlock(Block)
      BY <2>1, ProgFacts DEF StackTypeInv, Block
    <3>2. Len(Block.ops) \in Nat
      BY <3>1, BlockType
    <3> QED BY <2>1, <3>1, <3>2 DEF AtEnd, Size, Block
  <2>3. ASSUME warnings' = {}, NEW i \in Blocks, states[i].reached, i < cur' PROVE Passed(i)'
    <3>1. i < cur \/ i = cur
      BY <1>1, <2>1, <2>2, <2>3
    <3>2. Passed(i)
      BY <2>1, <2>2, <2>3, <3>1 DEF CheckInv
    <3> QED BY <1>4, <2>1, <3>2
  <2> QED BY <1>1, <2>1, <2>3 DEF CheckInv, Quiet, Done
<1>9. CASE CheckJumpDepths
  <2>1. /\ UNCHANGED <<states, preGrow, need, cur>> /\ phase = "check" /\ phase' = "done"
        /\ cur > N
        /\ warnings' = warnings \cup
             UNION {Warn(k[1], k[2], {"jump depth"}) : k \in UNION {WrongJumps(i) : i \in Blocks}}
    BY <1>9 DEF CheckJumpDepths
  <2>2. cur = N + 1
    <3>1. cur > N
      BY <2>1
    <3> QED BY <1>1, <3>1
  <2>3. ASSUME warnings' = {}, NEW i \in Blocks
        PROVE  WrongJumps(i)' = {} /\ (states[i].reached /\ i < cur => Passed(i)')
    <3>1. warnings = {}
          /\ \A k \in UNION {WrongJumps(j) : j \in Blocks} : Warn(k[1], k[2], {"jump depth"}) = {}
      BY <2>1, <2>3
    <3>2. \A k : Warn(k[1], k[2], {"jump depth"}) # {}
      <4>1. \A k : {"jump depth"} # {} /\ (Warn(k[1], k[2], {"jump depth"}) = {}
                                            => {"jump depth"} = {})
        BY NoWarning
      <4> QED BY <4>1
    <3>3. WrongJumps(i) = {}
      BY <2>3, <3>1, <3>2
    <3>4. states[i].reached /\ i < cur => Passed(i)
      BY <2>1, <2>3, <3>1 DEF CheckInv
    <3>5. WrongJumps(i)' = WrongJumps(i)
      BY <1>1, <2>1, SameCheck
    <3> QED BY <1>4, <2>1, <2>3, <3>3, <3>4, <3>5
  <2> QED BY <1>1, <2>1, <2>2, <2>3 DEF CheckInv, Quiet, Done
<1>10. CASE Stopped \/ UNCHANGED vars
  <2>1. UNCHANGED vars
    BY <1>10 DEF Stopped
  <2>2. UNCHANGED <<prog, phase, preGrow, need, states, cur, at, stk, warnings>>
    BY <2>1 DEF vars
  <2>3. V(cur)' = V(cur)
    BY <2>2 DEF V, EntryStack, InitialStack
  <2>4. \A i \in Blocks : WrongJumps(i)' = WrongJumps(i)
    BY <2>2, SameCheck
  <2>5. ASSUME phase \in {"check", "report", "done"}, warnings = {}, NEW i \in Blocks,
               states[i].reached
        PROVE  /\ i < cur => Passed(i)'
               /\ phase = "report" /\ i = cur => HeadChecked(i)' /\ (OpsChecked(i, at - 1))'
    <3>1. /\ i < cur => Passed(i)
          /\ phase = "report" /\ i = cur => HeadChecked(i) /\ OpsChecked(i, at - 1)
      BY <2>5 DEF CheckInv
    <3>2. OpsChecked(i, at - 1) => (OpsChecked(i, at - 1))'
      <4>1. V(i)' = V(i)
        BY <1>4, <2>2
      <4> QED BY <2>2, <4>1 DEF OpsChecked
    <3>3. Passed(i) => Passed(i)'
      BY <1>4, <2>2
    <3>4. HeadChecked(i) => HeadChecked(i)'
      BY <1>4, <2>2
    <3> HIDE DEF Passed
    <3> QED BY <3>1, <3>2, <3>3, <3>4
  <2> QED BY <1>1, <2>2, <2>3, <2>4, <2>5 DEF CheckInv, Quiet, Done
<1> QED BY <1>2, <1>3, <1>5, <1>6, <1>7, <1>8, <1>9, <1>10 DEF Next

\* Everything that is known of an analysis.
AnalysisInv ==
    /\ StackTypeInv /\ ControlInv /\ DeliverInv /\ PlainInv /\ DistinctInv /\ CheckInv
    /\ FirstBlockChecked => FirstInv /\ WalkInv /\ SettledInv

\* It holds before the analysis.
LEMMA AnalysisInit == Init => AnalysisInv
<1> SUFFICES ASSUME Init PROVE AnalysisInv
  OBVIOUS
<1>1. StackTypeInv
  BY TypeInit
<1>2. /\ phase = "start" /\ edges = <<>> /\ worklist = <<>> /\ prog \in Programs
      /\ stk = NewStack(prog.start, prog.inferred) /\ states = [i \in Blocks |-> Unreached]
  BY DEF Init
<1>3. \A i \in Blocks : ~states[i].reached /\ DOMAIN states[i].preds = {}
  BY <1>2, NoPlaces DEF Unreached
<1>4. 1 \in Blocks
  BY <1>2, ProgFacts
<1>5. Plain => ~stk.wild
  BY <1>2, ProgFacts, NewStackType DEF Plain
<1>6. PlainInv
  BY <1>2, <1>3, <1>5, NoPlaces DEF PlainInv
<1>7. ControlInv /\ DeliverInv /\ DistinctInv /\ WalkInv /\ SettledInv
  BY <1>2, NoPlaces DEF ControlInv, DeliverInv, DistinctInv, WalkInv, SettledInv
<1>8. CheckInv
  BY <1>2 DEF CheckInv, Quiet, Done
<1>9. FirstInv
  BY <1>2, <1>3, <1>4, NoPlaces DEF FirstInv, Queued
<1> QED BY <1>1, <1>6, <1>7, <1>8, <1>9 DEF AnalysisInv

\* And after each step.
LEMMA AnalysisStep == AnalysisInv /\ [Next]_vars => AnalysisInv'
<1> SUFFICES ASSUME AnalysisInv, [Next]_vars PROVE AnalysisInv'
  OBVIOUS
<1>1. StackTypeInv /\ ControlInv /\ DeliverInv /\ PlainInv /\ DistinctInv /\ CheckInv
  BY DEF AnalysisInv
<1>2. StackTypeInv' /\ ControlInv' /\ DeliverInv' /\ PlainInv' /\ DistinctInv' /\ CheckInv'
  BY <1>1, TypeStep, ControlStep, DeliverStep, PlainStep, DistinctStep, CheckStep
<1>3. FirstBlockChecked' => FirstBlockChecked
  BY ProgStays DEF FirstBlockChecked, Successors
<1>4. ASSUME FirstBlockChecked PROVE FirstInv' /\ WalkInv' /\ SettledInv'
  <2>1. FirstInv /\ WalkInv /\ SettledInv
    BY <1>4 DEF AnalysisInv
  <2> QED BY <1>1, <1>4, <2>1, FirstStep, WalkStep, SettledStep
<1> QED BY <1>2, <1>3, <1>4 DEF AnalysisInv

-----------------------------------------------------------------------------
(* The heights of silent code *)

\* Inputs that are inferred later in the walk over the first block than statement k are on
\* the machine's stack from the start.
Debt(i, k)  == IF i = 1 /\ prog.inferred THEN inputs - W(1)[k].grown ELSE 0
Ideal(i, k) == W(i)[k].depth + Debt(i, k)

\* What silence says of a block, and what is recorded of it.
LEMMA QuietBlock ==
  ASSUME AnalysisInv, FirstBlockChecked, Plain, Quiet, NEW i \in Blocks, states[i].reached
  PROVE  /\ HeadChecked(i) /\ OpsChecked(i, Size(i)) /\ WrongJumps(i) = {} /\ ~Lenient(i)
         /\ Settled(i) /\ need = 0
         /\ states[i].preds \in Preds /\ DOMAIN states[i].preds # {}
         /\ states[i].entry = Merged(states[i].preds)
         /\ states[i].entry \in Heights /\ ~states[i].entry.wild
         /\ \A k \in DOMAIN states[i].preds :
               states[i].preds[k].depth \in Nat /\ states[i].entry.depth <= states[i].preds[k].depth
<1>1. StackTypeInv /\ ControlInv /\ PlainInv /\ CheckInv /\ SettledInv
  BY DEF AnalysisInv
<1>2. phase = "done" /\ warnings = {}
  BY DEF Quiet, Done
<1>3. cur = N + 1 /\ need = 0 /\ WrongJumps(i) = {}
  BY <1>1, <1>2 DEF CheckInv
<1>4. i < cur
  BY <1>1, <1>3, ProgFacts DEF StackTypeInv, Blocks
<1>5. HeadChecked(i) /\ OpsChecked(i, Size(i))
  BY <1>1, <1>2, <1>4 DEF CheckInv
<1>6. worklist = <<>>
  BY <1>1, <1>2 DEF ControlInv
<1>7. ~Unfinished(i)
  BY <1>2, <1>6, NoPlaces DEF Unfinished, Queued
<1>8. Settled(i)
  BY <1>1, <1>2, <1>7 DEF SettledInv
<1>9. /\ states[i].preds \in Preds /\ DOMAIN states[i].preds # {}
      /\ states[i].entry = Merged(states[i].preds) /\ states[i].entry \in Heights
  BY <1>1 DEF StackTypeInv, BlockStates, StateMerged
<1>10. ~AnyPredWild(states[i].preds)
  BY <1>1 DEF PlainInv, AnyPredWild
<1>11. ~states[i].entry.wild
  BY <1>9, <1>10, MergedType
<1>12. ~Lenient(i)
  BY <1>10 DEF Lenient, Plain
<1>13. \A k \in DOMAIN states[i].preds :
          states[i].preds[k].depth \in Nat /\ states[i].entry.depth <= states[i].preds[k].depth
  BY <1>9, MergedType, PredsType DEF Heights
<1> QED BY <1>3, <1>5, <1>8, <1>9, <1>11, <1>12, <1>13

\* The only predecessor of the first block before it is the program start, and those behind
\* it agree with that.
LEMMA FirstBlock ==
  ASSUME AnalysisInv, FirstBlockChecked, Plain, Quiet, states[1].reached
  PROVE  /\ ForwardDepths(1) = {prog.start.depth}
         /\ Depths(states[1].preds) = {prog.start.depth}
         /\ states[1].entry = prog.start
         /\ ~OnlyVirtualPreds(1)
<1>1. 1 \in Blocks /\ prog.start \in Heights
  BY ProgFacts DEF AnalysisInv, StackTypeInv
<1>2. /\ HeadChecked(1) /\ ~Lenient(1) /\ states[1].preds \in Preds /\ DOMAIN states[1].preds # {}
      /\ states[1].entry = Merged(states[1].preds) /\ ~states[1].entry.wild
      /\ states[1].entry \in Heights
  BY <1>1, QuietBlock
<1>3. /\ Initial \in DOMAIN states[1].preds /\ states[1].preds[Initial] = prog.start
      /\ \A k \in DOMAIN states[1].preds : k = Initial \/ (k[1] > 0 /\ k[2] = 0)
  BY DEF AnalysisInv, FirstInv
<1>4. IsForward(Initial, 1) /\ ~IsVirtual(Initial)
  BY DEF IsForward, IsVirtual, Initial
<1>5. ASSUME NEW k \in DOMAIN states[1].preds, k # Initial PROVE ~IsForward(k, 1)
  <2>1. k[1] \in Nat /\ k[1] > 0 /\ k[2] = 0
    BY <1>2, <1>3, <1>5, PredsType DEF Keys
  <2> QED BY <2>1 DEF IsForward, IsVirtual
<1>6. ForwardDepths(1) = {prog.start.depth}
  <2>1. {p \in DOMAIN states[1].preds : IsForward(p, 1)} = {Initial}
    BY <1>3, <1>4, <1>5
  <2> QED BY <1>3, <2>1 DEF ForwardDepths
<1>7. Min(ForwardDepths(1)) = prog.start.depth
  <2>1. ForwardDepths(1) \in SUBSET Nat /\ ForwardDepths(1) # {}
    BY <1>1, <1>6 DEF Heights
  <2>2. Min(ForwardDepths(1)) \in ForwardDepths(1)
    BY <2>1, MinType
  <2> QED BY <1>6, <2>2
<1>8. \A d \in BackDepths(1) : d = prog.start.depth
  BY <1>2, <1>6, <1>7 DEF HeadChecked, CheckLoopBalance
<1>9. \A k \in DOMAIN states[1].preds : states[1].preds[k].depth = prog.start.depth
  <2>1. ASSUME NEW k \in DOMAIN states[1].preds, k # Initial
        PROVE  states[1].preds[k].depth \in BackDepths(1)
    BY <1>5, <2>1 DEF BackDepths
  <2> QED BY <1>3, <1>8, <2>1
<1>10. Depths(states[1].preds) = {prog.start.depth}
  BY <1>3, <1>9 DEF Depths
<1>11. states[1].entry.depth = prog.start.depth
  BY <1>2, <1>10, MergedType
<1>12. ~prog.start.wild
  BY DEF Plain
<1>13. states[1].entry = prog.start
  BY <1>1, <1>2, <1>11, <1>12 DEF Heights
<1>14. ~OnlyVirtualPreds(1)
  BY <1>3, <1>4 DEF OnlyVirtualPreds
<1> QED BY <1>6, <1>10, <1>13, <1>14

\* The walks of phase 2 are those of phase 1.
LEMMA SameWalks ==
  ASSUME AnalysisInv, FirstBlockChecked, Plain, Quiet, NEW i \in Blocks, states[i].reached
  PROVE  StartOf(i) = EntryStack(i) /\ W(i) = V(i)
<1>1. CASE i # 1
  BY <1>1 DEF StartOf, EntryStack, W, V
<1>2. CASE i = 1 /\ prog.inferred
  BY <1>2 DEF StartOf, EntryStack, W, V
<1>3. CASE i = 1 /\ ~prog.inferred
  <2>1. states[1].entry = prog.start
    BY <1>3, FirstBlock
  <2>2. InitialStack = NewStack(prog.start, prog.inferred)
    BY <1>3, InitialStackType DEF AnalysisInv, StackTypeInv
  <2> QED BY <1>3, <2>1, <2>2 DEF StartOf, EntryStack, W, V
<1> QED BY <1>1, <1>2, <1>3

\* No walk over plain code meets a wildcard.
LEMMA PlainWalk ==
  ASSUME AnalysisInv, FirstBlockChecked, Plain, Quiet, NEW i \in Blocks, states[i].reached
  PROVE  /\ ~StartOf(i).wild
         /\ \A k \in 1..(Size(i) + 1) : ~W(i)[k].wild
<1>1. StackTypeInv /\ prog \in Programs /\ preGrow \in Nat /\ prog.inferred \in BOOLEAN
  BY ProgFacts DEF AnalysisInv, StackTypeInv
<1>2. ~StartOf(i).wild /\ StartOf(i) \in Stacks
  <2>1. states[i].entry \in Heights /\ ~states[i].entry.wild
    BY QuietBlock
  <2>2. ~InitialStack.wild
    BY <1>1, InitialStackType DEF Plain
  <2>3. ~NewStack(states[i].entry, prog.inferred).wild
    BY <1>1, <2>1, NewStackType
  <2> QED BY <1>1, <2>2, <2>3, StartType DEF StartOf
<1>3. /\ W(i)[1] = ApplyLabelComment(StartOf(i), i) /\ Size(i) \in Nat
      /\ \A k \in 1..Size(i) : /\ W(i)[k + 1] = Apply(W(i)[k], prog.blocks[i].ops[k])
                               /\ prog.blocks[i].ops[k] \in Ops
      /\ \A k \in 1..(Size(i) + 1) : W(i)[k] \in Stacks
  BY <1>1, WalkFacts
<1>4. /\ ~prog.blocks[i].label.wild /\ prog.blocks[i].label \in Comments
      /\ \A k \in 1..Size(i) : ~prog.blocks[i].ops[k].note.wild
  BY <1>1, PlainBlock DEF Size
<1> DEFINE Good == {n \in Nat : n + 1 <= Size(i) + 1 => ~W(i)[n + 1].wild}
<1>5. 0 \in Good
  <2>1. FALSE \in BOOLEAN
    OBVIOUS
  <2>2. ~W(i)[1].wild
    BY <1>2, <1>3, <1>4, <2>1, PlainComment DEF ApplyLabelComment
  <2> QED BY <2>2
<1>6. ASSUME NEW n \in Nat, n \in Good PROVE n + 1 \in Good
  <2>1. SUFFICES ASSUME n + 1 + 1 <= Size(i) + 1 PROVE ~W(i)[n + 1 + 1].wild
    OBVIOUS
  <2>2. n + 1 \in 1..Size(i) /\ n + 1 \in 1..(Size(i) + 1) /\ ~W(i)[n + 1].wild
    BY <1>3, <1>6, <2>1
  <2> QED BY <1>3, <1>4, <2>2, PlainApply
<1>7. Nat \subseteq Good
  <2> HIDE DEF Good
  <2> QED BY <1>5, <1>6, InductiveSet
<1>8. ASSUME NEW k \in 1..(Size(i) + 1) PROVE ~W(i)[k].wild
  <2>1. k - 1 \in Nat /\ (k - 1) + 1 = k /\ k <= Size(i) + 1
    BY <1>3
  <2>2. k - 1 \in Good
    BY <1>7, <2>1
  <2> QED BY <2>1, <2>2
<1> QED BY <1>2, <1>8

\* The walk over silent code has the inputs of every statement, if what the machine has
\* besides is counted in.
LEMMA IdealStep ==
  ASSUME AnalysisInv, FirstBlockChecked, Plain, Quiet, NEW i \in Blocks, states[i].reached,
         NEW k \in 1..Size(i)
  PROVE  /\ prog.blocks[i].ops[k].in \in Nat /\ prog.blocks[i].ops[k].out \in Nat
         /\ W(i)[k].depth \in Nat /\ Debt(i, k) \in Nat
         /\ prog.blocks[i].ops[k].in <= Ideal(i, k)
         /\ Ideal(i, k + 1) = Ideal(i, k) - prog.blocks[i].ops[k].in + prog.blocks[i].ops[k].out
<1> DEFINE s == W(i)[k]
           r == W(i)[k + 1]
           op == prog.blocks[i].ops[k]
<1>1. StackTypeInv /\ prog \in Programs /\ prog.inferred \in BOOLEAN /\ inputs \in Nat
  BY ProgFacts DEF AnalysisInv, StackTypeInv
<1>2. k \in 1..(Size(i) + 1) /\ k + 1 \in 1..(Size(i) + 1) /\ Size(i) \in Nat
      /\ Size(i) + 1 \in 1..(Size(i) + 1)
  <2>1. Size(i) \in Nat
    BY <1>1, WalkFacts
  <2> QED BY <2>1
<1>3. /\ s \in Stacks /\ r \in Stacks /\ r = Apply(s, op) /\ op \in Ops
      /\ s.inferred = prog.inferred /\ s.grown <= EndOf(i).grown /\ r.grown <= EndOf(i).grown
      /\ EndOf(i) \in Stacks
  BY <1>1, <1>2, WalkFacts
<1>4. ~s.wild /\ ~op.note.wild
  BY <1>1, <1>2, PlainWalk, PlainBlock DEF Size
<1>5. ApplyErrors(s, op) = {}
  BY <1>1, QuietBlock, SameWalks DEF OpsChecked
<1>6. Settled(i) /\ need = 0
  BY QuietBlock
<1>7. prog.inferred => IF i = 1 THEN EndOf(i).grown = inputs ELSE EndOf(i).grown <= 0
  BY <1>6 DEF Settled
<1>8. /\ op.in \in Nat /\ op.out \in Nat /\ s.depth \in Nat /\ s.grown \in Nat /\ r.grown \in Nat
      /\ r.depth \in Nat /\ EndOf(i).grown \in Nat
  BY <1>3, OpType DEF Stacks
<1>9. /\ Debt(i, k) = IF i = 1 /\ prog.inferred THEN inputs - s.grown ELSE 0
      /\ Debt(i, k + 1) = IF i = 1 /\ prog.inferred THEN inputs - r.grown ELSE 0
  BY DEF Debt
<1>10. Ideal(i, k) = s.depth + Debt(i, k) /\ Ideal(i, k + 1) = r.depth + Debt(i, k + 1)
  BY DEF Ideal
<1> HIDE DEF s, r, op
<1>11. /\ op.in <= s.depth \/ s.inferred
       /\ r.depth = (IF op.in > s.depth THEN 0 ELSE s.depth - op.in) + op.out
       /\ r.grown = IF op.in > s.depth THEN s.grown + (op.in - s.depth) ELSE s.grown
  BY <1>3, <1>4, <1>5, PlainApply
<1>12. CASE prog.inferred /\ i = 1
  <2>1. /\ EndOf(i).grown = inputs /\ Debt(i, k) = inputs - s.grown
        /\ Debt(i, k + 1) = inputs - r.grown
    BY <1>7, <1>9, <1>12
  <2>2. s.grown <= inputs /\ r.grown <= inputs
    BY <1>3, <2>1
  <2> HIDE DEF Debt, Ideal
  <2>3. /\ Debt(i, k) \in Nat /\ op.in <= s.depth + Debt(i, k)
        /\ r.depth + Debt(i, k + 1) = s.depth + Debt(i, k) - op.in + op.out
    BY <1>1, <1>8, <1>11, <2>1, <2>2
  <2> QED BY <1>8, <1>10, <2>3 DEF s, op
<1>13. CASE ~(prog.inferred /\ i = 1)
  <2>1. Debt(i, k) = 0 /\ Debt(i, k + 1) = 0
    BY <1>9, <1>13
  <2>2. op.in <= s.depth
    <3>1. CASE ~prog.inferred
      BY <1>3, <1>11, <3>1
    <3>2. CASE prog.inferred
      <4>1. EndOf(i).grown <= 0
        BY <1>7, <1>13, <3>2
      <4> QED BY <1>3, <1>8, <1>11, <4>1
    <3> QED BY <3>1, <3>2
  <2>3. /\ op.in <= s.depth + 0 /\ r.depth + 0 = s.depth + 0 - op.in + op.out /\ 0 \in Nat
    BY <1>8, <1>11, <2>2
  <2> QED BY <1>8, <1>10, <2>1, <2>3 DEF s, op
<1> QED BY <1>12, <1>13

\* At the head of a block the walk has no more than the start or any predecessor brings.
LEMMA HeadBound ==
  ASSUME AnalysisInv, FirstBlockChecked, Plain, Quiet, NEW i \in Blocks, states[i].reached
  PROVE  /\ Ideal(i, 1) \in Nat
         /\ i = 1 => Ideal(1, 1) <= StartHeight
         /\ i # 1 \/ ~prog.inferred => Ideal(i, 1) <= states[i].entry.depth
<1>1. StackTypeInv /\ prog \in Programs /\ preGrow \in Nat /\ prog.inferred \in BOOLEAN
      /\ inputs \in Nat /\ prog.start \in Heights
  BY ProgFacts DEF AnalysisInv, StackTypeInv
<1> DEFINE s == StartOf(i)
           w == W(i)[1]
           c == prog.blocks[i].label
<1>2. /\ s \in Stacks /\ ~s.wild /\ c \in Comments /\ ~c.wild /\ FALSE \in BOOLEAN
      /\ w = CheckComment(s, c, FALSE) /\ w \in Stacks /\ EndOf(i) \in Stacks
      /\ w.grown <= EndOf(i).grown
  <2>1. 1 \in 1..(Size(i) + 1)
    BY <1>1, WalkFacts
  <2> QED BY <1>1, <2>1, WalkFacts, StartType, PlainWalk, PlainBlock DEF ApplyLabelComment
<1>3. states[i].entry \in Heights /\ Settled(i)
  BY QuietBlock
<1>4. Debt(i, 1) = (IF i = 1 /\ prog.inferred THEN inputs - w.grown ELSE 0)
      /\ Ideal(i, 1) = w.depth + Debt(i, 1)
  BY DEF Debt, Ideal
<1>5. prog.inferred /\ i = 1 => EndOf(i).grown = inputs
  BY <1>3 DEF Settled
<1>6. /\ prog.inferred /\ i = 1 => s.depth = preGrow /\ s.grown = preGrow
      /\ ~(prog.inferred /\ i = 1) => s.depth = states[i].entry.depth
  <2>1. CASE prog.inferred /\ i = 1
    BY <1>1, <2>1, InitialStackType DEF StartOf
  <2>2. CASE ~(prog.inferred /\ i = 1)
    BY <1>1, <1>3, <2>2, NewStackType DEF StartOf
  <2> QED BY <2>1, <2>2
<1> HIDE DEF s, w, c
<1>7. w.grown = s.grown /\ w.depth <= s.depth
  BY <1>2, PlainComment
<1>8. w.depth \in Nat /\ w.grown \in Nat /\ s.depth \in Nat /\ EndOf(i).grown \in Nat
      /\ states[i].entry.depth \in Nat /\ prog.start.depth \in Nat
  BY <1>1, <1>2, <1>3 DEF Stacks, Heights
<1>9. CASE prog.inferred /\ i = 1
  <2>1. StartHeight = inputs /\ Debt(i, 1) = inputs - w.grown /\ w.grown = preGrow
        /\ w.depth <= preGrow /\ w.grown <= inputs
    BY <1>2, <1>4, <1>5, <1>6, <1>7, <1>9 DEF StartHeight
  <2>2. w.depth + (inputs - w.grown) \in Nat /\ w.depth + (inputs - w.grown) <= inputs
    BY <1>1, <1>8, <2>1
  <2> QED BY <1>4, <1>9, <2>1, <2>2
<1>10. CASE ~(prog.inferred /\ i = 1)
  <2>1. Debt(i, 1) = 0 /\ w.depth <= states[i].entry.depth
    BY <1>4, <1>6, <1>7, <1>10
  <2>2. w.depth + 0 \in Nat /\ w.depth + 0 = w.depth
    BY <1>8
  <2>3. ASSUME i = 1 PROVE states[i].entry.depth = StartHeight
    <3>1. states[1].entry = prog.start
      BY <2>3, FirstBlock
    <3> QED BY <1>10, <2>3, <3>1 DEF StartHeight
  <2>4. Ideal(i, 1) = w.depth
    BY <1>4, <2>1, <2>2
  <2> QED BY <1>8, <2>1, <2>3, <2>4
<1> QED BY <1>9, <1>10

\* Silent code of which every height is known brings the same height to a block on all paths.
LEMMA DepthsAgree ==
  ASSUME AnalysisInv, HeightsKnown, Quiet, NEW i \in Blocks, states[i].reached
  PROVE  /\ Depths(states[i].preds) = {states[i].entry.depth}
         /\ \A k \in DOMAIN states[i].preds : states[i].preds[k].depth = states[i].entry.depth
<1>1. Plain /\ FirstBlockChecked /\ EnteredForward
  BY DEF HeightsKnown
<1>2. /\ HeadChecked(i) /\ ~Lenient(i) /\ states[i].preds \in Preds /\ DOMAIN states[i].preds # {}
      /\ states[i].entry = Merged(states[i].preds)
  BY <1>1, QuietBlock
<1>3. CASE i = 1
  <2>1. Depths(states[i].preds) = {states[i].entry.depth}
    BY <1>1, <1>3, FirstBlock
  <2> QED BY <2>1 DEF Depths
<1>4. CASE i # 1
  <2> DEFINE K == {p \in DOMAIN states[i].preds : IsForward(p, i)}
             depth(p) == states[i].preds[p].depth
             F == {depth(p) : p \in K}
  <2>1. ForwardDepths(i) = F /\ F # {}
    BY <1>1 DEF ForwardDepths, EnteredForward
  <2>2. IsFiniteSet(F) /\ F \in SUBSET Nat
    <3>1. IsFiniteSet(K)
      BY <1>2, PredsType, FS_Subset
    <3>2. F \in SUBSET Nat
      BY <1>2, PredsType DEF Heights
    <3>3. [p \in K |-> depth(p)] \in Surjection(K, F)
      BY DEF Surjection
    <3>4. IsFiniteSet(F)
      <4> HIDE DEF K, F
      <4> QED BY <3>1, <3>3, FS_Surjection
    <3> QED BY <3>2, <3>4
  <2> HIDE DEF F
  <2>3. ~(Cardinality(F) > 1)
    BY <1>2, <1>4, <2>1 DEF HeadChecked, CheckMergeDepth
  <2>4. Cardinality(F) = 1
    <3>1. Cardinality(F) \in Nat /\ Cardinality(F) # 0
      BY <2>1, <2>2, FS_CardinalityType, FS_EmptySet
    <3> QED BY <2>3, <3>1
  <2>5. PICK x : F = {x}
    BY <2>2, <2>4, FS_Singleton
  <2>6. Min(F) = x
    BY <2>1, <2>2, <2>5, MinType
  <2>7. \A d \in BackDepths(i) : d = x
    BY <1>2, <2>1, <2>6 DEF HeadChecked, CheckLoopBalance
  <2>8. ASSUME NEW k \in DOMAIN states[i].preds PROVE states[i].preds[k].depth = x
    <3>1. CASE IsForward(k, i)
      <4>1. states[i].preds[k].depth \in F
        BY <2>8, <3>1 DEF F
      <4> QED BY <2>5, <4>1
    <3>2. CASE ~IsForward(k, i)
      <4>1. states[i].preds[k].depth \in BackDepths(i)
        BY <2>8, <3>2 DEF BackDepths
      <4> QED BY <2>7, <4>1
    <3> QED BY <3>1, <3>2
  <2>9. Depths(states[i].preds) = {x}
    BY <1>2, <2>8 DEF Depths
  <2>10. states[i].entry.depth = x
    BY <1>2, <2>9, MergedType
  <2> QED BY <2>8, <2>9, <2>10
<1> QED BY <1>3, <1>4

\* Inferred code does not declare an empty stack at its start.  (A label that does would cut off
\* the inputs that are inferred.)
OpensFreely == prog.inferred => prog.blocks[1].label.len # 0

\* A label comment that the check has nothing to say about lists what there is.
LEMMA LabelAgrees ==
  ASSUME AnalysisInv, HeightsKnown, OpensFreely, Quiet, NEW i \in Blocks, states[i].reached,
         Given(prog.blocks[i].label)
  PROVE  /\ prog.blocks[i].label.len >= StartOf(i).depth
         /\ ~prog.inferred => prog.blocks[i].label.len = StartOf(i).depth
<1> DEFINE s == StartOf(i)
           c == prog.blocks[i].label
           errs == CommentErrors(s, c, FALSE)
<1>1. /\ Plain /\ FirstBlockChecked /\ StackTypeInv /\ prog \in Programs /\ preGrow \in Nat
      /\ prog.inferred \in BOOLEAN /\ (prog.inferred => prog.start.depth = 0)
  BY ProgFacts DEF HeightsKnown, AnalysisInv, StackTypeInv
<1>2. /\ HeadChecked(i) /\ WrongJumps(i) = {} /\ states[i].preds \in Preds
      /\ DOMAIN states[i].preds # {} /\ states[i].entry \in Heights
  BY <1>1, QuietBlock
<1>3. /\ Depths(states[i].preds) = {states[i].entry.depth}
      /\ \A k \in DOMAIN states[i].preds : states[i].preds[k].depth = states[i].entry.depth
  BY DepthsAgree
<1>4. s = EntryStack(i) /\ s \in Stacks /\ s.inferred = prog.inferred
  BY <1>1, SameWalks, StartType
<1>5. c \in Comments /\ ~c.wild /\ c.len \in Nat /\ s.depth \in Nat
  BY <1>1, <1>4, PlainBlock, CommentType DEF Stacks
<1>6. CheckLabelComment(i, s) = {}
  BY <1>2, <1>4 DEF HeadChecked
<1>7. s.depth = IF prog.inferred /\ i = 1 THEN preGrow ELSE states[i].entry.depth
  <2>1. CASE prog.inferred /\ i = 1
    BY <1>1, <2>1, InitialStackType DEF StartOf
  <2>2. CASE ~(prog.inferred /\ i = 1)
    BY <1>1, <1>2, <2>2, NewStackType DEF StartOf
  <2> QED BY <2>1, <2>2
<1>8. i = 1 => ~OnlyVirtualPreds(i) /\ states[i].entry.depth = prog.start.depth
  BY <1>1, FirstBlock
<1> HIDE DEF s
<1>9. CASE OnlyVirtualPreds(i)
  <2>1. PICK k \in DOMAIN states[i].preds : TRUE
    BY <1>2
  <2>2. k # Initial
    BY <1>9, <2>1 DEF OnlyVirtualPreds, IsVirtual, Initial
  <2>3. states[i].preds[k].depth = c.len
    BY <1>2, <1>5, <1>9, <2>1, <2>2 DEF WrongJumps
  <2>4. c.len = s.depth
    BY <1>3, <1>7, <1>8, <1>9, <2>3
  <2> QED BY <1>5, <2>4 DEF s
<1>10. CASE ~OnlyVirtualPreds(i)
  <2>1. ASSUME NEW e \in errs PROVE e = "comment depth" /\ SomePredMatches(i)
    <3>1. c # Malformed
      BY <1>6 DEF CheckLabelComment
    <3>2. {x \in errs : x = "comment depth" => ~SomePredMatches(i)} = {}
      BY <1>6, <1>10, <3>1 DEF CheckLabelComment
    <3> HIDE DEF errs
    <3> QED BY <2>1, <3>2
  <2>2. ~(c.len > s.depth /\ ~prog.inferred)
    <3>1. SUFFICES ASSUME c.len > s.depth, ~prog.inferred PROVE FALSE
      OBVIOUS
    <3>2. errs = {"comment underflow"}
      <4>1. Given(c) /\ ~(~Given(c) \/ c.wild)
        BY <1>5
      <4>2. ~s.inferred
        BY <1>4, <3>1
      <4>3. ~(c.len < s.depth)
        BY <1>5, <3>1
      <4> QED BY <3>1, <4>1, <4>2, <4>3 DEF CommentErrors
    <3>3. "comment underflow" = "comment depth"
      BY <2>1, <3>2
    <3> QED BY <3>3
  <2>3. ~(c.len < s.depth)
    <3>1. SUFFICES ASSUME c.len < s.depth PROVE FALSE
      OBVIOUS
    <3>2. errs = {"comment depth"}
      <4>1. Given(c) /\ ~(~Given(c) \/ c.wild) /\ ~(c.len > s.depth)
        BY <1>5, <3>1
      <4>2. ~FALSE
        OBVIOUS
      <4>3. errs = IF c.len > s.depth /\ ~s.inferred THEN {"comment underflow"}
                   ELSE IF c.len < s.depth THEN {"comment depth"} ELSE {}
        BY <4>1, <1>4 DEF CommentErrors
      <4> QED BY <3>1, <4>1, <4>3
    <3>3. SomePredMatches(i)
      BY <2>1, <3>2
    <3>4. c.len = states[i].entry.depth
      BY <1>3, <3>3 DEF SomePredMatches
    <3>5. ~(c.len = s.depth)
      BY <1>5, <3>1
    <3>6. prog.inferred /\ i = 1
      BY <1>7, <3>4, <3>5
    <3>7. c.len = 0
      BY <1>1, <1>8, <3>4, <3>6
    <3> QED BY <3>6, <3>7 DEF OpensFreely
  <2> QED BY <1>5, <2>2, <2>3 DEF s
<1> QED BY <1>9, <1>10

\* So the walk has, at the head of a block, what every path brings there.
LEMMA HeadExact ==
  ASSUME AnalysisInv, HeightsKnown, OpensFreely, Quiet, NEW i \in Blocks, states[i].reached
  PROVE  /\ Ideal(i, 1) = IF i = 1 THEN StartHeight ELSE states[i].entry.depth
         /\ ~prog.inferred /\ Given(prog.blocks[i].label) =>
               prog.blocks[i].label.len = Ideal(i, 1)
<1>1. /\ Plain /\ FirstBlockChecked /\ StackTypeInv /\ prog \in Programs /\ preGrow \in Nat
      /\ prog.inferred \in BOOLEAN /\ inputs \in Nat /\ prog.start \in Heights
  BY ProgFacts DEF HeightsKnown, AnalysisInv, StackTypeInv
<1> DEFINE s == StartOf(i)
           w == W(i)[1]
           c == prog.blocks[i].label
<1>2. /\ s \in Stacks /\ ~s.wild /\ c \in Comments /\ ~c.wild /\ FALSE \in BOOLEAN
      /\ w = CheckComment(s, c, FALSE)
  BY <1>1, WalkFacts, StartType, PlainWalk, PlainBlock DEF ApplyLabelComment
<1>3. states[i].entry \in Heights
  BY <1>1, QuietBlock
<1>4. Debt(i, 1) = (IF i = 1 /\ prog.inferred THEN inputs - w.grown ELSE 0)
      /\ Ideal(i, 1) = w.depth + Debt(i, 1)
  BY DEF Debt, Ideal
<1>5. /\ prog.inferred /\ i = 1 => s.depth = preGrow /\ s.grown = preGrow
      /\ ~(prog.inferred /\ i = 1) => s.depth = states[i].entry.depth
  <2>1. CASE prog.inferred /\ i = 1
    BY <1>1, <2>1, InitialStackType DEF StartOf
  <2>2. CASE ~(prog.inferred /\ i = 1)
    BY <1>1, <1>3, <2>2, NewStackType DEF StartOf
  <2> QED BY <2>1, <2>2
<1>6. /\ Given(c) => c.len >= s.depth
      /\ Given(c) /\ ~prog.inferred => c.len = s.depth
  BY LabelAgrees
<1> HIDE DEF s, w, c
<1>7. w.grown = s.grown /\ w.depth = s.depth
  <2>1. ~Given(c) \/ c.len >= s.depth
    BY <1>6
  <2> QED BY <1>2, <2>1, PlainComment
<1>8. s.depth \in Nat /\ states[i].entry.depth \in Nat /\ prog.start.depth \in Nat
  BY <1>1, <1>2, <1>3 DEF Stacks, Heights
<1>9. CASE prog.inferred /\ i = 1
  <2>1. Ideal(i, 1) = preGrow + (inputs - preGrow) /\ StartHeight = inputs
    BY <1>4, <1>5, <1>7, <1>9 DEF StartHeight
  <2>2. Ideal(i, 1) = StartHeight
    BY <1>1, <2>1
  <2> QED BY <1>9, <2>2
<1>10. CASE ~(prog.inferred /\ i = 1)
  <2>1. Ideal(i, 1) = states[i].entry.depth + 0
    BY <1>4, <1>5, <1>7, <1>10
  <2>2. Ideal(i, 1) = states[i].entry.depth
    BY <1>8, <2>1
  <2>3. ASSUME i = 1 PROVE states[i].entry.depth = StartHeight
    <3>1. states[1].entry = prog.start
      BY <1>1, <2>3, FirstBlock
    <3> QED BY <1>10, <2>3, <3>1 DEF StartHeight
  <2>4. Given(c) /\ ~prog.inferred => c.len = Ideal(i, 1)
    BY <1>5, <1>6, <1>10, <2>2
  <2> QED BY <2>2, <2>3, <2>4 DEF c
<1> QED BY <1>9, <1>10

\* What a block has recorded of an edge bounds what the walk over it has at its head.
LEMMA Arrive ==
  ASSUME AnalysisInv, FirstBlockChecked, Plain, Quiet, NEW t \in Blocks, NEW key, NEW h,
         Got(t, key, h), t # 1 \/ ~prog.inferred
  PROVE  /\ states[t].reached /\ h.depth \in Nat /\ Ideal(t, 1) \in Nat
         /\ Ideal(t, 1) <= h.depth
         /\ HeightsKnown /\ OpensFreely => Ideal(t, 1) = h.depth
<1>1. states[t].reached /\ key \in DOMAIN states[t].preds /\ states[t].preds[key] = h
  BY DEF Got
<1>2. h.depth \in Nat /\ states[t].entry.depth <= h.depth /\ states[t].entry \in Heights
  BY <1>1, QuietBlock
<1>3. Ideal(t, 1) \in Nat /\ Ideal(t, 1) <= states[t].entry.depth
  BY <1>1, HeadBound
<1>4. states[t].entry.depth \in Nat
  BY <1>2 DEF Heights
<1>5. Ideal(t, 1) <= h.depth
  BY <1>2, <1>3, <1>4
<1>6. ASSUME HeightsKnown, OpensFreely PROVE Ideal(t, 1) = h.depth
  <2>1. h.depth = states[t].entry.depth
    BY <1>1, <1>6, DepthsAgree
  <2>2. t = 1 => states[t].entry.depth = StartHeight
    <3>1. SUFFICES ASSUME t = 1 PROVE states[t].entry.depth = StartHeight
      OBVIOUS
    <3>2. states[1].entry = prog.start
      BY <1>1, <3>1, FirstBlock
    <3> QED BY <3>1, <3>2 DEF StartHeight
  <2> QED BY <1>1, <1>6, <2>1, <2>2, HeadExact
<1> QED BY <1>1, <1>2, <1>3, <1>5, <1>6

\* A machine that has at least the items of the walk can jump out of a call, and has at least
\* those of the walk where it arrives.
LEMMA JumpArrives ==
  ASSUME AnalysisInv, FirstBlockChecked, Plain, Quiet, NEW i \in Blocks, states[i].reached,
         NEW k \in 1..Size(i), NEW j \in DOMAIN prog.blocks[i].ops[k].jumps,
         prog.blocks[i].ops[k].jumps[j].to \in Blocks, NEW x \in Nat, Ideal(i, k) <= x
  PROVE  LET op == prog.blocks[i].ops[k]
             t  == op.jumps[j].to
             y  == x - op.in + op.jumps[j].depth
         IN  /\ states[t].reached /\ y \in Nat /\ Ideal(t, 1) <= y
             /\ HeightsKnown /\ OpensFreely /\ x = Ideal(i, k) => y = Ideal(t, 1)
<1> DEFINE op == prog.blocks[i].ops[k]
           t  == op.jumps[j].to
           d  == op.jumps[j].depth
           s  == W(i)[k]
           h  == JumpHeight(s, op, j)
           y  == x - op.in + d
<1>1. StackTypeInv /\ prog \in Programs /\ Size(i) \in Nat
  BY WalkFacts DEF AnalysisInv, StackTypeInv
<1>2. /\ op.in \in Nat /\ s.depth \in Nat /\ Debt(i, k) \in Nat /\ op.in <= Ideal(i, k)
      /\ Ideal(i, k) = s.depth + Debt(i, k)
  BY IdealStep DEF Ideal
<1>3. op \in Ops /\ k \in DOMAIN prog.blocks[i].ops
  BY <1>1, WalkFacts, ProgFacts, BlockType DEF Size
<1>4. j \in 1..Len(op.jumps) /\ d \in Nat /\ t \in Blocks
  <2>1. op.jumps \in Seq(Jumps)
    BY <1>3, OpType
  <2>2. j \in DOMAIN op.jumps /\ t \in Blocks
    OBVIOUS
  <2>3. j \in 1..Len(op.jumps) /\ op.jumps[j] \in Jumps
    <3> HIDE DEF op
    <3> QED BY <2>1, <2>2
  <2>4. d \in Nat
    <3> HIDE DEF op
    <3> QED BY <2>3 DEF Jumps
  <2> QED BY <2>2, <2>3, <2>4
<1>5. edges = <<>>
  BY DEF AnalysisInv, ControlInv, Quiet, Done
<1>6. JumpHandedOn(i, t, h)
  BY <1>4, QuietBlock DEF Settled
<1>7. PICK m \in Nat \ {0} : Got(t, <<i, m>>, h)
  BY <1>5, <1>6, NoPlaces DEF JumpHandedOn, Coming
<1>8. t # 1
  BY <1>3 DEF FirstBlockChecked
<1>9. h.depth = d + (IF s.depth > op.in THEN s.depth - op.in ELSE 0)
  BY DEF JumpHeight
<1>10. ASSUME HeightsKnown PROVE Debt(i, k) = 0
  <2>1. ~(i = 1 /\ prog.inferred)
    <3>1. SUFFICES ASSUME i = 1, prog.inferred PROVE FALSE
      OBVIOUS
    <3>2. op.jumps = <<>>
      BY <1>3, <1>10, <3>1 DEF HeightsKnown
    <3> QED BY <3>2, NoPlaces
  <2> QED BY <2>1 DEF Debt
<1> HIDE DEF op, t, d, s, h
<1>11. /\ states[t].reached /\ h.depth \in Nat /\ Ideal(t, 1) \in Nat /\ Ideal(t, 1) <= h.depth
       /\ HeightsKnown /\ OpensFreely => Ideal(t, 1) = h.depth
  BY <1>4, <1>7, <1>8, Arrive
<1> DEFINE v == IF s.depth > op.in THEN s.depth - op.in ELSE 0
<1>12. v \in Nat /\ x - op.in \in Nat /\ v <= x - op.in
       /\ (Debt(i, k) = 0 /\ x = Ideal(i, k) => v = x - op.in)
  BY <1>2
<1>13. h.depth = d + v
  BY <1>9
<1> HIDE DEF v
<1>14. y \in Nat /\ Ideal(t, 1) <= y /\ (v = x - op.in => y = h.depth)
  BY <1>4, <1>11, <1>12, <1>13
<1> QED BY <1>10, <1>11, <1>12, <1>14 DEF op, t, d

\* At the end of a block nothing is owed, and the walk has what the block has recorded.
LEMMA EndExact ==
  ASSUME AnalysisInv, FirstBlockChecked, Plain, Quiet, NEW i \in Blocks, states[i].reached
  PROVE  /\ Ideal(i, Size(i) + 1) = states[i].exit.depth
         /\ Ideal(i, Size(i) + 1) \in Nat
<1>1. StackTypeInv /\ inputs \in Nat
  BY DEF AnalysisInv, StackTypeInv
<1>2. EndOf(i) \in Stacks /\ EndOf(i) = W(i)[Size(i) + 1]
  BY <1>1, WalkFacts DEF EndOf
<1>3. EndOf(i).depth \in Nat
  BY <1>2 DEF Stacks
<1>4. Settled(i)
  BY QuietBlock
<1>5. states[i].exit.depth = EndOf(i).depth
  BY <1>4 DEF Settled, Height
<1>6. Debt(i, Size(i) + 1) = 0
  <2>1. CASE i = 1 /\ prog.inferred
    <3>1. EndOf(1).grown = inputs
      BY <1>4, <2>1 DEF Settled
    <3> QED BY <1>1, <1>2, <2>1, <3>1 DEF Debt
  <2>2. CASE ~(i = 1 /\ prog.inferred)
    BY <2>2 DEF Debt
  <2> QED BY <2>1, <2>2
<1>7. Ideal(i, Size(i) + 1) = EndOf(i).depth + 0
  BY <1>2, <1>6 DEF Ideal
<1> QED BY <1>3, <1>5, <1>7

\* A machine that has at least the items of the walk at the end of a block has at least those
\* of the next walk after the branch.
LEMMA BranchArrives ==
  ASSUME AnalysisInv, FirstBlockChecked, Plain, Quiet, NEW i \in Blocks, states[i].reached,
         NEW j \in DOMAIN Successors(i)
  PROVE  LET t == Successors(i)[j]
             y == Ideal(i, Size(i) + 1)
         IN  /\ t \in Blocks /\ states[t].reached /\ Ideal(t, 1) \in Nat /\ Ideal(t, 1) <= y
             /\ HeightsKnown /\ OpensFreely => Ideal(t, 1) = y
<1> DEFINE t == Successors(i)[j]
           h == states[i].exit
<1>1. StackTypeInv /\ ControlInv /\ DeliverInv /\ prog \in Programs /\ phase = "done"
  BY DEF AnalysisInv, StackTypeInv, Quiet, Done
<1>2. t \in Blocks
  <2>1. Successors(i) \in Seq(Blocks)
    BY <1>1, ProgFacts, SuccessorsType DEF Successors, Blocks, N
  <2> QED BY <2>1
<1>3. ExitsDelivered
  BY <1>1, Delivered
<1>4. Got(t, <<i, 0>>, h)
  BY <1>1, <1>3 DEF ExitsDelivered, Got
<1>5. t # 1 \/ ~prog.inferred
  BY ExitJumps
<1>6. Ideal(i, Size(i) + 1) = h.depth
  BY EndExact
<1> HIDE DEF t, h
<1>7. /\ states[t].reached /\ h.depth \in Nat /\ Ideal(t, 1) \in Nat /\ Ideal(t, 1) <= h.depth
      /\ HeightsKnown /\ OpensFreely => Ideal(t, 1) = h.depth
  BY <1>2, <1>4, <1>5, Arrive
<1> QED BY <1>2, <1>6, <1>7 DEF t

-----------------------------------------------------------------------------
(* The machine *)

\* The machine may be before statement k of block i with x items: it has at least those of
\* the walk, and exactly those where every height is known.
MachineAt(i, k, x) ==
    /\ i \in Blocks /\ k \in 1..(Size(i) + 1) /\ x \in Nat
    /\ Plain /\ FirstBlockChecked => states[i].reached /\ Ideal(i, k) <= x
    /\ HeightsKnown /\ OpensFreely => x = Ideal(i, k)

\* A machine that has come by the ways the analysis knows is on the walks.
OnWalk ==
    /\ height \in Nat
    /\ mode = "running" => \E i \in Blocks, k \in Nat : pc = <<i, k>> /\ MachineAt(i, k, height)
    /\ mode = "underflow" => ~(Plain /\ FirstBlockChecked)
    /\ mode = "returned" /\ HeightsKnown /\ OpensFreely =>
          FallsThrough /\ height = states[N].exit.depth
    /\ mode = "left" /\ HeightsKnown /\ OpensFreely =>
          states[pc[1]].reached /\ height = states[pc[1]].exit.depth

MachineInv ==
    /\ mode # "idle" => Quiet
    /\ mode = "idle" => pc = <<1, 1>> /\ ~strayed
    /\ ~strayed => OnWalk

\* The machine changes nothing of what the analysis has found.
LEMMA MachineSame ==
  ASSUME UNCHANGED vars
  PROVE  /\ Quiet' = Quiet /\ (Plain /\ FirstBlockChecked)' = (Plain /\ FirstBlockChecked)
         /\ (HeightsKnown /\ OpensFreely)' = (HeightsKnown /\ OpensFreely)
         /\ FallsThrough' = FallsThrough /\ (states[N].exit.depth)' = states[N].exit.depth
         /\ Blocks' = Blocks /\ states' = states
         /\ \A i, k, x : MachineAt(i, k, x) => MachineAt(i, k, x)'
<1>1. /\ prog' = prog /\ states' = states /\ warnings' = warnings /\ phase' = phase
      /\ preGrow' = preGrow /\ inputs' = inputs
  BY DEF vars
<1>2. N' = N /\ Blocks' = Blocks /\ Quiet' = Quiet /\ FallsThrough' = FallsThrough
      /\ (states[N].exit.depth)' = states[N].exit.depth
  BY <1>1 DEF N, Blocks, Quiet, Done, FallsThrough
<1>3. Plain' = Plain /\ OpensFreely' = OpensFreely
  BY <1>1, <1>2 DEF Plain, OpensFreely
<1>4. FirstBlockChecked' = FirstBlockChecked
  BY <1>1, <1>2 DEF FirstBlockChecked, Successors
<1>5. EnteredForward' = EnteredForward
  BY <1>1, <1>2 DEF EnteredForward, ForwardDepths
<1>6. HeightsKnown' = HeightsKnown
  BY <1>1, <1>2, <1>3, <1>4, <1>5 DEF HeightsKnown
<1>7. ASSUME NEW i, NEW k, NEW x, MachineAt(i, k, x) PROVE MachineAt(i, k, x)'
  <2>1. InitialStack' = InitialStack
    BY <1>1 DEF InitialStack
  <2>2. StartOf(i)' = StartOf(i)
    BY <1>1, <2>1 DEF StartOf
  <2>3. StartOf(1)' = StartOf(1)
    BY <1>1, <2>1 DEF StartOf
  <2>4. W(i)' = W(i) /\ Size(i)' = Size(i) /\ W(1)' = W(1)
    BY <1>1, <2>2, <2>3 DEF W, Size
  <2>5. Ideal(i, k)' = Ideal(i, k)
    BY <1>1, <2>4 DEF Ideal, Debt
  <2> QED BY <1>1, <1>2, <1>3, <1>4, <1>6, <1>7, <2>4, <2>5 DEF MachineAt
<1> QED BY <1>1, <1>2, <1>3, <1>4, <1>6, <1>7

\* The machine starts with the stack it is given.
LEMMA MachineBegins ==
  ASSUME AnalysisInv, Quiet
  PROVE  StartHeight \in Nat /\ MachineAt(1, 1, StartHeight)
<1>1. /\ StackTypeInv /\ prog \in Programs /\ 1 \in Blocks /\ inputs \in Nat
      /\ prog.start \in Heights /\ states[1].reached
  BY ProgFacts DEF AnalysisInv, StackTypeInv, ControlInv, Quiet, Done
<1>2. Size(1) \in Nat /\ 1 \in 1..(Size(1) + 1)
  <2>1. Size(1) \in Nat
    BY <1>1, WalkFacts
  <2> QED BY <2>1
<1>3. StartHeight \in Nat
  BY <1>1 DEF StartHeight, Heights
<1>4. Plain /\ FirstBlockChecked => Ideal(1, 1) <= StartHeight
  BY <1>1, HeadBound
<1>5. HeightsKnown /\ OpensFreely => StartHeight = Ideal(1, 1)
  BY <1>1, HeadExact
<1> QED BY <1>1, <1>2, <1>3, <1>4, <1>5 DEF MachineAt

\* A statement that the machine executes takes it along the walk.
LEMMA MachineExecutes ==
  ASSUME AnalysisInv, Quiet, NEW i \in Blocks, NEW k \in 1..Size(i), NEW x,
         MachineAt(i, k, x), prog.blocks[i].ops[k].in <= x
  PROVE  LET y == x - prog.blocks[i].ops[k].in + prog.blocks[i].ops[k].out
         IN  y \in Nat /\ MachineAt(i, k + 1, y)
<1> DEFINE op == prog.blocks[i].ops[k]
           y  == x - op.in + op.out
<1>1. StackTypeInv /\ x \in Nat /\ Size(i) \in Nat /\ op \in Ops
  BY WalkFacts DEF AnalysisInv, MachineAt
<1>2. op.in \in Nat /\ op.out \in Nat /\ op.in <= x
  BY <1>1, OpType
<1> DEFINE a == op.in
           b == op.out
<1> HIDE DEF op
<1>3. y \in Nat /\ k + 1 \in 1..(Size(i) + 1)
  BY <1>1, <1>2
<1>4. ASSUME Plain, FirstBlockChecked PROVE states[i].reached /\ Ideal(i, k + 1) <= y
  <2>1. states[i].reached /\ Ideal(i, k) <= x
    BY <1>4 DEF MachineAt
  <2>2. /\ op.in <= Ideal(i, k) /\ Ideal(i, k) = W(i)[k].depth + Debt(i, k)
        /\ W(i)[k].depth \in Nat /\ Debt(i, k) \in Nat
        /\ Ideal(i, k + 1) = Ideal(i, k) - op.in + op.out
    BY <1>4, <2>1, IdealStep DEF Ideal, op
  <2>3. Ideal(i, k) \in Nat
    BY <2>2
  <2> QED BY <1>1, <1>2, <2>1, <2>2, <2>3
<1>5. ASSUME HeightsKnown, OpensFreely PROVE y = Ideal(i, k + 1)
  <2>1. x = Ideal(i, k) /\ states[i].reached /\ Plain /\ FirstBlockChecked
    BY <1>5 DEF MachineAt, HeightsKnown
  <2>2. Ideal(i, k + 1) = Ideal(i, k) - op.in + op.out
    BY <2>1, IdealStep DEF op
  <2> QED BY <2>1, <2>2
<1> QED BY <1>3, <1>4, <1>5 DEF MachineAt, op

\* A jump out of a call takes it to the head of another walk.
LEMMA MachineJumps ==
  ASSUME AnalysisInv, Quiet, NEW i \in Blocks, NEW k \in 1..Size(i), NEW x,
         MachineAt(i, k, x), prog.blocks[i].ops[k].in <= x,
         NEW j \in DOMAIN prog.blocks[i].ops[k].jumps,
         prog.blocks[i].ops[k].jumps[j].to \in Blocks
  PROVE  LET op == prog.blocks[i].ops[k]
             y  == x - op.in + op.jumps[j].depth
         IN  y \in Nat /\ MachineAt(op.jumps[j].to, 1, y)
<1> DEFINE op == prog.blocks[i].ops[k]
           t  == op.jumps[j].to
           y  == x - op.in + op.jumps[j].depth
<1>1. StackTypeInv /\ x \in Nat /\ op \in Ops /\ t \in Blocks
  BY WalkFacts DEF AnalysisInv, MachineAt
<1>2. Size(t) \in Nat /\ 1 \in 1..(Size(t) + 1)
  <2> HIDE DEF t
  <2>1. Size(t) \in Nat
    BY <1>1, WalkFacts
  <2> QED BY <2>1
<1>3. y \in Nat
  <2>1. op.in \in Nat /\ op.jumps \in Seq(Jumps) /\ j \in DOMAIN op.jumps /\ op.in <= x
    BY <1>1, OpType
  <2> HIDE DEF op
  <2>2. op.jumps[j] \in Jumps
    BY <2>1
  <2>3. op.jumps[j].depth \in Nat
    BY <2>2 DEF Jumps
  <2> QED BY <1>1, <2>1, <2>3
<1>4. ASSUME Plain, FirstBlockChecked PROVE states[t].reached /\ Ideal(t, 1) <= y
  <2>1. states[i].reached /\ Ideal(i, k) <= x
    BY <1>4 DEF MachineAt
  <2> QED BY <1>1, <1>4, <2>1, JumpArrives
<1>5. ASSUME HeightsKnown, OpensFreely PROVE y = Ideal(t, 1)
  <2>1. x = Ideal(i, k) /\ Plain /\ FirstBlockChecked /\ states[i].reached /\ Ideal(i, k) <= x
    BY <1>5 DEF MachineAt, HeightsKnown
  <2> QED BY <1>1, <1>5, <2>1, JumpArrives
<1> HIDE DEF t, y
<1>6. MachineAt(t, 1, y)
  BY <1>1, <1>2, <1>3, <1>4, <1>5 DEF MachineAt
<1> QED BY <1>3, <1>6 DEF t, y

\* So does a branch.
LEMMA MachineBranches ==
  ASSUME AnalysisInv, Quiet, NEW i \in Blocks, NEW x, MachineAt(i, Size(i) + 1, x),
         NEW j \in DOMAIN Successors(i)
  PROVE  MachineAt(Successors(i)[j], 1, x)
<1> DEFINE t == Successors(i)[j]
           y == Ideal(i, Size(i) + 1)
<1>1. StackTypeInv /\ x \in Nat /\ prog \in Programs
  BY DEF AnalysisInv, StackTypeInv, MachineAt
<1>2. t \in Blocks
  <2>1. Successors(i) \in Seq(Blocks)
    BY <1>1, ProgFacts, SuccessorsType DEF Successors, Blocks, N
  <2> QED BY <2>1
<1>3. Size(t) \in Nat /\ 1 \in 1..(Size(t) + 1)
  <2> HIDE DEF t
  <2>1. Size(t) \in Nat
    BY <1>1, <1>2, WalkFacts
  <2> QED BY <2>1
<1>4. ASSUME Plain, FirstBlockChecked PROVE states[t].reached /\ Ideal(t, 1) <= x
  <2>1. states[i].reached /\ y <= x
    BY <1>4 DEF MachineAt
  <2>2. y \in Nat
    BY <1>4, <2>1, EndExact
  <2>3. states[t].reached /\ Ideal(t, 1) \in Nat /\ Ideal(t, 1) <= y
    BY <1>4, <2>1, BranchArrives
  <2> HIDE DEF t, y
  <2> QED BY <1>1, <2>1, <2>2, <2>3
<1>5. ASSUME HeightsKnown, OpensFreely PROVE x = Ideal(t, 1)
  <2>1. x = y /\ Plain /\ FirstBlockChecked /\ states[i].reached
    BY <1>5 DEF MachineAt, HeightsKnown
  <2> QED BY <1>5, <2>1, BranchArrives
<1> HIDE DEF t
<1> QED BY <1>1, <1>2, <1>3, <1>4, <1>5 DEF MachineAt, t

\* Nothing is known of the machine before it starts.
LEMMA MachineInit == RunInit => AnalysisInv /\ MachineInv
BY AnalysisInit DEF RunInit, MachineInv, OnWalk

\* A step leaves the machine idle or the analysis as it is, and only control that goes astray or
\* enters from elsewhere comes by other ways.
LEMMA MachineQuiet ==
  ASSUME MachineInv, [RunNext]_allVars
  PROVE  /\ mode' # "idle" => Quiet'
         /\ mode' = "idle" => pc' = <<1, 1>> /\ ~strayed'
         /\ ~strayed' => ~strayed
<1>1. CASE Check
  <2>1. mode = "idle" /\ pc = <<1, 1>> /\ ~strayed /\ UNCHANGED <<mode, pc, strayed>>
    BY <1>1 DEF Check, machine, MachineInv
  <2> QED BY <2>1
<1>2. ASSUME Quiet, UNCHANGED vars, mode' # "idle", strayed' \in {strayed, TRUE}
      PROVE  Quiet' /\ mode' # "idle" /\ (~strayed' => ~strayed)
  <2>1. Quiet' = Quiet
    BY <1>2, MachineSame
  <2>2. Quiet'
    BY <1>2, <2>1, Zenon
  <2>3. ~strayed' => ~strayed
    BY <1>2, Zenon
  <2> QED BY <1>2, <2>2, <2>3, Zenon
<1>3. CASE \/ Begin \/ Execute \/ Underflow \/ Overflow \/ JumpOut
           \/ Branch \/ Return \/ Leave \/ Halt
  <2>1. Quiet /\ UNCHANGED <<vars, strayed>> /\ mode' # "idle"
    BY <1>3 DEF Begin, Execute, Underflow, Overflow, JumpOut, Branch, Return, Leave, Halt,
                InOps, AtExit, MachineInv
  <2> QED BY <1>2, <2>1
<1>4. CASE Stray \/ Enter
  <2>1. Quiet /\ UNCHANGED vars /\ mode' # "idle" /\ strayed' = TRUE
    BY <1>4 DEF Stray, StraysHere, Enter, InOps, AtExit, MachineInv
  <2> QED BY <1>2, <2>1
<1>5. CASE Rest \/ UNCHANGED allVars
  <2>1. UNCHANGED <<vars, mode, pc, strayed>>
    BY <1>5 DEF Rest, allVars, machine
  <2>2. Quiet' = Quiet
    BY <2>1, MachineSame
  <2> QED BY <2>1, <2>2 DEF MachineInv
<1> QED BY <1>1, <1>3, <1>4, <1>5 DEF RunNext

\* A step by a way that the analysis knows keeps the machine on the walks.
LEMMA MachineKeeps ==
  ASSUME AnalysisInv, MachineInv, OnWalk, [RunNext]_allVars, ~strayed'
  PROVE  OnWalk'
<1>1. CASE Check
  <2>1. mode = "idle" /\ UNCHANGED <<mode, pc, height>>
    BY <1>1 DEF Check, machine, MachineInv
  <2>2. height' = height
    BY <1>1 DEF Check, machine
  <2> QED BY <2>1, <2>2 DEF OnWalk
<1>2. CASE Begin
  <2>1. /\ Quiet /\ mode' = "running" /\ height' = StartHeight /\ pc' = pc
        /\ UNCHANGED vars /\ pc = <<1, 1>>
    BY <1>2 DEF Begin, MachineInv
  <2>2. StartHeight \in Nat /\ MachineAt(1, 1, StartHeight)
    BY <2>1, MachineBegins
  <2>3. Quiet' /\ Blocks' = Blocks /\ 1 \in Blocks
        /\ \A x : MachineAt(1, 1, x) => MachineAt(1, 1, x)'
    BY <2>1, <2>2, MachineSame DEF MachineAt
  <2>4. MachineAt(1, 1, height)'
    BY <2>1, <2>2, <2>3
  <2> QED BY <2>1, <2>2, <2>3, <2>4 DEF OnWalk
<1>3. ASSUME mode = "running", UNCHANGED vars, NEW i \in Blocks, NEW k \in Nat, NEW x \in Nat,
             pc' = <<i, k>>, height' = x, mode' = "running", MachineAt(i, k, x)
      PROVE  OnWalk'
  <2>1. Quiet' /\ Blocks' = Blocks /\ MachineAt(i, k, x)'
    BY <1>3, MachineSame DEF MachineInv
  <2>2. MachineAt(i, k, height)'
    BY <1>3, <2>1
  <2>3. (\E m \in Blocks, n \in Nat : pc = <<m, n>> /\ MachineAt(m, n, height))'
    BY <1>3, <2>1, <2>2
  <2> QED BY <1>3, <2>1, <2>3 DEF OnWalk
<1>4. ASSUME mode = "running", UNCHANGED <<vars, height>>, mode' \in {"halted", "overflow"}
      PROVE  OnWalk'
  <2>1. Quiet'
    BY <1>4, MachineSame DEF MachineInv
  <2> QED BY <1>4, <2>1 DEF OnWalk
<1>5. ASSUME mode = "running"
      PROVE  \E i \in Blocks, k \in Nat :
                /\ pc = <<i, k>> /\ pc[1] = i /\ pc[2] = k /\ MachineAt(i, k, height)
                /\ k \in 1..(Size(i) + 1) /\ height \in Nat /\ Size(i) \in Nat
                /\ Len(Here.ops) = Size(i) /\ Here = prog.blocks[i]
                /\ (InOps => k \in 1..Size(i)) /\ (AtExit => k = Size(i) + 1)
  <2>1. PICK i \in Blocks, k \in Nat : pc = <<i, k>> /\ MachineAt(i, k, height)
    BY <1>5 DEF OnWalk
  <2>2. k \in 1..(Size(i) + 1) /\ height \in Nat /\ Size(i) \in Nat
    BY <2>1, WalkFacts DEF MachineAt, AnalysisInv
  <2>3. Here = prog.blocks[i] /\ Len(Here.ops) = Size(i)
    BY <2>1 DEF Here, Size
  <2>4. (InOps => k <= Size(i)) /\ (AtExit => k > Size(i))
    BY <2>1, <2>3 DEF InOps, AtExit
  <2>5. (InOps => k \in 1..Size(i)) /\ (AtExit => k = Size(i) + 1)
    BY <2>2, <2>4
  <2> QED BY <2>1, <2>2, <2>3, <2>5
<1>6. CASE Execute
  <2>1. mode = "running" /\ InOps
    BY <1>6 DEF Execute, InOps
  <2>2. PICK i \in Blocks, k \in Nat :
           /\ pc[1] = i /\ pc[2] = k /\ MachineAt(i, k, height) /\ k \in 1..Size(i)
           /\ Here = prog.blocks[i]
    BY <1>5, <2>1
  <2> DEFINE x == height - prog.blocks[i].ops[k].in + prog.blocks[i].ops[k].out
  <2>3. /\ Instr = prog.blocks[i].ops[k] /\ prog.blocks[i].ops[k].in <= height
        /\ height' = x /\ pc' = <<i, k + 1>> /\ UNCHANGED vars /\ mode' = "running" /\ Quiet
    BY <1>6, <2>1, <2>2 DEF Execute, Instr, MachineInv
  <2>4. x \in Nat /\ MachineAt(i, k + 1, x)
    BY <2>2, <2>3, MachineExecutes
  <2>5. k + 1 \in Nat
    BY <2>2
  <2> HIDE DEF x
  <2> QED BY <1>3, <2>1, <2>3, <2>4, <2>5
<1>7. CASE Underflow
  <2>1. mode = "running" /\ InOps /\ Instr.in > height /\ Quiet
        /\ UNCHANGED <<vars, pc, height>> /\ mode' = "underflow"
    BY <1>7 DEF Underflow, InOps, MachineInv
  <2>2. PICK i \in Blocks, k \in Nat :
           /\ pc[1] = i /\ pc[2] = k /\ MachineAt(i, k, height) /\ k \in 1..Size(i)
           /\ Here = prog.blocks[i] /\ height \in Nat
    BY <1>5, <2>1
  <2>3. ~(Plain /\ FirstBlockChecked)
    <3>1. SUFFICES ASSUME Plain, FirstBlockChecked PROVE FALSE
      OBVIOUS
    <3>2. states[i].reached /\ Ideal(i, k) <= height
      BY <2>2, <3>1 DEF MachineAt
    <3>3. /\ Instr.in <= Ideal(i, k) /\ Instr.in \in Nat /\ W(i)[k].depth \in Nat
          /\ Debt(i, k) \in Nat /\ Ideal(i, k) = W(i)[k].depth + Debt(i, k)
      BY <2>1, <2>2, <3>1, <3>2, IdealStep DEF Instr, Ideal
    <3>4. Ideal(i, k) \in Nat
      BY <3>3
    <3> QED BY <2>1, <2>2, <3>2, <3>3, <3>4
  <2>4. Quiet' /\ ~(Plain /\ FirstBlockChecked)'
    BY <2>1, <2>3, MachineSame
  <2> QED BY <2>1, <2>4 DEF OnWalk
<1>8. CASE Overflow
  BY <1>4, <1>8 DEF Overflow, InOps
<1>9. CASE JumpOut
  <2>1. mode = "running" /\ InOps
    BY <1>9 DEF JumpOut, InOps
  <2>2. PICK i \in Blocks, k \in Nat :
           /\ pc[1] = i /\ pc[2] = k /\ MachineAt(i, k, height) /\ k \in 1..Size(i)
           /\ Here = prog.blocks[i]
    BY <1>5, <2>1
  <2> DEFINE op == prog.blocks[i].ops[k]
  <2>3. Instr = op
    BY <2>2 DEF Instr
  <2>4. PICK j \in DOMAIN op.jumps :
           /\ op.jumps[j].to \in Blocks /\ pc' = <<op.jumps[j].to, 1>>
           /\ height' = height - op.in + op.jumps[j].depth
    BY <1>9, <2>3 DEF JumpOut
  <2>5. /\ op.in <= height /\ UNCHANGED vars /\ mode' = "running" /\ Quiet
    BY <1>9, <2>1, <2>3 DEF JumpOut, MachineInv
  <2> DEFINE y == height - op.in + op.jumps[j].depth
             t == op.jumps[j].to
  <2>6. y \in Nat /\ MachineAt(t, 1, y)
    BY <2>2, <2>4, <2>5, MachineJumps
  <2> HIDE DEF y, t
  <2>7. t \in Blocks /\ pc' = <<t, 1>> /\ height' = y
    BY <2>4 DEF t, y
  <2> QED BY <1>3, <2>1, <2>5, <2>6, <2>7
<1>10. CASE Branch
  <2>1. mode = "running" /\ AtExit /\ height' = height /\ mode' = "running" /\ UNCHANGED vars
        /\ Quiet
    BY <1>10 DEF Branch, AtExit, MachineInv
  <2>2. PICK i \in Blocks, k \in Nat :
           /\ pc[1] = i /\ MachineAt(i, k, height) /\ k = Size(i) + 1 /\ height \in Nat
    BY <1>5, <2>1
  <2>3. PICK j \in DOMAIN Successors(i) : pc' = <<Successors(i)[j], 1>>
    BY <1>10, <2>2 DEF Branch
  <2> DEFINE t == Successors(i)[j]
  <2>4. MachineAt(t, 1, height)
    BY <2>1, <2>2, MachineBranches
  <2> HIDE DEF t
  <2>5. t \in Blocks /\ pc' = <<t, 1>>
    BY <2>3, <2>4 DEF MachineAt, t
  <2> QED BY <1>3, <2>1, <2>2, <2>4, <2>5
<1>11. CASE Return
  <2>1. /\ mode = "running" /\ AtExit /\ height' = height /\ mode' = "returned" /\ UNCHANGED vars
        /\ Quiet /\ pc[1] = N /\ Here.falls /\ height \in Nat
    BY <1>11 DEF Return, AtExit, MachineInv, OnWalk
  <2>2. PICK i \in Blocks, k \in Nat :
           /\ pc[1] = i /\ MachineAt(i, k, height) /\ k = Size(i) + 1
           /\ Here = prog.blocks[i]
    BY <1>5, <2>1
  <2>3. ASSUME HeightsKnown, OpensFreely PROVE FallsThrough /\ height = states[N].exit.depth
    <3>1. height = Ideal(N, Size(N) + 1) /\ states[N].reached /\ Plain /\ FirstBlockChecked
          /\ N \in Blocks
      BY <2>1, <2>2, <2>3 DEF MachineAt, HeightsKnown
    <3>2. height = states[N].exit.depth
      BY <2>1, <3>1, EndExact
    <3> QED BY <2>1, <2>2, <3>1, <3>2 DEF FallsThrough
  <2>4. /\ Quiet' /\ (HeightsKnown /\ OpensFreely)' = (HeightsKnown /\ OpensFreely)
        /\ FallsThrough' = FallsThrough /\ (states[N].exit.depth)' = states[N].exit.depth
    BY <2>1, MachineSame
  <2>5. ASSUME (HeightsKnown /\ OpensFreely)'
        PROVE  (FallsThrough /\ height = states[N].exit.depth)'
    <3>1. FallsThrough /\ height = states[N].exit.depth
      BY <2>3, <2>4, <2>5
    <3> QED BY <2>1, <2>4, <3>1
  <2> QED BY <2>1, <2>4, <2>5 DEF OnWalk
<1>12. CASE Halt
  BY <1>4, <1>12 DEF Halt, AtExit
<1>14. CASE Leave
  <2>1. /\ mode = "running" /\ AtExit /\ UNCHANGED <<vars, pc, height>> /\ mode' = "left"
        /\ Quiet /\ height \in Nat
    BY <1>14 DEF Leave, AtExit, MachineInv, OnWalk
  <2>2. PICK i \in Blocks, k \in Nat :
           pc[1] = i /\ MachineAt(i, k, height) /\ k = Size(i) + 1
    BY <1>5, <2>1
  <2>3. ASSUME HeightsKnown, OpensFreely
        PROVE  states[i].reached /\ height = states[i].exit.depth
    <3>1. height = Ideal(i, Size(i) + 1) /\ states[i].reached /\ Plain /\ FirstBlockChecked
      BY <2>1, <2>2, <2>3 DEF MachineAt, HeightsKnown
    <3> QED BY <2>1, <3>1, EndExact
  <2>4. (HeightsKnown /\ OpensFreely)' = (HeightsKnown /\ OpensFreely) /\ states' = states
    BY <2>1, MachineSame
  <2>5. ASSUME (HeightsKnown /\ OpensFreely)'
        PROVE  (states[pc[1]].reached /\ height = states[pc[1]].exit.depth)'
    <3>1. states[i].reached /\ height = states[i].exit.depth
      BY <2>3, <2>4, <2>5
    <3> QED BY <2>1, <2>2, <2>4, <3>1
  <2> QED BY <2>1, <2>5 DEF OnWalk
<1>15. CASE Stray \/ Enter
  BY <1>15 DEF Stray, Enter
<1>13. CASE Rest \/ UNCHANGED allVars
  <2>1. UNCHANGED <<vars, mode, pc, height>>
    BY <1>13 DEF Rest, allVars, machine
  <2>2. /\ Quiet' = Quiet /\ (Plain /\ FirstBlockChecked)' = (Plain /\ FirstBlockChecked)
        /\ (HeightsKnown /\ OpensFreely)' = (HeightsKnown /\ OpensFreely)
        /\ FallsThrough' = FallsThrough /\ (states[N].exit.depth)' = states[N].exit.depth
        /\ Blocks' = Blocks /\ states' = states
        /\ \A i, k, x : MachineAt(i, k, x) => MachineAt(i, k, x)'
    BY <2>1, MachineSame
  <2>3. ASSUME mode' = "running"
        PROVE  (\E i \in Blocks, k \in Nat : pc = <<i, k>> /\ MachineAt(i, k, height))'
    <3>1. PICK i \in Blocks, k \in Nat : pc = <<i, k>> /\ MachineAt(i, k, height)
      BY <2>1, <2>3 DEF OnWalk
    <3>2. MachineAt(i, k, height)'
      <4> DEFINE x == height
      <4>1. MachineAt(i, k, x)
        BY <3>1
      <4> QED BY <2>1, <2>2, <3>1
    <3> QED BY <2>1, <2>2, <3>1, <3>2
  <2>4. ASSUME mode' = "returned", (HeightsKnown /\ OpensFreely)'
        PROVE  (FallsThrough /\ height = states[N].exit.depth)'
    <3>1. FallsThrough /\ height = states[N].exit.depth
      BY <2>1, <2>2, <2>4 DEF OnWalk
    <3> QED BY <2>1, <2>2, <3>1
  <2>5. /\ mode' = mode /\ height' = height /\ pc' = pc
        /\ height \in Nat /\ (mode = "underflow" => ~(Plain /\ FirstBlockChecked))
    BY <2>1 DEF OnWalk
  <2>6. ASSUME mode' = "left", (HeightsKnown /\ OpensFreely)'
        PROVE  (states[pc[1]].reached /\ height = states[pc[1]].exit.depth)'
    <3>1. states[pc[1]].reached /\ height = states[pc[1]].exit.depth
      BY <2>1, <2>2, <2>6 DEF OnWalk
    <3> QED BY <2>1, <2>2, <3>1
  <2>7. mode' = "underflow" => ~(Plain /\ FirstBlockChecked)'
    BY <2>2, <2>5
  <2> QED BY <2>3, <2>4, <2>5, <2>6, <2>7 DEF OnWalk
<1> QED BY <1>1, <1>2, <1>6, <1>7, <1>8, <1>9, <1>10, <1>11, <1>12, <1>13, <1>14, <1>15 DEF RunNext

\* Each step of the analysis or of the machine keeps what is known of the machine.
LEMMA MachineStep ==
  AnalysisInv /\ MachineInv /\ [RunNext]_allVars => MachineInv'
<1> SUFFICES ASSUME AnalysisInv, MachineInv, [RunNext]_allVars PROVE MachineInv'
  OBVIOUS
<1>1. /\ mode' # "idle" => Quiet'
      /\ mode' = "idle" => pc' = <<1, 1>> /\ ~strayed'
      /\ ~strayed' => ~strayed
  BY MachineQuiet
<1>2. ASSUME ~strayed' PROVE OnWalk'
  <2>1. OnWalk
    BY <1>1, <1>2 DEF MachineInv
  <2> QED BY <1>2, <2>1, MachineKeeps
<1> QED BY <1>1, <1>2 DEF MachineInv

\* What is known of the analysis and the machine together.
RunInv == AnalysisInv /\ MachineInv

\* It holds from the start on.
LEMMA RunInvariant == RunSpec => []RunInv
<1>1. RunInit => RunInv
  BY MachineInit DEF RunInv
<1>2. RunInv /\ [RunNext]_allVars => RunInv'
  <2>1. [RunNext]_allVars => [Next]_vars
    BY DEF RunNext, allVars, Check, Begin, Execute, Underflow, Overflow, JumpOut, Branch, Return,
           Leave, Halt, Stray, Enter, Rest
  <2> QED BY <2>1, AnalysisStep, MachineStep DEF RunInv
<1> QED BY <1>1, <1>2, PTL DEF RunSpec

\* Where the machine is when it enters a block of silent code of which every height is known.
LEMMA MachineEnters ==
  ASSUME RunInv, mode = "running", pc[2] = 1, ~strayed, HeightsKnown, OpensFreely
  PROVE  /\ pc[1] \in Blocks /\ states[pc[1]].reached /\ Quiet
         /\ Here = prog.blocks[pc[1]] /\ height = Ideal(pc[1], 1)
<1>1. PICK i \in Blocks, k \in Nat : pc = <<i, k>> /\ MachineAt(i, k, height)
  BY DEF RunInv, MachineInv, OnWalk
<1>2. k = 1 /\ pc[1] = i /\ Here = prog.blocks[i]
  BY <1>1 DEF Here
<1>3. height = Ideal(i, 1) /\ states[i].reached
  BY <1>1, <1>2 DEF MachineAt, HeightsKnown
<1> QED BY <1>2, <1>3 DEF RunInv, MachineInv

-----------------------------------------------------------------------------
(* What silence promises *)

\* A program that the analysis is silent about never pops from an empty stack, whichever way
\* its branches go, as long as control has come only by ways that the analysis knows (not by a
\* computed jump, by a jump of a nested call, or from another document), if it has no wildcards
\* and the first block is not among the blocks that escape the checks (stack.go:149-151).
THEOREM StackNeverUnderflows == RunSpec => []NeverUnderflows
<1>1. RunInv => NeverUnderflows
  BY DEF RunInv, MachineInv, OnWalk, NeverUnderflows
<1> QED BY <1>1, RunInvariant, PTL

\* The label comments of a program that the analysis is silent about are true whenever control
\* arrives at them, if it has come only by ways that the analysis knows (stack.go:188-190).
THEOREM StackLabelsHold == RunSpec => []LabelsHold
<1>1. ASSUME RunInv PROVE LabelsHold
  <2> SUFFICES ASSUME mode = "running", pc[2] = 1, ~strayed, HeightsKnown, ~prog.inferred,
                      Given(Here.label)
               PROVE  height = Here.label.len
    BY DEF LabelsHold
  <2>1. OpensFreely
    BY DEF OpensFreely
  <2>2. /\ pc[1] \in Blocks /\ states[pc[1]].reached /\ Quiet
        /\ Here = prog.blocks[pc[1]] /\ height = Ideal(pc[1], 1)
    BY <1>1, <2>1, MachineEnters
  <2>3. AnalysisInv
    BY <1>1 DEF RunInv
  <2> QED BY <2>1, <2>2, <2>3, HeadExact
<1> QED BY <1>1, RunInvariant, PTL

\* All paths that the analysis knows to a block of a program it is silent about bring the height
\* that it has given the block (docs/stackcheck.md:132-135).
THEOREM StackHeightsAgree == RunSpec => [](OpensFreely => ForwardHeightsAgree)
<1>1. ASSUME RunInv, OpensFreely PROVE ForwardHeightsAgree
  <2> SUFFICES ASSUME mode = "running", pc[2] = 1, ~strayed, HeightsKnown
               PROVE  height = IF pc[1] = 1 THEN StartHeight ELSE states[pc[1]].entry.depth
    BY DEF ForwardHeightsAgree
  <2>1. /\ pc[1] \in Blocks /\ states[pc[1]].reached /\ Quiet /\ height = Ideal(pc[1], 1)
    BY <1>1, MachineEnters
  <2>2. AnalysisInv
    BY <1>1 DEF RunInv
  <2> QED BY <1>1, <2>1, <2>2, HeadExact
<1> QED BY <1>1, RunInvariant, PTL

\* The effect that callers are handed is the one that code has to which control comes only by
\* ways that the analysis knows: it returns only if it says so, with the stack its exit state
\* describes, and leaves by a jump with the stack that is listed for it (check.go:256-274).
THEOREM StackEffectIsExact == RunSpec => [](OpensFreely => EffectIsExact)
<1>1. RunInv => (OpensFreely => EffectIsExact)
  BY DEF RunInv, MachineInv, OnWalk, EffectIsExact, HeightsKnown
<1> QED BY <1>1, RunInvariant, PTL

-----------------------------------------------------------------------------
(* Balanced code *)

\* The heights in balanced code follow from the one at the start of the block.
LEMMA HeightsEquation ==
  ASSUME NEW b, IsBlock(b), NEW d \in Nat
  PROVE  /\ HeightsIn(b.ops, d)[1] = d
         /\ \A k \in 1..Len(b.ops) :
              HeightsIn(b.ops, d)[k + 1] = HeightsIn(b.ops, d)[k] - b.ops[k].in + b.ops[k].out
         /\ \A k \in 1..(Len(b.ops) + 1) : HeightsIn(b.ops, d)[k] \in Int
<1> DEFINE L == Len(b.ops)
           ops == b.ops
           F(f, k) == IF k = 1 THEN d ELSE f[k - 1] - ops[k - 1].in + ops[k - 1].out
           Covered == {n \in Nat : \E f : f = [k \in 1..(n + 1) |-> F(f, k)]}
<1>1. L \in Nat /\ \A k \in 1..L : ops[k].in \in Nat /\ ops[k].out \in Nat
  BY BlockType, OpType
<1>2. 0 \in Covered
  <2> DEFINE f == [k \in 1..1 |-> d]
  <2>1. \A k \in 1..1 : F(f, k) = d
    OBVIOUS
  <2>2. f = [k \in 1..1 |-> F(f, k)]
    <3> HIDE DEF F
    <3> QED BY <2>1
  <2>3. 0 + 1 = 1
    OBVIOUS
  <2>4. \E g : g = [k \in 1..(0 + 1) |-> F(g, k)]
    <3> HIDE DEF F, f
    <3> QED BY <2>2, <2>3
  <2> QED BY <2>4
<1>3. ASSUME NEW n \in Nat, n \in Covered PROVE n + 1 \in Covered
  <2>1. PICK f : f = [k \in 1..(n + 1) |-> F(f, k)]
    BY <1>3
  <2> DEFINE g == [k \in 1..(n + 1 + 1) |-> F(f, k)]
  <2>2. \A k \in 1..(n + 1) : k \in 1..(n + 1 + 1) /\ g[k] = f[k]
    <3>1. \A k \in 1..(n + 1) : f[k] = F(f, k)
      <4> HIDE DEF F
      <4> QED BY <2>1
    <3>2. \A k \in 1..(n + 1 + 1) : g[k] = F(f, k)
      <4> HIDE DEF F
      <4> QED OBVIOUS
    <3>3. \A k \in 1..(n + 1) : k \in 1..(n + 1 + 1)
      OBVIOUS
    <3> HIDE DEF F, g
    <3> QED BY <3>1, <3>2, <3>3
  <2>3. ASSUME NEW k \in 1..(n + 1 + 1) PROVE F(f, k) = F(g, k)
    <3>1. k = 1 \/ k - 1 \in 1..(n + 1)
      OBVIOUS
    <3> HIDE DEF g, ops
    <3> QED BY <2>2, <3>1
  <2>4. g = [k \in 1..(n + 1 + 1) |-> F(g, k)]
    <3> HIDE DEF F
    <3> QED BY <2>3
  <2> HIDE DEF F, g
  <2> QED BY <2>4
<1>4. L \in Covered
  <2> HIDE DEF Covered
  <2> QED BY <1>1, <1>2, <1>3, InductiveSet
<1>5. \E f : f = [k \in 1..(L + 1) |-> F(f, k)]
  BY <1>4
<1> DEFINE w == HeightsIn(ops, d)
<1>6. w = CHOOSE f : f = [k \in 1..(L + 1) |-> F(f, k)]
  BY DEF HeightsIn
<1>7. w = [k \in 1..(L + 1) |-> F(w, k)]
  <2> HIDE DEF F
  <2> QED BY <1>5, <1>6
<1>8. \A k \in 1..(L + 1) : w[k] = F(w, k)
  <2> HIDE DEF F, w
  <2> QED BY <1>7
<1> HIDE DEF w
<1>9. 1 \in 1..(L + 1) /\ w[1] = d
  <2>1. 1 \in 1..(L + 1)
    BY <1>1
  <2> QED BY <1>8, <2>1
<1>10. ASSUME NEW k \in 1..L PROVE w[k + 1] = w[k] - ops[k].in + ops[k].out
  <2>1. k + 1 \in 1..(L + 1) /\ k + 1 # 1 /\ (k + 1) - 1 = k
    BY <1>1
  <2>2. w[k + 1] = F(w, k + 1)
    BY <1>8, <2>1
  <2> HIDE DEF L, ops
  <2> QED BY <2>1, <2>2
<1> DEFINE Good == {n \in Nat : n + 1 <= L + 1 => w[n + 1] \in Int}
<1>11. 0 \in Good
  BY <1>9
<1>12. ASSUME NEW n \in Nat, n \in Good PROVE n + 1 \in Good
  <2>1. SUFFICES ASSUME n + 1 + 1 <= L + 1 PROVE w[n + 1 + 1] \in Int
    OBVIOUS
  <2>2. n + 1 \in 1..L /\ w[n + 1] \in Int
    BY <1>1, <1>12, <2>1
  <2>3. w[n + 1 + 1] = w[n + 1] - ops[n + 1].in + ops[n + 1].out
    BY <1>10, <2>2
  <2> HIDE DEF ops, L
  <2> QED BY <1>1, <2>2, <2>3
<1>13. Nat \subseteq Good
  <2> HIDE DEF Good
  <2> QED BY <1>11, <1>12, InductiveSet
<1>14. ASSUME NEW k \in 1..(L + 1) PROVE w[k] \in Int
  <2>1. k - 1 \in Nat /\ (k - 1) + 1 = k /\ k <= L + 1
    BY <1>1
  <2>2. k - 1 \in Good
    BY <1>13, <2>1
  <2> QED BY <2>1, <2>2
<1> QED BY <1>9, <1>10, <1>14 DEF w

\* A statement without a comment takes its inputs, inventing the missing ones where it may.
LEMMA BareApply ==
  ASSUME NEW s \in Stacks, NEW op \in Ops, op.note = NoComment, op.in <= s.depth \/ s.inferred
  PROVE  /\ Apply(s, op).depth = (IF op.in > s.depth THEN 0 ELSE s.depth - op.in) + op.out
         /\ Apply(s, op).grown = IF op.in > s.depth THEN s.grown + (op.in - s.depth) ELSE s.grown
         /\ ApplyErrors(s, op) = {}
<1> DEFINE x == Exchange(s, op)
<1>1. /\ op.in \in Nat /\ op.out \in Nat /\ s.depth \in Nat /\ s.inferred \in BOOLEAN
  BY OpType DEF Stacks
<1>2. ~Given(op.note) /\ op.note # Malformed
  <2>1. op.note.len = -1 /\ ~(-1 >= 0)
    BY DEF NoComment
  <2>2. Malformed.len = -2 /\ -1 # -2
    BY DEF Malformed
  <2> QED BY <2>1, <2>2 DEF Given
<1>3. Opened(s, op) = s
  BY <1>2 DEF Opened
<1>4. s.inferred \/ ~(op.in > s.depth)
  BY <1>1
<1>5. ~Underflows(s, op.in)
  BY <1>4 DEF Underflows
<1>6. /\ x.depth = (IF op.in > s.depth THEN 0 ELSE s.depth - op.in) + op.out
      /\ x.grown = IF s.inferred /\ op.in > s.depth THEN s.grown + (op.in - s.depth) ELSE s.grown
  BY ExchangeType
<1> HIDE DEF x
<1>7. x.grown = IF op.in > s.depth THEN s.grown + (op.in - s.depth) ELSE s.grown
  BY <1>4, <1>6
<1>8. Apply(s, op) = x
  <2>1. Apply(s, op) = CheckComment(x, op.note, TRUE)
    BY <1>2, <1>3, <1>5 DEF Apply, x
  <2>2. CheckComment(x, op.note, TRUE) = x
    BY <1>2 DEF CheckComment
  <2> QED BY <2>1, <2>2
<1>9. ApplyErrors(s, op) = {}
  <2>1. ApplyErrors(s, op) = CommentErrors(x, op.note, TRUE)
    BY <1>2, <1>3, <1>5 DEF ApplyErrors, x
  <2>2. CommentErrors(x, op.note, TRUE) = {}
    BY <1>2 DEF CommentErrors
  <2> QED BY <2>1, <2>2
<1> QED BY <1>6, <1>7, <1>8, <1>9

\* A label that lists all items there are, or more of inferred ones, changes nothing.
LEMMA BareLabel ==
  ASSUME NEW s \in Stacks, NEW h \in Nat, s.depth <= h, NEW c,
         c \in {NoComment, [len |-> h, wild |-> FALSE]}
  PROVE  /\ CheckComment(s, c, FALSE).depth = s.depth /\ CheckComment(s, c, FALSE).grown = s.grown
         /\ s.depth = h \/ s.inferred => CommentErrors(s, c, FALSE) = {}
         /\ c # Malformed
<1>1. s.depth \in Nat /\ s.inferred \in BOOLEAN /\ s.grown \in Nat
  BY DEF Stacks
<1>2. CASE c = NoComment
  <2>1. ~Given(c) /\ c # Malformed
    <3>1. c.len = -1 /\ ~(-1 >= 0)
      BY <1>2 DEF NoComment
    <3>2. Malformed.len = -2 /\ -1 # -2
      BY DEF Malformed
    <3> QED BY <3>1, <3>2 DEF Given
  <2> QED BY <2>1 DEF CheckComment, CommentErrors
<1>3. CASE c = [len |-> h, wild |-> FALSE]
  <2>1. c.len = h /\ c.wild = FALSE /\ Given(c) /\ c # Malformed
    <3>1. c.len = h /\ c.wild = FALSE /\ h >= 0
      BY <1>3
    <3>2. Malformed.len = -2 /\ h # -2
      BY DEF Malformed
    <3> QED BY <3>1, <3>2 DEF Given
  <2>2. ~(c.len < s.depth)
    BY <1>1, <2>1
  <2> DEFINE w == [s EXCEPT !.wild = FALSE]
  <2>3. w.depth = s.depth /\ w.grown = s.grown
    BY DEF Stacks
  <2>4. CheckComment(s, c, FALSE) = IF c.len > s.depth THEN w ELSE [w EXCEPT !.depth = c.len]
    BY <2>1 DEF CheckComment
  <2>5. CheckComment(s, c, FALSE).depth = s.depth /\ CheckComment(s, c, FALSE).grown = s.grown
    <3>1. CASE c.len > s.depth
      BY <2>3, <2>4, <3>1
    <3>2. CASE ~(c.len > s.depth)
      <4>1. c.len = s.depth
        BY <1>1, <2>1, <3>2
      <4>2. CheckComment(s, c, FALSE) = [w EXCEPT !.depth = s.depth]
        BY <2>4, <3>2, <4>1
      <4>3. [w EXCEPT !.depth = s.depth].depth = s.depth
            /\ [w EXCEPT !.depth = s.depth].grown = w.grown
        BY DEF Stacks
      <4> HIDE DEF w
      <4> QED BY <2>3, <4>2, <4>3
    <3> QED BY <3>1, <3>2
  <2>6. ASSUME s.depth = h \/ s.inferred PROVE CommentErrors(s, c, FALSE) = {}
    <3>1. ~(c.len > s.depth /\ ~s.inferred)
      BY <1>1, <2>1, <2>6
    <3> QED BY <2>1, <2>2, <3>1 DEF CommentErrors
  <2> QED BY <2>1, <2>5, <2>6
<1> QED BY <1>2, <1>3

\* The code is balanced at heights D, and the heights of inferred inputs are known.
BalancedAt(R, D) ==
  /\ R \in SUBSET Blocks /\ D \in [R -> Nat]
  /\ BalancedBy(prog, R, D) /\ InputsKnown(prog)

\* The heights in block i.
Fitting(D, i) == HeightsIn(prog.blocks[i].ops, D[i])

\* How many inputs the first block is given that the analysis has not inferred.
Slack(D) == IF prog.inferred THEN D[1] - inputs ELSE 0

\* Of h items at most s are unknown, and in the end all s of them.
Near(s, h, d, exact) == h - s <= d /\ d <= h /\ (exact => d = h - s)

\* What being balanced says of a block, and of a statement in it.
LEMMA BalancedBlock ==
  ASSUME prog \in Programs, NEW R, NEW D, BalancedAt(R, D), NEW i \in R
  PROVE  /\ i \in Blocks /\ 1 \in R /\ D[i] \in Nat /\ D[1] \in Nat /\ Fitting(D, i)[1] = D[i]
         /\ ~prog.inferred => D[1] = prog.start.depth
         /\ prog.blocks[i].label \in {NoComment, [len |-> D[i], wild |-> FALSE]}
         /\ \A k \in 1..(Len(prog.blocks[i].ops) + 1) : Fitting(D, i)[k] \in Int
         /\ \A k \in 1..Len(prog.blocks[i].ops) :
              /\ Fitting(D, i)[k + 1]
                   = Fitting(D, i)[k] - prog.blocks[i].ops[k].in + prog.blocks[i].ops[k].out
              /\ prog.blocks[i].ops[k] \in Ops /\ prog.blocks[i].ops[k].in <= Fitting(D, i)[k]
              /\ prog.blocks[i].ops[k].note = NoComment /\ prog.blocks[i].ops[k].twice = 0
         /\ \A j \in DOMAIN Successors(i) :
              /\ Successors(i)[j] \in R
              /\ D[Successors(i)[j]] = Fitting(D, i)[Len(prog.blocks[i].ops) + 1]
              /\ prog.inferred => Successors(i)[j] # 1
<1>1. i \in Blocks /\ 1 \in R /\ D[i] \in Nat /\ D[1] \in Nat
  BY DEF BalancedAt, BalancedBy
<1>2. IsBlock(prog.blocks[i])
  BY <1>1, ProgFacts
<1>3. /\ DOMAIN prog.blocks[i].ops = 1..Len(prog.blocks[i].ops)
      /\ \A k \in 1..Len(prog.blocks[i].ops) : prog.blocks[i].ops[k] \in Ops
  BY <1>2, BlockType
<1>4. DOMAIN prog.blocks = Blocks
  BY ProgFacts, ProgramType DEF Blocks, N
<1>5. /\ Fitting(D, i)[1] = D[i]
      /\ \A k \in 1..Len(prog.blocks[i].ops) :
           Fitting(D, i)[k + 1]
             = Fitting(D, i)[k] - prog.blocks[i].ops[k].in + prog.blocks[i].ops[k].out
      /\ \A k \in 1..(Len(prog.blocks[i].ops) + 1) : Fitting(D, i)[k] \in Int
  BY <1>1, <1>2, HeightsEquation DEF Fitting
<1>6. /\ ~prog.inferred => D[1] = prog.start.depth
      /\ prog.blocks[i].label \in {NoComment, [len |-> D[i], wild |-> FALSE]}
      /\ \A k \in 1..Len(prog.blocks[i].ops) :
           /\ prog.blocks[i].ops[k].in <= Fitting(D, i)[k]
           /\ prog.blocks[i].ops[k].note = NoComment /\ prog.blocks[i].ops[k].twice = 0
  BY <1>3 DEF BalancedAt, BalancedBy, Fitting
<1>7. \A j \in DOMAIN Successors(i) :
        /\ Successors(i)[j] \in R
        /\ D[Successors(i)[j]] = Fitting(D, i)[Len(prog.blocks[i].ops) + 1]
  BY DEF BalancedAt, BalancedBy, Fitting, Successors
<1>8. \A j \in DOMAIN Successors(i) : prog.inferred => Successors(i)[j] # 1
  BY <1>1, <1>4 DEF BalancedAt, InputsKnown, Successors
<1> QED BY <1>1, <1>3, <1>5, <1>6, <1>7, <1>8

\* Where a jump out of a call leads whose effect is op, in block i at height h.
JumpFits(R, D, i, h, op, jmp) ==
  /\ jmp.to \in R /\ D[jmp.to] = h - op.in + jmp.depth
  /\ prog.inferred => i # 1 /\ jmp.to # 1 /\ prog.blocks[jmp.to].label = NoComment

\* And of a jump out of a call in it.
LEMMA BalancedJump ==
  ASSUME prog \in Programs, NEW R, NEW D, BalancedAt(R, D), NEW i \in R,
         NEW k \in 1..Len(prog.blocks[i].ops), NEW j \in 1..Len(prog.blocks[i].ops[k].jumps),
         prog.blocks[i].ops[k].jumps[j].to \in Blocks
  PROVE  JumpFits(R, D, i, Fitting(D, i)[k], prog.blocks[i].ops[k], prog.blocks[i].ops[k].jumps[j])
<1>1. i \in Blocks /\ prog.blocks[i].ops[k] \in Ops
  BY BalancedBlock
<1>2. IsBlock(prog.blocks[i])
  BY <1>1, ProgFacts
<1>3. k \in DOMAIN prog.blocks[i].ops
  BY <1>2, BlockType
<1>4. j \in DOMAIN prog.blocks[i].ops[k].jumps
  BY <1>1, OpType, LenProperties
<1>5. DOMAIN prog.blocks = Blocks /\ 1..Len(prog.blocks) = Blocks
  BY ProgFacts, ProgramType DEF Blocks, N
<1>6. /\ prog.blocks[i].ops[k].jumps[j].to \in R
      /\ D[prog.blocks[i].ops[k].jumps[j].to]
           = Fitting(D, i)[k] - prog.blocks[i].ops[k].in + prog.blocks[i].ops[k].jumps[j].depth
  BY <1>3, <1>4, <1>5 DEF BalancedAt, BalancedBy, Fitting
<1>7. prog.inferred => /\ i # 1 /\ prog.blocks[i].ops[k].jumps[j].to # 1
                       /\ prog.blocks[prog.blocks[i].ops[k].jumps[j].to].label = NoComment
  BY <1>1, <1>3, <1>4, <1>5 DEF BalancedAt, InputsKnown
<1> QED BY <1>6, <1>7 DEF JumpFits

\* A statement keeps what is unknown, and may ask for more of it.
LEMMA NearStep ==
  ASSUME NEW s \in Int, NEW h \in Int, NEW d \in Nat, NEW g \in Nat,
         NEW in \in Nat, NEW out \in Nat, NEW exact \in BOOLEAN,
         Near(s, h, d, exact /\ g = 0), h - s + g <= d, in <= h,
         NEW dd, dd = (IF in > d THEN 0 ELSE d - in) + out,
         NEW gg, gg = IF in > d THEN g + (in - d) ELSE g
  PROVE  /\ Near(s, h - in + out, dd, exact /\ gg = 0)
         /\ (h - in + out) - s + gg <= dd
         /\ gg = 0 => g = 0
<1>1. CASE in > d
  <2>1. dd = out /\ gg = g + (in - d) /\ gg > 0 /\ gg # 0
    BY <1>1
  <2>2. (h - in + out) - s <= dd /\ dd <= h - in + out /\ (h - in + out) - s + gg <= dd
    BY <1>1, <2>1 DEF Near
  <2> QED BY <2>1, <2>2 DEF Near
<1>2. CASE ~(in > d)
  <2>1. dd = d - in + out /\ gg = g
    BY <1>2
  <2>2. (h - in + out) - s <= dd /\ dd <= h - in + out /\ (h - in + out) - s + gg <= dd
    BY <1>2, <2>1 DEF Near
  <2>3. d = h - s => dd = (h - in + out) - s
    BY <2>1
  <2> QED BY <2>1, <2>2, <2>3 DEF Near
<1> QED BY <1>1, <1>2

\* A jump out of a call leaves with what the call does not take.
LEMMA NearJump ==
  ASSUME NEW s \in Int, NEW h \in Int, NEW d \in Nat, NEW g \in Nat, NEW in \in Nat, NEW n \in Nat,
         NEW exact \in BOOLEAN, Near(s, h, d, exact /\ g = 0), in <= h,
         NEW gg, gg = IF in > d THEN g + (in - d) ELSE g
  PROVE  Near(s, h - in + n, n + (IF d > in THEN d - in ELSE 0), exact /\ gg = 0)
<1>1. CASE in > d
  <2>1. gg # 0 /\ (IF d > in THEN d - in ELSE 0) = 0
    BY <1>1
  <2>2. (h - in + n) - s <= n + 0 /\ n + 0 <= h - in + n
    BY <1>1 DEF Near
  <2> QED BY <2>1, <2>2 DEF Near
<1>2. CASE ~(in > d)
  <2>1. gg = g /\ (IF d > in THEN d - in ELSE 0) = d - in
    BY <1>2
  <2>2. (h - in + n) - s <= n + (d - in) /\ n + (d - in) <= h - in + n
    BY <1>2 DEF Near
  <2>3. d = h - s => n + (d - in) = (h - in + n) - s
    OBVIOUS
  <2> QED BY <2>1, <2>2, <2>3 DEF Near
<1> QED BY <1>1, <1>2

-----------------------------------------------------------------------------
(* Where the analysis of balanced code stands *)

\* Whether all inputs that have been asked for are there.
Exact == need = 0 /\ (phase = "walk" => stk.grown = 0)

\* The walk has come to statement k of block i with the height that is balanced there, but for
\* inputs that are not inferred yet; what it has invented is among these.
WalkFits(D, i, k) ==
  /\ Near(Slack(D), Fitting(D, i)[k], stk.depth, Exact)
  /\ Fitting(D, i)[k] - Slack(D) + stk.grown <= stk.depth

\* So does an edge, and a recorded predecessor.
EdgeFits(R, D, p) ==
  /\ edges[p].to \in R
  /\ Near(Slack(D), D[edges[p].to], edges[p].height.depth, Exact)
  /\ prog.inferred => edges[p].to # 1
  /\ prog.inferred /\ IsVirtual(Key(p)) => prog.blocks[edges[p].to].label = NoComment

PredFits(D, i, k) ==
  \/ prog.inferred /\ i = 1 /\ k = Initial
  \/ /\ prog.inferred => i # 1
     /\ Near(Slack(D), D[i], states[i].preds[k].depth, need = 0)
     /\ prog.inferred /\ IsVirtual(k) => prog.blocks[i].label = NoComment

\* The first walk of a round invents the inputs of the first block, up to those it is given.
FirstFits(R, D) ==
  phase = "walk" /\ ~states[1].reached =>
    /\ need = 0
    /\ prog.inferred =>
         /\ \A k \in Nat : k = at => stk.depth + (D[1] - stk.grown) = Fitting(D, 1)[k]
         /\ preGrow <= stk.grown /\ stk.grown <= D[1]
         /\ \A p \in DOMAIN edges : edges[p].to \notin Blocks
    /\ ~prog.inferred =>
         /\ \A k \in Nat : k = at => stk.depth = Fitting(D, 1)[k]
         /\ stk.grown = 0
         /\ \A p \in DOMAIN edges : edges[p].to \in Blocks =>
               edges[p].to \in R /\ edges[p].height.depth = D[edges[p].to]

\* The rest of a round never asks for more than is left.
RoundFits(R, D) ==
  phase # "start" /\ states[1].reached =>
    /\ need <= Slack(D)
    /\ prog.inferred => preGrow <= inputs /\ ~Queued(1)
    /\ \A i \in Blocks : states[i].reached => i \in R
    /\ \A i \in Blocks : \A k \in DOMAIN states[i].preds : PredFits(D, i, k)
    /\ \A p \in DOMAIN edges : edges[p].to \in Blocks => EdgeFits(R, D, p)
    /\ phase = "walk" =>
         /\ prog.inferred => cur # 1
         /\ \A i \in R : \A k \in Nat : i = cur /\ k = at => WalkFits(D, i, k)

\* And there is nothing to report.
ReportFits(R, D) ==
  /\ prog.inferred => preGrow <= D[1]
  /\ phase \in {"check", "report", "done"} => need = 0
  /\ phase = "report" => states[cur].reached
  /\ phase = "report" /\ ~prog.inferred =>
       \A i \in R : \A k \in Nat : i = cur /\ k = at => stk.depth = Fitting(D, i)[k]
  /\ warnings = {} /\ phase # "panic"

Fits(R, D) == FirstFits(R, D) /\ RoundFits(R, D) /\ ReportFits(R, D)

\* What the proof of each step starts from.
Fitted(R, D) == StackTypeInv /\ ControlInv /\ BalancedAt(R, D) /\ Fits(R, D)

\* Numbers in play.
LEMMA FittedTypes ==
  ASSUME NEW R, NEW D, Fitted(R, D)
  PROVE  /\ prog \in Programs /\ stk \in Stacks /\ stk.depth \in Nat /\ stk.grown \in Nat
         /\ preGrow \in Nat /\ need \in Nat /\ inputs \in Nat /\ Slack(D) \in Int
         /\ 1 \in R /\ R \subseteq Blocks /\ \A i \in R : D[i] \in Nat
         /\ \A i \in Blocks : states[i] \in BlockStates /\ StateMerged(states[i])
         /\ stk.inferred = prog.inferred /\ prog.inferred \in BOOLEAN /\ 1 \in Blocks
<1>1. StackTypeInv /\ BalancedAt(R, D)
  BY DEF Fitted
<1>2. prog \in Programs /\ stk \in Stacks /\ preGrow \in Nat /\ need \in Nat /\ inputs \in Nat
      /\ stk.inferred = prog.inferred
      /\ \A i \in Blocks : states[i] \in BlockStates /\ StateMerged(states[i])
  BY <1>1 DEF StackTypeInv
<1>3. 1 \in R /\ R \subseteq Blocks /\ \A i \in R : D[i] \in Nat
  BY <1>1 DEF BalancedAt, BalancedBy
<1>4. Slack(D) \in Int
  BY <1>2, <1>3 DEF Slack
<1> QED BY <1>2, <1>3, <1>4, ProgFacts DEF Stacks

\* A round starts with the inputs that are known to be there.
LEMMA StartFits ==
  ASSUME NEW R, NEW D, Fitted(R, D), StartRound
  PROVE  Fits(R, D)'
<1>1. /\ phase' = "walk" /\ prog' = prog /\ preGrow' = preGrow /\ warnings' = warnings
      /\ need' = 0 /\ at' = 1 /\ edges' = <<>> /\ Blocks' = Blocks
      /\ stk' = ApplyLabelComment(InitialStack, 1) /\ states' = [i \in Blocks |-> Unreached]
  BY DEF StartRound, Fitted, ControlInv, Blocks, N
<1>2. ~states'[1].reached
  BY <1>1, FittedTypes DEF Unreached
<1>3. /\ InitialStack \in Stacks /\ InitialStack.grown = IF prog.inferred THEN preGrow ELSE 0
      /\ InitialStack.depth = IF prog.inferred THEN preGrow ELSE prog.start.depth
  <2>1. /\ InitialStack \in Stacks
        /\ InitialStack.grown = IF prog.inferred THEN preGrow ELSE 0
        /\ ~prog.inferred => InitialStack = NewStack(prog.start, prog.inferred)
        /\ prog.inferred => InitialStack.depth = preGrow
    BY FittedTypes, InitialStackType
  <2>2. NewStack(prog.start, prog.inferred).depth = prog.start.depth
    BY DEF NewStack
  <2> QED BY <2>1, <2>2
<1>4. /\ D[1] \in Nat /\ Fitting(D, 1)[1] = D[1] /\ (~prog.inferred => D[1] = prog.start.depth)
      /\ prog.blocks[1].label \in {NoComment, [len |-> D[1], wild |-> FALSE]}
  BY FittedTypes, BalancedBlock DEF Fitted
<1>5. preGrow \in Nat /\ (prog.inferred => preGrow <= D[1])
  BY FittedTypes DEF Fitted, Fits, ReportFits
<1>6. InitialStack.depth <= D[1]
  BY <1>3, <1>4, <1>5
<1>7. stk'.depth = InitialStack.depth /\ stk'.grown = InitialStack.grown
  BY <1>1, <1>3, <1>4, <1>6, BareLabel DEF ApplyLabelComment
<1>8. \A i : Fitting(D, i)' = Fitting(D, i)
  BY <1>1 DEF Fitting
<1>9. prog.inferred => stk'.depth = preGrow /\ stk'.grown = preGrow
                       /\ stk'.depth + (D[1] - stk'.grown) = D[1]
  BY <1>3, <1>4, <1>5, <1>7
<1>10. ~prog.inferred => stk'.depth = D[1] /\ stk'.grown = 0
  BY <1>3, <1>4, <1>7
<1>11. FirstFits(R, D)'
  BY <1>1, <1>4, <1>5, <1>8, <1>9, <1>10, NoPlaces DEF FirstFits
<1>12. RoundFits(R, D)'
  BY <1>2 DEF RoundFits
<1>13. ReportFits(R, D)'
  BY <1>1, <1>5 DEF ReportFits, Fitted, Fits
<1> QED BY <1>11, <1>12, <1>13 DEF Fits

\* The block that is walked is one of the balanced ones.
LEMMA WalkedBlock ==
  ASSUME NEW R, NEW D, Fitted(R, D), phase \in {"walk", "merge", "report"}
  PROVE  cur \in R /\ cur \in Blocks
<1>1. cur \in Blocks /\ 1 \in R
  BY FittedTypes DEF Fitted, StackTypeInv
<1>2. CASE cur = 1
  BY <1>1, <1>2
<1>3. CASE cur # 1
  <2>1. states[1].reached /\ states[cur].reached
    BY <1>3 DEF Fitted, Fits, ReportFits, ControlInv
  <2> QED BY <1>1, <2>1 DEF Fitted, Fits, RoundFits
<1> QED BY <1>1, <1>2, <1>3

\* The statement that is walked has its inputs, if they are all there.
LEMMA WalkedStatement ==
  ASSUME NEW R, NEW D, Fitted(R, D), phase \in {"walk", "report"}, ~AtEnd
  PROVE  /\ cur \in R /\ at \in Nat /\ at + 1 \in Nat
         /\ Stmt \in Ops /\ Stmt.in \in Nat /\ Stmt.out \in Nat
         /\ Stmt.in <= Fitting(D, cur)[at] /\ Stmt.note = NoComment /\ Stmt.twice = 0
         /\ Fitting(D, cur)[at] \in Int
         /\ Fitting(D, cur)[at + 1] = Fitting(D, cur)[at] - Stmt.in + Stmt.out
         /\ at \in 1..Len(prog.blocks[cur].ops) /\ Stmt = prog.blocks[cur].ops[at]
<1>1. cur \in R /\ at \in 1..Len(Block.ops)
  BY WalkedBlock, StmtStack DEF Fitted
<1>2. Stmt = prog.blocks[cur].ops[at] /\ Block = prog.blocks[cur]
  BY DEF Stmt, Block
<1>3. IsBlock(prog.blocks[cur])
  BY <1>1, FittedTypes, ProgFacts
<1>4. Len(prog.blocks[cur].ops) \in Nat
  BY <1>3, BlockType
<1>5. at \in 1..(Len(prog.blocks[cur].ops) + 1) /\ at \in Nat /\ at + 1 \in Nat
  BY <1>1, <1>2, <1>4
<1>6. /\ Fitting(D, cur)[at + 1] = Fitting(D, cur)[at] - Stmt.in + Stmt.out
      /\ Stmt \in Ops /\ Stmt.in <= Fitting(D, cur)[at]
      /\ Stmt.note = NoComment /\ Stmt.twice = 0 /\ Fitting(D, cur)[at] \in Int
  <2>1. prog \in Programs /\ BalancedAt(R, D) /\ cur \in R
    BY <1>1, FittedTypes DEF Fitted
  <2>2. /\ \A k \in 1..(Len(prog.blocks[cur].ops) + 1) : Fitting(D, cur)[k] \in Int
        /\ \A k \in 1..Len(prog.blocks[cur].ops) :
             /\ Fitting(D, cur)[k + 1] = Fitting(D, cur)[k] - prog.blocks[cur].ops[k].in
                                                          + prog.blocks[cur].ops[k].out
             /\ prog.blocks[cur].ops[k] \in Ops
             /\ prog.blocks[cur].ops[k].in <= Fitting(D, cur)[k]
             /\ prog.blocks[cur].ops[k].note = NoComment /\ prog.blocks[cur].ops[k].twice = 0
    BY <2>1, BalancedBlock
  <2> QED BY <1>1, <1>2, <1>5, <2>2
<1> QED BY <1>1, <1>2, <1>5, <1>6, OpType

\* The first walk takes what it needs from the inputs that are left.
LEMMA FirstNear ==
  ASSUME NEW top \in Nat, NEW h \in Int, NEW d \in Nat, NEW g \in Nat,
         NEW in \in Nat, NEW out \in Nat, NEW p \in Nat,
         d + (top - g) = h, p <= g, g <= top, in <= h,
         NEW dd, dd = (IF in > d THEN 0 ELSE d - in) + out,
         NEW gg, gg = IF in > d THEN g + (in - d) ELSE g
  PROVE  dd + (top - gg) = h - in + out /\ p <= gg /\ gg <= top
<1>1. CASE in > d
  <2>1. dd = out /\ gg = g + (in - d)
    BY <1>1
  <2> QED BY <1>1, <2>1
<1>2. CASE ~(in > d)
  <2>1. dd = d - in + out /\ gg = g
    BY <1>2
  <2> QED BY <1>2, <2>1
<1> QED BY <1>1, <1>2

\* What the statement that is walked adds to the edges.
LEMMA JumpEdge ==
  ASSUME StackTypeInv, WalkStatement, NEW p \in DOMAIN edges', p \notin DOMAIN edges
  PROVE  \E j \in 1..Len(Stmt.jumps) :
           /\ edges'[p].to = Stmt.jumps[j].to /\ Stmt.jumps[j].depth \in Nat
           /\ edges'[p].height.depth
                = Stmt.jumps[j].depth + (IF stk.depth > Stmt.in THEN stk.depth - Stmt.in ELSE 0)
<1>1. PICK j \in 1..Len(Stmt.jumps) : p = Len(edges) + j
  BY WalkEffect
<1>2. edges'[p] = ExternalJumpEdges(stk, Stmt)[j]
  BY <1>1, WalkEffect
<1>3. stk \in Stacks /\ cur \in Nat /\ edges \in Seq(Edges)
  BY ProgFacts DEF StackTypeInv
<1>4. Stmt \in Ops
  BY WalkEffect
<1> DEFINE X == ExternalJumpEdges(stk, Stmt)[j]
           n == Stmt.jumps[j].depth + (IF stk.depth > Stmt.in THEN stk.depth - Stmt.in ELSE 0)
           w == Stmt.jumps[j].wild \/ stk.wild
<1>5. X.to = Stmt.jumps[j].to /\ Stmt.jumps[j] \in Jumps /\ X.height = [depth |-> n, wild |-> w]
  BY <1>3, <1>4, ExternalEdgesType
<1>6. X.height.depth = n
  <2> HIDE DEF n, w, X
  <2>1. [depth |-> n, wild |-> w].depth = n
    OBVIOUS
  <2> QED BY <1>5, <2>1
<1>7. Stmt.jumps[j].depth \in Nat
  BY <1>5 DEF Jumps
<1> QED BY <1>2, <1>5, <1>6, <1>7

\* Where the jumps of the statement that is walked lead, in balanced code.
LEMMA WalkedJump ==
  ASSUME NEW R, NEW D, Fitted(R, D), phase \in {"walk", "report"}, ~AtEnd,
         NEW j \in 1..Len(Stmt.jumps), Stmt.jumps[j].to \in Blocks
  PROVE  JumpFits(R, D, cur, Fitting(D, cur)[at], Stmt, Stmt.jumps[j])
<1>1. cur \in R /\ at \in 1..Len(prog.blocks[cur].ops) /\ prog \in Programs /\ BalancedAt(R, D)
  BY WalkedStatement, FittedTypes DEF Fitted
<1>2. Stmt = prog.blocks[cur].ops[at]
  BY DEF Stmt, Block
<1>3. \A i \in R : \A k \in 1..Len(prog.blocks[i].ops) :
        \A m \in 1..Len(prog.blocks[i].ops[k].jumps) :
          prog.blocks[i].ops[k].jumps[m].to \in Blocks =>
            JumpFits(R, D, i, Fitting(D, i)[k], prog.blocks[i].ops[k],
                     prog.blocks[i].ops[k].jumps[m])
  BY <1>1, BalancedJump
<1>4. \A m \in 1..Len(prog.blocks[cur].ops[at].jumps) :
        prog.blocks[cur].ops[at].jumps[m].to \in Blocks =>
          JumpFits(R, D, cur, Fitting(D, cur)[at], prog.blocks[cur].ops[at],
                   prog.blocks[cur].ops[at].jumps[m])
  BY <1>1, <1>3
<1> QED BY <1>2, <1>4

\* The first walk goes on.
LEMMA FirstWalkFits ==
  ASSUME NEW R, NEW D, Fitted(R, D), WalkStatement, ~states[1].reached
  PROVE  Fits(R, D)'
<1>1. /\ phase = "walk" /\ phase' = "walk" /\ ~AtEnd /\ prog' = prog /\ Blocks' = Blocks
      /\ at' = at + 1 /\ stk' = Apply(stk, Stmt) /\ cur = 1
      /\ UNCHANGED <<preGrow, need, states, warnings>>
  BY DEF WalkStatement, Blocks, N, Fitted, ControlInv
<1>2. /\ 1 \in R /\ at \in Nat /\ Stmt \in Ops /\ Stmt.in \in Nat /\ Stmt.out \in Nat
      /\ Stmt.in <= Fitting(D, 1)[at] /\ Stmt.note = NoComment /\ Fitting(D, 1)[at] \in Int
      /\ Fitting(D, 1)[at + 1] = Fitting(D, 1)[at] - Stmt.in + Stmt.out
      /\ at \in 1..Len(prog.blocks[1].ops) /\ Stmt = prog.blocks[1].ops[at]
  BY <1>1, WalkedStatement
<1>3. /\ stk \in Stacks /\ stk.depth \in Nat /\ stk.grown \in Nat /\ stk.inferred = prog.inferred
      /\ prog.inferred \in BOOLEAN /\ D[1] \in Nat /\ preGrow \in Nat /\ prog \in Programs
      /\ BalancedAt(R, D)
  BY FittedTypes DEF Fitted
<1>4. /\ need = 0
      /\ prog.inferred => /\ stk.depth + (D[1] - stk.grown) = Fitting(D, 1)[at]
                          /\ preGrow <= stk.grown /\ stk.grown <= D[1]
                          /\ \A p \in DOMAIN edges : edges[p].to \notin Blocks
      /\ ~prog.inferred => /\ stk.depth = Fitting(D, 1)[at] /\ stk.grown = 0
                           /\ \A p \in DOMAIN edges : edges[p].to \in Blocks =>
                                edges[p].to \in R /\ edges[p].height.depth = D[edges[p].to]
  BY <1>1, <1>2 DEF Fitted, Fits, FirstFits
<1>5. Stmt.in <= stk.depth \/ stk.inferred
  BY <1>2, <1>3, <1>4
<1>6. /\ stk'.depth = (IF Stmt.in > stk.depth THEN 0 ELSE stk.depth - Stmt.in) + Stmt.out
      /\ stk'.grown = IF Stmt.in > stk.depth THEN stk.grown + (Stmt.in - stk.depth) ELSE stk.grown
  BY <1>1, <1>2, <1>3, <1>5, BareApply
<1>7. \A i : Fitting(D, i)' = Fitting(D, i)
  BY <1>1 DEF Fitting
<1>8. ASSUME prog.inferred
      PROVE  /\ stk'.depth + (D[1] - stk'.grown) = Fitting(D, 1)[at + 1]
             /\ preGrow <= stk'.grown /\ stk'.grown <= D[1]
  <2> DEFINE h == Fitting(D, 1)[at]
             n == Stmt.in
             o == Stmt.out
             d == stk.depth
             g == stk.grown
             dd == stk'.depth
             gg == stk'.grown
             top == D[1]
  <2>1. /\ top \in Nat /\ h \in Int /\ d \in Nat /\ g \in Nat /\ n \in Nat /\ o \in Nat
        /\ preGrow \in Nat /\ d + (top - g) = h /\ preGrow <= g /\ g <= top /\ n <= h
        /\ dd = (IF n > d THEN 0 ELSE d - n) + o /\ gg = IF n > d THEN g + (n - d) ELSE g
    BY <1>2, <1>3, <1>4, <1>6, <1>8
  <2>2. dd + (top - gg) = h - n + o /\ preGrow <= gg /\ gg <= top
    <3> HIDE DEF h, n, o, d, g, dd, gg, top
    <3> QED BY <2>1, FirstNear
  <2> QED BY <1>2, <2>2
<1>9. ASSUME ~prog.inferred
      PROVE  stk'.depth = Fitting(D, 1)[at + 1] /\ stk'.grown = 0
  BY <1>2, <1>3, <1>4, <1>6, <1>9
<1>11. ASSUME NEW p \in DOMAIN edges', edges'[p].to \in Blocks, p \notin DOMAIN edges
       PROVE  /\ ~prog.inferred /\ edges'[p].to \in R
              /\ edges'[p].height.depth = D[edges'[p].to]
  <2>1. PICK j \in 1..Len(Stmt.jumps) :
          /\ edges'[p].to = Stmt.jumps[j].to /\ Stmt.jumps[j].depth \in Nat
          /\ edges'[p].height.depth
               = Stmt.jumps[j].depth + (IF stk.depth > Stmt.in THEN stk.depth - Stmt.in ELSE 0)
    BY <1>11, JumpEdge DEF Fitted
  <2>2. /\ ~prog.inferred /\ edges'[p].to \in R
        /\ D[edges'[p].to] = Fitting(D, 1)[at] - Stmt.in + Stmt.jumps[j].depth
    BY <1>1, <1>11, <2>1, WalkedJump DEF JumpFits
  <2>3. stk.depth = Fitting(D, 1)[at]
    BY <1>4, <2>2
  <2> DEFINE n == Stmt.in
             d == stk.depth
             m == Stmt.jumps[j].depth
  <2>4. n \in Nat /\ d \in Nat /\ m \in Nat /\ n <= d
    BY <1>2, <1>3, <2>1, <2>3
  <2>5. m + (IF d > n THEN d - n ELSE 0) = d - n + m
    <3> HIDE DEF n, d, m
    <3> QED BY <2>4
  <2> QED BY <2>1, <2>2, <2>3, <2>5
<1>12. \A p \in DOMAIN edges : edges'[p] = edges[p]
  BY WalkEffect DEF Fitted
<1>13. FirstFits(R, D)'
  BY <1>1, <1>4, <1>7, <1>8, <1>9, <1>11, <1>12 DEF FirstFits
<1>14. RoundFits(R, D)'
  BY <1>1 DEF RoundFits
<1>15. ReportFits(R, D)'
  BY <1>1 DEF ReportFits, Fitted, Fits
<1> QED BY <1>13, <1>14, <1>15 DEF Fits

\* So do the later ones.
LEMMA LaterWalkFits ==
  ASSUME NEW R, NEW D, Fitted(R, D), WalkStatement, states[1].reached
  PROVE  Fits(R, D)'
<1>1. /\ phase = "walk" /\ phase' = "walk" /\ ~AtEnd /\ prog' = prog /\ Blocks' = Blocks
      /\ at' = at + 1 /\ stk' = Apply(stk, Stmt) /\ cur' = cur
      /\ UNCHANGED <<preGrow, need, inputs, states, worklist, warnings>>
  BY DEF WalkStatement, Blocks, N
<1>2. /\ cur \in R /\ at \in Nat /\ Stmt \in Ops /\ Stmt.in \in Nat /\ Stmt.out \in Nat
      /\ Stmt.in <= Fitting(D, cur)[at] /\ Stmt.note = NoComment /\ Fitting(D, cur)[at] \in Int
      /\ Fitting(D, cur)[at + 1] = Fitting(D, cur)[at] - Stmt.in + Stmt.out
      /\ at \in 1..Len(prog.blocks[cur].ops) /\ Stmt = prog.blocks[cur].ops[at]
  BY <1>1, WalkedStatement
<1>3. /\ stk \in Stacks /\ stk.depth \in Nat /\ stk.grown \in Nat /\ stk.inferred = prog.inferred
      /\ prog.inferred \in BOOLEAN /\ prog \in Programs /\ Slack(D) \in Int /\ need \in Nat
      /\ BalancedAt(R, D) /\ R \subseteq Blocks
  BY FittedTypes DEF Fitted
<1>4. /\ need <= Slack(D)
      /\ prog.inferred => preGrow <= inputs /\ ~Queued(1)
      /\ \A i \in Blocks : states[i].reached => i \in R
      /\ \A i \in Blocks : \A k \in DOMAIN states[i].preds : PredFits(D, i, k)
      /\ \A p \in DOMAIN edges : edges[p].to \in Blocks => EdgeFits(R, D, p)
      /\ prog.inferred => cur # 1
      /\ WalkFits(D, cur, at)
  BY <1>1, <1>2 DEF Fitted, Fits, RoundFits
<1>5. /\ Near(Slack(D), Fitting(D, cur)[at], stk.depth, need = 0 /\ stk.grown = 0)
      /\ Fitting(D, cur)[at] - Slack(D) + stk.grown <= stk.depth
  BY <1>1, <1>4 DEF WalkFits, Exact, Near
<1>6. Stmt.in <= stk.depth \/ stk.inferred
  <2>1. ~prog.inferred => Slack(D) = 0
    BY DEF Slack
  <2> QED BY <1>2, <1>3, <1>5, <2>1 DEF Near
<1>7. /\ stk'.depth = (IF Stmt.in > stk.depth THEN 0 ELSE stk.depth - Stmt.in) + Stmt.out
      /\ stk'.grown = IF Stmt.in > stk.depth THEN stk.grown + (Stmt.in - stk.depth) ELSE stk.grown
  BY <1>1, <1>2, <1>3, <1>6, BareApply
<1>8. /\ Near(Slack(D), Fitting(D, cur)[at + 1], stk'.depth, need = 0 /\ stk'.grown = 0)
      /\ Fitting(D, cur)[at + 1] - Slack(D) + stk'.grown <= stk'.depth
      /\ stk'.grown = 0 => stk.grown = 0
  <2> DEFINE s == Slack(D)
             h == Fitting(D, cur)[at]
             n == Stmt.in
             o == Stmt.out
             d == stk.depth
             g == stk.grown
             dd == stk'.depth
             gg == stk'.grown
             x == need = 0
  <2>1. /\ s \in Int /\ h \in Int /\ d \in Nat /\ g \in Nat /\ n \in Nat /\ o \in Nat
        /\ x \in BOOLEAN /\ Near(s, h, d, x /\ g = 0) /\ h - s + g <= d /\ n <= h
        /\ dd = (IF n > d THEN 0 ELSE d - n) + o /\ gg = IF n > d THEN g + (n - d) ELSE g
    BY <1>2, <1>3, <1>5, <1>7
  <2>2. Near(s, h - n + o, dd, x /\ gg = 0) /\ (h - n + o) - s + gg <= dd /\ (gg = 0 => g = 0)
    <3> HIDE DEF s, h, n, o, d, g, dd, gg, x
    <3> QED BY <2>1, NearStep DEF Near
  <2> QED BY <1>2, <2>2
<1>9. /\ \A i : Fitting(D, i)' = Fitting(D, i) /\ Slack(D)' = Slack(D)
      /\ Exact' => Exact /\ (Exact' <=> need = 0 /\ stk'.grown = 0)
  <2>1. \A i : Fitting(D, i)' = Fitting(D, i)
    BY <1>1 DEF Fitting
  <2>2. Slack(D)' = Slack(D)
    BY <1>1 DEF Slack
  <2>3. Exact' <=> need = 0 /\ stk'.grown = 0
    BY <1>1 DEF Exact
  <2>4. Exact' => Exact
    BY <1>8, <2>3 DEF Exact
  <2> QED BY <2>1, <2>2, <2>3, <2>4
<1>10. ASSUME NEW i \in R, NEW k \in Nat, i = cur, k = at + 1 PROVE WalkFits(D, i, k)'
  <2>1. /\ Near(Slack(D), Fitting(D, i)[k], stk'.depth, Exact')
        /\ Fitting(D, i)[k] - Slack(D) + stk'.grown <= stk'.depth
    BY <1>8, <1>9, <1>10 DEF Near
  <2> QED BY <1>9, <2>1 DEF WalkFits, Near
<1>11. ASSUME NEW p \in DOMAIN edges, edges[p].to \in Blocks
       PROVE  EdgeFits(R, D, p)' /\ edges'[p] = edges[p]
  <2>1. edges'[p] = edges[p]
    BY WalkEffect DEF Fitted
  <2>2. EdgeFits(R, D, p)
    BY <1>4, <1>11
  <2> QED BY <1>1, <1>9, <2>1, <2>2 DEF EdgeFits, Near, Key
<1>16. \A p \in DOMAIN edges : edges'[p] = edges[p]
  BY WalkEffect DEF Fitted
<1>12. ASSUME NEW p \in DOMAIN edges', edges'[p].to \in Blocks, p \notin DOMAIN edges
       PROVE  EdgeFits(R, D, p)'
  <2>1. PICK j \in 1..Len(Stmt.jumps) :
          /\ edges'[p].to = Stmt.jumps[j].to /\ Stmt.jumps[j].depth \in Nat
          /\ edges'[p].height.depth
               = Stmt.jumps[j].depth + (IF stk.depth > Stmt.in THEN stk.depth - Stmt.in ELSE 0)
    BY <1>12, JumpEdge DEF Fitted
  <2>2. /\ edges'[p].to \in R
        /\ D[edges'[p].to] = Fitting(D, cur)[at] - Stmt.in + Stmt.jumps[j].depth
        /\ prog.inferred => edges'[p].to # 1 /\ prog.blocks[edges'[p].to].label = NoComment
    BY <1>1, <1>12, <2>1, WalkedJump DEF JumpFits
  <2> DEFINE s == Slack(D)
             h == Fitting(D, cur)[at]
             n == Stmt.in
             m == Stmt.jumps[j].depth
             d == stk.depth
             g == stk.grown
             gg == stk'.grown
             x == need = 0
  <2>3. /\ s \in Int /\ h \in Int /\ d \in Nat /\ g \in Nat /\ n \in Nat /\ m \in Nat
        /\ x \in BOOLEAN /\ Near(s, h, d, x /\ g = 0) /\ n <= h
        /\ gg = IF n > d THEN g + (n - d) ELSE g
    BY <1>2, <1>3, <1>5, <1>7, <2>1
  <2>4. Near(s, h - n + m, m + (IF d > n THEN d - n ELSE 0), x /\ gg = 0)
    <3> HIDE DEF s, h, n, m, d, g, gg, x
    <3> QED BY <2>3, NearJump DEF Near
  <2>5. Near(Slack(D), D[edges'[p].to], edges'[p].height.depth, need = 0 /\ stk'.grown = 0)
    BY <2>1, <2>2, <2>4
  <2> QED BY <1>1, <1>9, <2>2, <2>5 DEF EdgeFits, Near
<1>13. ASSUME NEW i \in Blocks, NEW k \in DOMAIN states[i].preds PROVE PredFits(D, i, k)'
  <2>1. PredFits(D, i, k)
    BY <1>4, <1>13
  <2> QED BY <1>1, <1>9, <2>1 DEF PredFits
<1>14. RoundFits(R, D)'
  <2>1. ASSUME NEW p \in DOMAIN edges', edges'[p].to \in Blocks PROVE EdgeFits(R, D, p)'
    BY <1>11, <1>12, <1>16, <2>1
  <2>2. prog.inferred => ~Queued(1)'
    BY <1>1, <1>4 DEF Queued
  <2> QED BY <1>1, <1>4, <1>9, <1>10, <1>13, <2>1, <2>2 DEF RoundFits
<1>15. FirstFits(R, D)' /\ ReportFits(R, D)'
  BY <1>1 DEF FirstFits, ReportFits, Fitted, Fits
<1> QED BY <1>14, <1>15 DEF Fits

\* The end of a block is where its successors begin.
LEMMA WalkedExit ==
  ASSUME NEW R, NEW D, Fitted(R, D), phase = "walk", AtEnd, NEW j \in DOMAIN Successors(cur)
  PROVE  /\ Successors(cur)[j] \in R
         /\ D[Successors(cur)[j]] = Fitting(D, cur)[at]
         /\ prog.inferred => Successors(cur)[j] # 1
<1>1. cur \in R /\ cur \in Blocks
  BY WalkedBlock
<1>2. at \in 1..(Len(prog.blocks[cur].ops) + 1) /\ at > Len(prog.blocks[cur].ops)
  BY DEF Fitted, StackTypeInv, AtEnd, Block
<1>3. Len(prog.blocks[cur].ops) \in Nat
  BY <1>1, FittedTypes, ProgFacts, BlockType
<1>4. at = Len(prog.blocks[cur].ops) + 1
  BY <1>2, <1>3
<1> QED BY <1>1, <1>4, FittedTypes, BalancedBlock DEF Fitted

\* The first walk of a round ends, and tells how many inputs there are.
LEMMA FirstExitFits ==
  ASSUME NEW R, NEW D, Fitted(R, D), FirstExit
  PROVE  Fits(R, D)'
<1>1. /\ phase = "walk" /\ phase' = "merge" /\ AtEnd /\ ~states[1].reached /\ cur = 1
      /\ inputs' = stk.grown /\ prog' = prog /\ Blocks' = Blocks /\ worklist = <<>>
      /\ states' = [states EXCEPT ![1] =
           [reached |-> TRUE, entry |-> prog.start, exit |-> Height(stk),
            preds |-> [k \in {Initial} |-> prog.start]]]
      /\ edges' = ExitEdges(1, Height(stk)) \o edges
      /\ UNCHANGED <<preGrow, need, worklist, warnings>>
      /\ \A i \in Blocks : ~states[i].reached
  BY DEF FirstExit, Blocks, N, Fitted, ControlInv
<1>2. /\ stk \in Stacks /\ stk.depth \in Nat /\ stk.grown \in Nat /\ prog.inferred \in BOOLEAN
      /\ D[1] \in Nat /\ 1 \in R /\ prog \in Programs /\ preGrow \in Nat /\ at \in Nat
      /\ \A i \in Blocks : states[i] \in BlockStates /\ StateMerged(states[i])
      /\ StackTypeInv /\ R \subseteq Blocks /\ 1 \in Blocks
  BY FittedTypes DEF Fitted, StackTypeInv
<1>3. /\ need = 0
      /\ prog.inferred => /\ stk.depth + (D[1] - stk.grown) = Fitting(D, 1)[at]
                          /\ preGrow <= stk.grown /\ stk.grown <= D[1]
                          /\ \A p \in DOMAIN edges : edges[p].to \notin Blocks
      /\ ~prog.inferred => /\ stk.depth = Fitting(D, 1)[at] /\ stk.grown = 0
                           /\ \A p \in DOMAIN edges : edges[p].to \in Blocks =>
                                edges[p].to \in R /\ edges[p].height.depth = D[edges[p].to]
  BY <1>1, <1>2 DEF Fitted, Fits, FirstFits
<1>4. /\ Slack(D)' = (IF prog.inferred THEN D[1] - stk.grown ELSE 0)
      /\ Slack(D)' \in Int /\ 0 <= Slack(D)' /\ Exact'
  <2>1. Slack(D)' = (IF prog.inferred THEN D[1] - stk.grown ELSE 0)
    BY <1>1 DEF Slack
  <2>2. Exact'
    BY <1>1, <1>3 DEF Exact
  <2> QED BY <1>2, <1>3, <2>1, <2>2
<1>5. ASSUME NEW t \in R, NEW d \in Nat, D[t] = Fitting(D, 1)[at], d = stk.depth
      PROVE  Near(Slack(D)', D[t], d, TRUE)
  <2>1. D[t] \in Nat
    BY FittedTypes
  <2>2. CASE prog.inferred
    <3>1. Slack(D)' = D[1] - stk.grown /\ d + (D[1] - stk.grown) = D[t] /\ stk.grown <= D[1]
      BY <1>3, <1>4, <1>5, <2>2
    <3> QED BY <1>2, <2>1, <3>1 DEF Near
  <2>3. CASE ~prog.inferred
    <3>1. Slack(D)' = 0 /\ d = D[t]
      BY <1>3, <1>4, <1>5, <2>3
    <3> QED BY <2>1, <3>1 DEF Near
  <2> QED BY <1>2, <2>2, <2>3
<1>6. ASSUME NEW p \in DOMAIN Successors(1)
      PROVE  EdgeFits(R, D, p)'
  <2>1. edges'[p] = [key |-> <<1, 0>>, to |-> Successors(1)[p], height |-> Height(stk)]
    BY <1>1, <1>2, <1>6, ExitEffect
  <2>2. /\ Successors(1)[p] \in R /\ D[Successors(1)[p]] = Fitting(D, 1)[at]
        /\ prog.inferred => Successors(1)[p] # 1
    BY <1>1, <1>6, WalkedExit
  <2>3. Near(Slack(D)', D[Successors(1)[p]], stk.depth, TRUE)
    BY <1>2, <1>5, <2>2
  <2>4. edges'[p].to = Successors(1)[p] /\ edges'[p].height.depth = stk.depth
    BY <1>2, <2>1, HeightType
  <2>5. ~IsVirtual(Key(p)')
    BY <2>1 DEF IsVirtual, Key
  <2> QED BY <1>1, <1>4, <2>2, <2>3, <2>4, <2>5 DEF EdgeFits, Near, Key
<1>7. ASSUME NEW p \in DOMAIN edges', edges'[p].to \in Blocks, NEW q \in DOMAIN edges,
             edges'[p] = edges[q]
      PROVE  EdgeFits(R, D, p)'
  <2>1. /\ ~prog.inferred /\ edges'[p].to \in R /\ edges'[p].height.depth = D[edges'[p].to]
    BY <1>2, <1>3, <1>7
  <2>2. Slack(D)' = 0 /\ D[edges'[p].to] \in Nat
    BY <1>4, <2>1, FittedTypes
  <2>3. D[edges'[p].to] - 0 <= D[edges'[p].to] /\ D[edges'[p].to] <= D[edges'[p].to]
        /\ D[edges'[p].to] = D[edges'[p].to] - 0
    BY <2>2
  <2> QED BY <1>1, <2>1, <2>2, <2>3 DEF EdgeFits, Near
<1>8. ASSUME NEW p \in DOMAIN edges', edges'[p].to \in Blocks PROVE EdgeFits(R, D, p)'
  <2>1. p \in DOMAIN Successors(1) \/ \E q \in DOMAIN edges : p = Len(Successors(1)) + q
    BY <1>1, <1>2, <1>8, ExitEffect
  <2>2. ASSUME NEW q \in DOMAIN edges, p = Len(Successors(1)) + q PROVE edges'[p] = edges[q]
    BY <1>1, <1>2, <2>2, ExitEffect
  <2> QED BY <1>6, <1>7, <1>8, <2>1, <2>2
<1>9. /\ states'[1].reached /\ states'[1].preds = [k \in {Initial} |-> prog.start]
      /\ \A i \in Blocks : i # 1 => states'[i] = states[i]
  BY <1>1, <1>2 DEF StackTypeInv
<1>10. ASSUME NEW i \in Blocks, NEW k \in DOMAIN states'[i].preds PROVE PredFits(D, i, k)'
  <2>1. CASE i # 1
    <3>1. DOMAIN states'[i].preds = {}
      BY <1>1, <1>2, <1>9, <2>1 DEF StateMerged
    <3> QED BY <1>10, <3>1
  <2>2. CASE i = 1
    <3>1. k = Initial /\ states'[i].preds[k] = prog.start
      BY <1>9, <1>10, <2>2
    <3>2. CASE prog.inferred
      BY <1>1, <2>2, <3>1, <3>2 DEF PredFits
    <3>3. CASE ~prog.inferred
      <4>1. Slack(D)' = 0 /\ prog.start.depth = D[1]
        BY <1>2, <1>4, <3>3, BalancedBlock DEF Fitted
      <4>2. Near(Slack(D)', D[i], states'[i].preds[k].depth, (need = 0)')
        BY <1>2, <2>2, <3>1, <4>1 DEF Near
      <4> QED BY <1>1, <3>3, <4>2 DEF PredFits, Near
    <3> QED BY <1>2, <3>2, <3>3
  <2> QED BY <2>1, <2>2
<1>11. RoundFits(R, D)'
  <2>1. need' <= Slack(D)'
    BY <1>1, <1>3, <1>4
  <2>2. prog'.inferred => preGrow' <= inputs' /\ ~Queued(1)'
    BY <1>1, <1>3, NoPlaces DEF Queued
  <2>3. \A i \in Blocks : states'[i].reached => i \in R
    BY <1>1, <1>2, <1>9
  <2> QED BY <1>1, <1>8, <1>10, <2>1, <2>2, <2>3 DEF RoundFits
<1>12. FirstFits(R, D)' /\ ReportFits(R, D)'
  BY <1>1 DEF FirstFits, ReportFits, Fitted, Fits
<1> QED BY <1>11, <1>12 DEF Fits

\* So do the later ones, and tell how many more are wanted.
LEMMA LaterExitFits ==
  ASSUME NEW R, NEW D, Fitted(R, D), BlockExit
  PROVE  Fits(R, D)'
<1>1. /\ phase = "walk" /\ phase' = "merge" /\ AtEnd /\ states[1].reached
      /\ prog' = prog /\ Blocks' = Blocks
      /\ need' = IF stk.grown > need THEN stk.grown ELSE need
      /\ states' = [states EXCEPT ![cur].exit = Height(stk)]
      /\ edges' = ExitEdges(cur, Height(stk)) \o edges
      /\ UNCHANGED <<preGrow, inputs, worklist, warnings>>
  BY DEF BlockExit, Blocks, N
<1>2. /\ stk \in Stacks /\ stk.depth \in Nat /\ stk.grown \in Nat /\ prog.inferred \in BOOLEAN
      /\ prog \in Programs /\ need \in Nat /\ Slack(D) \in Int /\ StackTypeInv
      /\ at \in Nat /\ cur \in R /\ cur \in Blocks
  BY <1>1, FittedTypes, WalkedBlock DEF Fitted, StackTypeInv
<1>3. /\ need <= Slack(D)
      /\ prog.inferred => preGrow <= inputs /\ ~Queued(1)
      /\ \A i \in Blocks : states[i].reached => i \in R
      /\ \A i \in Blocks : \A k \in DOMAIN states[i].preds : PredFits(D, i, k)
      /\ \A p \in DOMAIN edges : edges[p].to \in Blocks => EdgeFits(R, D, p)
      /\ WalkFits(D, cur, at)
  BY <1>1, <1>2 DEF Fitted, Fits, RoundFits
<1>4. Slack(D)' = Slack(D) /\ (Exact' <=> Exact) /\ (need' = 0 => need = 0)
  <2>1. Slack(D)' = Slack(D)
    BY <1>1 DEF Slack
  <2>2. need' = 0 <=> need = 0 /\ stk.grown = 0
    BY <1>1, <1>2
  <2> QED BY <1>1, <2>1, <2>2 DEF Exact
<1>5. need' <= Slack(D)'
  <2> DEFINE h == Fitting(D, cur)[at]
  <2>1. h \in Int
    <3>1. at \in 1..(Len(prog.blocks[cur].ops) + 1)
      BY <1>1 DEF Fitted, StackTypeInv, Block
    <3> QED BY <1>2, <3>1, BalancedBlock DEF Fitted
  <2>2. stk.depth <= h /\ h - Slack(D) + stk.grown <= stk.depth
    BY <1>3 DEF WalkFits, Near
  <2> HIDE DEF h
  <2>3. stk.grown <= Slack(D)
    BY <1>2, <2>1, <2>2
  <2> QED BY <1>1, <1>3, <1>4, <2>3
<1>6. ASSUME NEW p \in DOMAIN Successors(cur)
      PROVE  EdgeFits(R, D, p)'
  <2>1. edges'[p] = [key |-> <<cur, 0>>, to |-> Successors(cur)[p], height |-> Height(stk)]
    BY <1>1, <1>2, <1>6, ExitEffect
  <2>2. /\ Successors(cur)[p] \in R /\ D[Successors(cur)[p]] = Fitting(D, cur)[at]
        /\ prog.inferred => Successors(cur)[p] # 1
    BY <1>1, <1>6, WalkedExit
  <2>3. Near(Slack(D), D[Successors(cur)[p]], stk.depth, Exact)
    BY <1>3, <2>2 DEF WalkFits
  <2>4. edges'[p].to = Successors(cur)[p] /\ edges'[p].height.depth = stk.depth
    BY <1>2, <2>1, HeightType
  <2>5. ~IsVirtual(Key(p)')
    BY <2>1 DEF IsVirtual, Key
  <2> QED BY <1>1, <1>4, <2>2, <2>3, <2>4, <2>5 DEF EdgeFits, Near, Key
<1>7. ASSUME NEW p \in DOMAIN edges', edges'[p].to \in Blocks, NEW q \in DOMAIN edges,
             edges'[p] = edges[q]
      PROVE  EdgeFits(R, D, p)'
  <2>1. EdgeFits(R, D, q)
    BY <1>3, <1>7
  <2> QED BY <1>1, <1>4, <1>7, <2>1 DEF EdgeFits, Near, Key
<1>8. ASSUME NEW p \in DOMAIN edges', edges'[p].to \in Blocks PROVE EdgeFits(R, D, p)'
  <2>1. p \in DOMAIN Successors(cur) \/ \E q \in DOMAIN edges : p = Len(Successors(cur)) + q
    BY <1>1, <1>2, <1>8, ExitEffect
  <2>2. ASSUME NEW q \in DOMAIN edges, p = Len(Successors(cur)) + q PROVE edges'[p] = edges[q]
    BY <1>1, <1>2, <2>2, ExitEffect
  <2> QED BY <1>6, <1>7, <1>8, <2>1, <2>2
<1>9. \A i \in Blocks : states'[i].preds = states[i].preds /\ states'[i].reached = states[i].reached
  BY <1>1, <1>2 DEF StackTypeInv, BlockStates
<1>10. ASSUME NEW i \in Blocks, NEW k \in DOMAIN states'[i].preds PROVE PredFits(D, i, k)'
  <2>1. PredFits(D, i, k)
    BY <1>3, <1>9, <1>10
  <2> QED BY <1>1, <1>4, <1>9, <2>1 DEF PredFits, Near
<1>11. RoundFits(R, D)'
  <2>2. prog'.inferred => preGrow' <= inputs' /\ ~Queued(1)'
    BY <1>1, <1>3 DEF Queued
  <2> QED BY <1>1, <1>3, <1>5, <1>8, <1>9, <1>10, <2>2 DEF RoundFits
<1>12. FirstFits(R, D)' /\ ReportFits(R, D)'
  BY <1>1 DEF FirstFits, ReportFits, Fitted, Fits
<1> QED BY <1>11, <1>12 DEF Fits

\* Merging an edge records a height that fits.
LEMMA MergeFits ==
  ASSUME NEW R, NEW D, Fitted(R, D), MergeEdge
  PROVE  Fits(R, D)'
<1>1. /\ phase = "merge" /\ phase' = "merge" /\ prog' = prog /\ Blocks' = Blocks
      /\ states[1].reached
      /\ UNCHANGED <<preGrow, need, inputs, warnings>>
  BY DEF MergeEdge, Blocks, N, Fitted, ControlInv
<1>2. /\ prog.inferred \in BOOLEAN /\ 1 \in Blocks /\ StackTypeInv
      /\ \A i \in Blocks : states[i] \in BlockStates /\ states[i].preds \in Preds
  BY FittedTypes DEF Fitted, BlockStates
<1>3. /\ need <= Slack(D)
      /\ prog.inferred => preGrow <= inputs /\ ~Queued(1)
      /\ \A i \in Blocks : states[i].reached => i \in R
      /\ \A i \in Blocks : \A k \in DOMAIN states[i].preds : PredFits(D, i, k)
      /\ \A p \in DOMAIN edges : edges[p].to \in Blocks => EdgeFits(R, D, p)
  BY <1>1 DEF Fitted, Fits, RoundFits
<1>4. Slack(D)' = Slack(D) /\ (Exact' <=> need = 0) /\ (Exact <=> need = 0)
  <2>1. Slack(D)' = Slack(D)
    BY <1>1 DEF Slack
  <2> QED BY <1>1, <2>1 DEF Exact
<1> DEFINE e == Head(edges)
<1>5. /\ e = edges[1] /\ e \in Edges /\ 1 \in DOMAIN edges
      /\ \A p \in DOMAIN edges' : p + 1 \in DOMAIN edges /\ edges'[p] = edges[p + 1]
      /\ \A t \in Blocks :
           /\ t # e.to => states'[t] = states[t]
           /\ t = e.to => states'[t].preds = Recorded(states[t].preds, e)
           /\ Queued(t)' => Queued(t) \/ t = e.to
  BY <1>2, MergeEffect
<1> HIDE DEF e
<1>6. ASSUME e.to \in Blocks
      PROVE  /\ e.to \in R /\ Near(Slack(D), D[e.to], e.height.depth, need = 0)
             /\ prog.inferred => e.to # 1
             /\ prog.inferred /\ IsVirtual(e.key) => prog.blocks[e.to].label = NoComment
  <2>1. EdgeFits(R, D, 1)
    BY <1>3, <1>5, <1>6
  <2> QED BY <1>4, <1>5, <2>1 DEF EdgeFits, Near, Key
<1>7. ASSUME NEW p \in DOMAIN edges', edges'[p].to \in Blocks PROVE EdgeFits(R, D, p)'
  <2>1. EdgeFits(R, D, p + 1) /\ edges'[p] = edges[p + 1]
    BY <1>1, <1>3, <1>5, <1>7
  <2> QED BY <1>1, <1>4, <2>1 DEF EdgeFits, Near, Key
<1>8. ASSUME NEW i \in Blocks, NEW k \in DOMAIN states'[i].preds PROVE PredFits(D, i, k)'
  <2>1. CASE i # e.to
    <3>1. states'[i] = states[i]
      BY <1>5, <2>1
    <3>2. PredFits(D, i, k)
      BY <1>3, <1>8, <3>1
    <3> QED BY <1>1, <1>4, <3>1, <3>2 DEF PredFits, Near
  <2>2. CASE i = e.to
    <3>1. /\ states'[i].preds = Recorded(states[i].preds, e)
          /\ DOMAIN states'[i].preds = DOMAIN states[i].preds \cup {e.key}
          /\ states'[i].preds[e.key] = e.height
          /\ \A q \in DOMAIN states[i].preds : q # e.key =>
               states'[i].preds[q] = states[i].preds[q]
      <4> DEFINE r == Recorded(states[i].preds, e)
      <4>1. states'[i].preds = r
        BY <1>5, <2>2
      <4>2. /\ DOMAIN r = DOMAIN states[i].preds \cup {e.key} /\ r[e.key] = e.height
            /\ \A q \in DOMAIN states[i].preds : q # e.key => r[q] = states[i].preds[q]
        BY <1>2, <1>5, RecordedType
      <4> HIDE DEF r
      <4>3. /\ DOMAIN states'[i].preds = DOMAIN states[i].preds \cup {e.key}
            /\ states'[i].preds[e.key] = e.height
            /\ \A q \in DOMAIN states[i].preds : q # e.key =>
                 states'[i].preds[q] = states[i].preds[q]
        BY <4>1, <4>2
      <4> QED BY <4>1, <4>3 DEF r
    <3>2. CASE k = e.key
      <4>1. /\ Near(Slack(D), D[i], states'[i].preds[k].depth, need = 0)
            /\ prog.inferred => i # 1
            /\ prog.inferred /\ IsVirtual(k) => prog.blocks[i].label = NoComment
        BY <1>6, <2>2, <3>1, <3>2
      <4> QED BY <1>1, <1>4, <4>1 DEF PredFits, Near
    <3>3. CASE k # e.key
      <4>1. PredFits(D, i, k) /\ states'[i].preds[k] = states[i].preds[k]
        BY <1>3, <1>8, <3>1, <3>3
      <4> QED BY <1>1, <1>4, <4>1 DEF PredFits, Near
    <3> QED BY <3>2, <3>3
  <2> QED BY <2>1, <2>2
<1>9. ASSUME NEW i \in Blocks, states'[i].reached PROVE i \in R
  BY <1>3, <1>5, <1>6, <1>9
<1>10. prog.inferred => ~Queued(1)'
  BY <1>2, <1>3, <1>5, <1>6
<1>11. RoundFits(R, D)'
  BY <1>1, <1>3, <1>4, <1>7, <1>8, <1>9, <1>10 DEF RoundFits
<1>12. FirstFits(R, D)' /\ ReportFits(R, D)'
  BY <1>1 DEF FirstFits, ReportFits, Fitted, Fits
<1> QED BY <1>11, <1>12 DEF Fits

\* What is recorded of a reached block is what its nearest predecessor brings.
LEMMA EntryFits ==
  ASSUME NEW R, NEW D, Fitted(R, D), states[1].reached, phase # "start", NEW i \in R,
         states[i].reached, prog.inferred => i # 1
  PROVE  /\ Near(Slack(D), D[i], states[i].entry.depth, need = 0)
         /\ states[i].entry \in Heights /\ D[i] \in Nat
<1>1. /\ i \in Blocks /\ D[i] \in Nat /\ states[i] \in BlockStates /\ StateMerged(states[i])
      /\ Slack(D) \in Int
  BY FittedTypes
<1>2. /\ states[i].preds \in Preds /\ DOMAIN states[i].preds # {}
      /\ states[i].entry = Merged(states[i].preds)
  BY <1>1 DEF BlockStates, StateMerged
<1>3. states[i].entry \in Heights /\ states[i].entry.depth \in Depths(states[i].preds)
  BY <1>2, MergedType
<1>4. PICK k \in DOMAIN states[i].preds : states[i].entry.depth = states[i].preds[k].depth
  BY <1>3 DEF Depths
<1>5. PredFits(D, i, k)
  BY <1>1 DEF Fitted, Fits, RoundFits
<1>6. Near(Slack(D), D[i], states[i].preds[k].depth, need = 0)
  BY <1>5 DEF PredFits
<1> QED BY <1>1, <1>3, <1>4, <1>6

\* The block that is walked next starts with it.
LEMMA TakeFits ==
  ASSUME NEW R, NEW D, Fitted(R, D), TakeBlock
  PROVE  Fits(R, D)'
<1>1. /\ phase = "merge" /\ phase' = "walk" /\ prog' = prog /\ Blocks' = Blocks
      /\ states[1].reached /\ at' = 1 /\ edges' = edges /\ edges = <<>>
      /\ stk' = ApplyLabelComment(NewStack(states[cur'].entry, prog.inferred), cur')
      /\ UNCHANGED <<preGrow, need, inputs, states, warnings>>
  BY DEF TakeBlock, Blocks, N, Fitted, ControlInv
<1>2. /\ prog.inferred \in BOOLEAN /\ 1 \in Blocks /\ StackTypeInv /\ Slack(D) \in Int
      /\ prog \in Programs /\ need \in Nat /\ BalancedAt(R, D)
  BY FittedTypes DEF Fitted
<1>3. /\ need <= Slack(D)
      /\ prog.inferred => preGrow <= inputs /\ ~Queued(1)
      /\ \A i \in Blocks : states[i].reached => i \in R
      /\ \A i \in Blocks : \A k \in DOMAIN states[i].preds : PredFits(D, i, k)
  BY <1>1 DEF Fitted, Fits, RoundFits
<1>4. /\ cur' \in Blocks /\ Queued(cur') /\ (Queued(1)' => Queued(1))
  BY <1>2, TakeEffect
<1>5. cur' \in R /\ states[cur'].reached /\ (prog.inferred => cur' # 1)
  <2>1. states[cur'].reached
    BY <1>4 DEF Queued, Fitted, ControlInv
  <2> QED BY <1>3, <1>4, <2>1
<1>6. PICK c \in R : c = cur'
  BY <1>5
<1>7. /\ Near(Slack(D), D[c], states[c].entry.depth, need = 0)
      /\ states[c].entry \in Heights /\ D[c] \in Nat
  BY <1>1, <1>5, <1>6, EntryFits
<1> DEFINE s == NewStack(states[c].entry, prog.inferred)
<1>8. s \in Stacks /\ s.depth = states[c].entry.depth /\ s.grown = 0
  BY <1>2, <1>7, NewStackType
<1>9. /\ prog.blocks[c].label \in {NoComment, [len |-> D[c], wild |-> FALSE]}
      /\ Fitting(D, c)[1] = D[c]
  BY <1>2, BalancedBlock
<1>10. s.depth <= D[c]
  BY <1>7, <1>8 DEF Near
<1>11. stk' = CheckComment(s, prog.blocks[c].label, FALSE)
  BY <1>1, <1>6 DEF ApplyLabelComment
<1> HIDE DEF s
<1>12. stk'.depth = states[c].entry.depth /\ stk'.grown = 0
  <2> DEFINE h == D[c]
             l == prog.blocks[c].label
  <2>1. h \in Nat /\ s.depth <= h /\ l \in {NoComment, [len |-> h, wild |-> FALSE]}
    BY <1>7, <1>9, <1>10
  <2>2. CheckComment(s, l, FALSE).depth = s.depth /\ CheckComment(s, l, FALSE).grown = s.grown
    <3> HIDE DEF h, l
    <3> QED BY <1>8, <2>1, BareLabel
  <2> QED BY <1>8, <1>11, <2>2
<1>13. /\ \A i : Fitting(D, i)' = Fitting(D, i) /\ Slack(D)' = Slack(D)
       /\ (Exact' <=> need = 0) /\ (Exact <=> need = 0)
  <2>1. \A i : Fitting(D, i)' = Fitting(D, i)
    BY <1>1 DEF Fitting
  <2>2. Slack(D)' = Slack(D)
    BY <1>1 DEF Slack
  <2>3. (Exact' <=> need = 0) /\ (Exact <=> need = 0)
    BY <1>1, <1>12 DEF Exact
  <2> QED BY <2>1, <2>2, <2>3
<1>14. ASSUME NEW i \in R, NEW k \in Nat, i = cur', k = 1 PROVE WalkFits(D, i, k)'
  <2>1. Fitting(D, i)[k] = D[c] /\ i = c
    BY <1>6, <1>9, <1>14
  <2>2. Near(Slack(D), Fitting(D, i)[k], stk'.depth, need = 0)
    BY <1>7, <1>12, <2>1
  <2>3. Fitting(D, i)[k] - Slack(D) + stk'.grown <= stk'.depth
    BY <1>2, <1>7, <1>12, <2>1 DEF Near
  <2> QED BY <1>13, <2>2, <2>3 DEF WalkFits, Near
<1>15. ASSUME NEW i \in Blocks, NEW k \in DOMAIN states[i].preds PROVE PredFits(D, i, k)'
  <2>1. PredFits(D, i, k)
    BY <1>3, <1>15
  <2> QED BY <1>1, <1>13, <2>1 DEF PredFits, Near
<1>16. RoundFits(R, D)'
  <2>1. \A p \in DOMAIN edges' : edges'[p].to \in Blocks => EdgeFits(R, D, p)'
    BY <1>1, NoPlaces
  <2>2. /\ need' <= Slack(D)' /\ (prog'.inferred => preGrow' <= inputs' /\ ~Queued(1)')
        /\ prog'.inferred => cur' # 1
    BY <1>1, <1>3, <1>4, <1>5, <1>13
  <2>3. \A i \in R : \A k \in Nat : i = cur' /\ k = at' => WalkFits(D, i, k)'
    BY <1>1, <1>14
  <2> QED BY <1>1, <1>3, <1>15, <2>1, <2>2, <2>3 DEF RoundFits
<1>17. FirstFits(R, D)' /\ ReportFits(R, D)'
  BY <1>1 DEF FirstFits, ReportFits, Fitted, Fits
<1> QED BY <1>16, <1>17 DEF Fits

\* A round asks for no more inputs than there are.
LEMMA GrowFits ==
  ASSUME NEW R, NEW D, Fitted(R, D), GrowInitialStack
  PROVE  Fits(R, D)'
<1>1. /\ phase = "merge" /\ phase' = "start" /\ prog' = prog /\ states[1].reached
      /\ need > 0 /\ preGrow' = preGrow + need /\ warnings' = warnings
  BY DEF GrowInitialStack, RoundOver, Fitted, ControlInv
<1>2. need <= Slack(D) /\ (prog.inferred => preGrow <= inputs)
  BY <1>1 DEF Fitted, Fits, RoundFits
<1>3. need \in Nat /\ preGrow \in Nat /\ inputs \in Nat /\ D[1] \in Nat
  BY FittedTypes
<1>4. prog.inferred => preGrow' <= D[1]
  BY <1>1, <1>2, <1>3 DEF Slack
<1>5. FirstFits(R, D)' /\ RoundFits(R, D)'
  BY <1>1 DEF FirstFits, RoundFits
<1>6. ReportFits(R, D)'
  BY <1>1, <1>4 DEF ReportFits, Fitted, Fits
<1> QED BY <1>5, <1>6 DEF Fits

\* A jump out of a call brings what the call leaves, at least.
LEMMA JumpsReach ==
  ASSUME NEW R, NEW D, Fitted(R, D), phase \in {"walk", "report"}, ~AtEnd,
         NEW j \in DOMAIN Stmt.jumps
  PROVE  Stmt.in <= Stmt.jumps[j].depth + stk.depth
<1>1. /\ cur \in R /\ at \in Nat /\ at \in 1..Len(prog.blocks[cur].ops)
      /\ Stmt = prog.blocks[cur].ops[at] /\ Stmt \in Ops /\ Stmt.in \in Nat
      /\ Stmt.in <= Fitting(D, cur)[at] /\ Fitting(D, cur)[at] \in Int
  BY WalkedStatement
<1>2. /\ prog \in Programs /\ stk.depth \in Nat /\ stk.grown \in Nat /\ cur \in Blocks
      /\ prog.inferred \in BOOLEAN
  BY <1>1, FittedTypes
<1>3. Stmt.jumps[j].depth \in Nat
  <2>1. Stmt.jumps \in Seq(Jumps)
    BY <1>1, OpType
  <2>2. Stmt.jumps[j] \in Jumps
    BY <2>1
  <2> QED BY <2>2 DEF Jumps
<1>4. CASE prog.inferred
  <2>1. cur \in DOMAIN prog.blocks
    BY <1>2, ProgFacts, ProgramType DEF Blocks, N
  <2>2. at \in DOMAIN prog.blocks[cur].ops
    BY <1>1, <1>2, ProgFacts, BlockType
  <2>3. InputsKnown(prog)
    BY DEF Fitted, BalancedAt
  <2>4. Stmt.in <= Stmt.jumps[j].depth
    BY <1>1, <1>4, <2>1, <2>2, <2>3 DEF InputsKnown
  <2> QED BY <1>1, <1>2, <1>3, <2>4
<1>5. CASE ~prog.inferred
  <2>1. CASE phase = "report"
    <3>1. stk.depth = Fitting(D, cur)[at]
      BY <1>1, <1>5, <2>1 DEF Fitted, Fits, ReportFits
    <3> QED BY <1>1, <1>2, <1>3, <3>1
  <2>2. CASE phase = "walk" /\ ~states[1].reached
    <3>1. cur = 1
      BY <2>2 DEF Fitted, ControlInv
    <3>2. stk.depth = Fitting(D, cur)[at]
      BY <1>1, <1>5, <2>2, <3>1 DEF Fitted, Fits, FirstFits
    <3> QED BY <1>1, <1>2, <1>3, <3>2
  <2>3. CASE phase = "walk" /\ states[1].reached
    <3>1. WalkFits(D, cur, at)
      BY <1>1, <2>3 DEF Fitted, Fits, RoundFits
    <3>2. Slack(D) = 0
      BY <1>5 DEF Slack
    <3>3. Fitting(D, cur)[at] - Slack(D) + stk.grown <= stk.depth
      BY <3>1 DEF WalkFits
    <3>4. PICK h \in Int : h = Fitting(D, cur)[at]
      BY <1>1
    <3>5. h - 0 + stk.grown <= stk.depth /\ Stmt.in <= h
      BY <1>1, <3>2, <3>3, <3>4
    <3>6. Stmt.in \in Nat
      BY <1>1, OpType
    <3>7. \A a, b, c, d \in Nat : h - 0 + b <= c /\ a <= h => a <= d + c
      OBVIOUS
    <3> QED BY <1>2, <1>3, <3>5, <3>6, <3>7
  <2> QED BY <2>1, <2>2, <2>3
<1> QED BY <1>2, <1>4, <1>5

\* No call and no PUSH fails.
LEMMA NeverPanics ==
  ASSUME NEW R, NEW D, Fitted(R, D)
  PROVE  ~WalkPanics /\ ~ReportPanics
<1> SUFFICES ASSUME phase \in {"walk", "report"}, ~AtEnd PROVE ~Panics /\ ~PushPanics
  BY DEF WalkPanics, ReportPanics
<1>1. Stmt.note = NoComment /\ Stmt.twice = 0 /\ Stmt.in \in Nat
  BY WalkedStatement
<1>2. ~RepeatsInput
  BY <1>1 DEF RepeatsInput
<1>3. ~JumpTooShort
  <2>1. SUFFICES ASSUME NEW j \in DOMAIN Stmt.jumps
                 PROVE  ~(Stmt.jumps[j].depth + stk.depth < Stmt.in)
    BY DEF JumpTooShort
  <2>2. Stmt \in Ops /\ stk.depth \in Nat
    BY WalkedStatement, FittedTypes
  <2>3. Stmt.jumps \in Seq(Jumps)
    BY <2>2, OpType
  <2>4. Stmt.jumps[j].depth \in Nat
    <3>1. Stmt.jumps[j] \in Jumps
      BY <2>3
    <3> QED BY <3>1 DEF Jumps
  <2>5. Stmt.in <= Stmt.jumps[j].depth + stk.depth
    BY JumpsReach
  <2> QED BY <1>1, <2>2, <2>4, <2>5
<1>4. ~PushPanics
  BY <1>1 DEF PushPanics, NoComment
<1> QED BY <1>2, <1>3, <1>4 DEF Panics

\* Outside of the walks of phase 1 the heights stay as they are.
LEMMA RestFits ==
  ASSUME NEW R, NEW D, Fitted(R, D),
         phase \notin {"start", "walk"}, phase' \notin {"start", "walk"},
         UNCHANGED <<prog, preGrow, need, inputs, states, worklist, edges>>
  PROVE  FirstFits(R, D)' /\ RoundFits(R, D)'
<1>1. Blocks' = Blocks /\ (prog.inferred => ~Queued(1)' \/ Queued(1))
  BY DEF Blocks, N, Queued
<1>2. Slack(D)' = Slack(D) /\ (Exact' <=> Exact)
  <2>1. Slack(D)' = Slack(D)
    BY DEF Slack
  <2> QED BY <2>1 DEF Exact
<1>3. ASSUME NEW i, NEW k, PredFits(D, i, k) PROVE PredFits(D, i, k)'
  BY <1>2, <1>3 DEF PredFits, Near
<1>4. ASSUME NEW p, EdgeFits(R, D, p) PROVE EdgeFits(R, D, p)'
  BY <1>2, <1>4 DEF EdgeFits, Near, Key
<1>5. RoundFits(R, D)'
  <2> SUFFICES ASSUME states[1].reached PROVE RoundFits(R, D)'
    BY DEF RoundFits
  <2>1. /\ need <= Slack(D)
        /\ prog.inferred => preGrow <= inputs /\ ~Queued(1)
        /\ \A i \in Blocks : states[i].reached => i \in R
        /\ \A i \in Blocks : \A k \in DOMAIN states[i].preds : PredFits(D, i, k)
        /\ \A p \in DOMAIN edges : edges[p].to \in Blocks => EdgeFits(R, D, p)
    BY DEF Fitted, Fits, RoundFits
  <2> QED BY <1>1, <1>2, <1>3, <1>4, <2>1 DEF RoundFits
<1> QED BY <1>5 DEF FirstFits

\* A block in phase 2.
LEMMA CheckedBlock ==
  ASSUME NEW R, NEW D, Fitted(R, D), phase \in {"check", "report", "done"},
         NEW i \in Blocks, states[i].reached
  PROVE  /\ i \in R /\ need = 0 /\ states[1].reached /\ phase # "start" /\ D[i] \in Nat
         /\ \A k \in DOMAIN states[i].preds :
              /\ states[i].preds[k].depth \in Nat
              /\ prog.inferred /\ i = 1 => k = Initial
              /\ (prog.inferred /\ i = 1) \/ states[i].preds[k].depth = D[i] - Slack(D)
              /\ prog.inferred /\ IsVirtual(k) => prog.blocks[i].label = NoComment
<1>1. states[1].reached /\ phase # "start" /\ need = 0
  BY DEF Fitted, ControlInv, Fits, ReportFits
<1>2. i \in R /\ \A k \in DOMAIN states[i].preds : PredFits(D, i, k)
  BY <1>1 DEF Fitted, Fits, RoundFits
<1>3. D[i] \in Nat /\ states[i] \in BlockStates /\ Slack(D) \in Int
  BY <1>2, FittedTypes
<1>4. states[i].preds \in Preds
  BY <1>3 DEF BlockStates
<1>5. ASSUME NEW k \in DOMAIN states[i].preds
      PROVE  /\ states[i].preds[k].depth \in Nat
             /\ prog.inferred /\ i = 1 => k = Initial
             /\ (prog.inferred /\ i = 1) \/ states[i].preds[k].depth = D[i] - Slack(D)
             /\ prog.inferred /\ IsVirtual(k) => prog.blocks[i].label = NoComment
  <2>1. states[i].preds[k].depth \in Nat
    BY <1>4, PredsType DEF Heights
  <2>2. PredFits(D, i, k)
    BY <1>2
  <2>3. ~IsVirtual(Initial)
    BY DEF IsVirtual, Initial
  <2> QED BY <1>1, <2>1, <2>2, <2>3 DEF PredFits, Near
<1> QED BY <1>1, <1>2, <1>3, <1>5

\* The stack phase 2 enters it with.
LEMMA CheckedEntry ==
  ASSUME NEW R, NEW D, Fitted(R, D), phase \in {"check", "report", "done"},
         NEW i \in Blocks, states[i].reached
  PROVE  /\ EntryStack(i) \in Stacks /\ EntryStack(i).inferred = prog.inferred
         /\ EntryStack(i).depth <= D[i] /\ (~prog.inferred => EntryStack(i).depth = D[i])
<1>1. /\ i \in R /\ need = 0 /\ states[1].reached /\ phase # "start" /\ D[i] \in Nat
      /\ D[1] \in Nat /\ prog \in Programs /\ prog.inferred \in BOOLEAN /\ BalancedAt(R, D)
      /\ preGrow \in Nat /\ Slack(D) \in Int
  BY CheckedBlock, FittedTypes DEF Fitted
<1>2. CASE i = 1
  <2>1. EntryStack(i) = InitialStack
    BY <1>2 DEF EntryStack
  <2>2. InitialStack \in Stacks /\ InitialStack.inferred = prog.inferred
    BY <1>1, InitialStackType
  <2>3. CASE prog.inferred
    <3>1. InitialStack.depth = preGrow
      BY <1>1, <2>3, InitialStackType
    <3>2. preGrow <= D[1]
      BY <2>3 DEF Fitted, Fits, ReportFits
    <3> QED BY <1>2, <2>1, <2>2, <2>3, <3>1, <3>2
  <2>4. CASE ~prog.inferred
    <3>1. InitialStack = NewStack(prog.start, prog.inferred)
      BY <1>1, <2>4, InitialStackType
    <3>2. InitialStack.depth = prog.start.depth
      BY <3>1 DEF NewStack
    <3>3. D[1] = prog.start.depth
      BY <1>1, <2>4, BalancedBlock
    <3> QED BY <1>1, <1>2, <2>1, <2>2, <2>4, <3>2, <3>3
  <2> QED BY <1>1, <2>3, <2>4
<1>3. CASE i # 1
  <2>1. EntryStack(i) = NewStack(states[i].entry, prog.inferred)
    BY <1>3 DEF EntryStack
  <2>2. Near(Slack(D), D[i], states[i].entry.depth, need = 0) /\ states[i].entry \in Heights
    BY <1>1, <1>3, EntryFits
  <2>3. /\ EntryStack(i) \in Stacks /\ EntryStack(i).inferred = prog.inferred
        /\ EntryStack(i).depth = states[i].entry.depth
    BY <1>1, <2>1, <2>2, NewStackType
  <2>4. states[i].entry.depth = D[i] - Slack(D) /\ states[i].entry.depth <= D[i]
    BY <1>1, <2>2 DEF Near
  <2>5. ~prog.inferred => Slack(D) = 0
    BY DEF Slack
  <2> QED BY <1>1, <2>3, <2>4, <2>5
<1> QED BY <1>2, <1>3

\* The paths to a balanced block agree.
LEMMA MergesFit ==
  ASSUME NEW R, NEW D, Fitted(R, D), phase \in {"check", "report", "done"},
         NEW i \in Blocks, states[i].reached
  PROVE  (i # 1 => CheckMergeDepth(i) = {}) /\ CheckLoopBalance(i) = {}
<1> DEFINE v == D[i] - Slack(D)
           F == ForwardDepths(i)
           B == BackDepths(i)
<1>1. \A k \in DOMAIN states[i].preds :
        /\ states[i].preds[k].depth \in Nat
        /\ prog.inferred /\ i = 1 => k = Initial
        /\ (prog.inferred /\ i = 1) \/ states[i].preds[k].depth = v
  BY CheckedBlock
<1>2. F \subseteq Nat
  BY <1>1 DEF ForwardDepths
<1> HIDE DEF v
<1>3. CASE prog.inferred /\ i = 1
  <2>1. \A k \in DOMAIN states[i].preds : IsForward(k, i)
    <3>1. Initial[1] = 0 /\ 0 < 1
      BY DEF Initial
    <3> QED BY <1>1, <1>3, <3>1 DEF IsForward
  <2>2. B = {}
    BY <2>1 DEF BackDepths
  <2> QED BY <1>3, <2>2 DEF CheckLoopBalance
<1>4. CASE ~(prog.inferred /\ i = 1)
  <2>1. F \subseteq {v} /\ B \subseteq {v}
    BY <1>1, <1>4 DEF ForwardDepths, BackDepths
  <2>2. ~(Cardinality(F) > 1)
    <3>1. IsFiniteSet({v}) /\ Cardinality({v}) = 1
      BY FS_Singleton
    <3>2. Cardinality(F) <= 1 /\ Cardinality(F) \in Nat
      BY <2>1, <3>1, FS_Subset, FS_CardinalityType
    <3> QED BY <3>2
  <2>3. ASSUME F # {}, NEW d \in B PROVE d = Min(F)
    <3>1. Min(F) \in F
      BY <1>2, <2>3, MinType
    <3> QED BY <2>1, <2>3, <3>1
  <2> HIDE DEF F, B
  <2>4. CheckMergeDepth(i) = {}
    BY <2>2 DEF CheckMergeDepth, F
  <2>5. CheckLoopBalance(i) = {}
    BY <2>3 DEF CheckLoopBalance, F, B
  <2> QED BY <2>4, <2>5
<1> QED BY <1>3, <1>4

\* And so does its label.
LEMMA LabelFits ==
  ASSUME NEW R, NEW D, Fitted(R, D), phase \in {"check", "report", "done"},
         NEW i \in Blocks, states[i].reached
  PROVE  /\ CheckLabelComment(i, EntryStack(i)) = {}
         /\ ApplyLabelComment(EntryStack(i), i).depth = EntryStack(i).depth
<1> DEFINE s == EntryStack(i)
           c == prog.blocks[i].label
<1>1. s \in Stacks /\ s.depth <= D[i] /\ (s.depth = D[i] \/ s.inferred) /\ D[i] \in Nat
  <2>1. prog.inferred \in BOOLEAN
    BY FittedTypes
  <2> QED BY <2>1, CheckedEntry, CheckedBlock
<1>2. c \in {NoComment, [len |-> D[i], wild |-> FALSE]}
  BY CheckedBlock, FittedTypes, BalancedBlock DEF Fitted
<1> HIDE DEF s, c
<1>3. /\ CheckComment(s, c, FALSE).depth = s.depth /\ CommentErrors(s, c, FALSE) = {}
      /\ c # Malformed
  BY <1>1, <1>2, BareLabel
<1>4. CheckLabelComment(i, s) = {}
  BY <1>3 DEF CheckLabelComment, c
<1> QED BY <1>3, <1>4 DEF ApplyLabelComment, s, c

\* Phase 2 has nothing to say of the head of a block,
LEMMA CheckFits ==
  ASSUME NEW R, NEW D, Fitted(R, D), CheckBlock
  PROVE  Fits(R, D)'
<1>1. /\ phase = "check" /\ phase' = "report" /\ cur \in Blocks /\ states[cur].reached
      /\ stk' = ApplyLabelComment(EntryStack(cur), cur) /\ at' = 1 /\ cur' = cur
      /\ warnings' = warnings \cup Warn(cur, 0,
           (IF cur = 1 THEN {} ELSE CheckMergeDepth(cur))
           \cup CheckLoopBalance(cur) \cup CheckLabelComment(cur, EntryStack(cur)))
      /\ UNCHANGED <<prog, preGrow, need, inputs, states, worklist, edges>>
  BY DEF CheckBlock
<1>2. FirstFits(R, D)' /\ RoundFits(R, D)'
  BY <1>1, RestFits
<1>3. /\ (IF cur = 1 THEN {} ELSE CheckMergeDepth(cur)) = {}
      /\ CheckLoopBalance(cur) = {} /\ CheckLabelComment(cur, EntryStack(cur)) = {}
      /\ stk'.depth = EntryStack(cur).depth
  BY <1>1, MergesFit, LabelFits
<1>4. Warn(cur, 0, (IF cur = 1 THEN {} ELSE CheckMergeDepth(cur))
           \cup CheckLoopBalance(cur) \cup CheckLabelComment(cur, EntryStack(cur))) = {}
  BY <1>3 DEF Warn
<1>5. warnings' = {}
  BY <1>1, <1>4 DEF Fitted, Fits, ReportFits
<1>6. ASSUME ~prog.inferred, NEW i \in R, NEW k \in Nat, i = cur, k = 1
      PROVE  stk'.depth = Fitting(D, i)[k]
  <2>1. EntryStack(cur).depth = D[cur]
    BY <1>1, <1>6, CheckedEntry
  <2>2. Fitting(D, i)[1] = D[i]
    BY FittedTypes, BalancedBlock DEF Fitted
  <2> QED BY <1>3, <1>6, <2>1, <2>2
<1>7. \A i : Fitting(D, i)' = Fitting(D, i)
  BY <1>1 DEF Fitting
<1>8. need' = 0 /\ (prog.inferred => preGrow' <= D[1])
  BY <1>1 DEF Fitted, Fits, ReportFits
<1>9. ReportFits(R, D)'
  BY <1>1, <1>5, <1>6, <1>7, <1>8 DEF ReportFits
<1> QED BY <1>2, <1>9 DEF Fits

\* of a statement in it,
LEMMA ReportStatementFits ==
  ASSUME NEW R, NEW D, Fitted(R, D), ReportStatement
  PROVE  Fits(R, D)'
<1>1. /\ phase = "report" /\ phase' = "report" /\ ~AtEnd /\ cur' = cur /\ at' = at + 1
      /\ stk' = Apply(stk, Stmt)
      /\ warnings' = warnings \cup Warn(cur, at, ApplyErrors(stk, Stmt))
      /\ UNCHANGED <<prog, preGrow, need, inputs, states, worklist, edges>>
  BY DEF ReportStatement
<1>2. FirstFits(R, D)' /\ RoundFits(R, D)'
  BY <1>1, RestFits
<1>3. /\ cur \in R /\ at \in Nat /\ Stmt \in Ops /\ Stmt.in \in Nat /\ Stmt.out \in Nat
      /\ Stmt.in <= Fitting(D, cur)[at] /\ Stmt.note = NoComment
      /\ Fitting(D, cur)[at + 1] = Fitting(D, cur)[at] - Stmt.in + Stmt.out
  BY <1>1, WalkedStatement
<1>4. /\ need = 0 /\ states[cur].reached /\ warnings = {} /\ (prog.inferred => preGrow <= D[1])
      /\ ~prog.inferred => stk.depth = Fitting(D, cur)[at]
  BY <1>1, <1>3 DEF Fitted, Fits, ReportFits
<1>5. /\ stk \in Stacks /\ stk.depth \in Nat
      /\ stk.inferred = prog.inferred /\ prog.inferred \in BOOLEAN
  BY FittedTypes
<1>6. Stmt.in <= stk.depth \/ stk.inferred
  BY <1>3, <1>4, <1>5
<1>7. /\ stk'.depth = (IF Stmt.in > stk.depth THEN 0 ELSE stk.depth - Stmt.in) + Stmt.out
      /\ ApplyErrors(stk, Stmt) = {}
  BY <1>1, <1>3, <1>5, <1>6, BareApply
<1>8. warnings' = {}
  <2>1. Warn(cur, at, ApplyErrors(stk, Stmt)) = {}
    BY <1>7 DEF Warn
  <2> QED BY <1>1, <1>4, <2>1
<1>9. ~prog.inferred => stk'.depth = Fitting(D, cur)[at + 1]
  BY <1>3, <1>4, <1>5, <1>7
<1>10. \A i : Fitting(D, i)' = Fitting(D, i)
  BY <1>1 DEF Fitting
<1>11. ReportFits(R, D)'
  BY <1>1, <1>4, <1>8, <1>9, <1>10 DEF ReportFits
<1> QED BY <1>2, <1>11 DEF Fits

\* and of the jumps to it.
LEMMA JumpsFit ==
  ASSUME NEW R, NEW D, Fitted(R, D), CheckJumpDepths
  PROVE  Fits(R, D)'
<1>1. /\ phase = "check" /\ phase' = "done" /\ cur' = cur
      /\ warnings' = warnings \cup
           UNION {Warn(k[1], k[2], {"jump depth"}) : k \in UNION {WrongJumps(i) : i \in Blocks}}
      /\ UNCHANGED <<prog, preGrow, need, inputs, states, worklist, edges>>
  BY DEF CheckJumpDepths
<1>2. FirstFits(R, D)' /\ RoundFits(R, D)'
  BY <1>1, RestFits
<1>3. /\ need = 0 /\ warnings = {} /\ (prog.inferred => preGrow <= D[1])
      /\ prog.inferred \in BOOLEAN /\ Slack(D) \in Int
  BY <1>1, FittedTypes DEF Fitted, Fits, ReportFits
<1>4. ASSUME NEW i \in Blocks, states[i].reached, Given(prog.blocks[i].label),
             OnlyVirtualPreds(i) \/ SomePredMatches(i),
             NEW k \in DOMAIN states[i].preds, k # Initial
      PROVE  states[i].preds[k].depth = prog.blocks[i].label.len
  <2>1. /\ i \in R /\ D[i] \in Nat
        /\ \A m \in DOMAIN states[i].preds :
             /\ prog.inferred /\ i = 1 => m = Initial
             /\ (prog.inferred /\ i = 1) \/ states[i].preds[m].depth = D[i] - Slack(D)
             /\ prog.inferred /\ IsVirtual(m) => prog.blocks[i].label = NoComment
    BY <1>1, <1>4, CheckedBlock
  <2>2. ~Given(NoComment)
    <3>1. NoComment.len = -1 /\ ~(-1 >= 0)
      BY DEF NoComment
    <3> QED BY <3>1 DEF Given
  <2>3. prog.blocks[i].label.len = D[i] /\ prog.blocks[i].label # NoComment
    <3>1. prog.blocks[i].label \in {NoComment, [len |-> D[i], wild |-> FALSE]}
      BY <2>1, FittedTypes, BalancedBlock DEF Fitted
    <3> QED BY <1>4, <2>2, <3>1
  <2>4. ~(prog.inferred /\ i = 1) /\ states[i].preds[k].depth = D[i] - Slack(D)
    BY <1>4, <2>1
  <2>5. Slack(D) = 0
    <3>1. CASE ~prog.inferred
      BY <3>1 DEF Slack
    <3>2. CASE prog.inferred
      <4>1. ~IsVirtual(k)
        BY <2>1, <2>3, <3>2
      <4>2. SomePredMatches(i)
        BY <1>4, <4>1 DEF OnlyVirtualPreds
      <4>3. PICK m \in DOMAIN states[i].preds : states[i].preds[m].depth = D[i]
        BY <2>3, <4>2 DEF SomePredMatches, Depths
      <4>4. D[i] = D[i] - Slack(D)
        BY <2>1, <2>4, <4>3
      <4> QED BY <1>3, <2>1, <4>4
    <3> QED BY <1>3, <3>1, <3>2
  <2> QED BY <1>3, <2>1, <2>3, <2>4, <2>5
<1>5. \A i \in Blocks : WrongJumps(i) = {}
  BY <1>4 DEF WrongJumps
<1>6. warnings' = {}
  <2>1. UNION {WrongJumps(i) : i \in Blocks} = {}
    BY <1>5
  <2> QED BY <1>1, <1>3, <2>1
<1>7. ReportFits(R, D)'
  BY <1>1, <1>3, <1>6 DEF ReportFits
<1> QED BY <1>2, <1>7 DEF Fits

\* The other steps say nothing and change no height.
LEMMA RestStep ==
  ASSUME NEW R, NEW D, Fitted(R, D),
         PropagationDone \/ SkipBlock \/ BlockReported
  PROVE  Fits(R, D)'
<1>1. /\ phase \notin {"start", "walk"} /\ phase' \notin {"start", "walk", "report", "panic"}
      /\ phase' \in {"check", "done"} => need = 0
      /\ UNCHANGED <<prog, preGrow, need, inputs, states, worklist, edges, warnings>>
  BY DEF PropagationDone, SkipBlock, BlockReported, RoundOver,
         Fitted, Fits, ReportFits
<1>2. FirstFits(R, D)' /\ RoundFits(R, D)'
  BY <1>1, RestFits
<1>3. ReportFits(R, D)'
  BY <1>1 DEF ReportFits, Fitted, Fits
<1> QED BY <1>2, <1>3 DEF Fits

\* The heights fit before the analysis.
LEMMA FitsInit ==
  ASSUME Init, NEW R, NEW D, BalancedAt(R, D)
  PROVE  Fits(R, D)
<1>1. phase = "start" /\ preGrow = 0 /\ warnings = {}
  BY DEF Init
<1>2. D[1] \in Nat
  BY DEF BalancedAt, BalancedBy
<1> QED BY <1>1, <1>2 DEF Fits, FirstFits, RoundFits, ReportFits

\* And after each step.
LEMMA FitsStep ==
  ASSUME NEW R, NEW D, Fitted(R, D), [Next]_vars
  PROVE  Fits(R, D)'
<1>1. CASE StartRound
  BY <1>1, StartFits
<1>2. CASE WalkStatement
  BY <1>2, FirstWalkFits, LaterWalkFits
<1>3. CASE WalkPanics \/ ReportPanics
  BY <1>3, NeverPanics
<1>4. CASE FirstExit
  BY <1>4, FirstExitFits
<1>5. CASE BlockExit
  BY <1>5, LaterExitFits
<1>6. CASE MergeEdge
  BY <1>6, MergeFits
<1>7. CASE TakeBlock
  BY <1>7, TakeFits
<1>8. CASE GrowInitialStack
  BY <1>8, GrowFits
<1>9. CASE CheckBlock
  BY <1>9, CheckFits
<1>10. CASE ReportStatement
  BY <1>10, ReportStatementFits
<1>11. CASE CheckJumpDepths
  BY <1>11, JumpsFit
<1>12. CASE PropagationDone \/ SkipBlock \/ BlockReported
  BY <1>12, RestStep
<1>13. CASE Stopped \/ UNCHANGED vars
  <2>1. UNCHANGED vars
    BY <1>13 DEF Stopped
  <2>2. /\ Blocks' = Blocks /\ Slack(D)' = Slack(D) /\ (Exact' <=> Exact)
        /\ \A i : Fitting(D, i)' = Fitting(D, i)
    <3>1. Blocks' = Blocks /\ \A i : Fitting(D, i)' = Fitting(D, i)
      BY <2>1 DEF vars, Blocks, N, Fitting
    <3>2. Slack(D)' = Slack(D)
      BY <2>1 DEF vars, Slack
    <3> QED BY <2>1, <3>1, <3>2 DEF vars, Exact
  <2>3. Fits(R, D)
    BY DEF Fitted
  <2>4. FirstFits(R, D)' /\ ReportFits(R, D)'
    BY <2>1, <2>2, <2>3 DEF vars, Fits, FirstFits, ReportFits
  <2>5. RoundFits(R, D)'
    <3>1. \A i, k : PredFits(D, i, k) => PredFits(D, i, k)'
      BY <2>1, <2>2 DEF vars, PredFits, Near
    <3>2. \A p : EdgeFits(R, D, p) => EdgeFits(R, D, p)'
      BY <2>1, <2>2 DEF vars, EdgeFits, Near, Key
    <3>3. ASSUME NEW i \in R, NEW k \in Nat, i = cur, k = at, WalkFits(D, i, k)
          PROVE  WalkFits(D, i, k)'
      BY <2>1, <2>2, <3>3 DEF vars, WalkFits, Near
    <3>4. Queued(1)' <=> Queued(1)
      BY <2>1 DEF vars, Queued
    <3> QED BY <2>1, <2>2, <2>3, <3>1, <3>2, <3>3, <3>4 DEF vars, Fits, RoundFits
  <2> QED BY <2>4, <2>5 DEF Fits
<1> QED BY <1>1, <1>2, <1>3, <1>4, <1>5, <1>6, <1>7, <1>8, <1>9, <1>10, <1>11, <1>12, <1>13
        DEF Next

\* The inductive invariant, of all heights at once.
QuietInv == \A R \in SUBSET Blocks : \A D \in [R -> Nat] : BalancedAt(R, D) => Fits(R, D)

\* No false alarm: a program whose blocks have heights that every path to them agrees with, that
\* no statement underflows and no label contradicts, is analysed without a panic and without a
\* warning (check.go:502-504).  Of code whose inputs are inferred this is so if their number does
\* not change what was said before they were known (InputsKnown).
THEOREM StackBalancedIsQuiet == Spec => []BalancedIsQuiet
<1> DEFINE Inv == StackTypeInv /\ ControlInv /\ QuietInv
<1>1. Init => Inv
  <2> SUFFICES ASSUME Init PROVE ControlInv /\ QuietInv
    BY TypeInit
  <2>1. ControlInv
    BY NoPlaces DEF Init, ControlInv
  <2> QED BY <2>1, FitsInit DEF QuietInv
<1>2. Inv /\ [Next]_vars => Inv'
  <2> SUFFICES ASSUME Inv, [Next]_vars PROVE QuietInv'
    BY TypeStep, ControlStep
  <2>1. prog' = prog /\ Blocks' = Blocks
    BY ProgStays
  <2>2. ASSUME NEW R \in SUBSET Blocks, NEW D \in [R -> Nat], BalancedAt(R, D)'
        PROVE  Fits(R, D)'
    <3>1. BalancedAt(R, D)
      BY <2>1, <2>2 DEF BalancedAt
    <3>2. Fitted(R, D)
      BY <3>1 DEF QuietInv, Fitted
    <3> QED BY <3>2, FitsStep
  <2> QED BY <2>1, <2>2 DEF QuietInv
<1>3. Inv => BalancedIsQuiet
  <2> SUFFICES ASSUME Inv, Balanced(prog, MaxGrow), InputsKnown(prog)
               PROVE  warnings = {} /\ phase # "panic"
    BY DEF BalancedIsQuiet
  <2>1. PICK R \in SUBSET Blocks : \E D \in [R -> 0..MaxGrow] : BalancedBy(prog, R, D)
    BY DEF Balanced, Blocks, N
  <2>2. PICK D \in [R -> 0..MaxGrow] : BalancedBy(prog, R, D)
    BY <2>1
  <2>3. D \in [R -> Nat]
    <3>1. \A n \in 0..MaxGrow : n \in Nat
      BY MaxGrowAssumption
    <3> QED BY <3>1
  <2>4. BalancedAt(R, D)
    BY <2>2, <2>3 DEF BalancedAt
  <2> QED BY <2>3, <2>4 DEF QuietInv, Fits, ReportFits
<1> QED BY <1>1, <1>2, <1>3, PTL DEF Spec
===============================================================================
