---------------------------- MODULE CommandProofs ----------------------------
(****************************************************************************)
(* The instruction sets, the encoding of immediates, what the assembler     *)
(* writes and what the disassembler makes of it, for every program of every *)
(* length, every output and every style; for the instruction sets, for      *)
(* every table of forks.                                                    *)
(*                                                                          *)
(* The codec is about numbers: division by sixteen, and a table of cases.   *)
(* The table of a fork is what the definitions on its chain of ancestors    *)
(* leave (OpsOf): SetInv says how far up the lineage has come, and then,    *)
(* downwards, that the tables are those of the last ancestor that was       *)
(* resolved.                                                                *)
(*                                                                          *)
(* Every statement has an offset in the output, and is there as it was      *)
(* encoded; the check for unreachable code remembers the operation before.  *)
(* That is DisInv, and with it one looks at any place of the output: the    *)
(* scan of the machine is followed by induction from a statement to the     *)
(* next.                                                                    *)
(*                                                                          *)
(* A listing stands for the output up to some place if its tokens, one      *)
(* after the other, stand for adjacent slices of it (Reads).  RoundInv says *)
(* that of the listing while it grows, and of the bytes that are read from  *)
(* it afterwards; and that the lines are the statements, one by one, as far *)
(* as no byte was data and no immediate unknown (ShownTo).                  *)
(*                                                                          *)
(* Definitions that depend on the state are restated with parameters (...For) *)
(* because the arguments are about values.                                  *)
(****************************************************************************)
EXTENDS Command, Basics

\* The bytes of JUMPDEST and of PUSH0 to PUSH32, which an immediate must not be.
Gap == 91..127

-----------------------------------------------------------------------------
(* Dividing by sixteen.                                                      *)

\* The digits of a number to the base sixteen are its quotient and its remainder.
LEMMA Digits ==
  ASSUME NEW q \in Nat, NEW r \in 0..15
  PROVE  (q * 16 + r) \div 16 = q /\ (q * 16 + r) % 16 = r
OBVIOUS

\* Every number is made of the two.
LEMMA Quotient ==
  ASSUME NEW k \in Nat
  PROVE  k \div 16 \in Nat /\ k % 16 \in 0..15 /\ k = (k \div 16) * 16 + (k % 16)
OBVIOUS

-----------------------------------------------------------------------------
(* DUPN and SWAPN.                                                           *)

\* What encodeImmediateSingle gives for a depth is a byte outside the gap that the
\* disassembler takes for an immediate, and decodes to the same depth.
THEOREM DepthSurvives ==
  \A depth \in Int :
    DepthOK(depth) => /\ EncodeSingle(depth) \in Bytes \ Gap
                      /\ ValidSingle(EncodeSingle(depth))
                      /\ DecodeSingle(EncodeSingle(depth)) = depth
BY DEF DepthOK, EncodeSingle, DecodeSingle, ValidSingle, Bytes, Gap

\* What the disassembler prints for a valid immediate byte is a depth the assembler
\* accepts, and encodes as the same byte.
THEOREM ByteSurvives ==
  \A x \in Bytes :
    ValidSingle(x) => DepthOK(DecodeSingle(x)) /\ EncodeSingle(DecodeSingle(x)) = x
BY DEF DepthOK, EncodeSingle, DecodeSingle, ValidSingle, Bytes

-----------------------------------------------------------------------------
(* EXCHANGE.                                                                 *)

\* The number of a pair has its two digits in decodeImmediatePair's order: the smaller
\* one first when m is at most 16, the smaller one last otherwise.
LEMMA PairDigits ==
  ASSUME NEW n \in Int, NEW m \in Int, PairOK(n, m)
  PROVE  LET k == PairNumber(n, m)
         IN  /\ k \in 0..207
             /\ m <= 16 => k \div 16 = n - 1 /\ k % 16 = m - 1
             /\ m > 16 => k \div 16 = 29 - m /\ k % 16 = n - 1
<1>1. n \in 1..13 /\ m \in 2..29 /\ n < m /\ n + m <= 30
  BY DEF PairOK
<1>2. CASE m <= 16
  <2>1. PairNumber(n, m) = (n - 1) * 16 + (m - 1)
    BY <1>2 DEF PairNumber
  <2>2. n - 1 \in 0..12 /\ m - 1 \in 0..15
    BY <1>1, <1>2
  <2> QED BY <1>2, <2>1, <2>2, Digits
<1>3. CASE m > 16
  <2>1. PairNumber(n, m) = (29 - m) * 16 + (n - 1)
    BY <1>3 DEF PairNumber
  <2>2. 29 - m \in 0..12 /\ n - 1 \in 0..12
    BY <1>1, <1>3
  <2> QED BY <1>3, <2>1, <2>2, Digits
<1> QED BY <1>1, <1>2, <1>3

\* What encodeImmediatePair gives for a pair is a byte outside the gap, and is decoded to
\* the same pair.
THEOREM PairSurvives ==
  \A n, m \in Int :
    PairOK(n, m) => /\ EncodePair(n, m) \in Bytes \ Gap
                    /\ DecodePair(EncodePair(n, m)) = <<n, m>>
<1> SUFFICES ASSUME NEW n \in Int, NEW m \in Int, PairOK(n, m)
             PROVE  /\ EncodePair(n, m) \in Bytes \ Gap
                    /\ DecodePair(EncodePair(n, m)) = <<n, m>>
  OBVIOUS
<1> DEFINE k == PairNumber(n, m)
           x == EncodePair(n, m)
<1>1. /\ k \in 0..207
      /\ m <= 16 => k \div 16 = n - 1 /\ k % 16 = m - 1
      /\ m > 16 => k \div 16 = 29 - m /\ k % 16 = n - 1
  BY PairDigits
<1>2. x = IF k > 79 THEN k + 48 ELSE k
  BY DEF EncodePair
<1>3. x \in Bytes \ Gap /\ k = IF x <= 79 THEN x ELSE x - 48
  <2> HIDE DEF k, x
  <2> QED BY <1>1, <1>2 DEF Bytes, Gap
<1>4. DecodePair(x) = IF k \div 16 < k % 16 THEN <<(k \div 16) + 1, (k % 16) + 1>>
                      ELSE <<(k % 16) + 1, 29 - (k \div 16)>>
  <2> HIDE DEF k, x
  <2> QED BY <1>3 DEF DecodePair
<1>5. n \in 1..13 /\ n < m /\ m <= 29 /\ n + m <= 30
  BY DEF PairOK
<1>6. CASE m <= 16
  <2>1. k \div 16 = n - 1 /\ k % 16 = m - 1
    BY <1>1, <1>6
  <2> HIDE DEF k, x
  <2>2. DecodePair(x) = <<n - 1 + 1, m - 1 + 1>>
    BY <1>4, <1>5, <2>1
  <2> QED BY <1>3, <2>2 DEF x
<1>7. CASE m > 16
  <2>1. k \div 16 = 29 - m /\ k % 16 = n - 1
    BY <1>1, <1>7
  <2> HIDE DEF k, x
  <2>2. ~(29 - m < n - 1)
    BY <1>5
  <2>3. DecodePair(x) = <<n - 1 + 1, 29 - (29 - m)>>
    BY <1>4, <2>1, <2>2
  <2> QED BY <1>3, <2>3 DEF x
<1> QED BY <1>6, <1>7

\* Every byte outside 80..127 is the code of the pair it is decoded to.
THEOREM PairByteSurvives ==
  \A x \in Bytes \ (80..127) :
    LET pair == DecodePair(x) IN PairOK(pair[1], pair[2]) /\ EncodePair(pair[1], pair[2]) = x
<1> SUFFICES ASSUME NEW x \in Bytes \ (80..127)
             PROVE  /\ PairOK(DecodePair(x)[1], DecodePair(x)[2])
                    /\ EncodePair(DecodePair(x)[1], DecodePair(x)[2]) = x
  OBVIOUS
<1> DEFINE k == IF x <= 79 THEN x ELSE x - 48
           q == k \div 16
           r == k % 16
<1>1. k \in 0..207 /\ x = IF k > 79 THEN k + 48 ELSE k
  BY DEF Bytes
<1>2. q \in Nat /\ r \in 0..15 /\ k = q * 16 + r
  <2> HIDE DEF k
  <2> QED BY <1>1, Quotient
<1>3. DecodePair(x) = IF q < r THEN <<q + 1, r + 1>> ELSE <<r + 1, 29 - q>>
  BY DEF DecodePair
<1> HIDE DEF k, q, r
<1>4. q \in 0..12
  BY <1>1, <1>2
<1>5. CASE q < r
  <2>1. DecodePair(x)[1] = q + 1 /\ DecodePair(x)[2] = r + 1
    BY <1>3, <1>5
  <2>2. PairOK(q + 1, r + 1)
    BY <1>2, <1>4, <1>5 DEF PairOK
  <2>3. PairNumber(q + 1, r + 1) = k
    BY <1>2, <1>4 DEF PairNumber
  <2> QED BY <1>1, <2>1, <2>2, <2>3 DEF EncodePair
<1>6. CASE ~(q < r)
  <2>1. DecodePair(x)[1] = r + 1 /\ DecodePair(x)[2] = 29 - q
    BY <1>3, <1>6
  <2>2. r \in 0..12
    BY <1>2, <1>4, <1>6
  <2>3. PairOK(r + 1, 29 - q)
    BY <1>4, <1>6, <2>2 DEF PairOK
  <2>4. PairNumber(r + 1, 29 - q) = k
    BY <1>2, <1>4, <2>2 DEF PairNumber
  <2> QED BY <1>1, <2>1, <2>3, <2>4 DEF EncodePair
<1> QED BY <1>5, <1>6

\* The disassembler does not take every pair that the assembler accepts for an immediate:
\* ValidateImmediate refuses the bytes of the pairs with the numbers 80 to 159.
THEOREM UnrecognizedPairs ==
  \A n, m \in Int :
    PairOK(n, m) => (ValidPair(EncodePair(n, m)) <=> PairNumber(n, m) \notin 80..159)
<1> SUFFICES ASSUME NEW n \in Int, NEW m \in Int, PairOK(n, m)
             PROVE  ValidPair(EncodePair(n, m)) <=> PairNumber(n, m) \notin 80..159
  OBVIOUS
<1>1. PairNumber(n, m) \in 0..207
  BY PairDigits
<1> QED BY <1>1 DEF ValidPair, EncodePair

-----------------------------------------------------------------------------
(* Stack effects.                                                            *)

\* Whatever byte follows the operation, a valid immediate or not, its stack effect needs
\* between one and 255 items (the length of the table stackwords), and the positions
\* that are exchanged are among them: StackIn and StackOut never index out of range.
THEOREM EffectInRange ==
  \A x \in Bytes :
    /\ DecodeSingle(x) \in 1..255
    /\ DecodePair(x)[1] \in 1..DecodePair(x)[2] /\ DecodePair(x)[2] \in 1..255
<1> SUFFICES ASSUME NEW x \in Bytes
             PROVE  /\ DecodeSingle(x) \in 1..255
                    /\ DecodePair(x)[1] \in 1..DecodePair(x)[2] /\ DecodePair(x)[2] \in 1..255
  OBVIOUS
<1>1. DecodeSingle(x) \in 1..255
  BY DEF DecodeSingle, Bytes
<1> DEFINE k == IF x <= 79 THEN x ELSE x - 48
           q == k \div 16
           r == k % 16
<1>2. k \in 0..207
  BY DEF Bytes
<1>3. q \in Nat /\ r \in 0..15 /\ k = q * 16 + r
  <2> HIDE DEF k
  <2> QED BY <1>2, Quotient
<1>4. DecodePair(x) = IF q < r THEN <<q + 1, r + 1>> ELSE <<r + 1, 29 - q>>
  BY DEF DecodePair
<1> HIDE DEF k, q, r
<1>5. q \in 0..12
  BY <1>2, <1>3
<1>6. CASE q < r
  BY <1>1, <1>3, <1>4, <1>5, <1>6
<1>7. CASE ~(q < r)
  <2>1. r + 1 <= 29 - q
    BY <1>3, <1>5, <1>7
  <2> QED BY <1>1, <1>3, <1>4, <1>5, <1>7, <2>1
<1> QED BY <1>6, <1>7

-----------------------------------------------------------------------------
(* Chains of ancestors.                                                      *)

Above(reg, g) == IF g \in DOMAIN reg THEN reg[g].parent ELSE NoParent

\* The chain of a fork starts with the fork, and every fork is followed by its parent.
LEMMA ChainEquation ==
  ASSUME NEW reg, NEW f, IsFiniteSet(DOMAIN reg)
  PROVE  /\ Cardinality(DOMAIN reg) \in Nat
         /\ DOMAIN Chain(reg, f) = 0..Cardinality(DOMAIN reg)
         /\ Chain(reg, f)[0] = f
         /\ \A n \in 1..Cardinality(DOMAIN reg) :
              Chain(reg, f)[n] = Above(reg, Chain(reg, f)[n - 1])
<1> DEFINE size == Cardinality(DOMAIN reg)
           F(u, n) == IF n = 0 THEN f
                      ELSE IF u[n - 1] \in DOMAIN reg THEN reg[u[n - 1]].parent ELSE NoParent
           Covered == {m \in Nat : \E u : u = [n \in 0..m |-> F(u, n)]}
<1>1. size \in Nat
  BY FS_CardinalityType
<1>2. 0 \in Covered
  <2> DEFINE u == [n \in 0..0 |-> f]
  <2>1. \A n \in 0..0 : F(u, n) = f
    OBVIOUS
  <2>2. u = [n \in 0..0 |-> F(u, n)]
    <3> HIDE DEF F
    <3> QED BY <2>1
  <2> HIDE DEF F, u
  <2> QED BY <2>2
<1>3. ASSUME NEW m \in Nat, m \in Covered PROVE m + 1 \in Covered
  <2>1. PICK u : u = [n \in 0..m |-> F(u, n)]
    BY <1>3
  <2> DEFINE v == [n \in 0..(m + 1) |-> F(u, n)]
  <2>2. \A n \in 0..m : v[n] = u[n]
    <3>1. \A n \in 0..m : u[n] = F(u, n)
      <4> HIDE DEF F
      <4> QED BY <2>1
    <3>2. \A n \in 0..(m + 1) : v[n] = F(u, n)
      <4> HIDE DEF F
      <4> QED OBVIOUS
    <3>3. \A n \in 0..m : n \in 0..(m + 1)
      OBVIOUS
    <3> HIDE DEF F, v
    <3> QED BY <3>1, <3>2, <3>3
  <2>3. ASSUME NEW n \in 0..(m + 1) PROVE F(u, n) = F(v, n)
    <3>1. n = 0 \/ n - 1 \in 0..m
      OBVIOUS
    <3> HIDE DEF v
    <3> QED BY <2>2, <3>1
  <2>4. v = [n \in 0..(m + 1) |-> F(v, n)]
    <3> HIDE DEF F
    <3> QED BY <2>3
  <2> HIDE DEF F, v
  <2> QED BY <2>4
<1>4. size \in Covered
  <2> HIDE DEF Covered, size
  <2> QED BY <1>1, <1>2, <1>3, InductiveSet
<1>5. \E u : u = [n \in 0..size |-> F(u, n)]
  BY <1>4
<1> DEFINE w == CHOOSE u : u = [n \in 0..size |-> F(u, n)]
<1>6. Chain(reg, f) = [n \in DOMAIN w |-> w[n]]
  BY DEF Chain
<1>7. w = [n \in 0..size |-> F(w, n)]
  <2> HIDE DEF F, size
  <2> QED BY <1>5
<1> HIDE DEF w
<1>8. DOMAIN w = 0..size /\ \A n \in 0..size : w[n] = F(w, n)
  <2> HIDE DEF F, size
  <2> QED BY <1>7
<1>9. DOMAIN Chain(reg, f) = 0..size /\ \A n \in 0..size : Chain(reg, f)[n] = w[n]
  <2> HIDE DEF size
  <2> QED BY <1>6, <1>8
<1>10. 0 \in 0..size /\ \A n \in 1..size : n \in 0..size /\ n - 1 \in 0..size /\ n # 0
  <2> HIDE DEF size
  <2> QED BY <1>1
<1> HIDE DEF size
<1>11. Chain(reg, f)[0] = f
  BY <1>8, <1>9, <1>10
<1>12. ASSUME NEW n \in 1..size
       PROVE  Chain(reg, f)[n] = Above(reg, Chain(reg, f)[n - 1])
  <2>1. w[n] = F(w, n) /\ n # 0 /\ Chain(reg, f)[n] = w[n] /\ Chain(reg, f)[n - 1] = w[n - 1]
    BY <1>8, <1>9, <1>10
  <2> QED BY <2>1 DEF Above
<1> QED BY <1>1, <1>9, <1>11, <1>12 DEF size

Ends(reg, f) == Chain(reg, f)[Cardinality(DOMAIN reg)] = NoParent

\* Above what is no fork there is nothing.
LEMMA NothingAbove ==
  ASSUME NEW reg, IsRegistry(reg)
  PROVE  /\ Ends(reg, NoParent)
         /\ \A n \in 0..Cardinality(DOMAIN reg) : Chain(reg, NoParent)[n] = NoParent
<1> DEFINE size == Cardinality(DOMAIN reg)
           c == Chain(reg, NoParent)
           S == {n \in Nat : n <= size => c[n] = NoParent}
<1>1. /\ size \in Nat /\ c[0] = NoParent
      /\ \A n \in 1..size : c[n] = Above(reg, c[n - 1])
  BY ChainEquation DEF IsRegistry
<1>2. NoParent \notin DOMAIN reg
  BY DEF IsRegistry
<1> HIDE DEF size, c
<1>3. 0 \in S
  BY <1>1
<1>4. ASSUME NEW n \in Nat, n \in S PROVE n + 1 \in S
  <2>1. CASE n + 1 <= size
    <3>1. n + 1 \in 1..size /\ (n + 1) - 1 = n /\ n <= size
      BY <1>1, <2>1
    <3>2. c[n] = NoParent /\ c[n + 1] = Above(reg, c[n])
      BY <1>1, <1>4, <3>1
    <3> QED BY <1>2, <3>2 DEF Above
  <2>2. CASE ~(n + 1 <= size)
    BY <2>2
  <2> QED BY <2>1, <2>2
<1>5. Nat \subseteq S
  <2> HIDE DEF S
  <2> QED BY <1>3, <1>4, InductiveSet
<1>6. \A n \in 0..size : c[n] = NoParent
  BY <1>1, <1>5
<1>7. size \in 0..size
  BY <1>1
<1> QED BY <1>6, <1>7 DEF Ends, size, c

\* Behind its first entry the chain of a fork is the chain of the parent.
LEMMA ChainOfParent ==
  ASSUME NEW reg, IsRegistry(reg), NEW g \in DOMAIN reg
  PROVE  \A n \in 1..Cardinality(DOMAIN reg) :
           Chain(reg, g)[n] = Chain(reg, reg[g].parent)[n - 1]
<1> DEFINE size == Cardinality(DOMAIN reg)
           c == Chain(reg, g)
           d == Chain(reg, reg[g].parent)
           S == {n \in Nat : n + 1 <= size => c[n + 1] = d[n]}
<1>1. /\ size \in Nat
      /\ c[0] = g /\ \A n \in 1..size : c[n] = Above(reg, c[n - 1])
      /\ d[0] = reg[g].parent /\ \A n \in 1..size : d[n] = Above(reg, d[n - 1])
  <2>1. IsFiniteSet(DOMAIN reg)
    BY DEF IsRegistry
  <2>2. size \in Nat /\ c[0] = g
    BY <2>1, ChainEquation
  <2>3. \A n \in 1..size : c[n] = Above(reg, c[n - 1])
    BY <2>1, ChainEquation
  <2>4. d[0] = reg[g].parent /\ \A n \in 1..size : d[n] = Above(reg, d[n - 1])
    BY <2>1, ChainEquation
  <2> QED BY <2>2, <2>3, <2>4
<1> HIDE DEF size, c, d
<1>2. 0 \in S
  <2>1. 1 <= size => 1 \in 1..size /\ 1 - 1 = 0
    BY <1>1
  <2>2. Above(reg, g) = reg[g].parent
    BY DEF Above
  <2> QED BY <1>1, <2>1, <2>2
<1>3. ASSUME NEW n \in Nat, n \in S PROVE n + 1 \in S
  <2>1. CASE (n + 1) + 1 <= size
    <3>1. /\ n + 1 <= size /\ n + 1 \in 1..size /\ (n + 1) + 1 \in 1..size
          /\ ((n + 1) + 1) - 1 = n + 1 /\ (n + 1) - 1 = n
      BY <1>1, <2>1
    <3>2. c[n + 1] = d[n]
      BY <1>3, <3>1
    <3>3. c[(n + 1) + 1] = Above(reg, c[n + 1]) /\ d[n + 1] = Above(reg, d[n])
      BY <1>1, <3>1
    <3> QED BY <3>2, <3>3
  <2>2. CASE ~((n + 1) + 1 <= size)
    BY <2>2
  <2> QED BY <2>1, <2>2
<1>4. Nat \subseteq S
  <2> HIDE DEF S
  <2> QED BY <1>2, <1>3, InductiveSet
<1>5. ASSUME NEW n \in 1..size PROVE c[n] = d[n - 1]
  <2>1. n - 1 \in Nat /\ (n - 1) + 1 = n /\ (n - 1) + 1 <= size
    BY <1>1
  <2>2. n - 1 \in S
    BY <1>4, <2>1
  <2> QED BY <2>1, <2>2
<1> QED BY <1>5 DEF size, c, d

\* A chain that ends still ends when it starts with the parent.
LEMMA ParentEnds ==
  ASSUME NEW reg, IsRegistry(reg), NEW g \in DOMAIN reg, Ends(reg, g)
  PROVE  /\ Ends(reg, reg[g].parent)
         /\ Cardinality(DOMAIN reg) > 0
<1> DEFINE size == Cardinality(DOMAIN reg)
           d == Chain(reg, reg[g].parent)
<1>1. size \in Nat /\ size > 0
  BY FS_CardinalityType, FS_EmptySet DEF IsRegistry
<1>2. Chain(reg, g)[size] = NoParent
  BY DEF Ends
<1>3. \A n \in 1..size : Chain(reg, g)[n] = d[n - 1]
  BY ChainOfParent
<1>4. \A n \in 1..size : d[n] = Above(reg, d[n - 1])
  BY ChainEquation DEF IsRegistry
<1>5. NoParent \notin DOMAIN reg
  BY DEF IsRegistry
<1> HIDE DEF size, d
<1>6. size \in 1..size
  BY <1>1
<1>7. d[size] = Above(reg, NoParent)
  BY <1>2, <1>3, <1>4, <1>6
<1> QED BY <1>1, <1>5, <1>7 DEF Ends, Above, size, d

-----------------------------------------------------------------------------
(* What a chain decides about an operation.                                  *)

Hits(reg, chain, op) ==
  {n \in DOMAIN chain : chain[n] \in DOMAIN reg /\ op \in Mentions(reg[chain[n]])}

\* The nearest fork that mentions an operation is at the least position of one that does.
LEMMA NearestIs ==
  ASSUME NEW reg, NEW chain, NEW op, DOMAIN chain \subseteq Nat
  PROVE  /\ Hits(reg, chain, op) = {} => Nearest(reg, chain, op) = NoParent
         /\ \A n \in Hits(reg, chain, op) :
              (\A m \in Hits(reg, chain, op) : n <= m) => Nearest(reg, chain, op) = chain[n]
<1> DEFINE H == Hits(reg, chain, op)
<1>1. Nearest(reg, chain, op)
        = IF H = {} THEN NoParent ELSE chain[CHOOSE n \in H : \A m \in H : n <= m]
  BY DEF Nearest, Hits
<1>2. H \subseteq Nat
  BY DEF Hits
<1> HIDE DEF H
<1>3. ASSUME NEW n \in H, \A m \in H : n <= m
      PROVE  Nearest(reg, chain, op) = chain[n]
  <2>1. \A k \in H : (\A m \in H : k <= m) => k = n
    BY <1>2, <1>3
  <2>2. n = CHOOSE k \in H : \A m \in H : k <= m
    BY <1>3, <2>1
  <2> QED BY <1>1, <2>2
<1> QED BY <1>1, <1>3 DEF H

\* A fork decides about what it mentions, its parent about the rest.
LEMMA NearestStep ==
  ASSUME NEW reg, IsRegistry(reg), NEW g \in DOMAIN reg, Ends(reg, g), NEW op
  PROVE  Nearest(reg, Chain(reg, g), op)
           = IF op \in Mentions(reg[g]) THEN g
             ELSE Nearest(reg, Chain(reg, reg[g].parent), op)
<1> DEFINE size == Cardinality(DOMAIN reg)
           c == Chain(reg, g)
           d == Chain(reg, reg[g].parent)
           H == Hits(reg, c, op)
           G == Hits(reg, d, op)
<1>1. size \in Nat /\ DOMAIN c = 0..size /\ c[0] = g /\ DOMAIN d = 0..size
  BY ChainEquation DEF IsRegistry
<1>2. \A n \in 1..size : c[n] = d[n - 1]
  BY ChainOfParent
<1>3. d[size] = NoParent /\ NoParent \notin DOMAIN reg /\ size > 0
  BY ParentEnds DEF Ends, IsRegistry
<1>4. /\ H = {n \in 0..size : c[n] \in DOMAIN reg /\ op \in Mentions(reg[c[n]])}
      /\ G = {n \in 0..size : d[n] \in DOMAIN reg /\ op \in Mentions(reg[d[n]])}
  BY <1>1 DEF Hits
<1>5. /\ H = {} => Nearest(reg, c, op) = NoParent
      /\ \A n \in H : (\A m \in H : n <= m) => Nearest(reg, c, op) = c[n]
      /\ G = {} => Nearest(reg, d, op) = NoParent
      /\ \A n \in G : (\A m \in G : n <= m) => Nearest(reg, d, op) = d[n]
  <2>1. DOMAIN c \subseteq Nat /\ DOMAIN d \subseteq Nat
    BY <1>1
  <2> QED BY <2>1, NearestIs
<1> HIDE DEF size, c, d, H, G
<1>6. CASE op \in Mentions(reg[g])
  <2>1. 0 \in H /\ \A m \in H : 0 <= m
    BY <1>1, <1>4, <1>6
  <2> QED BY <1>1, <1>5, <1>6, <2>1 DEF c, d
<1>7. CASE op \notin Mentions(reg[g])
  <2>1. 0 \notin H /\ size \notin G /\ H \subseteq 0..size /\ G \subseteq 0..size
    BY <1>1, <1>3, <1>4, <1>7
  <2>2. \A n \in H : n \in 1..size /\ n - 1 \in G
    BY <1>1, <1>2, <1>4, <2>1
  <2>3. \A n \in G : n + 1 \in H /\ c[n + 1] = d[n]
    <3> SUFFICES ASSUME NEW n \in G PROVE n + 1 \in H /\ c[n + 1] = d[n]
      OBVIOUS
    <3>1. n + 1 \in 1..size /\ n + 1 \in 0..size /\ (n + 1) - 1 = n
      BY <1>1, <2>1
    <3>2. c[n + 1] = d[n]
      BY <1>2, <3>1
    <3> QED BY <1>4, <3>1, <3>2
  <2>4. CASE G = {}
    BY <1>5, <1>7, <2>2, <2>4 DEF c, d
  <2>5. CASE G # {}
    <3>1. PICK n \in G : \A m \in G : n <= m
      <4>1. G \in SUBSET Nat
        BY <1>1, <2>1
      <4> QED BY <2>5, <4>1, LeastElement
    <3>2. \A m \in H : n + 1 <= m
      <4> SUFFICES ASSUME NEW m \in H PROVE n + 1 <= m
        OBVIOUS
      <4>1. m \in 1..size /\ m - 1 \in G
        BY <2>2
      <4>2. n <= m - 1
        BY <3>1, <4>1
      <4>3. n \in 0..size
        BY <2>1
      <4> QED BY <1>1, <4>1, <4>2, <4>3
    <3>3. Nearest(reg, c, op) = c[n + 1]
      BY <1>5, <2>3, <3>2
    <3>4. Nearest(reg, d, op) = d[n]
      BY <1>5, <3>1
    <3> QED BY <1>7, <2>3, <3>3, <3>4 DEF c, d
  <2> QED BY <2>4, <2>5
<1> QED BY <1>6, <1>7

\* Where nothing is above, nothing is decided.
LEMMA NearestNone ==
  ASSUME NEW reg, IsRegistry(reg), NEW op
  PROVE  Nearest(reg, Chain(reg, NoParent), op) = NoParent
<1>1. /\ DOMAIN Chain(reg, NoParent) = 0..Cardinality(DOMAIN reg)
      /\ Cardinality(DOMAIN reg) \in Nat
  BY ChainEquation DEF IsRegistry
<1>2. \A n \in DOMAIN Chain(reg, NoParent) : Chain(reg, NoParent)[n] \notin DOMAIN reg
  BY <1>1, NothingAbove DEF IsRegistry
<1>3. Hits(reg, Chain(reg, NoParent), op) = {}
  BY <1>2 DEF Hits
<1>4. DOMAIN Chain(reg, NoParent) \subseteq Nat
  BY <1>1
<1> QED BY <1>3, <1>4, NearestIs

\* The operations of a fork are those of the parent, without what the fork removes, and
\* with what it adds.
LEMMA OpsStep ==
  ASSUME NEW reg, IsRegistry(reg), NEW g \in DOMAIN reg, Ends(reg, g)
  PROVE  OpsOf(reg, g) = (OpsOf(reg, reg[g].parent) \ reg[g].removed) \cup reg[g].added
<1>1. OpsOf(reg, g) = {op \in Ops : /\ Nearest(reg, Chain(reg, g), op) # NoParent
                                    /\ op \in reg[Nearest(reg, Chain(reg, g), op)].added}
  BY DEF OpsOf
<1>2. OpsOf(reg, reg[g].parent)
        = {op \in Ops : /\ Nearest(reg, Chain(reg, reg[g].parent), op) # NoParent
                        /\ op \in reg[Nearest(reg, Chain(reg, reg[g].parent), op)].added}
  BY DEF OpsOf
<1>3. g # NoParent /\ reg[g].added \subseteq Ops
  BY DEF IsRegistry, Mentions
<1>4. \A op : Nearest(reg, Chain(reg, g), op)
                = IF op \in reg[g].added \cup reg[g].removed THEN g
                  ELSE Nearest(reg, Chain(reg, reg[g].parent), op)
  BY NearestStep DEF Mentions
<1> DEFINE X == Chain(reg, g)
           Y == Chain(reg, reg[g].parent)
<1> HIDE DEF X, Y
<1>5. ASSUME NEW op PROVE op \in OpsOf(reg, g) <=>
        op \in (OpsOf(reg, reg[g].parent) \ reg[g].removed) \cup reg[g].added
  BY <1>1, <1>2, <1>3, <1>4
<1> QED BY <1>5

\* Above what is no fork there are no operations.
LEMMA OpsNone ==
  ASSUME NEW reg, IsRegistry(reg)
  PROVE  OpsOf(reg, NoParent) = {}
BY NearestNone DEF OpsOf

-----------------------------------------------------------------------------
(* Operations that share a code.                                             *)

Collide(a, b) == a # b /\ Code[a] = Code[b]

\* The codes of finitely many operations are fewer exactly if two of them collide.
LEMMA CodesCollide ==
  ASSUME NEW S, S \subseteq Ops
  PROVE  SameCode(S) <=> \E a, b \in S : Collide(a, b)
<1> DEFINE T == CodesOf(S)
           f == [op \in S |-> Code[op]]
<1>1. IsFiniteSet(S)
  BY OpsAssumption, FS_Subset
<1>2. T = {Code[op] : op \in S}
  BY DEF CodesOf
<1>3. f \in [S -> T] /\ \A op \in S : f[op] = Code[op]
  BY <1>2
<1>4. \A t \in T : \E op \in S : f[op] = t
  BY <1>2, <1>3
<1> HIDE DEF f, T
<1>5. f \in Surjection(S, T)
  BY <1>3, <1>4 DEF Surjection
<1>6. Cardinality(T) = Cardinality(S) <=> f \in Injection(S, T)
  BY <1>1, <1>5, FS_Surjection
<1>7. f \in Injection(S, T) <=> \A a, b \in S : f[a] = f[b] => a = b
  BY <1>3, Zenon DEF Injection, IsInjective
<1> QED BY <1>3, <1>6, <1>7 DEF SameCode, Collide, T

-----------------------------------------------------------------------------
(* Definitions that make sense.                                              *)

Kept(reg, g) == OpsOf(reg, reg[g].parent) \ reg[g].removed

Sane(reg, g) ==
  /\ reg[g].removed \subseteq OpsOf(reg, reg[g].parent)
  /\ reg[g].added \cap Kept(reg, g) = {}
  /\ ~SameCode(reg[g].added \cup Kept(reg, g))

Known(reg, f) ==
  \A n \in 0..Cardinality(DOMAIN reg) :
    Chain(reg, f)[n] = NoParent \/ Chain(reg, f)[n] \in DOMAIN reg

\* What WellFormed says, with the set that a definition starts from written once.
LEMMA WellFormedMeans ==
  ASSUME NEW reg, IsRegistry(reg), NEW f
  PROVE  WellFormed(reg, f) <=>
           /\ Ends(reg, f)
           /\ Known(reg, f)
           /\ \A n \in 0..Cardinality(DOMAIN reg) :
                Chain(reg, f)[n] # NoParent => Sane(reg, Chain(reg, f)[n])
<1> DEFINE c == Chain(reg, f)
           size == Cardinality(DOMAIN reg)
           before(g) == IF reg[g].parent = NoParent THEN {} ELSE OpsOf(reg, reg[g].parent)
           sane(g) ==
             LET old  == before(g)
                 kept == old \ reg[g].removed
             IN  /\ reg[g].removed \subseteq old
                 /\ reg[g].added \cap kept = {}
                 /\ ~SameCode(reg[g].added \cup kept)
<1>1. WellFormed(reg, f) <=>
        /\ c[size] = NoParent
        /\ \A n \in DOMAIN c : c[n] # NoParent => c[n] \in DOMAIN reg /\ sane(c[n])
  BY DEF WellFormed
<1>2. \A g : sane(g) <=> Sane(reg, g)
  <2> SUFFICES ASSUME NEW g PROVE sane(g) <=> Sane(reg, g)
    OBVIOUS
  <2>1. before(g) = OpsOf(reg, reg[g].parent)
    BY OpsNone
  <2> HIDE DEF before
  <2> QED BY <2>1 DEF Sane, Kept
<1>3. DOMAIN c = 0..size
  BY ChainEquation DEF IsRegistry
<1> HIDE DEF sane, size, c
<1>4. /\ Ends(reg, f) <=> c[size] = NoParent
      /\ Known(reg, f) <=> \A n \in 0..size : c[n] = NoParent \/ c[n] \in DOMAIN reg
  BY DEF Ends, Known, c, size
<1>5. WellFormed(reg, f) <=>
        /\ Ends(reg, f) /\ Known(reg, f)
        /\ \A n \in 0..size : c[n] # NoParent => Sane(reg, c[n])
  BY <1>1, <1>2, <1>3, <1>4
<1> QED BY <1>5 DEF c, size

\* If the chain of a fork ends, so does that of every fork on it.
LEMMA AllEnd ==
  ASSUME NEW reg, IsRegistry(reg), NEW f, Ends(reg, f), Known(reg, f)
  PROVE  \A n \in 0..Cardinality(DOMAIN reg) : Ends(reg, Chain(reg, f)[n])
<1> DEFINE size == Cardinality(DOMAIN reg)
           c == Chain(reg, f)
           S == {n \in Nat : n <= size => Ends(reg, c[n])}
<1>1. size \in Nat /\ c[0] = f
  BY ChainEquation DEF IsRegistry
<1>2. \A n \in 1..size : c[n] = Above(reg, c[n - 1])
  BY ChainEquation DEF IsRegistry
<1>3. \A n \in 0..size : c[n] = NoParent \/ c[n] \in DOMAIN reg
  BY DEF Known
<1> HIDE DEF size, c
<1>4. 0 \in S
  BY <1>1
<1>5. ASSUME NEW n \in Nat, n \in S PROVE n + 1 \in S
  <2>1. CASE n + 1 <= size
    <3>1. n + 1 \in 1..size /\ (n + 1) - 1 = n /\ n <= size /\ n \in 0..size
      BY <1>1, <2>1
    <3>2. Ends(reg, c[n]) /\ c[n + 1] = Above(reg, c[n])
      BY <1>2, <1>5, <3>1
    <3>3. CASE c[n] \in DOMAIN reg
      <4>1. c[n + 1] = reg[c[n]].parent
        BY <3>2, <3>3 DEF Above
      <4> QED BY <3>2, <3>3, <4>1, ParentEnds
    <3>4. CASE c[n] \notin DOMAIN reg
      <4>1. c[n + 1] = NoParent
        BY <3>2, <3>4 DEF Above
      <4> QED BY <4>1, NothingAbove
    <3> QED BY <3>3, <3>4
  <2>2. CASE ~(n + 1 <= size)
    BY <2>2
  <2> QED BY <2>1, <2>2
<1>6. Nat \subseteq S
  <2> HIDE DEF S
  <2> QED BY <1>4, <1>5, InductiveSet
<1>7. \A n \in 0..size : Ends(reg, c[n])
  BY <1>1, <1>6
<1> QED BY <1>7 DEF size, c

-----------------------------------------------------------------------------
(* The way up.                                                               *)

\* The lineage holds the first forks of the chain.
Climbed(reg, f, lin) ==
  /\ IsSeq(lin)
  /\ Len(lin) <= Cardinality(DOMAIN reg)
  /\ \A i \in 1..Len(lin) : lin[i] = Chain(reg, f)[i - 1] /\ lin[i] \in DOMAIN reg

Distinct(lin) == \A i, j \in 1..Len(lin) : lin[i] = lin[j] => i = j

\* Different forks are no more than there are.
LEMMA DistinctFit ==
  ASSUME NEW reg, IsRegistry(reg), NEW lin, IsSeq(lin), Distinct(lin),
         \A i \in 1..Len(lin) : lin[i] \in DOMAIN reg
  PROVE  Len(lin) <= Cardinality(DOMAIN reg)
<1> DEFINE f == [i \in 1..Len(lin) |-> lin[i]]
<1>1. Len(lin) \in Nat
  BY SeqType
<1>2. f \in Injection(1..Len(lin), DOMAIN reg)
  <2>1. f \in [1..Len(lin) -> DOMAIN reg] /\ \A i \in 1..Len(lin) : f[i] = lin[i]
    OBVIOUS
  <2>2. \A i, j \in 1..Len(lin) : f[i] = f[j] => i = j
    BY <2>1 DEF Distinct
  <2> HIDE DEF f
  <2> QED BY <2>1, <2>2 DEF Injection, IsInjective
<1>3. Cardinality(1..Len(lin)) <= Cardinality(DOMAIN reg)
  BY <1>2, FS_Injection DEF IsRegistry
<1>4. Cardinality(1..Len(lin)) = Len(lin)
  <2>1. 1 \in Int /\ Len(lin) \in Int
    BY <1>1
  <2>2. Cardinality(1..Len(lin)) = IF 1 > Len(lin) THEN 0 ELSE Len(lin) - 1 + 1
    BY <2>1, FS_Interval
  <2> QED BY <1>1, <2>2
<1> QED BY <1>3, <1>4

\* A parent that was visited before closes a cycle, which the chain never leaves.
LEMMA CycleNeverEnds ==
  ASSUME NEW reg, IsRegistry(reg), NEW f, NEW lin, Climbed(reg, f, lin), Len(lin) > 0,
         NEW k \in 1..Len(lin), Above(reg, lin[Len(lin)]) = lin[k]
  PROVE  ~Ends(reg, f)
<1> DEFINE size == Cardinality(DOMAIN reg)
           c == Chain(reg, f)
           V == {lin[i] : i \in 1..Len(lin)}
           S == {n \in Nat : n <= size => c[n] \in V}
<1>1. size \in Nat /\ c[0] = f
  BY ChainEquation DEF IsRegistry
<1>2. \A n \in 1..size : c[n] = Above(reg, c[n - 1])
  BY ChainEquation DEF IsRegistry
<1>3. /\ Len(lin) \in Nat /\ Len(lin) <= size
      /\ \A i \in 1..Len(lin) : lin[i] = c[i - 1] /\ lin[i] \in DOMAIN reg
  BY SeqType DEF Climbed
<1> HIDE DEF size, c
<1>4. \A v \in V : Above(reg, v) \in V
  <2> SUFFICES ASSUME NEW i \in 1..Len(lin) PROVE Above(reg, lin[i]) \in V
    OBVIOUS
  <2>1. CASE i = Len(lin)
    BY <2>1
  <2>2. CASE i # Len(lin)
    <3>1. i + 1 \in 1..Len(lin) /\ i \in 1..size /\ (i + 1) - 1 = i
      BY <1>1, <1>3, <2>2
    <3>2. lin[i + 1] = c[i] /\ c[i] = Above(reg, c[i - 1]) /\ lin[i] = c[i - 1]
      BY <1>2, <1>3, <3>1
    <3> QED BY <3>1, <3>2
  <2> QED BY <2>1, <2>2
<1>5. 0 \in S
  <2>1. 1 \in 1..Len(lin) /\ 1 - 1 = 0
    BY <1>3
  <2> QED BY <1>3, <2>1
<1>6. ASSUME NEW n \in Nat, n \in S PROVE n + 1 \in S
  <2>1. CASE n + 1 <= size
    <3>1. n + 1 \in 1..size /\ (n + 1) - 1 = n /\ n <= size
      BY <1>1, <2>1
    <3>2. c[n] \in V /\ c[n + 1] = Above(reg, c[n])
      BY <1>2, <1>6, <3>1
    <3>3. c[n + 1] \in V
      <4> HIDE DEF V
      <4> QED BY <1>4, <3>2
    <3> QED BY <3>3
  <2>2. CASE ~(n + 1 <= size)
    BY <2>2
  <2> QED BY <2>1, <2>2
<1>7. Nat \subseteq S
  <2> HIDE DEF S
  <2> QED BY <1>5, <1>6, InductiveSet
<1>8. c[size] \in V
  BY <1>1, <1>7
<1>9. V \subseteq DOMAIN reg /\ NoParent \notin DOMAIN reg
  BY <1>3 DEF IsRegistry
<1> HIDE DEF V
<1> QED BY <1>8, <1>9 DEF Ends, c, size

\* The parent of the last fork of the lineage is the next of the chain.
LEMMA NextAbove ==
  ASSUME NEW reg, IsRegistry(reg), NEW f, NEW lin, Climbed(reg, f, lin), Len(lin) > 0
  PROVE  /\ Len(lin) \in 1..Cardinality(DOMAIN reg)
         /\ lin[Len(lin)] \in DOMAIN reg
         /\ lin[Len(lin)] = Chain(reg, f)[Len(lin) - 1]
         /\ Chain(reg, f)[Len(lin)] = reg[lin[Len(lin)]].parent
<1>1. Len(lin) \in Nat /\ Len(lin) <= Cardinality(DOMAIN reg) /\ Cardinality(DOMAIN reg) \in Nat
  BY SeqType, FS_CardinalityType DEF Climbed, IsRegistry
<1>2. Len(lin) \in 1..Len(lin) /\ Len(lin) \in 1..Cardinality(DOMAIN reg)
  BY <1>1
<1>3. lin[Len(lin)] = Chain(reg, f)[Len(lin) - 1] /\ lin[Len(lin)] \in DOMAIN reg
  BY <1>2 DEF Climbed
<1>4. Chain(reg, f)[Len(lin)] = Above(reg, Chain(reg, f)[Len(lin) - 1])
  BY <1>2, ChainEquation DEF IsRegistry
<1> QED BY <1>2, <1>3, <1>4 DEF Above

\* A parent that does not exist makes no sense.
LEMMA UnknownParent ==
  ASSUME NEW reg, IsRegistry(reg), NEW f, NEW lin, Climbed(reg, f, lin), Len(lin) > 0,
         reg[lin[Len(lin)]].parent # NoParent, reg[lin[Len(lin)]].parent \notin DOMAIN reg
  PROVE  ~Known(reg, f)
<1>1. /\ Len(lin) \in 1..Cardinality(DOMAIN reg)
      /\ Chain(reg, f)[Len(lin)] = reg[lin[Len(lin)]].parent
  BY NextAbove
<1>2. Len(lin) \in 0..Cardinality(DOMAIN reg)
  BY <1>1
<1> QED BY <1>1, <1>2 DEF Known

\* A lineage that has arrived at a fork without a parent is the whole chain.
LEMMA WholeChain ==
  ASSUME NEW reg, IsRegistry(reg), NEW f, NEW lin, Climbed(reg, f, lin), Len(lin) > 0,
         reg[lin[Len(lin)]].parent = NoParent
  PROVE  /\ Ends(reg, f) /\ Known(reg, f)
         /\ \A n \in Len(lin)..Cardinality(DOMAIN reg) : Chain(reg, f)[n] = NoParent
<1> DEFINE size == Cardinality(DOMAIN reg)
           c == Chain(reg, f)
           S == {n \in Nat : Len(lin) <= n /\ n <= size => c[n] = NoParent}
<1>1. size \in Nat
  BY ChainEquation DEF IsRegistry
<1>2. \A n \in 1..size : c[n] = Above(reg, c[n - 1])
  BY ChainEquation DEF IsRegistry
<1>3. Len(lin) \in 1..size /\ c[Len(lin)] = NoParent
  BY NextAbove
<1>4. \A i \in 1..Len(lin) : lin[i] = c[i - 1] /\ lin[i] \in DOMAIN reg
  BY DEF Climbed
<1>5. NoParent \notin DOMAIN reg
  BY DEF IsRegistry
<1> HIDE DEF size, c
<1>6. 0 \in S
  BY <1>3
<1>7. ASSUME NEW n \in Nat, n \in S PROVE n + 1 \in S
  <2>1. CASE Len(lin) <= n /\ n + 1 <= size
    <3>1. n + 1 \in 1..size /\ (n + 1) - 1 = n /\ n <= size
      BY <1>1, <2>1
    <3>2. c[n] = NoParent /\ c[n + 1] = Above(reg, c[n])
      BY <1>2, <1>7, <2>1, <3>1
    <3>3. c[n + 1] = NoParent
      BY <1>5, <3>2 DEF Above
    <3> QED BY <3>3
  <2>2. CASE Len(lin) = n + 1
    BY <1>3, <2>2
  <2>3. CASE n + 1 < Len(lin) \/ n + 1 > size
    BY <1>1, <1>3, <2>3
  <2> QED BY <1>1, <1>3, <2>1, <2>2, <2>3
<1>8. Nat \subseteq S
  <2> HIDE DEF S
  <2> QED BY <1>6, <1>7, InductiveSet
<1>9. \A n \in Len(lin)..size : c[n] = NoParent
  BY <1>1, <1>3, <1>8
<1>10. c[size] = NoParent
  BY <1>1, <1>3, <1>9
<1>11. ASSUME NEW n \in 0..size PROVE c[n] = NoParent \/ c[n] \in DOMAIN reg
  <2>1. CASE n < Len(lin)
    <3>1. n + 1 \in 1..Len(lin) /\ (n + 1) - 1 = n
      BY <1>1, <1>3, <2>1
    <3> QED BY <1>4, <3>1
  <2>2. CASE ~(n < Len(lin))
    BY <1>1, <1>3, <1>9, <2>2
  <2> QED BY <2>1, <2>2
<1> QED BY <1>9, <1>10, <1>11 DEF Ends, Known, size, c

-----------------------------------------------------------------------------
(* The tables.                                                               *)

\* The table of codes is the inverse of the table of names, where no operations
\* collide, and nothing is known as removed that is there.
Tables(names, codes, gone) ==
  /\ names \subseteq Ops
  /\ \A a, b \in names : ~Collide(a, b)
  /\ DOMAIN codes = CodesOf(names)
  /\ \A c \in DOMAIN codes : codes[c] \in names /\ Code[codes[c]] = c
  /\ DOMAIN gone \cap names = {}

Gone(gone, op) == IF op \in DOMAIN gone THEN gone[op] ELSE NoParent

\* Who removed the operations that a fork lacks, except those it is about to add.
Blamed(reg, g, names, added, gone) ==
  \A op \in Ops \ names : op \notin added => Gone(gone, op) = Nearest(reg, Chain(reg, g), op)

\* At the start there is nothing.
LEMMA TablesStart ==
  ASSUME NEW reg, IsRegistry(reg)
  PROVE  /\ Tables({}, NoOps, NoOps)
         /\ OpsOf(reg, NoParent) = {}
         /\ Blamed(reg, NoParent, {}, {}, NoOps)
<1>1. DOMAIN NoOps = {} /\ CodesOf({}) = {}
  BY DEF NoOps, CodesOf
<1>2. Tables({}, NoOps, NoOps)
  BY <1>1 DEF Tables
<1>3. \A op : Gone(NoOps, op) = NoParent
  BY <1>1 DEF Gone
<1> QED BY <1>2, <1>3, NearestNone, OpsNone DEF Blamed

\* What an amended table has.
LEMMA AmendedTable ==
  ASSUME NEW f, NEW entries
  PROVE  /\ DOMAIN Amended(f, entries) = DOMAIN f \cup DOMAIN entries
         /\ \A x \in DOMAIN entries : Amended(f, entries)[x] = entries[x]
         /\ \A x \in DOMAIN f \ DOMAIN entries : Amended(f, entries)[x] = f[x]
BY DEF Amended

\* What stays of a table.
LEMMA Reduced ==
  ASSUME NEW f, NEW keys
  PROVE  /\ DOMAIN Without(f, keys) = DOMAIN f \ keys
         /\ \A x \in DOMAIN f \ keys : Without(f, keys)[x] = f[x]
BY DEF Without

\* The same fork for all of them.
Marked(ops, g) == [op \in ops |-> g]

\* Those that are removed are known as removed by the fork, the others as before.
LEMMA GoneMarked ==
  ASSUME NEW gone, NEW ops, NEW g
  PROVE  /\ \A op \in ops : Gone(Amended(gone, Marked(ops, g)), op) = g
         /\ \A op : op \notin ops => Gone(Amended(gone, Marked(ops, g)), op) = Gone(gone, op)
<1> DEFINE h == Marked(ops, g)
           gone2 == Amended(gone, h)
<1>1. DOMAIN h = ops /\ \A op \in ops : h[op] = g
  BY DEF Marked
<1> HIDE DEF h
<1>2. /\ DOMAIN gone2 = DOMAIN gone \cup DOMAIN h
      /\ \A x \in DOMAIN h : gone2[x] = h[x]
      /\ \A x \in DOMAIN gone \ DOMAIN h : gone2[x] = gone[x]
  BY AmendedTable
<1> HIDE DEF gone2
<1>3. /\ \A op \in ops : Gone(gone2, op) = g
      /\ \A op : op \notin ops => Gone(gone2, op) = Gone(gone, op)
  BY <1>1, <1>2 DEF Gone
<1> QED BY <1>3 DEF gone2, h

\* Removing operations that are there keeps the tables in order.
LEMMA RemoveTables ==
  ASSUME NEW names, NEW codes, NEW gone, Tables(names, codes, gone),
         NEW ops, ops \subseteq names, NEW g
  PROVE  /\ Tables(names \ ops, Without(codes, CodesOf(ops)), Amended(gone, Marked(ops, g)))
         /\ ~SameCode(ops)
<1> DEFINE gone2 == Amended(gone, Marked(ops, g))
           codes2 == Without(codes, CodesOf(ops))
<1>1. /\ names \subseteq Ops /\ \A a, b \in names : ~Collide(a, b)
      /\ DOMAIN codes = CodesOf(names)
      /\ \A c \in DOMAIN codes : codes[c] \in names /\ Code[codes[c]] = c
      /\ DOMAIN gone \cap names = {}
  BY DEF Tables
<1>2. ~SameCode(ops)
  BY <1>1, CodesCollide
<1>3. DOMAIN gone2 = DOMAIN gone \cup ops
  BY AmendedTable DEF Marked
<1>4. /\ DOMAIN codes2 = CodesOf(names) \ CodesOf(ops)
      /\ \A c \in DOMAIN codes2 : codes2[c] = codes[c]
  <2>1. /\ DOMAIN codes2 = DOMAIN codes \ CodesOf(ops)
        /\ \A c \in DOMAIN codes \ CodesOf(ops) : codes2[c] = codes[c]
    BY Reduced
  <2> HIDE DEF codes2
  <2> QED BY <1>1, <2>1
<1> HIDE DEF gone2, codes2
<1>5. CodesOf(names) \ CodesOf(ops) = CodesOf(names \ ops)
  <2>1. \A a \in names, b \in ops : Code[a] = Code[b] => a = b
    BY <1>1 DEF Collide
  <2> QED BY <2>1 DEF CodesOf
<1>6. \A c \in DOMAIN codes2 : codes2[c] \in names \ ops /\ Code[codes2[c]] = c
  <2> SUFFICES ASSUME NEW c \in DOMAIN codes2
               PROVE  codes2[c] \in names \ ops /\ Code[codes2[c]] = c
    OBVIOUS
  <2>1. codes2[c] \in names /\ Code[codes2[c]] = c /\ c \notin CodesOf(ops)
    BY <1>1, <1>4
  <2> QED BY <2>1 DEF CodesOf
<1>7. Tables(names \ ops, codes2, gone2)
  BY <1>1, <1>3, <1>4, <1>5, <1>6 DEF Tables
<1> QED BY <1>2, <1>7 DEF gone2, codes2

\* So does adding operations that are free, and whose codes are.
LEMMA AddTables ==
  ASSUME NEW names, NEW codes, NEW gone, Tables(names, codes, gone),
         NEW ops, ops \subseteq Ops, ops \cap names = {}, ~SameCode(ops),
         CodesOf(ops) \cap DOMAIN codes = {}
  PROVE  /\ Tables(names \cup ops,
                   Amended(codes, Named(ops)),
                   Without(gone, ops))
         /\ \A op : op \notin ops => Gone(Without(gone, ops), op) = Gone(gone, op)
         /\ ~SameCode(names \cup ops)
<1> DEFINE h == Named(ops)
           codes2 == Amended(codes, h)
           gone2 == Without(gone, ops)
<1>1. /\ names \subseteq Ops /\ \A a, b \in names : ~Collide(a, b)
      /\ DOMAIN codes = CodesOf(names)
      /\ \A c \in DOMAIN codes : codes[c] \in names /\ Code[codes[c]] = c
      /\ DOMAIN gone \cap names = {}
  BY DEF Tables
<1>2. \A a, b \in ops : ~Collide(a, b)
  BY CodesCollide
<1>3. DOMAIN h = CodesOf(ops) /\ \A c \in CodesOf(ops) : h[c] \in ops /\ Code[h[c]] = c
  BY DEF CodesOf, Named
<1> HIDE DEF h
<1>4. /\ DOMAIN codes2 = DOMAIN codes \cup CodesOf(ops)
      /\ \A c \in CodesOf(ops) : codes2[c] = h[c]
      /\ \A c \in DOMAIN codes \ CodesOf(ops) : codes2[c] = codes[c]
  <2>1. /\ DOMAIN codes2 = DOMAIN codes \cup DOMAIN h
        /\ \A c \in DOMAIN h : codes2[c] = h[c]
        /\ \A c \in DOMAIN codes \ DOMAIN h : codes2[c] = codes[c]
    BY AmendedTable
  <2> HIDE DEF codes2
  <2> QED BY <1>3, <2>1
<1>5. /\ DOMAIN gone2 = DOMAIN gone \ ops
      /\ \A op \in DOMAIN gone \ ops : gone2[op] = gone[op]
  BY Reduced
<1> HIDE DEF codes2, gone2
<1>6. \A a \in names, b \in ops : Code[a] # Code[b]
  BY <1>1 DEF CodesOf
<1>7. \A a, b \in names \cup ops : ~Collide(a, b)
  BY <1>1, <1>2, <1>6 DEF Collide
<1>8. ~SameCode(names \cup ops)
  BY <1>1, <1>7, CodesCollide
<1>9. CodesOf(names) \cup CodesOf(ops) = CodesOf(names \cup ops)
  BY DEF CodesOf
<1>10. Tables(names \cup ops, codes2, gone2)
  BY <1>1, <1>3, <1>4, <1>5, <1>7, <1>9 DEF Tables
<1>11. \A op : op \notin ops => Gone(gone2, op) = Gone(gone, op)
  BY <1>5 DEF Gone
<1> QED BY <1>8, <1>10, <1>11 DEF codes2, gone2, h

-----------------------------------------------------------------------------
(* The way down.                                                             *)

\* The set is that of a fork of the chain.
Settled(reg, g, names, gone) ==
  names = OpsOf(reg, g) /\ Blamed(reg, g, names, {}, gone)

\* What a fork removes is gone, what it adds is not there yet.
Halfway(reg, g, names, gone) ==
  /\ reg[g].removed \subseteq OpsOf(reg, reg[g].parent)
  /\ names = Kept(reg, g)
  /\ Blamed(reg, g, names, reg[g].added, gone)

SaneFrom(reg, f, k) ==
  \A n \in k..Cardinality(DOMAIN reg) : Chain(reg, f)[n] # NoParent => Sane(reg, Chain(reg, f)[n])

\* The lineage holds what is not resolved yet of a chain that ends; the forks behind
\* it make sense, and the tables are those of the nearest of them.
Resolving(reg, f, st, lin, names, codes, gone) ==
  /\ Climbed(reg, f, lin) /\ Ends(reg, f) /\ Known(reg, f) /\ SaneFrom(reg, f, Len(lin))
  /\ Tables(names, codes, gone)
  /\ st = "add" => Len(lin) > 0 /\ Halfway(reg, lin[Len(lin)], names, gone)
  /\ st # "add" => Settled(reg, Chain(reg, f)[Len(lin)], names, gone)
  /\ st = "remove" => Len(lin) > 0
  /\ st = "done" => Len(lin) = 0

\* At the top of the chain.
LEMMA AtTheTop ==
  ASSUME NEW reg, IsRegistry(reg), NEW f, NEW lin, Climbed(reg, f, lin), Len(lin) > 0,
         reg[lin[Len(lin)]].parent = NoParent
  PROVE  Resolving(reg, f, "remove", lin, {}, NoOps, NoOps)
<1>1. /\ Ends(reg, f) /\ Known(reg, f)
      /\ \A n \in Len(lin)..Cardinality(DOMAIN reg) : Chain(reg, f)[n] = NoParent
  BY WholeChain
<1>2. SaneFrom(reg, f, Len(lin))
  BY <1>1 DEF SaneFrom
<1>3. Chain(reg, f)[Len(lin)] = NoParent
  BY NextAbove
<1>4. Settled(reg, NoParent, {}, NoOps) /\ Tables({}, NoOps, NoOps)
  BY TablesStart DEF Settled
<1> QED BY <1>1, <1>2, <1>3, <1>4 DEF Resolving

\* The fork that is resolved next: its chain ends, and it starts from what is there.
LEMMA NextFork ==
  ASSUME NEW reg, IsRegistry(reg), NEW f, NEW st, NEW lin, NEW names, NEW codes, NEW gone,
         Resolving(reg, f, st, lin, names, codes, gone), Len(lin) > 0
  PROVE  /\ lin[Len(lin)] \in DOMAIN reg
         /\ lin[Len(lin)] = Chain(reg, f)[Len(lin) - 1]
         /\ Ends(reg, lin[Len(lin)])
         /\ Len(lin) - 1 \in 0..Cardinality(DOMAIN reg)
         /\ st # "add" => Settled(reg, reg[lin[Len(lin)]].parent, names, gone)
<1>1. /\ Climbed(reg, f, lin) /\ Ends(reg, f) /\ Known(reg, f)
      /\ st # "add" => Settled(reg, Chain(reg, f)[Len(lin)], names, gone)
  BY DEF Resolving
<1>2. /\ Len(lin) \in 1..Cardinality(DOMAIN reg)
      /\ lin[Len(lin)] \in DOMAIN reg
      /\ lin[Len(lin)] = Chain(reg, f)[Len(lin) - 1]
      /\ Chain(reg, f)[Len(lin)] = reg[lin[Len(lin)]].parent
  BY <1>1, NextAbove
<1>3. Cardinality(DOMAIN reg) \in Nat
  BY FS_CardinalityType DEF IsRegistry
<1>4. Len(lin) - 1 \in 0..Cardinality(DOMAIN reg)
  BY <1>2, <1>3
<1>5. Ends(reg, lin[Len(lin)])
  BY <1>1, <1>2, <1>4, AllEnd
<1> QED BY <1>1, <1>2, <1>4, <1>5

\* A fork of the chain that makes no sense spoils the chain.
LEMMA Spoiled ==
  ASSUME NEW reg, IsRegistry(reg), NEW f, NEW st, NEW lin, NEW names, NEW codes, NEW gone,
         Resolving(reg, f, st, lin, names, codes, gone), Len(lin) > 0,
         ~Sane(reg, lin[Len(lin)])
  PROVE  ~WellFormed(reg, f)
<1>1. /\ lin[Len(lin)] \in DOMAIN reg
      /\ lin[Len(lin)] = Chain(reg, f)[Len(lin) - 1]
      /\ Len(lin) - 1 \in 0..Cardinality(DOMAIN reg)
  BY NextFork
<1>2. lin[Len(lin)] # NoParent
  BY <1>1 DEF IsRegistry
<1> QED BY <1>1, <1>2, WellFormedMeans

\* Removing what the parent has.
LEMMA Removes ==
  ASSUME NEW reg, IsRegistry(reg), NEW f, NEW lin, NEW names, NEW codes, NEW gone,
         Resolving(reg, f, "remove", lin, names, codes, gone),
         reg[lin[Len(lin)]].removed \subseteq names
  PROVE  LET def == reg[lin[Len(lin)]]
         IN  Resolving(reg, f, "add", lin, names \ def.removed,
                       Without(codes, CodesOf(def.removed)),
                       Amended(gone, [op \in def.removed |-> lin[Len(lin)]]))
<1> DEFINE g == lin[Len(lin)]
           ops == reg[g].removed
           names2 == names \ ops
           codes2 == Without(codes, CodesOf(ops))
           gone2 == Amended(gone, Marked(ops, g))
<1>1. /\ Climbed(reg, f, lin) /\ Ends(reg, f) /\ Known(reg, f) /\ SaneFrom(reg, f, Len(lin))
      /\ Tables(names, codes, gone) /\ Len(lin) > 0
  BY DEF Resolving
<1>2. g \in DOMAIN reg /\ Ends(reg, g) /\ Settled(reg, reg[g].parent, names, gone)
  BY <1>1, NextFork
<1>3. /\ Tables(names2, codes2, gone2)
      /\ \A op \in ops : Gone(gone2, op) = g
      /\ \A op : op \notin ops => Gone(gone2, op) = Gone(gone, op)
  <2>1. Tables(names, codes, gone) /\ ops \subseteq names
    BY <1>1
  <2> HIDE DEF g, ops
  <2>2. Tables(names2, codes2, gone2)
    BY <2>1, RemoveTables
  <2>3. /\ \A op \in ops : Gone(gone2, op) = g
        /\ \A op : op \notin ops => Gone(gone2, op) = Gone(gone, op)
    BY GoneMarked
  <2> QED BY <2>2, <2>3
<1>4. \A op : Nearest(reg, Chain(reg, g), op)
                = IF op \in reg[g].added \cup reg[g].removed THEN g
                  ELSE Nearest(reg, Chain(reg, reg[g].parent), op)
  BY <1>2, NearestStep DEF Mentions
<1>5. /\ names = OpsOf(reg, reg[g].parent)
      /\ \A op \in Ops \ names : Gone(gone, op) = Nearest(reg, Chain(reg, reg[g].parent), op)
  BY <1>2 DEF Settled, Blamed
<1>6. ASSUME NEW op \in Ops \ names2, op \notin reg[g].added
      PROVE  Gone(gone2, op) = Nearest(reg, Chain(reg, g), op)
  <2>1. CASE op \in ops
    BY <1>3, <1>4, <2>1
  <2>2. CASE op \notin ops
    <3>1. op \in Ops \ names
      BY <1>6, <2>2
    <3>2. Gone(gone2, op) = Gone(gone, op)
      BY <1>3, <2>2
    <3>3. Nearest(reg, Chain(reg, g), op) = Nearest(reg, Chain(reg, reg[g].parent), op)
      BY <1>4, <1>6, <2>2
    <3> QED BY <1>5, <3>1, <3>2, <3>3
  <2> QED BY <2>1, <2>2
<1>7. Halfway(reg, g, names2, gone2)
  BY <1>5, <1>6 DEF Halfway, Kept, Blamed
<1>8. Resolving(reg, f, "add", lin, names2, codes2, gone2)
  <2> HIDE DEF names2, codes2, gone2
  <2> QED BY <1>1, <1>3, <1>7 DEF Resolving
<1> QED BY <1>8 DEF Marked

\* Removing anything else.
LEMMA RemovePanics ==
  ASSUME NEW reg, IsRegistry(reg), NEW f, NEW lin, NEW names, NEW codes, NEW gone,
         Resolving(reg, f, "remove", lin, names, codes, gone),
         \/ ~(reg[lin[Len(lin)]].removed \subseteq names)
         \/ SameCode(reg[lin[Len(lin)]].removed)
  PROVE  ~WellFormed(reg, f)
<1>1. Tables(names, codes, gone) /\ Len(lin) > 0
  BY DEF Resolving
<1>2. Settled(reg, reg[lin[Len(lin)]].parent, names, gone)
  BY <1>1, NextFork
<1>3. ~(reg[lin[Len(lin)]].removed \subseteq names)
  BY <1>1, RemoveTables
<1>4. ~Sane(reg, lin[Len(lin)])
  BY <1>2, <1>3 DEF Settled, Sane
<1> QED BY <1>1, <1>4, Spoiled

\* Adding what is free.
LEMMA Adds ==
  ASSUME NEW reg, IsRegistry(reg), NEW f, NEW lin, NEW names, NEW codes, NEW gone,
         Resolving(reg, f, "add", lin, names, codes, gone),
         reg[lin[Len(lin)]].added \cap names = {}, ~SameCode(reg[lin[Len(lin)]].added),
         CodesOf(reg[lin[Len(lin)]].added) \cap DOMAIN codes = {},
         NEW st, st = IF Len(lin) = 1 THEN "done" ELSE "remove"
  PROVE  LET ops == reg[lin[Len(lin)]].added
         IN  Resolving(reg, f, st, SubSeq(lin, 1, Len(lin) - 1), names \cup ops,
                       Amended(codes, Named(ops)),
                       Without(gone, ops))
<1> DEFINE g == lin[Len(lin)]
           ops == reg[g].added
           lin2 == SubSeq(lin, 1, Len(lin) - 1)
           names2 == names \cup ops
           codes2 == Amended(codes, Named(ops))
           gone2 == Without(gone, ops)
<1>1. /\ Climbed(reg, f, lin) /\ Ends(reg, f) /\ Known(reg, f) /\ SaneFrom(reg, f, Len(lin))
      /\ Tables(names, codes, gone) /\ Len(lin) > 0 /\ Halfway(reg, g, names, gone)
  BY DEF Resolving
<1>2. /\ g \in DOMAIN reg /\ Ends(reg, g) /\ g = Chain(reg, f)[Len(lin) - 1]
      /\ Len(lin) - 1 \in 0..Cardinality(DOMAIN reg)
  BY <1>1, NextFork
<1>3. ops \subseteq Ops
  BY <1>2 DEF IsRegistry, Mentions
<1>4. /\ Tables(names2, codes2, gone2)
      /\ \A op : op \notin ops => Gone(gone2, op) = Gone(gone, op)
      /\ ~SameCode(names2)
  BY <1>1, <1>3, AddTables
<1>5. /\ reg[g].removed \subseteq OpsOf(reg, reg[g].parent)
      /\ names = Kept(reg, g)
      /\ \A op \in Ops \ names : op \notin ops => Gone(gone, op) = Nearest(reg, Chain(reg, g), op)
  BY <1>1 DEF Halfway, Blamed
<1>6. Sane(reg, g)
  <2>1. names2 = reg[g].added \cup Kept(reg, g)
    BY <1>5
  <2> QED BY <1>4, <1>5, <2>1 DEF Sane
<1>7. names2 = OpsOf(reg, g)
  BY <1>2, <1>5, OpsStep DEF Kept
<1>8. Settled(reg, g, names2, gone2)
  <2> HIDE DEF gone2
  <2> QED BY <1>4, <1>5, <1>7 DEF Settled, Blamed
<1>9. /\ Len(lin) \in Nat /\ Len(lin2) = Len(lin) - 1 /\ IsSeq(lin2)
      /\ \A i \in 1..Len(lin2) : lin2[i] = lin[i] /\ i \in 1..Len(lin)
  BY <1>1, SeqType, ButLast DEF Climbed
<1>10. Cardinality(DOMAIN reg) \in Nat
  BY FS_CardinalityType DEF IsRegistry
<1> HIDE DEF g, lin2, names2, codes2, gone2
<1>11. Climbed(reg, f, lin2)
  <2>1. Len(lin2) <= Cardinality(DOMAIN reg)
    BY <1>2, <1>9, <1>10
  <2>2. \A i \in 1..Len(lin) : lin[i] = Chain(reg, f)[i - 1] /\ lin[i] \in DOMAIN reg
    BY <1>1 DEF Climbed
  <2> QED BY <1>9, <2>1, <2>2 DEF Climbed
<1>12. SaneFrom(reg, f, Len(lin2))
  <2> SUFFICES ASSUME NEW n \in Len(lin2)..Cardinality(DOMAIN reg), Chain(reg, f)[n] # NoParent
               PROVE  Sane(reg, Chain(reg, f)[n])
    BY DEF SaneFrom
  <2>1. n = Len(lin) - 1 \/ n \in Len(lin)..Cardinality(DOMAIN reg)
    BY <1>9, <1>10
  <2> QED BY <1>1, <1>2, <1>6, <2>1 DEF SaneFrom
<1>13. Settled(reg, Chain(reg, f)[Len(lin2)], names2, gone2)
  BY <1>2, <1>8, <1>9
<1>14. st # "add" /\ (st = "remove" => Len(lin2) > 0) /\ (st = "done" => Len(lin2) = 0)
  BY <1>1, <1>9
<1>15. Resolving(reg, f, st, lin2, names2, codes2, gone2)
  BY <1>1, <1>4, <1>11, <1>12, <1>13, <1>14 DEF Resolving
<1> QED BY <1>15 DEF g, lin2, names2, codes2, gone2

\* Adding anything else.
LEMMA AddPanics ==
  ASSUME NEW reg, IsRegistry(reg), NEW f, NEW lin, NEW names, NEW codes, NEW gone,
         Resolving(reg, f, "add", lin, names, codes, gone),
         \/ reg[lin[Len(lin)]].added \cap names # {}
         \/ SameCode(reg[lin[Len(lin)]].added)
         \/ CodesOf(reg[lin[Len(lin)]].added) \cap DOMAIN codes # {}
  PROVE  ~WellFormed(reg, f)
<1> DEFINE g == lin[Len(lin)]
           ops == reg[g].added
<1>1. Tables(names, codes, gone) /\ Len(lin) > 0 /\ Halfway(reg, g, names, gone)
  BY DEF Resolving
<1>2. g \in DOMAIN reg
  BY <1>1, NextFork
<1>3. names = Kept(reg, g) /\ names \subseteq Ops /\ DOMAIN codes = CodesOf(names)
  BY <1>1 DEF Halfway, Tables
<1>4. ops \cup names \subseteq Ops
  BY <1>2, <1>3 DEF IsRegistry, Mentions
<1> HIDE DEF g, ops
<1>5. ASSUME ops \cap names = {}, ~SameCode(ops \cup names) PROVE FALSE
  <2>1. \A a, b \in ops \cup names : ~Collide(a, b)
    BY <1>4, <1>5, CodesCollide
  <2>2. ~SameCode(ops)
    BY <1>4, <2>1, CodesCollide
  <2>3. CodesOf(ops) \cap CodesOf(names) = {}
    BY <1>5, <2>1 DEF CodesOf, Collide
  <2> QED BY <1>3, <1>5, <2>2, <2>3 DEF g, ops
<1>6. ~Sane(reg, g)
  BY <1>3, <1>5 DEF Sane, ops
<1> QED BY <1>1, <1>6, Spoiled DEF g

-----------------------------------------------------------------------------
(* The invariant.                                                            *)

FoundIn(reg, name) ==
  IF name \in DOMAIN reg THEN {name} ELSE {f \in DOMAIN reg : name \in reg[f].aliases}

Nothing(names, codes, gone) == names = {} /\ codes = NoOps /\ gone = NoOps

\* Where the resolution of a fork that was found stands.
Underway(reg, f, st, lin, names, codes, gone) ==
  \/ /\ st = "lineage" /\ Climbed(reg, f, lin) /\ Distinct(lin) /\ Len(lin) > 0
     /\ Nothing(names, codes, gone)
  \/ st \in {"remove", "add", "done"} /\ Resolving(reg, f, st, lin, names, codes, gone)
  \/ st = "panic" /\ ~WellFormed(reg, f)

Stage(reg, name, st, lin, names, codes, gone) ==
  \/ st = "find" /\ Nothing(names, codes, gone)
  \/ st = "unknown" /\ FoundIn(reg, name) = {}
  \/ \E f \in FoundIn(reg, name) : Underway(reg, f, st, lin, names, codes, gone)

SetInv ==
  /\ IsRegistry(registry)
  /\ Stage(registry, asked, state, lineage, byName, byCode, opRemoved)

\* A lineage of one fork.
LEMMA FirstFork ==
  ASSUME NEW reg, IsRegistry(reg), NEW f \in DOMAIN reg
  PROVE  Climbed(reg, f, <<f>>) /\ Distinct(<<f>>) /\ Len(<<f>>) > 0
<1>1. <<f>> \in Seq({f}) /\ Len(<<f>>) = 1 /\ <<f>>[1] = f
  OBVIOUS
<1>2. IsSeq(<<f>>)
  BY <1>1 DEF IsSeq
<1>3. Distinct(<<f>>)
  BY <1>1 DEF Distinct
<1>4. Chain(reg, f)[0] = f
  BY ChainEquation DEF IsRegistry
<1>5. \A i \in 1..Len(<<f>>) : <<f>>[i] = f /\ i - 1 = 0
  BY <1>1
<1>6. Len(<<f>>) <= Cardinality(DOMAIN reg)
  BY <1>2, <1>3, <1>5, DistinctFit
<1> QED BY <1>1, <1>2, <1>3, <1>4, <1>5, <1>6 DEF Climbed

\* A lineage with one fork more.
LEMMA NextInLineage ==
  ASSUME NEW reg, IsRegistry(reg), NEW f, NEW lin, Climbed(reg, f, lin), Distinct(lin),
         Len(lin) > 0, NEW p \in DOMAIN reg, p = reg[lin[Len(lin)]].parent,
         \A i \in 1..Len(lin) : lin[i] # p
  PROVE  Climbed(reg, f, Append(lin, p)) /\ Distinct(Append(lin, p)) /\ Len(Append(lin, p)) > 0
<1> DEFINE lin2 == Append(lin, p)
<1>1. /\ IsSeq(lin) /\ Len(lin) \in Nat
      /\ \A i \in 1..Len(lin) : lin[i] = Chain(reg, f)[i - 1] /\ lin[i] \in DOMAIN reg
  BY SeqType DEF Climbed
<1>2. /\ IsSeq(lin2) /\ Len(lin2) = Len(lin) + 1
      /\ \A i \in 1..Len(lin) : lin2[i] = lin[i]
      /\ lin2[Len(lin) + 1] = p
  BY <1>1, AppendSeq
<1>3. Chain(reg, f)[Len(lin)] = p
  BY NextAbove
<1> HIDE DEF lin2
<1>4. \A i \in 1..Len(lin2) : i \in 1..Len(lin) \/ i = Len(lin) + 1
  BY <1>1, <1>2
<1>5. \A i \in 1..Len(lin2) : lin2[i] = Chain(reg, f)[i - 1] /\ lin2[i] \in DOMAIN reg
  <2> SUFFICES ASSUME NEW i \in 1..Len(lin2)
               PROVE  lin2[i] = Chain(reg, f)[i - 1] /\ lin2[i] \in DOMAIN reg
    OBVIOUS
  <2>1. CASE i \in 1..Len(lin)
    BY <1>1, <1>2, <2>1
  <2>2. CASE i = Len(lin) + 1
    <3>1. i - 1 = Len(lin)
      BY <1>1, <2>2
    <3> QED BY <1>2, <1>3, <2>2, <3>1
  <2> QED BY <1>4, <2>1, <2>2
<1>6. Distinct(lin2)
  BY <1>2, <1>4 DEF Distinct
<1>7. Len(lin2) <= Cardinality(DOMAIN reg)
  BY <1>2, <1>5, <1>6, DistinctFit
<1>8. Len(lin2) > 0
  BY <1>1, <1>2
<1> QED BY <1>2, <1>5, <1>6, <1>7, <1>8 DEF Climbed, lin2

\* A fork that is found is in the table.
LEMMA FoundThere ==
  ASSUME NEW reg, NEW name
  PROVE  FoundIn(reg, name) \subseteq DOMAIN reg
BY DEF FoundIn

\* The search for the name.
LEMMA FindStep ==
  ASSUME SetInv, Find
  PROVE  SetInv'
<1>1. /\ IsRegistry(registry) /\ registry' = registry /\ asked' = asked
      /\ byName' = byName /\ byCode' = byCode /\ opRemoved' = opRemoved
      /\ state = "find"
  BY DEF SetInv, Find
<1>2. Nothing(byName, byCode, opRemoved)
  BY <1>1 DEF SetInv, Stage, Underway
<1>3. Found = FoundIn(registry, asked)
  BY DEF Found, FoundIn
<1>4. CASE Found = {} /\ state' = "unknown"
  BY <1>1, <1>3, <1>4 DEF SetInv, Stage
<1>5. CASE \E def \in Found : state' = "lineage" /\ lineage' = <<def>>
  <2>1. PICK f \in FoundIn(registry, asked) : state' = "lineage" /\ lineage' = <<f>>
    BY <1>3, <1>5
  <2>2. Climbed(registry, f, <<f>>) /\ Distinct(<<f>>) /\ Len(<<f>>) > 0
    BY <1>1, FirstFork, FoundThere
  <2>3. Underway(registry, f, state', lineage', byName, byCode, opRemoved)
    BY <1>2, <2>1, <2>2 DEF Underway
  <2>4. Stage(registry, asked, state', lineage', byName, byCode, opRemoved)
    BY <2>3 DEF Stage
  <2> QED BY <1>1, <2>4 DEF SetInv
<1> QED BY <1>4, <1>5 DEF Find

\* A step of the resolution of the fork that was found.
LEMMA UnderwayStep ==
  ASSUME IsRegistry(registry), registry' = registry, asked' = asked,
         NEW f \in FoundIn(registry, asked),
         Underway(registry, f, state', lineage', byName', byCode', opRemoved')
  PROVE  SetInv'
<1>1. Stage(registry, asked, state', lineage', byName', byCode', opRemoved')
  BY DEF Stage
<1> QED BY <1>1 DEF SetInv

\* One generation up.
LEMMA AscendStep ==
  ASSUME SetInv, Ascend
  PROVE  SetInv'
<1> DEFINE parent == registry[lineage[Len(lineage)]].parent
<1>1. /\ IsRegistry(registry) /\ registry' = registry /\ asked' = asked
      /\ byName' = byName /\ byCode' = byCode /\ opRemoved' = opRemoved
      /\ state = "lineage"
  BY DEF SetInv, Ascend
<1>2. PICK f \in FoundIn(registry, asked) :
        /\ Climbed(registry, f, lineage) /\ Distinct(lineage) /\ Len(lineage) > 0
        /\ Nothing(byName, byCode, opRemoved)
  BY <1>1 DEF SetInv, Stage, Underway
<1>3. /\ IsSeq(lineage)
      /\ DOMAIN lineage = 1..Len(lineage) /\ lineage[Len(lineage)] \in DOMAIN registry
  BY <1>1, <1>2, SeqType, NextAbove DEF Climbed
<1>4. Visited = {lineage[i] : i \in 1..Len(lineage)}
  BY <1>3 DEF Visited
<1>5. CASE parent = NoParent /\ state' = "remove" /\ lineage' = lineage
  <2>1. Resolving(registry, f, "remove", lineage, {}, NoOps, NoOps)
    BY <1>1, <1>2, <1>5, AtTheTop
  <2>2. Underway(registry, f, state', lineage', byName', byCode', opRemoved')
    BY <1>1, <1>2, <1>5, <2>1 DEF Nothing, Underway
  <2> QED BY <1>1, <2>2, UnderwayStep
<1>6. CASE parent # NoParent /\ parent \notin DOMAIN registry \ Visited /\ state' = "panic"
  <2>1. ~WellFormed(registry, f)
    <3>1. parent \notin DOMAIN registry => ~WellFormed(registry, f)
      BY <1>1, <1>2, <1>6, UnknownParent, WellFormedMeans
    <3>2. ASSUME parent \in Visited PROVE ~WellFormed(registry, f)
      <4>1. PICK k \in 1..Len(lineage) : parent = lineage[k]
        BY <1>4, <3>2
      <4>2. Above(registry, lineage[Len(lineage)]) = lineage[k]
        BY <1>3, <4>1 DEF Above
      <4>3. ~Ends(registry, f)
        BY <1>1, <1>2, <4>2, CycleNeverEnds
      <4> QED BY <1>1, <4>3, WellFormedMeans
    <3> QED BY <1>6, <3>1, <3>2
  <2>2. Underway(registry, f, state', lineage', byName', byCode', opRemoved')
    BY <1>6, <2>1 DEF Underway
  <2> QED BY <1>1, <2>2, UnderwayStep
<1>7. CASE /\ parent \in DOMAIN registry \ Visited
           /\ lineage' = Append(lineage, parent) /\ state' = state
  <2>1. \A i \in 1..Len(lineage) : lineage[i] # parent
    BY <1>4, <1>7
  <2>2. Climbed(registry, f, lineage') /\ Distinct(lineage') /\ Len(lineage') > 0
    BY <1>1, <1>2, <1>7, <2>1, NextInLineage
  <2>3. Underway(registry, f, state', lineage', byName', byCode', opRemoved')
    BY <1>1, <1>2, <1>7, <2>2 DEF Underway, Nothing
  <2> QED BY <1>1, <2>3, UnderwayStep
<1> QED BY <1>5, <1>6, <1>7 DEF Ascend

\* The removals of a fork.
LEMMA RemoveStep ==
  ASSUME SetInv, Remove
  PROVE  SetInv'
<1>1. /\ IsRegistry(registry) /\ registry' = registry /\ asked' = asked /\ lineage' = lineage
      /\ state = "remove"
  BY DEF SetInv, Remove
<1>2. PICK f \in FoundIn(registry, asked) :
        Resolving(registry, f, "remove", lineage, byName, byCode, opRemoved)
  BY <1>1 DEF SetInv, Stage, Underway
<1>3. CASE Def.removed \subseteq byName /\ ~SameCode(Def.removed)
  <2>1. /\ state' = "add"
        /\ byName' = byName \ Def.removed
        /\ byCode' = Without(byCode, CodesOf(Def.removed))
        /\ opRemoved' = Amended(opRemoved, [op \in Def.removed |-> lineage[Len(lineage)]])
    BY <1>3 DEF Remove
  <2>2. Resolving(registry, f, state', lineage', byName', byCode', opRemoved')
    BY <1>1, <1>2, <1>3, <2>1, Removes DEF Def
  <2>3. Underway(registry, f, state', lineage', byName', byCode', opRemoved')
    BY <2>1, <2>2 DEF Underway
  <2> QED BY <1>1, <2>3, UnderwayStep
<1>4. CASE ~(Def.removed \subseteq byName /\ ~SameCode(Def.removed))
  <2>1. state' = "panic"
    BY <1>4 DEF Remove
  <2>2. ~WellFormed(registry, f)
    BY <1>1, <1>2, <1>4, RemovePanics DEF Def
  <2>3. Underway(registry, f, state', lineage', byName', byCode', opRemoved')
    BY <2>1, <2>2 DEF Underway
  <2> QED BY <1>1, <2>3, UnderwayStep
<1> QED BY <1>3, <1>4

\* The additions of a fork.
LEMMA AddStep ==
  ASSUME SetInv, Add
  PROVE  SetInv'
<1> DEFINE free == /\ Def.added \cap byName = {} /\ ~SameCode(Def.added)
                   /\ CodesOf(Def.added) \cap DOMAIN byCode = {}
<1>1. IsRegistry(registry) /\ registry' = registry /\ asked' = asked /\ state = "add"
  BY DEF SetInv, Add
<1>2. PICK f \in FoundIn(registry, asked) :
        Resolving(registry, f, "add", lineage, byName, byCode, opRemoved)
  BY <1>1 DEF SetInv, Stage, Underway
<1>3. CASE free
  <2>1. /\ byName' = byName \cup Def.added
        /\ byCode' = Amended(byCode, Named(Def.added))
        /\ opRemoved' = Without(opRemoved, Def.added)
        /\ lineage' = SubSeq(lineage, 1, Len(lineage) - 1)
        /\ state' = IF Len(lineage) = 1 THEN "done" ELSE "remove"
    BY <1>3 DEF Add
  <2>2. Resolving(registry, f, state', lineage', byName', byCode', opRemoved')
    BY <1>1, <1>2, <1>3, <2>1, Adds DEF Def
  <2>3. state' \in {"remove", "done"}
    BY <2>1
  <2>4. Underway(registry, f, state', lineage', byName', byCode', opRemoved')
    BY <2>2, <2>3 DEF Underway
  <2> QED BY <1>1, <2>4, UnderwayStep
<1>4. CASE ~free
  <2>1. state' = "panic"
    BY <1>4 DEF Add
  <2>2. ~WellFormed(registry, f)
    BY <1>1, <1>2, <1>4, AddPanics DEF Def
  <2>3. Underway(registry, f, state', lineage', byName', byCode', opRemoved')
    BY <2>1, <2>2 DEF Underway
  <2> QED BY <1>1, <2>3, UnderwayStep
<1> QED BY <1>3, <1>4

\* What is asked for at the end of a resolution.
LEMMA DoneIsExact ==
  ASSUME NEW reg, IsRegistry(reg), NEW f \in DOMAIN reg, NEW lin, NEW names, NEW codes, NEW gone,
         Resolving(reg, f, "done", lin, names, codes, gone)
  PROVE  /\ WellFormed(reg, f)
         /\ names = OpsOf(reg, f)
         /\ Tables(names, codes, gone)
         /\ \A op \in Ops \ names : Gone(gone, op) = Nearest(reg, Chain(reg, f), op)
<1>1. /\ Ends(reg, f) /\ Known(reg, f) /\ SaneFrom(reg, f, 0)
      /\ Tables(names, codes, gone) /\ Settled(reg, Chain(reg, f)[0], names, gone)
  BY DEF Resolving
<1>2. Chain(reg, f)[0] = f
  BY ChainEquation DEF IsRegistry
<1>3. WellFormed(reg, f)
  BY <1>1, WellFormedMeans DEF SaneFrom
<1> QED BY <1>1, <1>2, <1>3 DEF Settled, Blamed

\* The invariant says what SetIsExact does.
LEMMA InvIsExact == SetInv => SetIsExact
<1> SUFFICES ASSUME SetInv PROVE SetIsExact
  OBVIOUS
<1>1. IsRegistry(registry) /\ Found = FoundIn(registry, asked)
  BY DEF SetInv, Found, FoundIn
<1>2. CASE state = "done"
  <2>1. PICK f \in FoundIn(registry, asked) :
          Resolving(registry, f, "done", lineage, byName, byCode, opRemoved)
    BY <1>2 DEF SetInv, Stage, Underway
  <2>2. /\ f \in DOMAIN registry
        /\ f = asked \/ (asked \notin DOMAIN registry /\ asked \in registry[f].aliases)
    BY DEF FoundIn
  <2>3. /\ WellFormed(registry, f)
        /\ byName = OpsOf(registry, f)
        /\ Tables(byName, byCode, opRemoved)
        /\ \A op \in Ops \ byName :
             Gone(opRemoved, op) = Nearest(registry, Chain(registry, f), op)
    BY <1>1, <2>1, <2>2, DoneIsExact
  <2>4. /\ DOMAIN byCode = CodesOf(byName)
        /\ \A c \in DOMAIN byCode : byCode[c] \in byName /\ Code[byCode[c]] = c
        /\ DOMAIN opRemoved \cap byName = {}
    BY <2>3 DEF Tables
  <2>5. \A op : ForkWhereOpRemoved(op) = Gone(opRemoved, op)
    BY DEF ForkWhereOpRemoved, Gone
  <2> QED BY <1>2, <2>2, <2>3, <2>4, <2>5 DEF SetIsExact
<1>3. CASE state = "panic"
  <2>1. PICK f \in FoundIn(registry, asked) : ~WellFormed(registry, f)
    BY <1>3 DEF SetInv, Stage, Underway
  <2>2. registry # Forks
    BY <2>1, ForksAssumption, FoundThere
  <2> QED BY <1>1, <1>3, <2>1, <2>2 DEF SetIsExact
<1>4. CASE state = "unknown"
  <2>1. FoundIn(registry, asked) = {}
    BY <1>4 DEF SetInv, Stage, Underway
  <2>2. \A f \in DOMAIN registry : asked # f /\ asked \notin registry[f].aliases
    BY <2>1 DEF FoundIn
  <2> QED BY <1>4, <2>2 DEF SetIsExact
<1>5. CASE state \notin {"done", "panic", "unknown"}
  BY <1>5 DEF SetIsExact
<1> QED BY <1>2, <1>3, <1>4, <1>5

\* FindInstructionSet, for every table of finitely many forks (the shipped one is one)
\* and every name: a resolved set has what the nearest mention of each operation along
\* the chain decides, its two tables agree, what is known as removed was removed last by
\* the fork that is named, and it panics only for chains that make no sense.
THEOREM SetTheorem ==
  ASSUME NEW CONSTANT Requests, \A r \in Requests : IsRegistry(r[1])
  PROVE  SetInit(Requests) /\ [][SetNext]_setVars => []SetIsExact
<1>1. SetInit(Requests) => SetInv
  <2> SUFFICES ASSUME SetInit(Requests) PROVE SetInv
    OBVIOUS
  <2>1. IsRegistry(registry) /\ state = "find"
    BY DEF SetInit
  <2>2. Nothing(byName, byCode, opRemoved)
    BY DEF SetInit, Nothing
  <2> QED BY <2>1, <2>2 DEF SetInv, Stage
<1>2. SetInv /\ [SetNext]_setVars => SetInv'
  <2> SUFFICES ASSUME SetInv, [SetNext]_setVars PROVE SetInv'
    OBVIOUS
  <2>1. CASE UNCHANGED setVars
    BY <2>1 DEF setVars, SetInv
  <2> QED BY <2>1, FindStep, AscendStep, RemoveStep, AddStep DEF SetNext
<1> QED BY <1>1, <1>2, InvIsExact, PTL

-----------------------------------------------------------------------------
(* What a statement is assembled to.                                         *)

\* The definitions of module Disassembler, with the fork as a parameter.
DataSizeFor(fork, s) ==
  IF s.op # "PUSH" THEN PushSize(s.op)
  ELSE IF Len(s.arg) = 0 /\ "PUSH0" \notin DOMAIN ByName[fork] THEN 1 ELSE Len(s.arg)

ResolvedFor(fork, s) == IF s.op = "PUSH" THEN PushOp(DataSizeFor(fork, s)) ELSE s.op

EncodedFor(fork, s) ==
  CASE s.op = "#bytes"    -> s.arg
    [] s.op = "label"     -> <<>>
    [] IsPush(s.op)       -> <<Code[ResolvedFor(fork, s)]>> \o Pad(s.arg, DataSizeFor(fork, s))
    [] HasImmediate(s.op) -> <<Code[s.op], EncodeImmediateArgs(s.op, s.arg)>>
    [] OTHER              -> <<Code[s.op]>>

AcceptedBy(fork, s) ==
  \/ s.op \in {"#bytes", "label", "PUSH"}
  \/ s.op \in DOMAIN ByName[fork] /\ (HasImmediate(s.op) => ArgsOK(s.op, s.arg))

\* Data are bytes, those of a push fit in it, arguments in brackets are numbers, and what
\* is neither has none.
IsStatement(s) ==
  /\ IsSeq(s.arg)
  /\ s.op = "PUSH" => Len(s.arg) <= 32
  /\ Push(s.op) => Len(s.arg) <= PushSize(s.op)
  /\ IsPush(s.op) \/ s.op = "#bytes" => \A k \in 1..Len(s.arg) : s.arg[k] \in Bytes
  /\ HasImmediate(s.op) => \A k \in DOMAIN s.arg : s.arg[k] \in Int
  /\ IsPush(s.op) \/ s.op = "#bytes" \/ HasImmediate(s.op) \/ s.arg = <<>>

\* These are the definitions of module Disassembler.
LEMMA SameDefinitions ==
  /\ \A s : Encoded(s) = EncodedFor(job.fork, s)
  /\ \A s : Resolved(s) = ResolvedFor(job.fork, s)
  /\ \A s : Accepted(s) <=> AcceptedBy(job.fork, s)
<1>1. \A s : DataSize(s) = DataSizeFor(job.fork, s)
  BY DEF DataSize, DataSizeFor, Defined
<1>2. \A s : Resolved(s) = ResolvedFor(job.fork, s)
  BY <1>1 DEF Resolved, ResolvedFor
<1>3. \A s : Encoded(s) = EncodedFor(job.fork, s)
  BY <1>1, <1>2 DEF Encoded, EncodedFor
<1>4. \A s : Accepted(s) <=> AcceptedBy(job.fork, s)
  BY DEF Accepted, AcceptedBy, Defined
<1> QED BY <1>2, <1>3, <1>4

\* Pushes and operations with immediates have names of their own.
LEMMA OpNames ==
  /\ \A op \in DOMAIN Pushes : op \notin {"PUSH", "#bytes", "label"} /\ ~HasImmediate(op)
  /\ \A op \in DOMAIN Pushes : PushSize(op) \in Nat
  /\ \A op \in DOMAIN Immediate :
       /\ op \in {"DUPN", "SWAPN", "EXCHANGE"} /\ op \notin {"PUSH", "#bytes", "label"}
       /\ ~Push(op)
<1>1. ASSUME NEW op \in DOMAIN Pushes
      PROVE  op \notin {"PUSH", "#bytes", "label", "DUPN", "SWAPN", "EXCHANGE"}
  BY CodesAssumption
<1>2. \A op \in DOMAIN Immediate :
        op \in {"DUPN", "SWAPN", "EXCHANGE"} /\ op \notin {"PUSH", "#bytes", "label"}
  BY CodesAssumption
<1>3. \A op \in DOMAIN Immediate : ~Push(op)
  BY <1>1, <1>2 DEF Push
<1>4. \A op \in DOMAIN Pushes : ~HasImmediate(op)
  BY <1>1, <1>2 DEF HasImmediate
<1>5. \A op \in DOMAIN Pushes : PushSize(op) \in Nat
  <2>1. \A op \in DOMAIN Pushes : PushSize(op) \in 0..32
    BY CodesAssumption
  <2>2. \A n \in 0..32 : n \in Nat
    OBVIOUS
  <2> QED BY <2>1, <2>2
<1> QED BY <1>1, <1>2, <1>3, <1>4, <1>5

\* The code of a push has its size in it.
LEMMA PushNumber ==
  \A n \in 0..32 :
    /\ PushOp(n) \in DOMAIN Pushes /\ Code[PushOp(n)] = 95 + n /\ PushSize(PushOp(n)) = n
<1>1. \A n \in 0..32 : PushOp(n) \in DOMAIN Pushes /\ Code[PushOp(n)] = 95 + n
  BY CodesAssumption
<1>2. "PUSH0" = PushOp(0) /\ 0 \in 0..32
  BY CodesAssumption
<1>3. Code["PUSH0"] = 95
  <2>1. Code[PushOp(0)] = 95 + 0
    BY <1>1, <1>2
  <2> QED BY <1>2, <2>1
<1>4. ASSUME NEW n \in 0..32 PROVE PushSize(PushOp(n)) = n
  <2>1. Code[PushOp(n)] = 95 + n
    BY <1>1
  <2>2. PushSize(PushOp(n)) = (95 + n) - 95
    BY <1>3, <2>1 DEF PushSize
  <2> QED BY <2>2
<1> QED BY <1>1, <1>4

\* The code of one push.
LEMMA PushCodeOf ==
  ASSUME NEW n \in 0..32
  PROVE  PushOp(n) \in DOMAIN Pushes /\ Code[PushOp(n)] = 95 + n
BY PushNumber

\* Two sequences joined.
LEMMA Joined ==
  ASSUME NEW s, IsSeq(s), NEW r, IsSeq(r)
  PROVE  /\ IsSeq(s \o r) /\ Len(s \o r) = Len(s) + Len(r)
         /\ \A i \in 1..Len(s) : (s \o r)[i] = s[i]
         /\ \A i \in 1..Len(r) : (s \o r)[Len(s) + i] = r[i]
<1>1. PICK S : s \in Seq(S)
  BY DEF IsSeq
<1>2. PICK R : r \in Seq(R)
  BY DEF IsSeq
<1> DEFINE T == S \cup R
<1>3. s \in Seq(T) /\ r \in Seq(T)
  BY <1>1, <1>2
<1>4. s \o r \in Seq(T)
  BY <1>3
<1> QED BY <1>3, <1>4 DEF IsSeq

\* Data with zeros before it.
LEMMA Padded ==
  ASSUME NEW data, IsSeq(data), NEW size \in Nat, Len(data) <= size
  PROVE  IsSeq(Pad(data, size)) /\ Len(Pad(data, size)) = size
<1> DEFINE zeros == [i \in 1..size - Len(data) |-> 0]
<1>1. Len(data) \in Nat /\ size - Len(data) \in Nat
  BY SeqType
<1>2. zeros \in Seq({0}) /\ Len(zeros) = size - Len(data)
  BY <1>1
<1>3. IsSeq(zeros)
  BY <1>2 DEF IsSeq
<1> HIDE DEF zeros
<1>4. IsSeq(zeros \o data) /\ Len(zeros \o data) = Len(zeros) + Len(data)
  BY <1>3, Joined
<1> QED BY <1>1, <1>2, <1>4 DEF Pad, zeros

\* The operations of a fork are operations.
LEMMA ForkOps ==
  ASSUME NEW fork \in DOMAIN Forks
  PROVE  DOMAIN ByName[fork] \subseteq Ops
BY ByNameAssumption DEF OpsOf

\* How many bytes on the machine goes that finds the byte.
Advance(b) == IF b \in 96..127 THEN b - 94 ELSE 1

\* The first byte tells a JUMPDEST, and where the instruction ends: the machine either
\* skips all of it, or sees in its immediate an operation of one byte that is none that
\* matters.
Scannable(e, op) ==
  /\ IsSeq(e) /\ Len(e) > 0
  /\ e[1] = 91 <=> op = "JUMPDEST"
  /\ \/ Advance(e[1]) = Len(e)
     \/ Len(e) = 2 /\ Advance(e[1]) = 1 /\ Advance(e[2]) = 1 /\ e[2] # 91

\* A push.
LEMMA PushScannable ==
  ASSUME NEW fork \in DOMAIN Forks, NEW s, IsStatement(s), AcceptedBy(fork, s), IsPush(s.op)
  PROVE  /\ Scannable(EncodedFor(fork, s), s.op)
         /\ ResolvedFor(fork, s) \in DOMAIN Pushes
<1> DEFINE size == DataSizeFor(fork, s)
           e == EncodedFor(fork, s)
<1>1. /\ s.op # "JUMPDEST" /\ s.op \notin {"#bytes", "label"}
      /\ size \in 0..32 /\ IsSeq(s.arg) /\ Len(s.arg) <= size
      /\ ResolvedFor(fork, s) = PushOp(size)
  <2>1. CASE s.op = "PUSH"
    <3>1. IsSeq(s.arg) /\ Len(s.arg) \in 0..32
      <4>1. IsSeq(s.arg) /\ Len(s.arg) <= 32
        BY <2>1 DEF IsStatement
      <4>2. Len(s.arg) \in Nat
        BY <4>1, SeqType
      <4> DEFINE n == Len(s.arg)
      <4>3. n \in Nat /\ n <= 32
        BY <4>1, <4>2
      <4> HIDE DEF n
      <4>4. n \in 0..32
        BY <4>3
      <4> QED BY <4>1, <4>4 DEF n
    <3>2. size = IF Len(s.arg) = 0 /\ "PUSH0" \notin DOMAIN ByName[fork] THEN 1 ELSE Len(s.arg)
      BY <2>1 DEF DataSizeFor
    <3> HIDE DEF size
    <3>3. size \in 0..32 /\ Len(s.arg) <= size
      BY <3>1, <3>2
    <3> QED BY <2>1, <3>1, <3>3 DEF ResolvedFor, size
  <2>2. CASE s.op # "PUSH"
    <3>1. Push(s.op) /\ s.op \in DOMAIN Pushes
      BY <2>2 DEF IsPush, Push
    <3>2. size = PushSize(s.op) /\ ResolvedFor(fork, s) = s.op
      BY <2>2 DEF DataSizeFor, ResolvedFor
    <3>3. s.op = PushOp(PushSize(s.op)) /\ PushSize(s.op) \in 0..32
      BY <3>1, CodesAssumption
    <3>4. IsSeq(s.arg) /\ Len(s.arg) <= PushSize(s.op)
      BY <3>1 DEF IsStatement
    <3>5. s.op \notin {"JUMPDEST", "label", "#bytes"}
      BY <3>1, CodesAssumption
    <3> QED BY <3>2, <3>3, <3>4, <3>5
  <2> QED BY <2>1, <2>2
<1>2. e = <<Code[PushOp(size)]>> \o Pad(s.arg, size)
  <2>1. ~HasImmediate(s.op)
    BY CodesAssumption DEF HasImmediate, IsPush, Push
  <2> HIDE DEF size
  <2> QED BY <1>1, <2>1 DEF EncodedFor, size
<1> HIDE DEF size, e
<1>3. PushOp(size) \in DOMAIN Pushes /\ Code[PushOp(size)] = 95 + size
  BY <1>1, PushCodeOf
<1>4. IsSeq(Pad(s.arg, size)) /\ Len(Pad(s.arg, size)) = size
  BY <1>1, Padded
<1>5. /\ <<95 + size>> \in Seq(Int) /\ Len(<<95 + size>>) = 1
      /\ <<95 + size>>[1] = 95 + size
  BY <1>1
<1>6. IsSeq(<<95 + size>>)
  BY <1>5 DEF IsSeq
<1>7. IsSeq(e) /\ Len(e) = 1 + size /\ e[1] = 95 + size
  <2> DEFINE h == <<95 + size>>
             r == Pad(s.arg, size)
  <2>1. e = h \o r
    BY <1>2, <1>3
  <2>2. IsSeq(h) /\ Len(h) = 1 /\ h[1] = 95 + size /\ IsSeq(r) /\ Len(r) = size
    BY <1>4, <1>5, <1>6
  <2> HIDE DEF h, r
  <2>0. IsSeq(h) /\ IsSeq(r)
    BY <2>2
  <2>3. IsSeq(h \o r) /\ Len(h \o r) = Len(h) + Len(r)
    BY <2>0, Joined
  <2>4. \A i \in 1..Len(h) : (h \o r)[i] = h[i]
    BY <2>0, Joined
  <2>5. 1 \in 1..Len(h)
    BY <2>2
  <2> QED BY <2>1, <2>2, <2>3, <2>4, <2>5
<1>8. Scannable(e, s.op)
  BY <1>1, <1>7 DEF Scannable, Advance
<1> QED BY <1>1, <1>3, <1>8 DEF e

\* An operation with an immediate.
LEMMA ImmediateScannable ==
  ASSUME NEW fork \in DOMAIN Forks, NEW s, IsStatement(s), AcceptedBy(fork, s), HasImmediate(s.op)
  PROVE  Scannable(EncodedFor(fork, s), s.op)
<1> DEFINE x == EncodeImmediateArgs(s.op, s.arg)
           e == EncodedFor(fork, s)
<1>1. s.op \in {"DUPN", "SWAPN", "EXCHANGE"} /\ s.op \in Ops
  BY CodesAssumption DEF HasImmediate
<1>2. s.op \notin DOMAIN Pushes /\ ~IsPush(s.op)
  BY <1>1, CodesAssumption DEF IsPush, Push
<1>3. e = <<Code[s.op], x>>
  BY <1>1, <1>2 DEF EncodedFor
<1>4. x \in Bytes \ Gap
  <2>1. ArgsOK(s.op, s.arg) /\ IsSeq(s.arg) /\ \A k \in DOMAIN s.arg : s.arg[k] \in Int
    BY <1>1 DEF AcceptedBy, IsStatement
  <2>2. DOMAIN s.arg = 1..Len(s.arg)
    BY <2>1, SeqType
  <2>3. CASE s.op = "EXCHANGE"
    <3>1. Len(s.arg) = 2 /\ PairOK(s.arg[1], s.arg[2])
      BY <2>1, <2>3 DEF ArgsOK
    <3>2. s.arg[1] \in Int /\ s.arg[2] \in Int
      BY <2>1, <2>2, <3>1
    <3> QED BY <2>3, <3>1, <3>2, PairSurvives DEF EncodeImmediateArgs
  <2>4. CASE s.op # "EXCHANGE"
    <3>1. Len(s.arg) = 1 /\ DepthOK(s.arg[1])
      BY <2>1, <2>4 DEF ArgsOK
    <3>2. s.arg[1] \in Int
      BY <2>1, <2>2, <3>1
    <3> QED BY <2>4, <3>1, <3>2, DepthSurvives DEF EncodeImmediateArgs
  <2> QED BY <2>3, <2>4
<1>5. Code[s.op] \in (0..255) \ (95..127) /\ Code[s.op] # 91
  <2>1. Code[s.op] = 91 <=> s.op = "JUMPDEST"
    BY <1>1, CodesAssumption
  <2> QED BY <1>1, <1>2, <2>1, CodesAssumption
<1> HIDE DEF x, e
<1>6. e \in Seq(Int) /\ Len(e) = 2 /\ e[1] = Code[s.op] /\ e[2] = x
  BY <1>3, <1>4, <1>5 DEF Bytes
<1>7. IsSeq(e)
  BY <1>6 DEF IsSeq
<1>8. Advance(e[1]) = 1 /\ Advance(e[2]) = 1 /\ e[2] # 91 /\ e[1] # 91
  BY <1>4, <1>5, <1>6 DEF Advance, Bytes, Gap
<1>9. s.op # "JUMPDEST"
  BY <1>1
<1> QED BY <1>6, <1>7, <1>8, <1>9 DEF Scannable, e

\* Any instruction.
LEMMA InstructionScannable ==
  ASSUME NEW fork \in DOMAIN Forks, NEW s, IsStatement(s), AcceptedBy(fork, s), ~NoCode(s)
  PROVE  Scannable(EncodedFor(fork, s), s.op)
<1>1. CASE IsPush(s.op)
  BY <1>1, PushScannable
<1>2. CASE ~IsPush(s.op) /\ HasImmediate(s.op)
  BY <1>2, ImmediateScannable
<1>3. CASE ~IsPush(s.op) /\ ~HasImmediate(s.op)
  <2> DEFINE e == EncodedFor(fork, s)
  <2>1. s.op \in Ops \ DOMAIN Pushes
    BY <1>3, ForkOps DEF AcceptedBy, NoCode, IsPush, Push
  <2>2. e = <<Code[s.op]>>
    BY <1>3 DEF EncodedFor, NoCode
  <2>3. Code[s.op] \in (0..255) \ (95..127) /\ (Code[s.op] = 91 <=> s.op = "JUMPDEST")
    BY <2>1, CodesAssumption
  <2> HIDE DEF e
  <2>4. e \in Seq(Int) /\ Len(e) = 1 /\ e[1] = Code[s.op]
    BY <2>2, <2>3
  <2>5. IsSeq(e)
    BY <2>4 DEF IsSeq
  <2>6. Advance(e[1]) = 1
    BY <2>3, <2>4 DEF Advance
  <2> QED BY <2>3, <2>4, <2>5, <2>6 DEF Scannable, e
<1> QED BY <1>1, <1>2, <1>3

\* Any statement is assembled to a sequence of bytes.
LEMMA EncodedIsSeq ==
  ASSUME NEW fork \in DOMAIN Forks, NEW s, IsStatement(s), AcceptedBy(fork, s)
  PROVE  /\ IsSeq(EncodedFor(fork, s)) /\ Len(EncodedFor(fork, s)) \in Nat
         /\ s.op = "label" => Len(EncodedFor(fork, s)) = 0
<1>1. CASE ~NoCode(s)
  <2>1. IsSeq(EncodedFor(fork, s)) /\ s.op # "label"
    BY <1>1, InstructionScannable DEF Scannable, NoCode
  <2> QED BY <2>1, SeqType
<1>2. CASE s.op = "#bytes"
  <2>1. ~IsPush(s.op) /\ ~HasImmediate(s.op)
    BY <1>2, CodesAssumption DEF IsPush, Push, HasImmediate
  <2>2. EncodedFor(fork, s) = s.arg
    BY <1>2, <2>1 DEF EncodedFor
  <2> QED BY <1>2, <2>2, SeqType DEF IsStatement
<1>3. CASE s.op = "label"
  <2>1. ~IsPush(s.op) /\ ~HasImmediate(s.op)
    BY <1>3, CodesAssumption DEF IsPush, Push, HasImmediate
  <2>2. EncodedFor(fork, s) = <<>>
    BY <1>3, <2>1 DEF EncodedFor
  <2>3. <<>> \in Seq({}) /\ Len(<<>>) = 0
    OBVIOUS
  <2> QED BY <2>2, <2>3 DEF IsSeq
<1> QED BY <1>1, <1>2, <1>3 DEF NoCode

-----------------------------------------------------------------------------
(* Where the statements are in the output.                                   *)

IsJob(j) ==
  /\ j.fork \in DOMAIN Forks /\ IsSeq(j.program)
  /\ \A i \in 1..Len(j.program) : IsStatement(j.program[i])

AllAccepted(j) == \A i \in 1..Len(j.program) : AcceptedBy(j.fork, j.program[i])

Coded(j, i) == EncodedFor(j.fork, j.program[i])

\* Programs like those the runs assemble are programs the proofs are about.
LEMMA InputsAreJobs ==
  ASSUME NEW j, IsInput(j)
  PROVE  IsJob(j)
<1>1. DOMAIN j.program = 1..Len(j.program) /\ IsSeq(j.program) /\ j.fork \in DOMAIN Forks
  <2>1. j.program \in Seq({j.program[i] : i \in DOMAIN j.program}) /\ j.fork \in DOMAIN Forks
    BY DEF IsInput
  <2>2. IsSeq(j.program)
    BY <2>1 DEF IsSeq
  <2> QED BY <2>1, <2>2, SeqType
<1>2. ASSUME NEW i \in 1..Len(j.program) PROVE IsStatement(j.program[i])
  <2> DEFINE st == j.program[i]
  <2>1. Fits(st)
    BY <1>1 DEF IsInput
  <2> HIDE DEF st
  <2>2. st.arg \in Seq(Int)
    BY <2>1 DEF Fits
  <2>3. IsSeq(st.arg) /\ \A k \in 1..Len(st.arg) : st.arg[k] \in Int
    BY <2>2 DEF IsSeq
  <2>4. DOMAIN st.arg = 1..Len(st.arg)
    BY <2>2
  <2>5. ASSUME IsPush(st.op) \/ st.op = "#bytes" PROVE \A k \in 1..Len(st.arg) : st.arg[k] \in Bytes
    <3>1. st.arg \in Seq(Bytes)
      BY <2>1, <2>5 DEF Fits, IsPush
    <3> QED BY <3>1
  <2>6. /\ st.op = "PUSH" => Len(st.arg) <= 32
        /\ Push(st.op) => Len(st.arg) <= PushSize(st.op)
        /\ IsPush(st.op) \/ st.op = "#bytes" \/ HasImmediate(st.op) \/ st.arg = <<>>
    BY <2>1 DEF Fits, IsPush
  <2>7. IsStatement(st)
    BY <2>3, <2>4, <2>5, <2>6 DEF IsStatement
  <2> QED BY <2>7 DEF st
<1> QED BY <1>1, <1>2 DEF IsJob

\* The offsets o of the statements before n, and of what follows them, in the output c.
Offsets(j, n, c, o) ==
  /\ o[1] = 1 /\ o[n] = Len(c) + 1
  /\ \A i \in 1..n : o[i] \in Nat /\ o[i] > 0 /\ o[i] <= Len(c) + 1
  /\ \A i \in 1..n - 1 : o[i + 1] = o[i] + Len(Coded(j, i))
  /\ \A i \in 1..n - 1 : \A k \in 1..Len(Coded(j, i)) : c[o[i] + k - 1] = Coded(j, i)[k]

LaidOut(j, n, c) == IsSeq(c) /\ \E o : Offsets(j, n, c, o)

\* Nothing is there yet.
LEMMA NothingLaidOut ==
  ASSUME NEW j
  PROVE  LaidOut(j, 1, <<>>)
<1> DEFINE o == [i \in 1..1 |-> 1]
<1>1. <<>> \in Seq({}) /\ Len(<<>>) = 0
  OBVIOUS
<1>2. IsSeq(<<>>)
  BY <1>1 DEF IsSeq
<1>3. \A i \in 1..1 : o[i] = 1 /\ i = 1
  OBVIOUS
<1>4. \A i \in 1..1 - 1 : FALSE
  OBVIOUS
<1> HIDE DEF o
<1>5. Offsets(j, 1, <<>>, o)
  BY <1>1, <1>3, <1>4 DEF Offsets
<1> QED BY <1>2, <1>5 DEF LaidOut

\* One statement more.
LEMMA LaidOutStep ==
  ASSUME NEW j, IsJob(j), AllAccepted(j), NEW n \in 1..Len(j.program), NEW c, LaidOut(j, n, c)
  PROVE  LaidOut(j, n + 1, c \o Coded(j, n))
<1> DEFINE e == Coded(j, n)
           d == c \o e
<1>1. Len(j.program) \in Nat
  BY SeqType DEF IsJob
<1>2. IsSeq(e) /\ Len(e) \in Nat
  BY EncodedIsSeq DEF Coded, IsJob, AllAccepted
<1>3. PICK o : Offsets(j, n, c, o)
  BY DEF LaidOut
<1>4. IsSeq(c) /\ Len(c) \in Nat
  BY SeqType DEF LaidOut
<1>5. /\ IsSeq(d) /\ Len(d) = Len(c) + Len(e)
      /\ \A i \in 1..Len(c) : d[i] = c[i]
      /\ \A i \in 1..Len(e) : d[Len(c) + i] = e[i]
  BY <1>2, <1>4, Joined
<1> DEFINE o2 == [i \in 1..(n + 1) |-> IF i = n + 1 THEN Len(d) + 1 ELSE o[i]]
<1>6. o2[n + 1] = Len(d) + 1 /\ \A i \in 1..n : o2[i] = o[i]
  <2>1. n + 1 \in 1..(n + 1) /\ \A i \in 1..n : i \in 1..(n + 1) /\ i # n + 1
    BY <1>1
  <2> HIDE DEF d
  <2> QED BY <2>1
<1> HIDE DEF e, d, o2
<1>7. /\ o[1] = 1 /\ o[n] = Len(c) + 1
      /\ \A i \in 1..n : o[i] \in Nat /\ o[i] > 0 /\ o[i] <= Len(c) + 1
      /\ \A i \in 1..n - 1 : o[i + 1] = o[i] + Len(Coded(j, i))
      /\ \A i \in 1..n - 1 : \A k \in 1..Len(Coded(j, i)) : c[o[i] + k - 1] = Coded(j, i)[k]
  BY <1>3 DEF Offsets
<1>8. 1 \in 1..n /\ n \in 1..n /\ (n + 1) - 1 = n /\ n \in Nat
  BY <1>1
<1>9. o2[1] = 1
  BY <1>6, <1>7, <1>8
<1>10. ASSUME NEW i \in 1..(n + 1)
       PROVE  o2[i] \in Nat /\ o2[i] > 0 /\ o2[i] <= Len(d) + 1
  <2>1. CASE i = n + 1
    BY <1>2, <1>4, <1>5, <1>6, <2>1
  <2>2. CASE i # n + 1
    <3>1. i \in 1..n
      BY <1>8, <2>2
    <3>2. o2[i] = o[i] /\ o[i] \in Nat /\ o[i] > 0 /\ o[i] <= Len(c) + 1
      BY <1>6, <1>7, <3>1
    <3>3. Len(c) <= Len(d) /\ Len(d) \in Nat
      BY <1>2, <1>4, <1>5
    <3> QED BY <1>4, <3>2, <3>3
  <2> QED BY <2>1, <2>2
<1>11. ASSUME NEW i \in 1..n
       PROVE  o2[i + 1] = o2[i] + Len(Coded(j, i))
  <2>1. CASE i = n
    BY <1>2, <1>4, <1>5, <1>6, <1>7, <1>8, <2>1 DEF e
  <2>2. CASE i # n
    <3>1. i \in 1..n - 1 /\ i + 1 \in 1..n
      BY <1>8, <2>2
    <3> QED BY <1>6, <1>7, <3>1
  <2> QED BY <2>1, <2>2
<1>12. ASSUME NEW i \in 1..n, NEW k \in 1..Len(Coded(j, i))
       PROVE  d[o2[i] + k - 1] = Coded(j, i)[k]
  <2>1. CASE i = n
    <3>1. k \in 1..Len(e) /\ o2[i] = Len(c) + 1
      BY <1>6, <1>7, <1>8, <2>1 DEF e
    <3>2. o2[i] + k - 1 = Len(c) + k
      BY <1>2, <1>4, <3>1
    <3> QED BY <1>5, <2>1, <3>1, <3>2 DEF e
  <2>2. CASE i # n
    <3>1. i \in 1..n - 1 /\ i + 1 \in 1..n
      BY <1>8, <2>2
    <3>2. IsSeq(Coded(j, i)) /\ Len(Coded(j, i)) \in Nat
      <4>1. i \in 1..Len(j.program)
        BY <1>1
      <4> QED BY <4>1, EncodedIsSeq DEF Coded, IsJob, AllAccepted
    <3>3. /\ o[i] \in Nat /\ o[i] > 0 /\ o[i + 1] <= Len(c) + 1
          /\ o[i + 1] = o[i] + Len(Coded(j, i)) /\ o2[i] = o[i]
      BY <1>6, <1>7, <3>1
    <3>4. o[i] + k - 1 \in 1..Len(c)
      BY <1>4, <3>2, <3>3
    <3>5. c[o[i] + k - 1] = Coded(j, i)[k]
      BY <1>7, <3>1
    <3> QED BY <1>5, <3>3, <3>4, <3>5
  <2> QED BY <2>1, <2>2
<1>13. Offsets(j, n + 1, d, o2)
  BY <1>6, <1>8, <1>9, <1>10, <1>11, <1>12 DEF Offsets
<1> QED BY <1>5, <1>13 DEF LaidOut, d, e

-----------------------------------------------------------------------------
(* What the check for unreachable code has seen.                             *)

\* The instruction before a place in the program.
Before(p, i, m) ==
  /\ m \in 1..i - 1 /\ ~NoCode(p[m])
  /\ \A k \in m + 1..i - 1 : NoCode(p[k])

IsFirst(p, i) == \A k \in 1..i - 1 : NoCode(p[k])

Suspect(p, i) ==
  /\ ~NoCode(p[i]) /\ p[i].op # "JUMPDEST"
  /\ \E m : Before(p, i, m) /\ CutsOff(p[m].op)

WarnedUpTo(p, n, w) == w = {i \in 1..n - 1 : Suspect(p, i)}

Previous(fork, p, n, prev) ==
  \/ IsFirst(p, n) /\ prev = NoOp
  \/ \E m : Before(p, n, m) /\ prev = ResolvedFor(fork, p[m])

\* There is at most one.
LEMMA BeforeUnique ==
  ASSUME NEW p, NEW i \in Nat, NEW m, NEW l, Before(p, i, m)
  PROVE  /\ Before(p, i, l) => l = m
         /\ ~IsFirst(p, i)
<1>1. m \in 1..i - 1 /\ ~NoCode(p[m]) /\ \A k \in m + 1..i - 1 : NoCode(p[k])
  BY DEF Before
<1>2. ASSUME Before(p, i, l) PROVE l = m
  <2>1. l \in 1..i - 1 /\ ~NoCode(p[l]) /\ \A k \in l + 1..i - 1 : NoCode(p[k])
    BY <1>2 DEF Before
  <2>2. ~(l < m)
    <3>1. l < m => m \in l + 1..i - 1
      BY <1>1, <2>1
    <3> QED BY <1>1, <2>1, <3>1
  <2>3. ~(m < l)
    <3>1. m < l => l \in m + 1..i - 1
      BY <1>1, <2>1
    <3> QED BY <1>1, <2>1, <3>1
  <2> QED BY <1>1, <2>1, <2>2, <2>3
<1> QED BY <1>1, <1>2 DEF IsFirst

\* There is one, or none before.
LEMMA BeforeExists ==
  ASSUME NEW p, NEW i \in Nat, ~IsFirst(p, i)
  PROVE  \E m : Before(p, i, m)
<1> DEFINE S == {k \in 1..i - 1 : ~NoCode(p[k])}
<1>1. S # {}
  BY DEF IsFirst
<1>2. i - 1 \in Nat
  BY <1>1
<1>3. PICK m \in S : \A k \in S : k <= m
  <2>1. S \in SUBSET (1..i - 1)
    OBVIOUS
  <2> HIDE DEF S
  <2> QED BY <1>1, <1>2, <2>1, GreatestElement
<1>4. \A k \in m + 1..i - 1 : k \notin S /\ k \in 1..i - 1
  BY <1>2, <1>3
<1> QED BY <1>3, <1>4 DEF Before

\* A statement that is no instruction changes nothing.
LEMMA BeforeNoCode ==
  ASSUME NEW p, NEW n \in Nat \ {0}, NoCode(p[n])
  PROVE  /\ IsFirst(p, n + 1) <=> IsFirst(p, n)
         /\ \A m : Before(p, n + 1, m) <=> Before(p, n, m)
<1>1. (n + 1) - 1 = n /\ \A k \in 1..n : k \in 1..n - 1 \/ k = n
  OBVIOUS
<1>2. \A k \in 1..n - 1 : k \in 1..n
  OBVIOUS
<1>3. IsFirst(p, n + 1) <=> IsFirst(p, n)
  BY <1>1, <1>2 DEF IsFirst
<1>4. ASSUME NEW m PROVE Before(p, n + 1, m) <=> Before(p, n, m)
  <2>1. ASSUME Before(p, n + 1, m) PROVE Before(p, n, m)
    <3>1. m \in 1..n /\ ~NoCode(p[m]) /\ \A k \in m + 1..n : NoCode(p[k])
      BY <1>1, <2>1 DEF Before
    <3>2. m \in 1..n - 1 /\ \A k \in m + 1..n - 1 : k \in m + 1..n
      BY <3>1
    <3> QED BY <3>1, <3>2 DEF Before
  <2>2. ASSUME Before(p, n, m) PROVE Before(p, n + 1, m)
    <3>1. m \in 1..n - 1 /\ ~NoCode(p[m]) /\ \A k \in m + 1..n - 1 : NoCode(p[k])
      BY <2>2 DEF Before
    <3>2. m \in 1..n /\ \A k \in m + 1..n : k \in m + 1..n - 1 \/ k = n
      BY <3>1
    <3> QED BY <1>1, <3>1, <3>2 DEF Before
  <2> QED BY <2>1, <2>2
<1> QED BY <1>3, <1>4

\* An instruction is the one before what follows it.
LEMMA BeforeCode ==
  ASSUME NEW p, NEW n \in Nat \ {0}, ~NoCode(p[n])
  PROVE  Before(p, n + 1, n)
BY DEF Before

\* Pushes go on, whatever their size, and they are no jump targets.
LEMMA ResolvedKind ==
  ASSUME NEW fork \in DOMAIN Forks, NEW s, IsStatement(s), AcceptedBy(fork, s), ~NoCode(s)
  PROVE  /\ CutsOff(ResolvedFor(fork, s)) <=> CutsOff(s.op)
         /\ JumpDest(ResolvedFor(fork, s)) <=> s.op = "JUMPDEST"
<1>1. CASE s.op = "PUSH"
  <2>1. ResolvedFor(fork, s) \in DOMAIN Pushes
    BY <1>1, PushScannable DEF IsPush
  <2>2. \A op \in DOMAIN Pushes : ~Term(op) /\ ~Unconditional(op) /\ ~JumpDest(op)
    BY CodesAssumption DEF Term, Unconditional, JumpDest
  <2>3. ~CutsOff("PUSH")
    BY DEF CutsOff, Term, Unconditional
  <2> QED BY <1>1, <2>1, <2>2, <2>3 DEF CutsOff
<1>2. CASE s.op # "PUSH"
  BY <1>2 DEF ResolvedFor, JumpDest
<1> QED BY <1>1, <1>2

-----------------------------------------------------------------------------
(* The invariant of the assembler.                                           *)

DisInvFor(j, st, n, c, prev, w) ==
  /\ IsJob(j) /\ AllAccepted(j)
  /\ st = "generate" => /\ n \in 1..Len(j.program) + 1 /\ LaidOut(j, n, c)
                        /\ Previous(j.fork, j.program, n, prev)
                        /\ WarnedUpTo(j.program, n, w)
  /\ st # "generate" => /\ LaidOut(j, Len(j.program) + 1, c)
                        /\ WarnedUpTo(j.program, Len(j.program) + 1, w)

DisInv == DisInvFor(job, stage, at, code, prevOp, warned)

\* The check keeps its account of the warnings over one statement.
LEMMA WarningStep ==
  ASSUME NEW j, IsJob(j), AllAccepted(j), NEW n \in 1..Len(j.program), NEW prev, NEW w,
         Previous(j.fork, j.program, n, prev), WarnedUpTo(j.program, n, w)
  PROVE  LET s == j.program[n]
             r == ResolvedFor(j.fork, s)
         IN  /\ NoCode(s) => /\ Previous(j.fork, j.program, n + 1, prev)
                             /\ WarnedUpTo(j.program, n + 1, w)
             /\ ~NoCode(s) => /\ Previous(j.fork, j.program, n + 1, r)
                              /\ WarnedUpTo(j.program, n + 1,
                                   IF CutsOff(prev) /\ ~JumpDest(r) THEN w \cup {n} ELSE w)
<1> DEFINE p == j.program
           s == p[n]
           r == ResolvedFor(j.fork, s)
<1>1. n \in Nat \ {0} /\ n + 1 \in Nat /\ (n + 1) - 1 = n
  BY SeqType DEF IsJob
<1>2. /\ j.fork \in DOMAIN Forks
      /\ \A i \in 1..Len(p) : IsStatement(p[i]) /\ AcceptedBy(j.fork, p[i])
  BY DEF IsJob, AllAccepted
<1>3. w = {i \in 1..n - 1 : Suspect(p, i)}
  BY DEF WarnedUpTo
<1>4. \A i \in 1..n : i \in 1..n - 1 \/ i = n
  BY <1>1
<1>5. n \in 1..n /\ 1..n - 1 \subseteq 1..n /\ n \notin 1..n - 1
  BY <1>1
<1>6. CASE NoCode(s)
  <2>1. Previous(j.fork, p, n + 1, prev)
    BY <1>1, <1>6, BeforeNoCode DEF Previous
  <2>2. ~Suspect(p, n)
    BY <1>6 DEF Suspect
  <2>3. w = {i \in 1..(n + 1) - 1 : Suspect(p, i)}
    BY <1>1, <1>3, <1>4, <1>5, <2>2
  <2> QED BY <1>6, <2>1, <2>3 DEF WarnedUpTo
<1>7. CASE ~NoCode(s)
  <2>1. Before(p, n + 1, n)
    BY <1>1, <1>7, BeforeCode
  <2>2. Previous(j.fork, p, n + 1, r)
    BY <2>1 DEF Previous
  <2>3. JumpDest(r) <=> s.op = "JUMPDEST"
    BY <1>2, <1>7, ResolvedKind
  <2>4. Suspect(p, n) <=> CutsOff(prev) /\ ~JumpDest(r)
    <3>1. CASE IsFirst(p, n) /\ prev = NoOp
      <4>1. ~CutsOff(prev)
        BY <3>1 DEF CutsOff
      <4>2. \A m : ~Before(p, n, m)
        BY <1>1, <3>1, BeforeUnique
      <4> QED BY <4>1, <4>2 DEF Suspect
    <3>2. CASE \E m : Before(p, n, m) /\ prev = ResolvedFor(j.fork, p[m])
      <4>1. PICK m : Before(p, n, m) /\ prev = ResolvedFor(j.fork, p[m])
        BY <3>2
      <4>2. m \in 1..Len(p) /\ ~NoCode(p[m])
        <5>1. Len(p) \in Nat
          BY SeqType DEF IsJob
        <5>2. m \in 1..n - 1 /\ ~NoCode(p[m])
          BY <4>1 DEF Before
        <5> QED BY <5>1, <5>2
      <4>3. CutsOff(prev) <=> CutsOff(p[m].op)
        BY <1>2, <4>1, <4>2, ResolvedKind
      <4>4. \A l : Before(p, n, l) => l = m
        BY <1>1, <4>1, BeforeUnique
      <4>5. (\E l : Before(p, n, l) /\ CutsOff(p[l].op)) <=> CutsOff(p[m].op)
        BY <4>1, <4>4
      <4> QED BY <1>7, <2>3, <4>3, <4>5 DEF Suspect
    <3> QED BY <3>1, <3>2 DEF Previous
  <2> DEFINE v == IF CutsOff(prev) /\ ~JumpDest(r) THEN w \cup {n} ELSE w
  <2>5. v = {i \in 1..n : Suspect(p, i)}
    <3> HIDE DEF r, p
    <3>1. CASE Suspect(p, n)
      <4>1. v = w \cup {n}
        BY <2>4, <3>1
      <4> HIDE DEF v
      <4> QED BY <1>3, <1>4, <1>5, <3>1, <4>1
    <3>2. CASE ~Suspect(p, n)
      <4>1. v = w
        BY <2>4, <3>2
      <4> HIDE DEF v
      <4> QED BY <1>3, <1>4, <1>5, <3>2, <4>1
    <3> QED BY <3>1, <3>2
  <2>6. WarnedUpTo(p, n + 1, v)
    BY <1>1, <2>5 DEF WarnedUpTo
  <2> QED BY <1>7, <2>2, <2>6
<1> QED BY <1>6, <1>7

\* A step of the generator.
LEMMA GenerateStep ==
  ASSUME DisInv, Generate
  PROVE  DisInv'
<1>1. /\ job' = job /\ stage = "generate" /\ stage' = "generate" /\ at' = at + 1
      /\ at <= Len(job.program)
      /\ code' = code \o Encoded(job.program[at])
      /\ Unreachable(job.program[at])
  BY DEF Generate
<1>2. /\ IsJob(job) /\ AllAccepted(job)
      /\ at \in 1..Len(job.program) + 1 /\ LaidOut(job, at, code)
      /\ Previous(job.fork, job.program, at, prevOp)
      /\ WarnedUpTo(job.program, at, warned)
  BY <1>1 DEF DisInv, DisInvFor
<1>3. Len(job.program) \in Nat
  BY <1>2, SeqType DEF IsJob
<1>4. at \in 1..Len(job.program) /\ at + 1 \in 1..Len(job.program) + 1
  BY <1>1, <1>2, <1>3
<1>5. LaidOut(job, at + 1, code')
  BY <1>1, <1>2, <1>4, LaidOutStep, SameDefinitions DEF Coded
<1>6. /\ Previous(job.fork, job.program, at + 1, prevOp')
      /\ WarnedUpTo(job.program, at + 1, warned')
  <2> DEFINE s == job.program[at]
             r == ResolvedFor(job.fork, s)
  <2>1. /\ NoCode(s) => /\ Previous(job.fork, job.program, at + 1, prevOp)
                        /\ WarnedUpTo(job.program, at + 1, warned)
        /\ ~NoCode(s) => /\ Previous(job.fork, job.program, at + 1, r)
                         /\ WarnedUpTo(job.program, at + 1,
                              IF CutsOff(prevOp) /\ ~JumpDest(r) THEN warned \cup {at} ELSE warned)
    BY <1>2, <1>4, WarningStep
  <2>2. CASE NoCode(s)
    <3>1. warned' = warned /\ prevOp' = prevOp
      BY <1>1, <2>2 DEF Unreachable
    <3> QED BY <2>1, <2>2, <3>1
  <2>3. CASE ~NoCode(s)
    <3>1. Resolved(s) = r
      BY SameDefinitions
    <3>2. /\ warned' = IF CutsOff(prevOp) /\ ~JumpDest(r) THEN warned \cup {at} ELSE warned
          /\ prevOp' = r
      BY <1>1, <2>3, <3>1 DEF Unreachable
    <3> HIDE DEF r, s
    <3> QED BY <2>1, <2>3, <3>2
  <2> QED BY <2>2, <2>3
<1>7. DisInvFor(job, "generate", at + 1, code', prevOp', warned')
  BY <1>2, <1>4, <1>5, <1>6 DEF DisInvFor
<1> QED BY <1>1, <1>7 DEF DisInv

\* The end of the generator, and what comes after it.
LEMMA LaterStep ==
  ASSUME DisInv, Generated \/ Disassemble \/ Disassembled \/ Reassemble \/ Reassembled
  PROVE  DisInv'
<1>1. job' = job /\ code' = code /\ warned' = warned /\ stage' # "generate"
  BY DEF Generated, Disassemble, Disassembled, Reassemble, Reassembled
<1>2. /\ IsJob(job) /\ AllAccepted(job)
      /\ LaidOut(job, Len(job.program) + 1, code)
      /\ WarnedUpTo(job.program, Len(job.program) + 1, warned)
  <2>1. CASE stage # "generate"
    BY <2>1 DEF DisInv, DisInvFor
  <2>2. CASE stage = "generate"
    <3>1. at > Len(job.program)
      BY <2>2 DEF Generated, Disassemble, Disassembled, Reassemble, Reassembled
    <3>2. /\ IsJob(job) /\ AllAccepted(job) /\ at \in 1..Len(job.program) + 1
          /\ LaidOut(job, at, code) /\ WarnedUpTo(job.program, at, warned)
      BY <2>2 DEF DisInv, DisInvFor
    <3>3. Len(job.program) \in Nat
      BY <3>2, SeqType DEF IsJob
    <3>4. at = Len(job.program) + 1
      BY <3>1, <3>2, <3>3
    <3> QED BY <3>2, <3>4
  <2> QED BY <2>1, <2>2
<1>3. DisInvFor(job, stage', at', code, prevOp', warned)
  BY <1>1, <1>2 DEF DisInvFor
<1> QED BY <1>1, <1>3 DEF DisInv

\* The output is always that of the statements so far.
LEMMA DisInvHolds ==
  ASSUME NEW CONSTANT Jobs, \A j \in Jobs : IsJob(j)
  PROVE  DisInit(Jobs) /\ [][DisNext]_disVars => []DisInv
<1>1. DisInit(Jobs) => DisInv
  <2> SUFFICES ASSUME DisInit(Jobs) PROVE DisInv
    OBVIOUS
  <2>1. /\ IsJob(job) /\ stage = "generate" /\ at = 1 /\ code = <<>> /\ prevOp = NoOp /\ warned = {}
        /\ \A i \in DOMAIN job.program : Accepted(job.program[i])
    BY DEF DisInit
  <2>2. Len(job.program) \in Nat /\ DOMAIN job.program = 1..Len(job.program)
    BY <2>1, SeqType DEF IsJob
  <2>3. AllAccepted(job)
    BY <2>1, <2>2, SameDefinitions DEF AllAccepted
  <2>4. LaidOut(job, at, code) /\ at \in 1..Len(job.program) + 1
    BY <2>1, <2>2, NothingLaidOut
  <2>5. \A i \in 1..1 - 1 : FALSE
    OBVIOUS
  <2>6. Previous(job.fork, job.program, at, prevOp)
    BY <2>1, <2>5 DEF Previous, IsFirst
  <2>7. WarnedUpTo(job.program, at, warned)
    BY <2>1, <2>5 DEF WarnedUpTo
  <2> QED BY <2>1, <2>3, <2>4, <2>6, <2>7 DEF DisInv, DisInvFor
<1>2. DisInv /\ [DisNext]_disVars => DisInv'
  <2> SUFFICES ASSUME DisInv, [DisNext]_disVars PROVE DisInv'
    OBVIOUS
  <2>1. CASE UNCHANGED disVars
    BY <2>1 DEF disVars, DisInv
  <2> QED BY <2>1, GenerateStep, LaterStep DEF DisNext
<1> QED BY <1>1, <1>2, PTL

-----------------------------------------------------------------------------
(* Warnings.                                                                 *)

Instrs(p) == {i \in DOMAIN p : p[i].op # "label"}

Between(p, i, j) == {k \in Instrs(p) : i <= k /\ k < j}

Entry(p, i) == p[i].op = "JUMPDEST" \/ Between(p, 1, i) = {}

Reached(p, j) ==
  \E i \in Instrs(p) : i <= j /\ Entry(p, i) /\ \A k \in Between(p, i, j) : ~CutsOff(p[k].op)

Covered(p, w, j) ==
  \E i \in w : i <= j /\ \A k \in Between(p, i, j) \cup {j} : p[k].op # "JUMPDEST"

\* The first instruction is reached, and no warning covers it.
LEMMA FirstReached ==
  ASSUME NEW p, IsSeq(p), \A i \in 1..Len(p) : p[i].op # "#bytes",
         NEW w, WarnedUpTo(p, Len(p) + 1, w),
         NEW j \in Instrs(p), Between(p, 1, j) = {}
  PROVE  Reached(p, j) /\ ~Covered(p, w, j)
<1>1. Len(p) \in Nat /\ DOMAIN p = 1..Len(p)
  BY SeqType
<1>2. j \in 1..Len(p) /\ Instrs(p) \subseteq 1..Len(p)
  BY <1>1 DEF Instrs
<1>3. Between(p, j, j) = {}
  BY <1>2 DEF Between
<1>4. Reached(p, j)
  BY <1>2, <1>3 DEF Reached, Entry
<1>5. w = {i \in 1..Len(p) : Suspect(p, i)}
  BY <1>1 DEF WarnedUpTo
<1>6. \A i \in w : i \in Instrs(p)
  BY <1>1, <1>5 DEF Suspect, NoCode, Instrs
<1>7. \A m : ~Before(p, j, m)
  <2> SUFFICES ASSUME NEW m, Before(p, j, m) PROVE FALSE
    OBVIOUS
  <2>1. m \in 1..j - 1 /\ ~NoCode(p[m])
    BY DEF Before
  <2>2. m \in 1..Len(p) /\ 1 <= m /\ m < j
    BY <1>1, <1>2, <2>1
  <2>3. m \in Between(p, 1, j)
    BY <1>1, <2>1, <2>2 DEF Between, Instrs, NoCode
  <2> QED BY <2>3
<1>8. j \notin w
  BY <1>5, <1>7 DEF Suspect
<1>9. \A i \in w : ~(i <= j)
  <2> SUFFICES ASSUME NEW i \in w, i <= j PROVE FALSE
    OBVIOUS
  <2>1. i \in Instrs(p) /\ i \in 1..Len(p) /\ i # j
    BY <1>2, <1>6, <1>8
  <2>2. i \in Between(p, 1, j)
    BY <1>2, <2>1 DEF Between
  <2> QED BY <2>2
<1> QED BY <1>4, <1>9 DEF Covered

\* What lies between two instructions, if the last of it is m.
LEMMA BetweenStep ==
  ASSUME NEW p, IsSeq(p), \A i \in 1..Len(p) : p[i].op # "#bytes",
         NEW j \in Instrs(p), NEW m, Before(p, j, m)
  PROVE  /\ m \in Instrs(p) /\ m < j
         /\ \A i \in Instrs(p) : i <= j => i = j \/ i <= m
         /\ \A i \in Instrs(p) : i <= m => Between(p, i, j) = Between(p, i, m) \cup {m}
<1>1. Len(p) \in Nat /\ DOMAIN p = 1..Len(p)
  BY SeqType
<1>2. j \in 1..Len(p) /\ Instrs(p) \subseteq 1..Len(p)
  BY <1>1 DEF Instrs
<1>3. m \in 1..j - 1 /\ ~NoCode(p[m]) /\ \A k \in m + 1..j - 1 : NoCode(p[k])
  BY DEF Before
<1>4. m \in Instrs(p) /\ m < j
  BY <1>1, <1>2, <1>3 DEF Instrs, NoCode
<1>5. \A k \in Instrs(p) : k < j => k <= m
  <2> SUFFICES ASSUME NEW k \in Instrs(p), k < j, ~(k <= m) PROVE FALSE
    OBVIOUS
  <2>1. k \in m + 1..j - 1 /\ k \in 1..Len(p)
    BY <1>2, <1>3
  <2>2. p[k].op = "label"
    BY <1>3, <2>1 DEF NoCode
  <2> QED BY <2>2 DEF Instrs
<1>6. \A i \in Instrs(p) : i <= j => i = j \/ i <= m
  BY <1>2, <1>5
<1>7. ASSUME NEW i \in Instrs(p), i <= m
      PROVE  Between(p, i, j) = Between(p, i, m) \cup {m}
  <2>1. \A k \in Instrs(p) : k < j <=> k < m \/ k = m
    BY <1>2, <1>3, <1>4, <1>5
  <2> QED BY <1>4, <1>7, <2>1 DEF Between
<1> QED BY <1>4, <1>6, <1>7

\* An instruction behind another one is reached if that one is, and goes on to it, or
\* if it is a jump target; and it is covered if the one before is, or the warning is
\* about it, and it is no jump target.
LEMMA NextReached ==
  ASSUME NEW p, IsSeq(p), \A i \in 1..Len(p) : p[i].op # "#bytes",
         NEW w, WarnedUpTo(p, Len(p) + 1, w),
         NEW j \in Instrs(p), NEW m, Before(p, j, m),
         Reached(p, m) <=> ~Covered(p, w, m)
  PROVE  Reached(p, j) <=> ~Covered(p, w, j)
<1>1. Len(p) \in Nat /\ DOMAIN p = 1..Len(p)
  BY SeqType
<1>2. j \in 1..Len(p) /\ Instrs(p) \subseteq 1..Len(p)
  BY <1>1 DEF Instrs
<1>3. /\ m \in Instrs(p) /\ m < j
      /\ \A i \in Instrs(p) : i <= j => i = j \/ i <= m
      /\ \A i \in Instrs(p) : i <= m => Between(p, i, j) = Between(p, i, m) \cup {m}
  BY BetweenStep
<1>4. w = {i \in 1..Len(p) : Suspect(p, i)}
  BY <1>1 DEF WarnedUpTo
<1>5. \A i \in w : i \in Instrs(p)
  BY <1>1, <1>4 DEF Suspect, NoCode, Instrs
<1>6. Between(p, j, j) = {}
  BY <1>2 DEF Between
<1>7. m \in Between(p, 1, j) /\ m \in 1..Len(p)
  BY <1>2, <1>3 DEF Between
<1>8. \A i \in Instrs(p) : i <= m => i <= j
  BY <1>2, <1>3
<1>9. CASE p[j].op = "JUMPDEST"
  <2>1. Reached(p, j)
    BY <1>2, <1>6, <1>9 DEF Reached, Entry
  <2>2. ~Covered(p, w, j)
    BY <1>9 DEF Covered
  <2> QED BY <2>1, <2>2
<1>10. CASE p[j].op # "JUMPDEST"
  <2>1. ~Entry(p, j)
    BY <1>7, <1>10 DEF Entry
  <2>2. Reached(p, j) <=> Reached(p, m) /\ ~CutsOff(p[m].op)
    <3>1. ASSUME Reached(p, j) PROVE Reached(p, m) /\ ~CutsOff(p[m].op)
      <4>1. PICK i \in Instrs(p) :
              i <= j /\ Entry(p, i) /\ \A k \in Between(p, i, j) : ~CutsOff(p[k].op)
        BY <3>1 DEF Reached
      <4>2. i <= m /\ Between(p, i, j) = Between(p, i, m) \cup {m}
        BY <1>3, <2>1, <4>1
      <4> QED BY <4>1, <4>2 DEF Reached
    <3>2. ASSUME Reached(p, m), ~CutsOff(p[m].op) PROVE Reached(p, j)
      <4>1. PICK i \in Instrs(p) :
              i <= m /\ Entry(p, i) /\ \A k \in Between(p, i, m) : ~CutsOff(p[k].op)
        BY <3>2 DEF Reached
      <4>2. i <= j /\ Between(p, i, j) = Between(p, i, m) \cup {m}
        BY <1>3, <1>8, <4>1
      <4> QED BY <3>2, <4>1, <4>2 DEF Reached
    <3> QED BY <3>1, <3>2
  <2>3. j \in w <=> CutsOff(p[m].op)
    <3>1. p[j].op \notin {"label", "#bytes"}
      BY <1>2 DEF Instrs
    <3>2. \A l : Before(p, j, l) => l = m
      <4>1. j \in Nat /\ Before(p, j, m)
        BY <1>2
      <4> QED BY <4>1, BeforeUnique
    <3> QED BY <1>2, <1>4, <1>10, <3>1, <3>2 DEF Suspect, NoCode
  <2>4. Covered(p, w, j) <=> j \in w \/ Covered(p, w, m)
    <3>1. ASSUME Covered(p, w, j), j \notin w PROVE Covered(p, w, m)
      <4>1. PICK i \in w : i <= j /\ \A k \in Between(p, i, j) \cup {j} : p[k].op # "JUMPDEST"
        BY <3>1 DEF Covered
      <4>2. i <= m /\ Between(p, i, j) = Between(p, i, m) \cup {m}
        BY <1>3, <1>5, <3>1, <4>1
      <4> QED BY <4>1, <4>2 DEF Covered
    <3>2. ASSUME j \in w PROVE Covered(p, w, j)
      BY <1>2, <1>6, <1>10, <3>2 DEF Covered
    <3>3. ASSUME Covered(p, w, m) PROVE Covered(p, w, j)
      <4>1. PICK i \in w : i <= m /\ \A k \in Between(p, i, m) \cup {m} : p[k].op # "JUMPDEST"
        BY <3>3 DEF Covered
      <4>2. i <= j /\ Between(p, i, j) = Between(p, i, m) \cup {m}
        BY <1>3, <1>5, <1>8, <4>1
      <4> QED BY <1>10, <4>1, <4>2 DEF Covered
    <3> QED BY <3>1, <3>2, <3>3
  <2> QED BY <2>2, <2>3, <2>4
<1> QED BY <1>9, <1>10

\* The warnings are exact.
LEMMA AllReached ==
  ASSUME NEW p, IsSeq(p), \A i \in 1..Len(p) : p[i].op # "#bytes",
         NEW w, WarnedUpTo(p, Len(p) + 1, w)
  PROVE  \A j \in Instrs(p) : Reached(p, j) <=> ~Covered(p, w, j)
<1> DEFINE Wrong == {j \in Instrs(p) : ~(Reached(p, j) <=> ~Covered(p, w, j))}
<1>1. Len(p) \in Nat /\ DOMAIN p = 1..Len(p)
  BY SeqType
<1>2. Instrs(p) \subseteq 1..Len(p)
  BY <1>1 DEF Instrs
<1>3. SUFFICES ASSUME Wrong # {} PROVE FALSE
  OBVIOUS
<1>4. PICK j \in Wrong : \A k \in Wrong : j <= k
  <2>1. Wrong \in SUBSET Nat
    BY <1>2
  <2> HIDE DEF Wrong
  <2> QED BY <1>3, <2>1, LeastElement
<1>5. j \in Instrs(p) /\ j \in 1..Len(p)
  BY <1>2, <1>4
<1>6. Between(p, 1, j) # {}
  BY <1>4, <1>5, FirstReached
<1>7. ~IsFirst(p, j)
  <2>1. PICK k \in Instrs(p) : 1 <= k /\ k < j
    BY <1>6 DEF Between
  <2>2. k \in 1..j - 1 /\ p[k].op \notin {"label", "#bytes"}
    BY <1>2, <1>5, <2>1 DEF Instrs
  <2> QED BY <2>2 DEF IsFirst, NoCode
<1>8. PICK m : Before(p, j, m)
  BY <1>5, <1>7, BeforeExists
<1>9. m \in Instrs(p) /\ m < j
  BY <1>5, <1>8, BetweenStep
<1>10. m \notin Wrong
  BY <1>2, <1>4, <1>5, <1>9
<1>11. Reached(p, m) <=> ~Covered(p, w, m)
  BY <1>9, <1>10
<1>12. Reached(p, j) <=> ~Covered(p, w, j)
  BY <1>5, <1>8, <1>11, NextReached
<1> QED BY <1>4, <1>12

\* The statements that the assembler reports as unreachable, and those up to the next
\* JUMPDEST, are those that execution cannot reach.
LEMMA WarningsExact == DisInv => WarningsAreExact
<1> SUFFICES ASSUME DisInv, stage = "disassemble", at = 1, OnlyCode PROVE WarningsAreExact
  BY DEF WarningsAreExact
<1> DEFINE p == job.program
<1>1. IsJob(job) /\ WarnedUpTo(p, Len(p) + 1, warned)
  BY DEF DisInv, DisInvFor
<1>2. IsSeq(p) /\ DOMAIN p = 1..Len(p)
  BY <1>1, SeqType DEF IsJob
<1>3. \A i \in 1..Len(p) : p[i].op # "#bytes"
  BY <1>2 DEF OnlyCode, Program
<1>4. \A j \in Instrs(p) : Reached(p, j) <=> ~Covered(p, warned, j)
  BY <1>1, <1>2, <1>3, AllReached
<1> QED BY <1>4 DEF WarningsAreExact, Program, Instrs, Between, Entry, Reached, Covered

-----------------------------------------------------------------------------
(* Jump targets.                                                             *)

\* The places at which the scan has arrived, after it has looked at n bytes.
ScanOf(c) ==
  LET starts[n \in 0..Len(c)] ==
        IF n = 0 THEN {1}
        ELSE starts[n - 1] \cup
             (IF n \in starts[n - 1]
              THEN {n + 1 + (IF c[n] \in 96..127 THEN c[n] - 95 ELSE 0)} ELSE {})
  IN  starts

\* What the scan does with one byte.
LEMMA ScanEquation ==
  ASSUME NEW c, Len(c) \in Nat
  PROVE  /\ ScanOf(c)[0] = {1}
         /\ \A n \in 1..Len(c) : ScanOf(c)[n] = ScanOf(c)[n - 1] \cup
              (IF n \in ScanOf(c)[n - 1] THEN {n + Advance(c[n])} ELSE {})
<1> DEFINE size == Len(c)
           F(u, n) == IF n = 0 THEN {1}
                      ELSE u[n - 1] \cup
                           (IF n \in u[n - 1]
                            THEN {n + 1 + (IF c[n] \in 96..127 THEN c[n] - 95 ELSE 0)} ELSE {})
           Covering == {m \in Nat : \E u : u = [n \in 0..m |-> F(u, n)]}
<1>1. size \in Nat
  OBVIOUS
<1>2. 0 \in Covering
  <2> DEFINE u == [n \in 0..0 |-> {1}]
  <2>1. \A n \in 0..0 : F(u, n) = {1}
    OBVIOUS
  <2>2. u = [n \in 0..0 |-> F(u, n)]
    <3> HIDE DEF F
    <3> QED BY <2>1
  <2> HIDE DEF F, u
  <2> QED BY <2>2
<1>3. ASSUME NEW m \in Nat, m \in Covering PROVE m + 1 \in Covering
  <2>1. PICK u : u = [n \in 0..m |-> F(u, n)]
    BY <1>3
  <2> DEFINE v == [n \in 0..(m + 1) |-> F(u, n)]
  <2>2. \A n \in 0..m : v[n] = u[n]
    <3>1. \A n \in 0..m : u[n] = F(u, n)
      <4> HIDE DEF F
      <4> QED BY <2>1
    <3>2. \A n \in 0..(m + 1) : v[n] = F(u, n)
      <4> HIDE DEF F
      <4> QED OBVIOUS
    <3>3. \A n \in 0..m : n \in 0..(m + 1)
      OBVIOUS
    <3> HIDE DEF F, v
    <3> QED BY <3>1, <3>2, <3>3
  <2>3. ASSUME NEW n \in 0..(m + 1) PROVE F(u, n) = F(v, n)
    <3>1. n = 0 \/ n - 1 \in 0..m
      OBVIOUS
    <3> HIDE DEF v
    <3>2. CASE n = 0
      BY <3>2
    <3>3. CASE n # 0
      <4>1. v[n - 1] = u[n - 1]
        BY <2>2, <3>1, <3>3
      <4> QED BY <4>1
    <3> QED BY <3>2, <3>3
  <2>4. v = [n \in 0..(m + 1) |-> F(v, n)]
    <3> HIDE DEF F
    <3> QED BY <2>3
  <2> HIDE DEF F, v
  <2> QED BY <2>4
<1>4. size \in Covering
  <2> HIDE DEF Covering, size
  <2> QED BY <1>1, <1>2, <1>3, InductiveSet
<1>5. \E u : u = [n \in 0..size |-> F(u, n)]
  BY <1>4
<1> DEFINE w == ScanOf(c)
<1>6. w = CHOOSE u : u = [n \in 0..size |-> F(u, n)]
  BY DEF ScanOf
<1>7. w = [n \in 0..size |-> F(w, n)]
  <2> HIDE DEF F, size, w
  <2> QED BY <1>5, <1>6
<1>8. \A n \in 0..size : w[n] = F(w, n)
  <2> HIDE DEF F, w, size
  <2> QED BY <1>7
<1> HIDE DEF w, size
<1>9. w[0] = {1}
  <2>1. 0 \in 0..size
    BY <1>1
  <2>2. w[0] = F(w, 0)
    <3> HIDE DEF F
    <3> QED BY <1>8, <2>1
  <2> QED BY <2>2
<1>10. ASSUME NEW n \in 1..size
       PROVE  w[n] = w[n - 1] \cup (IF n \in w[n - 1] THEN {n + Advance(c[n])} ELSE {})
  <2>1. n + 1 + (IF c[n] \in 96..127 THEN c[n] - 95 ELSE 0) = n + Advance(c[n])
    <3>1. n \in Int
      BY <1>1
    <3>2. CASE c[n] \in 96..127
      <4>1. PICK b \in 96..127 : c[n] = b
        BY <3>2
      <4>2. n + 1 + (b - 95) = n + (b - 94)
        BY <3>1
      <4> QED BY <4>1, <4>2 DEF Advance
    <3>3. CASE c[n] \notin 96..127
      <4>1. n + 1 + 0 = n + 1
        BY <3>1
      <4> QED BY <3>3, <4>1 DEF Advance
    <3> QED BY <3>2, <3>3
  <2>2. n \in 0..size /\ n # 0
    BY <1>1
  <2>3. w[n] = F(w, n)
    <3> HIDE DEF F
    <3> QED BY <1>8, <2>2
  <2> QED BY <2>1, <2>2, <2>3
<1> QED BY <1>9, <1>10 DEF w, size

\* The scan only finds more.
LEMMA ScanGrows ==
  ASSUME NEW c, Len(c) \in Nat, NEW n \in 0..Len(c)
  PROVE  \A m \in n..Len(c) : ScanOf(c)[n] \subseteq ScanOf(c)[m]
<1> DEFINE size == Len(c)
           w == ScanOf(c)
           S == {k \in Nat : n + k <= size => w[n] \subseteq w[n + k]}
<1>1. size \in Nat /\ n \in Nat
  OBVIOUS
<1>2. \A m \in 1..size : w[m - 1] \subseteq w[m]
  BY ScanEquation
<1> HIDE DEF size, w
<1>3. 0 \in S
  BY <1>1
<1>4. ASSUME NEW k \in Nat, k \in S PROVE k + 1 \in S
  <2>1. CASE n + (k + 1) <= size
    <3>1. n + (k + 1) \in 1..size /\ (n + (k + 1)) - 1 = n + k /\ n + k <= size
      BY <1>1, <2>1
    <3> QED BY <1>2, <1>4, <3>1
  <2>2. CASE ~(n + (k + 1) <= size)
    BY <2>2
  <2> QED BY <2>1, <2>2
<1>5. Nat \subseteq S
  <2> HIDE DEF S
  <2> QED BY <1>3, <1>4, InductiveSet
<1>6. ASSUME NEW m \in n..size PROVE w[n] \subseteq w[m]
  <2>1. m - n \in Nat /\ n + (m - n) = m /\ m <= size
    BY <1>1
  <2>2. m - n \in S
    BY <1>5, <2>1
  <2> QED BY <2>1, <2>2
<1> QED BY <1>6 DEF size, w

\* A program without data, its output, and the offsets in it.
Placed(j, c, o) ==
  /\ IsJob(j) /\ AllAccepted(j)
  /\ \A i \in 1..Len(j.program) : j.program[i].op # "#bytes"
  /\ IsSeq(c) /\ Offsets(j, Len(j.program) + 1, c, o)

\* What is known of one statement.
LEMMA OnePlaced ==
  ASSUME NEW j, NEW c, NEW o, Placed(j, c, o), NEW i \in 1..Len(j.program)
  PROVE  /\ o[i] \in Nat /\ o[i] > 0 /\ o[i + 1] \in Nat /\ o[i + 1] <= Len(c) + 1
         /\ j.program[i].op = "label" => o[i + 1] = o[i]
         /\ j.program[i].op # "label" =>
              /\ Scannable(Coded(j, i), j.program[i].op)
              /\ Len(Coded(j, i)) \in Nat /\ o[i + 1] = o[i] + Len(Coded(j, i))
              /\ c[o[i]] = Coded(j, i)[1]
              /\ Len(Coded(j, i)) = 2 => c[o[i] + 1] = Coded(j, i)[2]
<1> DEFINE e == Coded(j, i)
           n == Len(j.program)
<1>1. n \in Nat /\ Len(c) \in Nat
  BY SeqType DEF Placed, IsJob
<1>2. /\ \A k \in 1..n + 1 : o[k] \in Nat /\ o[k] > 0 /\ o[k] <= Len(c) + 1
      /\ \A k \in 1..(n + 1) - 1 : o[k + 1] = o[k] + Len(Coded(j, k))
      /\ \A k \in 1..(n + 1) - 1 : \A b \in 1..Len(Coded(j, k)) :
           c[o[k] + b - 1] = Coded(j, k)[b]
  BY DEF Placed, Offsets
<1>3. i \in 1..n + 1 /\ i + 1 \in 1..n + 1 /\ i \in 1..(n + 1) - 1
  BY <1>1
<1>4. /\ j.fork \in DOMAIN Forks /\ IsStatement(j.program[i]) /\ AcceptedBy(j.fork, j.program[i])
      /\ j.program[i].op # "#bytes"
  BY DEF Placed, IsJob, AllAccepted
<1>5. Len(e) \in Nat /\ (j.program[i].op = "label" => Len(e) = 0)
  BY <1>4, EncodedIsSeq DEF Coded
<1>6. j.program[i].op # "label" => Scannable(e, j.program[i].op)
  BY <1>4, InstructionScannable DEF Coded, NoCode
<1> HIDE DEF n
<1>7. o[i] \in Nat /\ o[i] > 0 /\ o[i + 1] \in Nat /\ o[i + 1] <= Len(c) + 1
  BY <1>2, <1>3
<1>8. o[i + 1] = o[i] + Len(e) /\ \A b \in 1..Len(e) : c[o[i] + b - 1] = e[b]
  BY <1>2, <1>3
<1> HIDE DEF e
<1>9. Len(e) > 0 => 1 \in 1..Len(e) /\ o[i] + 1 - 1 = o[i]
  BY <1>5, <1>7
<1>10. Len(e) = 2 => 2 \in 1..Len(e) /\ o[i] + 2 - 1 = o[i] + 1
  BY <1>7
<1>11. j.program[i].op # "label" => Len(e) > 0
  BY <1>6 DEF Scannable
<1>12. j.program[i].op = "label" => o[i + 1] = o[i]
  BY <1>5, <1>7, <1>8
<1>13. j.program[i].op # "label" => c[o[i]] = e[1]
  BY <1>8, <1>9, <1>11
<1>14. Len(e) = 2 => c[o[i] + 1] = e[2]
  BY <1>8, <1>10
<1> QED BY <1>5, <1>6, <1>7, <1>8, <1>12, <1>13, <1>14 DEF e

\* The scan arrives at every statement before it looks at the byte there.
LEMMA AllFound ==
  ASSUME NEW j, NEW c, NEW o, Placed(j, c, o)
  PROVE  \A i \in 1..Len(j.program) + 1 : o[i] - 1 \in 0..Len(c) /\ o[i] \in ScanOf(c)[o[i] - 1]
<1> DEFINE n == Len(j.program)
           w == ScanOf(c)
           Found1(i) == o[i] - 1 \in 0..Len(c) /\ o[i] \in w[o[i] - 1]
           S == {i \in Nat : i < n + 1 => Found1(i + 1)}
<1>1. n \in Nat /\ Len(c) \in Nat
  BY SeqType DEF Placed, IsJob
<1>2. w[0] = {1} /\ \A k \in 1..Len(c) : w[k] = w[k - 1] \cup
                      (IF k \in w[k - 1] THEN {k + Advance(c[k])} ELSE {})
  BY <1>1, ScanEquation
<1>3. \A k \in 0..Len(c) : \A m \in k..Len(c) : w[k] \subseteq w[m]
  BY <1>1, ScanGrows
<1>4. o[1] = 1
  BY DEF Placed, Offsets
<1> HIDE DEF w
<1>5. ASSUME NEW i \in 1..n, Found1(i) PROVE Found1(i + 1)
  <2> DEFINE e == Coded(j, i)
             q == o[i]
             r == o[i + 1]
  <2>1. /\ q \in Nat /\ q > 0 /\ r \in Nat /\ r <= Len(c) + 1
        /\ j.program[i].op = "label" => r = q
        /\ j.program[i].op # "label" =>
             /\ Scannable(e, j.program[i].op)
             /\ Len(e) \in Nat /\ r = q + Len(e) /\ c[q] = e[1]
             /\ Len(e) = 2 => c[q + 1] = e[2]
    BY OnePlaced
  <2>2. q \in w[q - 1]
    BY <1>5
  <2> HIDE DEF e, q, r
  <2>3. CASE j.program[i].op = "label"
    BY <1>5, <2>1, <2>3 DEF q, r
  <2>4. CASE j.program[i].op # "label"
    <3>1. Len(e) > 0 /\ Len(e) \in Nat /\ r = q + Len(e)
      BY <2>1, <2>4 DEF Scannable
    <3>2. q \in 1..Len(c) /\ r - 1 \in 0..Len(c) /\ q <= r - 1
      BY <1>1, <2>1, <3>1
    <3>3. q + Advance(e[1]) \in w[q]
      BY <1>2, <2>1, <2>2, <2>4, <3>2
    <3>4. CASE Advance(e[1]) = Len(e)
      <4>1. r \in w[q]
        BY <3>1, <3>3, <3>4
      <4>2. w[q] \subseteq w[r - 1]
        <5>1. q \in 0..Len(c) /\ r - 1 \in q..Len(c)
          BY <1>1, <2>1, <3>2
        <5> QED BY <1>3, <5>1
      <4> QED BY <3>2, <4>1, <4>2 DEF r
    <3>5. CASE Len(e) = 2 /\ Advance(e[1]) = 1 /\ Advance(e[2]) = 1
      <4>1. q + 1 \in 1..Len(c) /\ (q + 1) - 1 = q /\ r = (q + 1) + 1 /\ r - 1 = q + 1
        <5>1. r = q + 2
          BY <3>1, <3>5
        <5>2. q \in Nat /\ q > 0 /\ r <= Len(c) + 1 /\ Len(c) \in Nat
          BY <1>1, <2>1
        <5> QED BY <5>1, <5>2
      <4>2. q + 1 \in w[q]
        BY <3>3, <3>5
      <4>3. c[q + 1] = e[2]
        BY <2>1, <2>4, <3>5
      <4>4. (q + 1) + Advance(c[q + 1]) \in w[q + 1]
        BY <1>2, <4>1, <4>2
      <4>5. r \in w[r - 1]
        BY <3>5, <4>1, <4>3, <4>4
      <4> QED BY <3>2, <4>5 DEF r
    <3> QED BY <2>1, <2>4, <3>4, <3>5 DEF Scannable
  <2> QED BY <2>3, <2>4
<1>6. Found1(1)
  <2>1. 1 - 1 = 0 /\ 0 \in 0..Len(c)
    BY <1>1
  <2> QED BY <1>2, <1>4, <2>1
<1> HIDE DEF Found1, n
<1>7. 0 \in S
  <2>1. 0 + 1 = 1
    OBVIOUS
  <2> QED BY <1>6, <2>1
<1>8. ASSUME NEW i \in Nat, i \in S PROVE i + 1 \in S
  <2>1. CASE i + 1 < n + 1
    <3>1. i + 1 \in 1..n /\ i < n + 1
      BY <1>1, <2>1
    <3> QED BY <1>5, <1>8, <3>1
  <2>2. CASE ~(i + 1 < n + 1)
    BY <2>2
  <2> QED BY <2>1, <2>2
<1>9. Nat \subseteq S
  <2> HIDE DEF S
  <2> QED BY <1>7, <1>8, InductiveSet
<1>10. ASSUME NEW i \in 1..n + 1 PROVE Found1(i)
  <2>1. i - 1 \in Nat /\ i - 1 < n + 1 /\ (i - 1) + 1 = i
    BY <1>1
  <2>2. i - 1 \in S
    BY <1>9, <2>1
  <2> QED BY <2>1, <2>2
<1> QED BY <1>10 DEF Found1, n, w

\* The place of a statement, unless it is the end, is that of an instruction.
LEMMA NextInstr ==
  ASSUME NEW j, NEW c, NEW o, Placed(j, c, o), NEW i \in 1..Len(j.program) + 1, o[i] <= Len(c)
  PROVE  \E k \in 1..Len(j.program) : j.program[k].op # "label" /\ o[k] = o[i]
<1> DEFINE n == Len(j.program)
           S == {k \in 1..n + 1 : o[k] = o[i]}
<1>1. n \in Nat /\ Len(c) \in Nat
  BY SeqType DEF Placed, IsJob
<1>2. o[n + 1] = Len(c) + 1
  BY DEF Placed, Offsets
<1>3. \A k \in 1..n : j.program[k].op = "label" => o[k + 1] = o[k]
  BY OnePlaced
<1>4. PICK m \in S : \A k \in S : k <= m
  <2>1. S \in SUBSET (1..n + 1) /\ i \in S /\ n + 1 \in Nat
    BY <1>1
  <2> HIDE DEF S
  <2> QED BY <2>1, GreatestElement
<1>5. m \in 1..n + 1 /\ o[m] = o[i]
  BY <1>4
<1> HIDE DEF n
<1>6. m \in 1..n
  <2>1. m # n + 1
    BY <1>1, <1>2, <1>5
  <2> QED BY <1>1, <1>5, <2>1
<1>7. j.program[m].op # "label"
  <2>1. SUFFICES ASSUME j.program[m].op = "label" PROVE FALSE
    OBVIOUS
  <2>2. o[m + 1] = o[i]
    BY <1>3, <1>5, <1>6, <2>1
  <2>3. m + 1 \in 1..n + 1
    BY <1>1, <1>6
  <2>4. m + 1 \in S
    BY <2>2, <2>3
  <2> QED BY <1>1, <1>4, <1>6, <2>4
<1> QED BY <1>5, <1>6, <1>7 DEF n

\* The machine looks at the immediate of an instruction, and there is nothing to see.
LooksInside(j, i) ==
  /\ j.program[i].op # "label" /\ Len(Coded(j, i)) = 2
  /\ Advance(Coded(j, i)[1]) = 1 /\ Advance(Coded(j, i)[2]) = 1 /\ Coded(j, i)[2] # 91

\* What a scan needs to know of one statement.
Standing(j, c, o, i) ==
  LET e == Coded(j, i)
  IN  /\ Scannable(e, j.program[i].op) /\ Len(e) \in Nat
      /\ o[i] \in Nat /\ o[i + 1] = o[i] + Len(e) /\ c[o[i]] = e[1]

\* Such is every statement that is no label.
LEMMA OneStands ==
  ASSUME NEW j, NEW c, NEW o, Placed(j, c, o), NEW i \in 1..Len(j.program),
         j.program[i].op # "label"
  PROVE  Standing(j, c, o, i)
BY OnePlaced DEF Standing

\* Where a scan can be.
KnownPlace(j, o, p) ==
  \/ \E i \in 1..Len(j.program) + 1 : p = o[i]
  \/ \E i \in 1..Len(j.program) : LooksInside(j, i) /\ p = o[i] + 1

\* From such a place the scan goes to another one.
LEMMA KnownStep ==
  ASSUME NEW j, NEW c, NEW o, Placed(j, c, o), NEW p \in 1..Len(c), KnownPlace(j, o, p)
  PROVE  KnownPlace(j, o, p + Advance(c[p]))
<1> DEFINE n == Len(j.program)
<1>1. n \in Nat /\ Len(c) \in Nat
  BY SeqType DEF Placed, IsJob
<1>2. \A i \in 1..n : i + 1 \in 1..n + 1
  BY <1>1
<1>3. ASSUME NEW i \in 1..n + 1, p = o[i] PROVE KnownPlace(j, o, p + Advance(c[p]))
  <2>1. o[i] <= Len(c)
    BY <1>1, <1>3
  <2>2. PICK k \in 1..n : j.program[k].op # "label" /\ o[k] = o[i]
    BY <2>1, NextInstr
  <2> DEFINE e == Coded(j, k)
  <2>3. /\ Scannable(e, j.program[k].op) /\ Len(e) \in Nat
        /\ o[k] \in Nat /\ o[k + 1] = o[k] + Len(e) /\ c[o[k]] = e[1]
    <3>1. k \in 1..Len(j.program)
      OBVIOUS
    <3>2. Standing(j, c, o, k)
      BY <2>2, <3>1, OneStands, Zenon
    <3> QED BY <3>2, Zenon DEF Standing
  <2>4. CASE Advance(e[1]) = Len(e)
    <3>1. p + Advance(c[p]) = o[k + 1]
      BY <1>3, <2>2, <2>3, <2>4
    <3> QED BY <1>2, <3>1 DEF KnownPlace
  <2>5. CASE Len(e) = 2 /\ Advance(e[1]) = 1 /\ Advance(e[2]) = 1 /\ e[2] # 91
    <3>1. p + Advance(c[p]) = o[k] + 1
      BY <1>3, <2>2, <2>3, <2>5
    <3>2. LooksInside(j, k)
      BY <2>2, <2>5 DEF LooksInside
    <3> QED BY <3>1, <3>2 DEF KnownPlace
  <2> QED BY <2>3, <2>4, <2>5 DEF Scannable
<1>4. ASSUME NEW i \in 1..n, LooksInside(j, i), p = o[i] + 1
      PROVE  KnownPlace(j, o, p + Advance(c[p]))
  <2> DEFINE e == Coded(j, i)
  <2>1. j.program[i].op # "label" /\ Len(e) = 2 /\ Advance(e[2]) = 1
    BY <1>4 DEF LooksInside
  <2>2. o[i] \in Nat /\ o[i + 1] = o[i] + Len(e) /\ c[o[i] + 1] = e[2]
    <3>1. /\ o[i] \in Nat
          /\ j.program[i].op # "label" =>
               /\ Len(e) \in Nat /\ o[i + 1] = o[i] + Len(e)
               /\ Len(e) = 2 => c[o[i] + 1] = e[2]
      BY OnePlaced
    <3> QED BY <2>1, <3>1
  <2>3. p + Advance(c[p]) = o[i + 1]
    BY <1>4, <2>1, <2>2
  <2> QED BY <1>2, <2>3 DEF KnownPlace
<1> QED BY <1>3, <1>4 DEF KnownPlace

\* The scan is nowhere else.
LEMMA ScanKnown ==
  ASSUME NEW j, NEW c, NEW o, Placed(j, c, o)
  PROVE  \A p \in ScanOf(c)[Len(c)] : KnownPlace(j, o, p)
<1> DEFINE w == ScanOf(c)
           S == {k \in Nat : k <= Len(c) => \A p \in w[k] : KnownPlace(j, o, p)}
<1>1. Len(j.program) \in Nat /\ Len(c) \in Nat
  BY SeqType DEF Placed, IsJob
<1>2. w[0] = {1} /\ \A k \in 1..Len(c) : w[k] = w[k - 1] \cup
                      (IF k \in w[k - 1] THEN {k + Advance(c[k])} ELSE {})
  BY <1>1, ScanEquation
<1>3. o[1] = 1 /\ 1 \in 1..Len(j.program) + 1
  BY <1>1 DEF Placed, Offsets
<1> HIDE DEF w
<1>4. 0 \in S
  BY <1>2, <1>3 DEF KnownPlace
<1>5. ASSUME NEW k \in Nat, k \in S PROVE k + 1 \in S
  <2>1. CASE k + 1 <= Len(c)
    <3>1. k + 1 \in 1..Len(c) /\ (k + 1) - 1 = k /\ k <= Len(c)
      BY <1>1, <2>1
    <3>2. \A p \in w[k] : KnownPlace(j, o, p)
      BY <1>5, <3>1
    <3>3. k + 1 \in w[k] => KnownPlace(j, o, (k + 1) + Advance(c[k + 1]))
      BY <3>1, <3>2, KnownStep
    <3>4. w[k + 1] = w[k] \cup (IF k + 1 \in w[k] THEN {(k + 1) + Advance(c[k + 1])} ELSE {})
      BY <1>2, <3>1
    <3>5. \A p \in w[k + 1] : KnownPlace(j, o, p)
      BY <3>2, <3>3, <3>4
    <3> QED BY <3>5
  <2>2. CASE ~(k + 1 <= Len(c))
    BY <2>2
  <2> QED BY <2>1, <2>2
<1>6. Nat \subseteq S
  <2> HIDE DEF S
  <2> QED BY <1>4, <1>5, InductiveSet
<1>7. Len(c) \in S
  BY <1>1, <1>6
<1> QED BY <1>1, <1>7 DEF w

\* The statements are found, and the targets are the JUMPDESTs.
LEMMA TargetsPlaced ==
  ASSUME NEW j, NEW c, NEW o, Placed(j, c, o)
  PROVE  /\ \A i \in 1..Len(j.program) : j.program[i].op # "label" =>
              o[i] \in ScanOf(c)[Len(c)] /\ o[i] \in 1..Len(c)
         /\ \A p \in ScanOf(c)[Len(c)] : p \in 1..Len(c) =>
              (c[p] = 91 => \E i \in 1..Len(j.program) :
                              j.program[i].op = "JUMPDEST" /\ p = o[i])
         /\ \A i \in 1..Len(j.program) : j.program[i].op = "JUMPDEST" => c[o[i]] = 91
<1> DEFINE n == Len(j.program)
<1>1. n \in Nat /\ Len(c) \in Nat
  BY SeqType DEF Placed, IsJob
<1>2. ASSUME NEW i \in 1..n, j.program[i].op # "label"
      PROVE  o[i] \in ScanOf(c)[Len(c)] /\ o[i] \in 1..Len(c)
  <2> DEFINE e == Coded(j, i)
  <2>1. /\ o[i] \in Nat /\ o[i] > 0 /\ o[i + 1] \in Nat /\ o[i + 1] <= Len(c) + 1
        /\ Scannable(e, j.program[i].op) /\ Len(e) \in Nat /\ o[i + 1] = o[i] + Len(e)
    BY <1>2, OnePlaced
  <2>2. Len(e) > 0
    BY <2>1 DEF Scannable
  <2> HIDE DEF e
  <2>3. o[i] \in 1..Len(c)
    BY <1>1, <2>1, <2>2
  <2>4. i \in 1..n + 1
    BY <1>1
  <2>5. o[i] - 1 \in 0..Len(c) /\ o[i] \in ScanOf(c)[o[i] - 1]
    BY <2>4, AllFound
  <2>6. Len(c) \in o[i] - 1..Len(c)
    BY <1>1, <2>3
  <2>7. ScanOf(c)[o[i] - 1] \subseteq ScanOf(c)[Len(c)]
    BY <1>1, <2>5, <2>6, ScanGrows
  <2> QED BY <2>3, <2>5, <2>7
<1>3. ASSUME NEW p \in ScanOf(c)[Len(c)], p \in 1..Len(c), c[p] = 91
      PROVE  \E i \in 1..n : j.program[i].op = "JUMPDEST" /\ p = o[i]
  <2>1. KnownPlace(j, o, p)
    BY ScanKnown
  <2>2. CASE \E i \in 1..n + 1 : p = o[i]
    <3>1. PICK i \in 1..n + 1 : p = o[i]
      BY <2>2
    <3>2. o[i] <= Len(c)
      BY <1>1, <1>3, <3>1
    <3>3. PICK k \in 1..n : j.program[k].op # "label" /\ o[k] = o[i]
      BY <3>2, NextInstr
    <3>4. Scannable(Coded(j, k), j.program[k].op) /\ c[o[k]] = Coded(j, k)[1]
      BY <3>3, OnePlaced
    <3>5. j.program[k].op = "JUMPDEST"
      BY <1>3, <3>1, <3>3, <3>4 DEF Scannable
    <3> QED BY <3>1, <3>3, <3>5
  <2>3. ASSUME NEW i \in 1..n, LooksInside(j, i), p = o[i] + 1 PROVE FALSE
    <3>1. j.program[i].op # "label" /\ Len(Coded(j, i)) = 2 /\ Coded(j, i)[2] # 91
      BY <2>3 DEF LooksInside
    <3>2. c[o[i] + 1] = Coded(j, i)[2]
      BY <3>1, OnePlaced
    <3> QED BY <1>3, <2>3, <3>1, <3>2
  <2> QED BY <2>1, <2>2, <2>3 DEF KnownPlace
<1>4. ASSUME NEW i \in 1..n, j.program[i].op = "JUMPDEST" PROVE c[o[i]] = 91
  <2>1. Scannable(Coded(j, i), j.program[i].op) /\ c[o[i]] = Coded(j, i)[1]
    BY <1>4, OnePlaced
  <2> QED BY <1>4, <2>1 DEF Scannable
<1> QED BY <1>2, <1>3, <1>4

\* The offsets of a program without data are those the invariant knows.
LEMMA OffsetsAre ==
  ASSUME IsJob(job), NEW o, Offsets(job, Len(job.program) + 1, code, o)
  PROVE  \A i \in 1..Len(job.program) + 1 : Offset[i] = o[i]
<1> DEFINE n == Len(job.program)
           D == 1..n + 1
           F(u, i) == IF i <= 1 THEN 1 ELSE u[i - 1] + Len(Encoded(job.program[i - 1]))
           u0 == [i \in D |-> o[i]]
<1>1. n \in Nat
  BY SeqType DEF IsJob
<1>2. o[1] = 1 /\ \A i \in 1..(n + 1) - 1 : o[i + 1] = o[i] + Len(Coded(job, i))
  BY DEF Offsets
<1>3. \A i \in 1..n : Encoded(job.program[i]) = Coded(job, i)
  BY SameDefinitions DEF Coded
<1> HIDE DEF n
<1>4. ASSUME NEW i \in D PROVE o[i] = F(u0, i)
  <2>1. CASE i <= 1
    <3>1. i = 1
      BY <2>1
    <3> QED BY <1>2, <3>1
  <2>2. CASE ~(i <= 1)
    <3>1. i - 1 \in 1..n /\ i - 1 \in D /\ i - 1 \in 1..(n + 1) - 1 /\ (i - 1) + 1 = i
      BY <1>1, <2>2
    <3>2. u0[i - 1] = o[i - 1]
      BY <3>1
    <3> HIDE DEF u0
    <3>3. o[i] = o[i - 1] + Len(Coded(job, i - 1))
      BY <1>2, <3>1
    <3>4. Encoded(job.program[i - 1]) = Coded(job, i - 1)
      BY <1>3, <3>1
    <3> QED BY <2>2, <3>2, <3>3, <3>4
  <2> QED BY <2>1, <2>2
<1>5. \E u : u = [i \in D |-> F(u, i)]
  <2>1. u0 = [i \in D |-> F(u0, i)]
    <3> HIDE DEF F
    <3> QED BY <1>4
  <2> HIDE DEF F, u0, D
  <2> QED BY <2>1
<1>6. Offset = CHOOSE u : u = [i \in D |-> F(u, i)]
  BY DEF Offset, Program, n
<1>7. Offset = [i \in D |-> F(Offset, i)]
  <2> HIDE DEF F, D
  <2> QED BY <1>5, <1>6
<1>8. \A i \in D : Offset[i] = F(Offset, i)
  <2> HIDE DEF F, D
  <2> QED BY <1>7
<1> DEFINE S == {k \in Nat : k < n + 1 => Offset[k + 1] = o[k + 1]}
<1>9. 0 \in S
  <2>1. 1 \in D /\ 0 + 1 = 1
    BY <1>1
  <2>2. Offset[1] = F(Offset, 1)
    <3> HIDE DEF F, D
    <3> QED BY <1>8, <2>1
  <2> QED BY <1>2, <2>1, <2>2
<1>10. ASSUME NEW k \in Nat, k \in S PROVE k + 1 \in S
  <2>1. CASE k + 1 < n + 1
    <3>1. /\ k < n + 1 /\ (k + 1) + 1 \in D /\ ~((k + 1) + 1 <= 1)
          /\ ((k + 1) + 1) - 1 = k + 1 /\ k + 1 \in 1..n /\ k + 1 \in 1..(n + 1) - 1
      BY <1>1, <2>1
    <3>2. Offset[(k + 1) + 1] = F(Offset, (k + 1) + 1)
      <4> HIDE DEF F, D
      <4> QED BY <1>8, <3>1
    <3>3. Offset[(k + 1) + 1] = Offset[k + 1] + Len(Encoded(job.program[k + 1]))
      BY <3>1, <3>2
    <3>4. Offset[k + 1] = o[k + 1]
      BY <1>10, <3>1
    <3>5. Encoded(job.program[k + 1]) = Coded(job, k + 1)
      BY <1>3, <3>1
    <3>6. o[(k + 1) + 1] = o[k + 1] + Len(Coded(job, k + 1))
      BY <1>2, <3>1
    <3>7. Offset[(k + 1) + 1] = o[(k + 1) + 1]
      BY <3>3, <3>4, <3>5, <3>6
    <3> QED BY <3>7
  <2>2. CASE ~(k + 1 < n + 1)
    BY <2>2
  <2> QED BY <2>1, <2>2
<1>11. Nat \subseteq S
  <2> HIDE DEF S
  <2> QED BY <1>9, <1>10, InductiveSet
<1>12. ASSUME NEW i \in D PROVE Offset[i] = o[i]
  <2>1. i - 1 \in Nat /\ i - 1 < n + 1 /\ (i - 1) + 1 = i
    BY <1>1
  <2>2. i - 1 \in S
    BY <1>11, <2>1
  <2> QED BY <2>1, <2>2
<1> QED BY <1>12 DEF n

\* In a program without data every instruction is found by the machine's scan for jump
\* targets, and the targets are the JUMPDEST statements.
LEMMA TargetsExact == DisInv => TargetsAreStatements
<1> SUFFICES ASSUME DisInv, stage = "disassemble", at = 1, OnlyCode PROVE TargetsAreStatements
  BY DEF TargetsAreStatements
<1> DEFINE p == job.program
           n == Len(p)
<1>1. IsJob(job) /\ AllAccepted(job) /\ LaidOut(job, n + 1, code)
  BY DEF DisInv, DisInvFor
<1>2. PICK o : Offsets(job, n + 1, code, o)
  BY <1>1 DEF LaidOut
<1>3. n \in Nat /\ DOMAIN p = 1..n /\ IsSeq(code) /\ DOMAIN code = 1..Len(code)
  BY <1>1, SeqType DEF IsJob, LaidOut
<1>4. \A i \in 1..n : p[i].op # "#bytes"
  BY <1>3 DEF OnlyCode, Program
<1>5. Placed(job, code, o)
  BY <1>1, <1>2, <1>3, <1>4 DEF Placed
<1>6. Scan = ScanOf(code)[Len(code)] \cap 1..Len(code)
  BY <1>3 DEF Scan, ScanOf
<1>7. \A i \in 1..n : Offset[i] = o[i]
  <2>1. \A i \in 1..n : i \in 1..n + 1
    BY <1>3
  <2>2. \A i \in 1..n + 1 : Offset[i] = o[i]
    BY <1>1, <1>2, OffsetsAre
  <2> QED BY <2>1, <2>2
<1>8. /\ \A i \in 1..n : p[i].op # "label" =>
           o[i] \in ScanOf(code)[Len(code)] /\ o[i] \in 1..Len(code)
      /\ \A q \in ScanOf(code)[Len(code)] : q \in 1..Len(code) =>
           (code[q] = 91 => \E i \in 1..n : p[i].op = "JUMPDEST" /\ q = o[i])
      /\ \A i \in 1..n : p[i].op = "JUMPDEST" => code[o[i]] = 91
  BY <1>5, TargetsPlaced
<1>9. Code["JUMPDEST"] = 91
  BY CodesAssumption
<1> DEFINE instrs == {i \in 1..n : p[i].op # "label"}
           dests == {i \in instrs : p[i].op = "JUMPDEST"}
           targets == {q \in Scan : code[q] = Code["JUMPDEST"]}
<1>10. \A i \in instrs : Offset[i] \in Scan
  BY <1>6, <1>7, <1>8
<1>11. targets = {Offset[i] : i \in dests}
  <2>1. ASSUME NEW q \in targets PROVE \E i \in dests : q = Offset[i]
    <3>1. q \in ScanOf(code)[Len(code)] /\ q \in 1..Len(code) /\ code[q] = 91
      BY <1>6, <1>9
    <3>2. PICK i \in 1..n : p[i].op = "JUMPDEST" /\ q = o[i]
      BY <1>8, <3>1
    <3>3. i \in dests
      BY <3>2
    <3> QED BY <1>7, <3>2, <3>3
  <2>2. ASSUME NEW i \in dests PROVE Offset[i] \in targets
    BY <1>7, <1>8, <1>9, <1>10
  <2> HIDE DEF targets, dests
  <2> QED BY <2>1, <2>2
<1> QED BY <1>3, <1>10, <1>11 DEF TargetsAreStatements, Program

\* In the output of a program without data, of any length and for any shipped fork, the
\* machine's scan finds every instruction, and finds JUMPDEST where the program has one
\* and nowhere else (generateOutput, with the encodings of internal/evm/immediates.go).
THEOREM TargetsTheorem ==
  ASSUME NEW CONSTANT Jobs, \A j \in Jobs : IsInput(j)
  PROVE  DisInit(Jobs) /\ [][DisNext]_disVars => []TargetsAreStatements
<1>0. \A j \in Jobs : IsJob(j)
  BY InputsAreJobs
<1>1. DisInit(Jobs) /\ [][DisNext]_disVars => []DisInv
  BY <1>0, DisInvHolds
<1> QED BY <1>1, TargetsExact, PTL

\* In a program without data, of any length, the statements that execution cannot reach
\* are those from a warning of unreachableCodeCheck up to the next JUMPDEST.
THEOREM WarningsTheorem ==
  ASSUME NEW CONSTANT Jobs, \A j \in Jobs : IsInput(j)
  PROVE  DisInit(Jobs) /\ [][DisNext]_disVars => []WarningsAreExact
<1>0. \A j \in Jobs : IsJob(j)
  BY InputsAreJobs
<1>1. DisInit(Jobs) /\ [][DisNext]_disVars => []DisInv
  BY <1>0, DisInvHolds
<1> QED BY <1>1, WarningsExact, PTL

-----------------------------------------------------------------------------
(* Sequences and what they are made of.                                      *)

\* Sequences with the same elements are the same.
LEMMA SameSeq ==
  ASSUME NEW s, IsSeq(s), NEW r, IsSeq(r), Len(s) = Len(r), \A i \in 1..Len(s) : s[i] = r[i]
  PROVE  s = r
<1>1. PICK S : s \in Seq(S)
  BY DEF IsSeq
<1>2. PICK R : r \in Seq(R)
  BY DEF IsSeq
<1> DEFINE T == S \cup R
<1>3. s \in Seq(T) /\ r \in Seq(T)
  BY <1>1, <1>2
<1> HIDE DEF T
<1> QED BY <1>3

\* A part of a sequence.
LEMMA PartSeq ==
  ASSUME NEW s, IsSeq(s), NEW m \in Nat \ {0}, NEW n \in Nat, m <= n + 1, n <= Len(s)
  PROVE  /\ IsSeq(SubSeq(s, m, n)) /\ Len(SubSeq(s, m, n)) = n + 1 - m
         /\ \A i \in 1..(n + 1 - m) : SubSeq(s, m, n)[i] = s[m + i - 1]
<1>1. PICK S : s \in Seq(S)
  BY DEF IsSeq
<1>2. /\ SubSeq(s, m, n) \in Seq(S) /\ Len(SubSeq(s, m, n)) = n + 1 - m
      /\ \A i \in 1..(n + 1 - m) : SubSeq(s, m, n)[i] = s[m + i - 1]
  BY <1>1
<1> QED BY <1>2 DEF IsSeq

\* The empty sequence, and sequences of one and two.
LEMMA FewSeq ==
  ASSUME NEW x, NEW y
  PROVE  /\ IsSeq(<<>>) /\ Len(<<>>) = 0
         /\ IsSeq(<<x>>) /\ Len(<<x>>) = 1 /\ <<x>>[1] = x
         /\ IsSeq(<<x, y>>) /\ Len(<<x, y>>) = 2 /\ <<x, y>>[1] = x /\ <<x, y>>[2] = y
<1>1. <<>> \in Seq({}) /\ <<x>> \in Seq({x}) /\ <<x, y>> \in Seq({x, y})
  OBVIOUS
<1>2. Len(<<>>) = 0 /\ Len(<<x>>) = 1 /\ Len(<<x, y>>) = 2
  OBVIOUS
<1> QED BY <1>1, <1>2 DEF IsSeq

\* One element more, by concatenation.
LEMMA JoinOne ==
  ASSUME NEW s, IsSeq(s), NEW x
  PROVE  s \o <<x>> = Append(s, x)
<1>1. PICK S : s \in Seq(S)
  BY DEF IsSeq
<1> DEFINE T == S \cup {x}
<1>2. s \in Seq(T) /\ x \in T
  BY <1>1
<1> HIDE DEF T
<1> QED BY <1>2

\* Nothing more.
LEMMA JoinNone ==
  ASSUME NEW s, IsSeq(s)
  PROVE  s \o <<>> = s /\ <<>> \o s = s
<1>1. PICK S : s \in Seq(S)
  BY DEF IsSeq
<1> QED BY <1>1

\* An element and a sequence.
LEMMA OneBefore ==
  ASSUME NEW x, NEW r, IsSeq(r)
  PROVE  /\ IsSeq(<<x>> \o r) /\ Len(<<x>> \o r) = Len(r) + 1
         /\ (<<x>> \o r)[1] = x
         /\ \A i \in 1..Len(r) : (<<x>> \o r)[1 + i] = r[i]
<1> DEFINE h == <<x>>
<1>1. Len(h) = 1 /\ h[1] = x
  BY FewSeq
<1>5. IsSeq(h)
  BY FewSeq
<1> HIDE DEF h
<1>2. Len(r) \in Nat
  BY SeqType
<1>3. /\ IsSeq(h \o r) /\ Len(h \o r) = Len(h) + Len(r)
      /\ \A i \in 1..Len(h) : (h \o r)[i] = h[i]
      /\ \A i \in 1..Len(r) : (h \o r)[Len(h) + i] = r[i]
  BY <1>5, Joined
<1>4. 1 \in 1..Len(h)
  BY <1>1
<1> QED BY <1>1, <1>2, <1>3, <1>4 DEF h

AllBytes(c) == \A k \in 1..Len(c) : c[k] \in Bytes

\* Zeros and bytes are bytes, and data that need no zeros stay as they are.
LEMMA PaddedBytes ==
  ASSUME NEW data, IsSeq(data), NEW size \in Nat, Len(data) <= size
  PROVE  /\ AllBytes(data) => AllBytes(Pad(data, size))
         /\ Len(data) = size => Pad(data, size) = data
<1> DEFINE zeros == [i \in 1..size - Len(data) |-> 0]
           m == size - Len(data)
<1>1. Len(data) \in Nat /\ m \in Nat
  BY SeqType
<1>2. zeros \in Seq({0}) /\ Len(zeros) = m
  BY <1>1
<1>3. \A i \in 1..m : zeros[i] = 0
  OBVIOUS
<1>4. IsSeq(zeros)
  BY <1>2 DEF IsSeq
<1>5. Pad(data, size) = zeros \o data
  BY DEF Pad
<1> HIDE DEF zeros
<1>6. /\ Len(zeros \o data) = m + Len(data)
      /\ \A i \in 1..m : (zeros \o data)[i] = 0
      /\ \A i \in 1..Len(data) : (zeros \o data)[m + i] = data[i]
  BY <1>2, <1>3, <1>4, Joined
<1>7. ASSUME AllBytes(data) PROVE AllBytes(zeros \o data)
  <2>1. ASSUME NEW k \in 1..(m + Len(data)) PROVE (zeros \o data)[k] \in Bytes
    <3>1. CASE k \in 1..m
      BY <1>6, <3>1 DEF Bytes
    <3>2. CASE k \notin 1..m
      <4>1. k - m \in 1..Len(data) /\ m + (k - m) = k
        BY <1>1, <3>2
      <4> QED BY <1>6, <1>7, <4>1 DEF AllBytes
    <3> QED BY <3>1, <3>2
  <2> QED BY <1>6, <2>1 DEF AllBytes
<1>8. ASSUME Len(data) = size PROVE zeros \o data = data
  <2>1. m = 0
    BY <1>1, <1>8
  <2>2. zeros = <<>>
    BY <1>2, <1>4, <2>1, SeqType
  <2> QED BY <2>2, JoinNone
<1> QED BY <1>5, <1>7, <1>8

\* Bytes are joined to bytes.
LEMMA JoinedBytes ==
  ASSUME NEW s, IsSeq(s), AllBytes(s), NEW r, IsSeq(r), AllBytes(r)
  PROVE  AllBytes(s \o r)
<1>1. Len(s) \in Nat /\ Len(r) \in Nat
  BY SeqType
<1>2. /\ Len(s \o r) = Len(s) + Len(r)
      /\ \A i \in 1..Len(s) : (s \o r)[i] = s[i]
      /\ \A i \in 1..Len(r) : (s \o r)[Len(s) + i] = r[i]
  BY Joined
<1>3. ASSUME NEW k \in 1..(Len(s) + Len(r)) PROVE (s \o r)[k] \in Bytes
  <2>1. CASE k \in 1..Len(s)
    BY <1>2, <2>1 DEF AllBytes
  <2>2. CASE k \notin 1..Len(s)
    <3>1. k - Len(s) \in 1..Len(r) /\ Len(s) + (k - Len(s)) = k
      BY <1>1, <2>2
    <3> QED BY <1>2, <3>1 DEF AllBytes
  <2> QED BY <2>1, <2>2
<1> QED BY <1>2, <1>3 DEF AllBytes

-----------------------------------------------------------------------------
(* What statements are assembled to, byte by byte.                           *)

\* A push is its operation and its data.
LEMMA PushCoded ==
  ASSUME NEW fork \in DOMAIN Forks, NEW s, IsStatement(s), AcceptedBy(fork, s), IsPush(s.op)
  PROVE  \E size \in 0..32 :
           /\ size = DataSizeFor(fork, s) /\ IsSeq(s.arg) /\ Len(s.arg) <= size
           /\ ResolvedFor(fork, s) = PushOp(size) /\ PushOp(size) \in DOMAIN ByName[fork]
           /\ EncodedFor(fork, s) = <<95 + size>> \o Pad(s.arg, size)
<1> DEFINE size == DataSizeFor(fork, s)
<1>1. /\ s.op \notin {"#bytes", "label"}
      /\ size \in 0..32 /\ IsSeq(s.arg) /\ Len(s.arg) <= size
      /\ ResolvedFor(fork, s) = PushOp(size)
      /\ PushOp(size) \in DOMAIN ByName[fork]
  <2>1. CASE s.op = "PUSH"
    <3>1. IsSeq(s.arg) /\ Len(s.arg) \in 0..32
      <4>1. IsSeq(s.arg) /\ Len(s.arg) <= 32
        BY <2>1 DEF IsStatement
      <4>2. Len(s.arg) \in Nat
        BY <4>1, SeqType
      <4> DEFINE n == Len(s.arg)
      <4>3. n \in Nat /\ n <= 32
        BY <4>1, <4>2
      <4> HIDE DEF n
      <4>4. n \in 0..32
        BY <4>3
      <4> QED BY <4>1, <4>4 DEF n
    <3>2. size = IF Len(s.arg) = 0 /\ "PUSH0" \notin DOMAIN ByName[fork] THEN 1 ELSE Len(s.arg)
      BY <2>1 DEF DataSizeFor
    <3> HIDE DEF size
    <3>3. size \in 0..32 /\ Len(s.arg) <= size
      BY <3>1, <3>2
    <3>4. PushOp(size) \in DOMAIN ByName[fork]
      <4>1. CASE size = 0
        <5>1. PushOp(size) = "PUSH0" /\ "PUSH0" \in DOMAIN ByName[fork]
          <6>1. PushOp(0) = "PUSH0"
            BY CodesAssumption
          <6> QED BY <3>1, <3>2, <4>1, <6>1
        <5> QED BY <5>1
      <4>2. CASE size # 0
        <5>1. size \in 1..32
          BY <3>3, <4>2
        <5> QED BY <5>1, PushAssumption
      <4> QED BY <4>1, <4>2
    <3> QED BY <2>1, <3>1, <3>3, <3>4 DEF ResolvedFor, size
  <2>2. CASE s.op # "PUSH"
    <3>1. Push(s.op) /\ s.op \in DOMAIN Pushes
      BY <2>2 DEF IsPush, Push
    <3>2. size = PushSize(s.op) /\ ResolvedFor(fork, s) = s.op
      BY <2>2 DEF DataSizeFor, ResolvedFor
    <3>3. s.op = PushOp(PushSize(s.op)) /\ PushSize(s.op) \in 0..32
      BY <3>1, CodesAssumption
    <3>4. IsSeq(s.arg) /\ Len(s.arg) <= PushSize(s.op)
      BY <3>1 DEF IsStatement
    <3>5. s.op \notin {"label", "#bytes"}
      BY <3>1, CodesAssumption
    <3>6. s.op \in DOMAIN ByName[fork]
      BY <2>2, <3>5 DEF AcceptedBy
    <3> QED BY <3>2, <3>3, <3>4, <3>5, <3>6
  <2> QED BY <2>1, <2>2
<1>2. EncodedFor(fork, s) = <<Code[PushOp(size)]>> \o Pad(s.arg, size)
  <2>1. ~HasImmediate(s.op)
    BY CodesAssumption DEF HasImmediate, IsPush, Push
  <2> HIDE DEF size
  <2> QED BY <1>1, <2>1 DEF EncodedFor, size
<1> HIDE DEF size
<1>3. Code[PushOp(size)] = 95 + size
  BY <1>1, PushCodeOf
<1>4. /\ size = DataSizeFor(fork, s) /\ IsSeq(s.arg) /\ Len(s.arg) <= size
      /\ ResolvedFor(fork, s) = PushOp(size) /\ PushOp(size) \in DOMAIN ByName[fork]
      /\ EncodedFor(fork, s) = <<95 + size>> \o Pad(s.arg, size)
  BY <1>1, <1>2, <1>3 DEF size
<1> QED BY <1>1, <1>4

\* An operation with an immediate is the operation and a byte.
LEMMA ImmediateCoded ==
  ASSUME NEW fork \in DOMAIN Forks, NEW s, IsStatement(s), AcceptedBy(fork, s), HasImmediate(s.op)
  PROVE  /\ EncodedFor(fork, s) = <<Code[s.op], EncodeImmediateArgs(s.op, s.arg)>>
         /\ EncodeImmediateArgs(s.op, s.arg) \in Bytes
         /\ ArgsOK(s.op, s.arg) /\ s.op \in DOMAIN ByName[fork]
         /\ s.op = "EXCHANGE" => /\ Len(s.arg) = 2 /\ s.arg[1] \in Int /\ s.arg[2] \in Int
                                 /\ PairOK(s.arg[1], s.arg[2])
         /\ s.op # "EXCHANGE" => Len(s.arg) = 1 /\ s.arg[1] \in Int /\ DepthOK(s.arg[1])
<1>1. s.op \in {"DUPN", "SWAPN", "EXCHANGE"}
  BY CodesAssumption DEF HasImmediate
<1>2. s.op \notin DOMAIN Pushes /\ ~IsPush(s.op)
  BY <1>1, CodesAssumption DEF IsPush, Push
<1>3. EncodedFor(fork, s) = <<Code[s.op], EncodeImmediateArgs(s.op, s.arg)>>
  BY <1>1, <1>2 DEF EncodedFor
<1>4. /\ ArgsOK(s.op, s.arg) /\ s.op \in DOMAIN ByName[fork]
      /\ IsSeq(s.arg) /\ \A k \in DOMAIN s.arg : s.arg[k] \in Int
  BY <1>1 DEF AcceptedBy, IsStatement
<1>5. DOMAIN s.arg = 1..Len(s.arg)
  BY <1>4, SeqType
<1>6. CASE s.op = "EXCHANGE"
  <2>1. Len(s.arg) = 2 /\ PairOK(s.arg[1], s.arg[2])
    BY <1>4, <1>6 DEF ArgsOK
  <2>2. s.arg[1] \in Int /\ s.arg[2] \in Int
    BY <1>4, <1>5, <2>1
  <2>3. EncodeImmediateArgs(s.op, s.arg) \in Bytes
    BY <1>6, <2>1, <2>2, PairSurvives DEF EncodeImmediateArgs
  <2> QED BY <1>3, <1>4, <1>6, <2>1, <2>2, <2>3
<1>7. CASE s.op # "EXCHANGE"
  <2>1. Len(s.arg) = 1 /\ DepthOK(s.arg[1])
    BY <1>4, <1>7 DEF ArgsOK
  <2>2. s.arg[1] \in Int
    BY <1>4, <1>5, <2>1
  <2>3. EncodeImmediateArgs(s.op, s.arg) \in Bytes
    BY <1>7, <2>1, <2>2, DepthSurvives DEF EncodeImmediateArgs
  <2> QED BY <1>3, <1>4, <1>7, <2>1, <2>2, <2>3
<1> QED BY <1>6, <1>7

\* Any other operation is its code.
LEMMA PlainCoded ==
  ASSUME NEW fork \in DOMAIN Forks, NEW s, AcceptedBy(fork, s), ~NoCode(s),
         ~IsPush(s.op), ~HasImmediate(s.op)
  PROVE  /\ EncodedFor(fork, s) = <<Code[s.op]>> /\ s.op \in DOMAIN ByName[fork]
         /\ s.op \in Ops \ DOMAIN Pushes
<1>1. s.op \in DOMAIN ByName[fork]
  BY DEF AcceptedBy, NoCode, IsPush
<1>2. s.op \in Ops \ DOMAIN Pushes
  BY <1>1, ForkOps DEF IsPush, Push
<1> QED BY <1>1, <1>2 DEF EncodedFor, NoCode

\* The codes of operations are bytes.
LEMMA CodeIsByte == \A op \in Ops : Code[op] \in Bytes
<1>1. ASSUME NEW op \in DOMAIN Pushes PROVE Code[op] \in Bytes
  <2>1. op = PushOp(PushSize(op)) /\ PushSize(op) \in 0..32
    BY CodesAssumption
  <2>2. PICK n \in 0..32 : op = PushOp(n)
    BY <2>1
  <2>3. Code[op] = 95 + n
    BY <2>2, CodesAssumption
  <2> QED BY <2>2, <2>3 DEF Bytes
<1> QED BY <1>1, CodesAssumption DEF Bytes

\* All that is assembled are bytes.
LEMMA CodedBytes ==
  ASSUME NEW fork \in DOMAIN Forks, NEW s, IsStatement(s), AcceptedBy(fork, s)
  PROVE  AllBytes(EncodedFor(fork, s))
<1> DEFINE e == EncodedFor(fork, s)
<1>1. CASE IsPush(s.op)
  <2>1. PICK size \in 0..32 : /\ IsSeq(s.arg) /\ Len(s.arg) <= size
                              /\ e = <<95 + size>> \o Pad(s.arg, size)
    BY <1>1, PushCoded
  <2>2. AllBytes(s.arg)
    BY <1>1 DEF IsStatement, AllBytes
  <2>3. AllBytes(Pad(s.arg, size)) /\ IsSeq(Pad(s.arg, size))
    BY <2>1, <2>2, PaddedBytes, Padded
  <2>4. IsSeq(<<95 + size>>) /\ AllBytes(<<95 + size>>)
    <3> DEFINE b == 95 + size
    <3>1. b \in Bytes
      BY DEF Bytes
    <3> HIDE DEF b
    <3>2. IsSeq(<<b>>) /\ Len(<<b>>) = 1 /\ <<b>>[1] = b
      BY FewSeq
    <3>3. AllBytes(<<b>>)
      BY <3>1, <3>2 DEF AllBytes
    <3> QED BY <3>2, <3>3 DEF b
  <2> HIDE DEF e
  <2> QED BY <2>1, <2>3, <2>4, JoinedBytes DEF e
<1>2. CASE HasImmediate(s.op)
  <2>1. /\ e = <<Code[s.op], EncodeImmediateArgs(s.op, s.arg)>>
        /\ EncodeImmediateArgs(s.op, s.arg) \in Bytes
    BY <1>2, ImmediateCoded
  <2>2. Code[s.op] \in Bytes
    BY <1>2, CodeIsByte, CodesAssumption DEF HasImmediate
  <2> HIDE DEF e
  <2>3. AllBytes(e)
    BY <2>1, <2>2 DEF AllBytes
  <2> QED BY <2>3 DEF e
<1>3. CASE ~IsPush(s.op) /\ ~HasImmediate(s.op) /\ ~NoCode(s)
  <2>1. e = <<Code[s.op]>> /\ Code[s.op] \in Bytes
    BY <1>3, PlainCoded, CodeIsByte
  <2> HIDE DEF e
  <2>2. AllBytes(e)
    BY <2>1 DEF AllBytes
  <2> QED BY <2>2 DEF e
<1>4. CASE ~IsPush(s.op) /\ ~HasImmediate(s.op) /\ NoCode(s)
  <2>1. CASE s.op = "#bytes"
    <3>1. e = s.arg
      BY <1>4, <2>1 DEF EncodedFor
    <3> QED BY <2>1, <3>1 DEF AllBytes, IsStatement
  <2>2. CASE s.op = "label"
    <3>1. e = <<>>
      BY <1>4, <2>2 DEF EncodedFor
    <3> HIDE DEF e
    <3>2. AllBytes(e)
      BY <3>1 DEF AllBytes
    <3> QED BY <3>2 DEF e
  <2> QED BY <1>4, <2>1, <2>2 DEF NoCode
<1> QED BY <1>1, <1>2, <1>3, <1>4

\* A code is that of one operation of a fork.
LEMMA CodesDiffer ==
  ASSUME NEW fork \in DOMAIN Forks, NEW a \in DOMAIN ByName[fork], NEW b \in DOMAIN ByName[fork],
         Code[a] = Code[b]
  PROVE  a = b
<1>1. IsRegistry(Forks) /\ WellFormed(Forks, fork) /\ DOMAIN ByName[fork] = OpsOf(Forks, fork)
  BY ForksAssumption, ByNameAssumption
<1>2. /\ Ends(Forks, fork)
      /\ \A n \in 0..Cardinality(DOMAIN Forks) :
           Chain(Forks, fork)[n] # NoParent => Sane(Forks, Chain(Forks, fork)[n])
  BY <1>1, WellFormedMeans
<1>3. Chain(Forks, fork)[0] = fork /\ Cardinality(DOMAIN Forks) \in Nat /\ fork # NoParent
  BY <1>1, ChainEquation DEF IsRegistry
<1>4. 0 \in 0..Cardinality(DOMAIN Forks)
  BY <1>3
<1>5. Sane(Forks, fork)
  BY <1>2, <1>3, <1>4
<1>6. OpsOf(Forks, fork) = Forks[fork].added \cup Kept(Forks, fork)
  BY <1>1, <1>2, OpsStep DEF Kept
<1>7. ~SameCode(OpsOf(Forks, fork)) /\ OpsOf(Forks, fork) \subseteq Ops
  BY <1>5, <1>6 DEF Sane, OpsOf
<1> QED BY <1>1, <1>7, CodesCollide DEF Collide

-----------------------------------------------------------------------------
(* What a listing says of the code.                                          *)

\* A part of the code.
Slice(c, p, q, e) ==
  /\ IsSeq(e) /\ q = p + Len(e)
  /\ \A b \in 1..Len(e) : c[p + b] = e[b]

IsLine(tok) == tok.t \in {"op", "bytes"}

\* A line can start here.
Fresh(tokens) == Len(tokens) = 0 \/ tokens[Len(tokens)].t \in {"nl", "pc"}

\* Token k stands for the bytes between p and q, and the assembler will read it.
TokenOK(fork, c, tokens, k, p, q) ==
  LET tok == tokens[k]
      starts == k = 1 \/ tokens[k - 1].t \in {"nl", "pc"}
  IN  \/ tok.t = "nl" /\ q = p
      \/ tok.t = "comment" /\ q = p
      \/ tok.t = "pc" /\ q = p /\ starts /\ tok.pc = p
      \/ tok.t = "bytes" /\ starts /\ Slice(c, p, q, tok.arg)
      \/ /\ tok.t = "op" /\ starts /\ tok.op \in DOMAIN ByName[fork]
         /\ Push(tok.op) => Len(tok.arg) <= PushSize(tok.op)
         /\ HasImmediate(tok.op) => ArgsOK(tok.op, tok.arg)
         /\ Slice(c, p, q, EncodedFor(fork, tok))

\* s has the number of bytes before every token, g the instructions.
Reads(fork, c, tokens, s, g) ==
  /\ IsSeq(tokens) /\ s[0] = 0 /\ g[0] = <<>>
  /\ \A k \in 0..Len(tokens) : s[k] \in Nat /\ s[k] <= Len(c)
  /\ \A k \in 1..Len(tokens) : TokenOK(fork, c, tokens, k, s[k - 1], s[k])
  /\ \A k \in 1..Len(tokens) - 1 : tokens[k].t = "comment" => tokens[k + 1] = NL
  /\ \A k \in 1..Len(tokens) :
       g[k] = IF IsLine(tokens[k]) THEN Append(g[k - 1], ShownBy(tokens[k])) ELSE g[k - 1]

\* A listing of the first p bytes, with these instructions.
ListedTo(fork, c, tokens, p, ops) ==
  \E s, g : Reads(fork, c, tokens, s, g) /\ s[Len(tokens)] = p /\ g[Len(tokens)] = ops

\* The next token.
NextOK(fork, c, tokens, tok, p, q) ==
  /\ q \in Nat /\ q <= Len(c)
  /\ Len(tokens) > 0 /\ tokens[Len(tokens)].t = "comment" => tok = NL
  /\ \/ tok.t = "nl" /\ q = p
     \/ tok.t = "comment" /\ q = p
     \/ tok.t = "pc" /\ q = p /\ Fresh(tokens) /\ tok.pc = p
     \/ tok.t = "bytes" /\ Fresh(tokens) /\ Slice(c, p, q, tok.arg)
     \/ /\ tok.t = "op" /\ Fresh(tokens) /\ tok.op \in DOMAIN ByName[fork]
        /\ Push(tok.op) => Len(tok.arg) <= PushSize(tok.op)
        /\ HasImmediate(tok.op) => ArgsOK(tok.op, tok.arg)
        /\ Slice(c, p, q, EncodedFor(fork, tok))

\* A token more.
LEMMA ListMore ==
  ASSUME NEW fork, NEW c, NEW tokens, NEW p, NEW ops, ListedTo(fork, c, tokens, p, ops),
         NEW tok, NEW q, NextOK(fork, c, tokens, tok, p, q)
  PROVE  /\ ListedTo(fork, c, Append(tokens, tok), q,
                     IF IsLine(tok) THEN Append(ops, ShownBy(tok)) ELSE ops)
         /\ IsSeq(Append(tokens, tok)) /\ Len(Append(tokens, tok)) = Len(tokens) + 1
         /\ Append(tokens, tok)[Len(tokens) + 1] = tok
<1> DEFINE n == Len(tokens)
           more == Append(tokens, tok)
           ops2 == IF IsLine(tok) THEN Append(ops, ShownBy(tok)) ELSE ops
<1>1. PICK s, g : Reads(fork, c, tokens, s, g) /\ s[n] = p /\ g[n] = ops
  BY DEF ListedTo
<1>2. /\ IsSeq(tokens) /\ s[0] = 0 /\ g[0] = <<>>
      /\ \A k \in 0..n : s[k] \in Nat /\ s[k] <= Len(c)
      /\ \A k \in 1..n : TokenOK(fork, c, tokens, k, s[k - 1], s[k])
      /\ \A k \in 1..n - 1 : tokens[k].t = "comment" => tokens[k + 1] = NL
      /\ \A k \in 1..n :
           g[k] = IF IsLine(tokens[k]) THEN Append(g[k - 1], ShownBy(tokens[k])) ELSE g[k - 1]
  BY <1>1 DEF Reads
<1>3. n \in Nat
  BY <1>2, SeqType
<1>4. /\ IsSeq(more) /\ Len(more) = n + 1
      /\ \A i \in 1..n : more[i] = tokens[i]
      /\ more[n + 1] = tok
  BY <1>2, AppendSeq
<1> DEFINE s2 == [k \in 0..(n + 1) |-> IF k = n + 1 THEN q ELSE s[k]]
           g2 == [k \in 0..(n + 1) |-> IF k = n + 1 THEN ops2 ELSE g[k]]
<1>5. /\ s2[n + 1] = q /\ \A k \in 0..n : s2[k] = s[k]
      /\ g2[n + 1] = ops2 /\ \A k \in 0..n : g2[k] = g[k]
  <2>1. n + 1 \in 0..(n + 1) /\ \A k \in 0..n : k \in 0..(n + 1) /\ k # n + 1
    BY <1>3
  <2> HIDE DEF ops2
  <2> QED BY <2>1
<1> HIDE DEF more, s2, g2, ops2
<1>6. 0 \in 0..n /\ n \in 0..n /\ (n + 1) - 1 = n
  BY <1>3
<1>7. ASSUME NEW k \in 0..(n + 1) PROVE s2[k] \in Nat /\ s2[k] <= Len(c)
  <2>1. k = n + 1 \/ k \in 0..n
    BY <1>3
  <2> QED BY <1>2, <1>5, <2>1 DEF NextOK
<1>8. ASSUME NEW k \in 1..(n + 1) PROVE TokenOK(fork, c, more, k, s2[k - 1], s2[k])
  <2>1. CASE k = n + 1
    <3>1. s2[k - 1] = p /\ s2[k] = q /\ more[k] = tok
      BY <1>1, <1>4, <1>5, <1>6, <2>1
    <3>2. Fresh(tokens) => k = 1 \/ more[k - 1].t \in {"nl", "pc"}
      <4>1. n = 0 \/ n \in 1..n
        BY <1>3
      <4> QED BY <1>4, <1>6, <2>1, <4>1 DEF Fresh
    <3> QED BY <3>1, <3>2 DEF TokenOK, NextOK
  <2>2. CASE k # n + 1
    <3>1. k \in 1..n /\ k - 1 \in 0..n /\ k \in 0..n
      BY <1>3, <2>2
    <3>2. s2[k - 1] = s[k - 1] /\ s2[k] = s[k] /\ more[k] = tokens[k]
      BY <1>4, <1>5, <3>1
    <3>3. k = 1 \/ more[k - 1] = tokens[k - 1]
      <4>1. k = 1 \/ k - 1 \in 1..n
        BY <3>1
      <4> QED BY <1>4, <4>1
    <3>4. TokenOK(fork, c, tokens, k, s[k - 1], s[k])
      BY <1>2, <3>1
    <3>5. TokenOK(fork, c, more, k, s[k - 1], s[k])
      BY <3>2, <3>3, <3>4 DEF TokenOK
    <3> QED BY <3>2, <3>5
  <2> QED BY <2>1, <2>2
<1>9. ASSUME NEW k \in 1..n, more[k].t = "comment" PROVE more[k + 1] = NL
  <2>1. CASE k = n
    BY <1>3, <1>4, <1>9, <2>1 DEF NextOK
  <2>2. CASE k # n
    <3>1. k \in 1..n - 1 /\ k + 1 \in 1..n
      BY <1>3, <2>2
    <3> QED BY <1>2, <1>4, <1>9, <3>1
  <2> QED BY <2>1, <2>2
<1>10. ASSUME NEW k \in 1..(n + 1)
       PROVE  g2[k] = IF IsLine(more[k]) THEN Append(g2[k - 1], ShownBy(more[k])) ELSE g2[k - 1]
  <2>1. CASE k = n + 1
    <3>1. g2[k - 1] = ops /\ g2[k] = ops2 /\ more[k] = tok
      BY <1>1, <1>4, <1>5, <1>6, <2>1
    <3> QED BY <3>1 DEF ops2
  <2>2. CASE k # n + 1
    <3>1. k \in 1..n /\ k - 1 \in 0..n /\ k \in 0..n
      BY <1>3, <2>2
    <3>2. g2[k - 1] = g[k - 1] /\ g2[k] = g[k] /\ more[k] = tokens[k]
      BY <1>4, <1>5, <3>1
    <3> QED BY <1>2, <3>1, <3>2
  <2> QED BY <2>1, <2>2
<1>11. s2[0] = 0 /\ g2[0] = <<>>
  BY <1>2, <1>5, <1>6
<1>12. Reads(fork, c, more, s2, g2)
  BY <1>4, <1>6, <1>7, <1>8, <1>9, <1>10, <1>11 DEF Reads
<1>13. ListedTo(fork, c, more, q, ops2)
  BY <1>4, <1>5, <1>12 DEF ListedTo
<1> QED BY <1>4, <1>13 DEF more, ops2

-----------------------------------------------------------------------------
(* What the disassembler writes.                                             *)

\* The end of a line.
LEMMA ListNewline ==
  ASSUME NEW fork, NEW c, NEW tokens, NEW p, NEW ops, ListedTo(fork, c, tokens, p, ops)
  PROVE  /\ ListedTo(fork, c, Append(tokens, NL), p, ops)
         /\ Fresh(Append(tokens, NL)) /\ IsSeq(Append(tokens, NL))
<1>1. NL.t = "nl" /\ ~IsLine(NL)
  BY DEF NL, IsLine
<1>2. p \in Nat /\ p <= Len(c) /\ IsSeq(tokens) /\ Len(tokens) \in Nat
  <2>1. PICK s, g : Reads(fork, c, tokens, s, g) /\ s[Len(tokens)] = p
    BY DEF ListedTo
  <2>2. IsSeq(tokens) /\ \A k \in 0..Len(tokens) : s[k] \in Nat /\ s[k] <= Len(c)
    BY <2>1 DEF Reads
  <2>3. Len(tokens) \in Nat
    BY <2>2, SeqType
  <2>4. Len(tokens) \in 0..Len(tokens)
    BY <2>3
  <2> QED BY <2>1, <2>2, <2>3, <2>4
<1>3. NextOK(fork, c, tokens, NL, p, p)
  BY <1>1, <1>2 DEF NextOK
<1>4. /\ ListedTo(fork, c, Append(tokens, NL), p,
                  IF IsLine(NL) THEN Append(ops, ShownBy(NL)) ELSE ops)
      /\ IsSeq(Append(tokens, NL)) /\ Len(Append(tokens, NL)) = Len(tokens) + 1
      /\ Append(tokens, NL)[Len(tokens) + 1] = NL
  BY <1>3, ListMore
<1> QED BY <1>1, <1>4 DEF Fresh

\* What a listing is.
LEMMA ListedType ==
  ASSUME NEW fork, NEW c, NEW tokens, NEW p, NEW ops, ListedTo(fork, c, tokens, p, ops)
  PROVE  p \in Nat /\ p <= Len(c) /\ IsSeq(tokens) /\ Len(tokens) \in Nat
<1>1. PICK s, g : Reads(fork, c, tokens, s, g) /\ s[Len(tokens)] = p
  BY DEF ListedTo
<1>2. IsSeq(tokens) /\ \A k \in 0..Len(tokens) : s[k] \in Nat /\ s[k] <= Len(c)
  BY <1>1 DEF Reads
<1>3. Len(tokens) \in Nat
  BY <1>2, SeqType
<1>4. Len(tokens) \in 0..Len(tokens)
  BY <1>3
<1> QED BY <1>1, <1>2, <1>3, <1>4

\* The end of the line before, and a blank line.
LEMMA NewlineListed ==
  ASSUME NEW p, NEW ops, ListedTo(job.fork, code, listing, p, ops),
         prevOp = NoOp => Fresh(listing), NEW op
  PROVE  /\ ListedTo(job.fork, code, listing \o Newline(op), p, ops)
         /\ Fresh(listing \o Newline(op)) /\ IsSeq(listing \o Newline(op))
<1>1. IsSeq(listing)
  BY ListedType
<1>2. Newline(op) \in {<<>>, <<NL>>, <<NL, NL>>} /\ (Newline(op) = <<>> => prevOp = NoOp)
  BY DEF Newline
<1>3. CASE Newline(op) = <<>>
  BY <1>1, <1>2, <1>3, JoinNone
<1>4. CASE Newline(op) = <<NL>>
  BY <1>1, <1>4, JoinOne, ListNewline
<1>5. CASE Newline(op) = <<NL, NL>>
  <2>1. listing \o Newline(op) = Append(Append(listing, NL), NL)
    BY <1>1, <1>5, AppendTwo
  <2>2. ListedTo(job.fork, code, Append(listing, NL), p, ops)
    BY ListNewline
  <2> QED BY <2>1, <2>2, ListNewline
<1> QED BY <1>2, <1>3, <1>4, <1>5

\* The position, or a label.
LEMMA PrefixListed ==
  ASSUME NEW tokens, NEW ops, ListedTo(job.fork, code, tokens, at - 1, ops), Fresh(tokens), NEW op
  PROVE  /\ ListedTo(job.fork, code, tokens \o Prefix(op), at - 1, ops)
         /\ Fresh(tokens \o Prefix(op)) /\ IsSeq(tokens \o Prefix(op))
<1> DEFINE tok == PC(at - 1)
           p == at - 1
<1>1. p \in Nat /\ p <= Len(code) /\ IsSeq(tokens) /\ Len(tokens) \in Nat
  BY ListedType
<1>2. tok.t = "pc" /\ tok.pc = p /\ ~IsLine(tok)
  BY DEF PC, IsLine
<1>3. Prefix(op) \in {<<>>, <<tok>>, <<tok, NL>>}
  BY DEF Prefix
<1> HIDE DEF tok, p
<1>4. NextOK(job.fork, code, tokens, tok, p, p)
  BY <1>1, <1>2 DEF NextOK, Fresh
<1>5. /\ ListedTo(job.fork, code, Append(tokens, tok), p,
                  IF IsLine(tok) THEN Append(ops, ShownBy(tok)) ELSE ops)
      /\ IsSeq(Append(tokens, tok)) /\ Len(Append(tokens, tok)) = Len(tokens) + 1
      /\ Append(tokens, tok)[Len(tokens) + 1] = tok
  BY <1>4, ListMore DEF p
<1>6. /\ ListedTo(job.fork, code, Append(tokens, tok), p, ops)
      /\ Fresh(Append(tokens, tok)) /\ IsSeq(Append(tokens, tok))
  BY <1>2, <1>5 DEF Fresh
<1>7. CASE Prefix(op) = <<>>
  BY <1>1, <1>7, JoinNone
<1>8. CASE Prefix(op) = <<tok>>
  BY <1>1, <1>6, <1>8, JoinOne DEF p
<1>9. CASE Prefix(op) = <<tok, NL>>
  <2>1. tokens \o Prefix(op) = Append(Append(tokens, tok), NL)
    BY <1>1, <1>9, AppendTwo
  <2> QED BY <1>6, <2>1, ListNewline DEF p
<1> QED BY <1>3, <1>7, <1>8, <1>9

\* A line.
LEMMA LineListed ==
  ASSUME NEW fork, NEW c, NEW tokens, NEW p, NEW ops, ListedTo(fork, c, tokens, p, ops),
         Fresh(tokens), NEW tok, NEW q, q <= Len(c),
         \/ tok.t = "bytes" /\ Slice(c, p, q, tok.arg)
         \/ /\ tok.t = "op" /\ tok.op \in DOMAIN ByName[fork]
            /\ Push(tok.op) => Len(tok.arg) <= PushSize(tok.op)
            /\ HasImmediate(tok.op) => ArgsOK(tok.op, tok.arg)
            /\ Slice(c, p, q, EncodedFor(fork, tok))
  PROVE  /\ ListedTo(fork, c, Append(tokens, tok), q, Append(ops, ShownBy(tok)))
         /\ IsSeq(Append(tokens, tok))
<1>1. p \in Nat /\ IsSeq(tokens) /\ Len(tokens) \in Nat
  BY ListedType
<1>2. q \in Nat
  BY <1>1, SeqType DEF Slice
<1>3. IsLine(tok)
  BY DEF IsLine
<1>4. NextOK(fork, c, tokens, tok, p, q)
  BY <1>2 DEF NextOK, Fresh
<1>5. /\ ListedTo(fork, c, Append(tokens, tok), q,
                  IF IsLine(tok) THEN Append(ops, ShownBy(tok)) ELSE ops)
      /\ IsSeq(Append(tokens, tok))
  BY <1>4, ListMore
<1> QED BY <1>3, <1>5

\* A comment behind data.
LEMMA RemarkListed ==
  ASSUME NEW fork, NEW c, NEW before, IsSeq(before), NEW tok, tok.t = "bytes", NEW p, NEW ops,
         ListedTo(fork, c, Append(before, tok), p, ops)
  PROVE  ListedTo(fork, c, Append(Append(before, tok), Remark), p, ops)
<1> DEFINE tokens == Append(before, tok)
<1>1. /\ IsSeq(tokens) /\ Len(tokens) = Len(before) + 1
      /\ \A i \in 1..Len(before) : tokens[i] = before[i]
      /\ tokens[Len(before) + 1] = tok
  BY AppendSeq
<1> HIDE DEF tokens
<1>2. p \in Nat /\ p <= Len(c) /\ IsSeq(tokens) /\ Len(tokens) \in Nat
  BY ListedType DEF tokens
<1>3. Remark.t = "comment" /\ ~IsLine(Remark)
  BY DEF Remark, IsLine
<1>4. NextOK(fork, c, tokens, Remark, p, p)
  BY <1>1, <1>2, <1>3 DEF NextOK
<1>5. /\ ListedTo(fork, c, Append(tokens, Remark), p,
                  IF IsLine(Remark) THEN Append(ops, ShownBy(Remark)) ELSE ops)
      /\ IsSeq(Append(tokens, Remark)) /\ Len(Append(tokens, Remark)) = Len(tokens) + 1
      /\ Append(tokens, Remark)[Len(tokens) + 1] = Remark
  BY <1>4, ListMore DEF tokens
<1> QED BY <1>3, <1>5 DEF tokens

\* A line that stands for the bytes between p and q.
LineOK(fork, c, tok, p, q) ==
  /\ q <= Len(c)
  /\ \/ tok.t = "bytes" /\ Slice(c, p, q, tok.arg)
     \/ /\ tok.t = "op" /\ tok.op \in DOMAIN ByName[fork]
        /\ Push(tok.op) => Len(tok.arg) <= PushSize(tok.op)
        /\ HasImmediate(tok.op) => ArgsOK(tok.op, tok.arg)
        /\ Slice(c, p, q, EncodedFor(fork, tok))

\* One byte as data.
LEMMA ByteLine ==
  ASSUME NEW fork, NEW c, IsSeq(c), NEW i \in 1..Len(c), NEW odd
  PROVE  /\ Data(<<c[i]>>, odd).t = "bytes"
         /\ LineOK(fork, c, Data(<<c[i]>>, odd), i - 1, i)
<1> DEFINE b == c[i]
           e == <<b>>
           tok == Data(e, odd)
<1>1. Len(c) \in Nat /\ i <= Len(c) /\ i = (i - 1) + 1
  BY SeqType
<1>2. tok.t = "bytes" /\ tok.arg = e
  BY DEF Data
<1>3. IsSeq(e) /\ Len(e) = 1 /\ e[1] = b
  BY FewSeq
<1> HIDE DEF e, tok
<1>4. Slice(c, i - 1, i, e)
  BY <1>1, <1>3 DEF Slice
<1> QED BY <1>1, <1>2, <1>4 DEF LineOK, tok, e

\* The rest of the code as data.
LEMMA RestLine ==
  ASSUME NEW fork, NEW c, IsSeq(c), NEW i \in 1..Len(c)
  PROVE  /\ Len(SubSeq(c, i, Len(c))) = Len(c) + 1 - i
         /\ Data(SubSeq(c, i, Len(c)), FALSE).t = "bytes"
         /\ LineOK(fork, c, Data(SubSeq(c, i, Len(c)), FALSE), i - 1, Len(c))
<1> DEFINE e == SubSeq(c, i, Len(c))
           tok == Data(e, FALSE)
           n == Len(c)
<1>1. n \in Nat /\ i \in Nat \ {0} /\ i <= n + 1 /\ n <= Len(c)
  BY SeqType
<1>2. tok.t = "bytes" /\ tok.arg = e
  BY DEF Data
<1>3. IsSeq(e) /\ Len(e) = n + 1 - i /\ \A k \in 1..(n + 1 - i) : e[k] = c[i + k - 1]
  BY <1>1, PartSeq
<1> HIDE DEF e, tok, n
<1>4. Slice(c, i - 1, n, e)
  <2>1. n = (i - 1) + Len(e)
    BY <1>1, <1>3
  <2>2. ASSUME NEW k \in 1..Len(e) PROVE c[(i - 1) + k] = e[k]
    <3>1. (i - 1) + k = i + k - 1
      BY <1>1
    <3> QED BY <1>3, <3>1
  <2> QED BY <1>3, <2>1, <2>2 DEF Slice
<1>5. LineOK(fork, c, tok, i - 1, n)
  BY <1>1, <1>2, <1>4 DEF LineOK
<1> QED BY <1>2, <1>3, <1>5 DEF tok, e, n

\* A push with all of its data.
LEMMA PushLine ==
  ASSUME NEW fork \in DOMAIN Forks, NEW c, IsSeq(c), AllBytes(c), NEW i \in 1..Len(c),
         NEW op \in DOMAIN ByName[fork], Push(op), c[i] = Code[op], i + PushSize(op) <= Len(c)
  PROVE  LineOK(fork, c, Line(op, SubSeq(c, i + 1, i + PushSize(op))), i - 1, i + PushSize(op))
<1> DEFINE size == PushSize(op)
           m == i + 1
           n == i + size
           arg == SubSeq(c, m, n)
           tok == Line(op, arg)
<1>1. op \in DOMAIN Pushes /\ size \in 0..32 /\ op = PushOp(size)
  BY CodesAssumption DEF Push
<1>2. Len(c) \in Nat
  BY SeqType
<1>3. tok.t = "op" /\ tok.op = op /\ tok.arg = arg
  BY DEF Line
<1> HIDE DEF size
<1>4. /\ m \in Nat \ {0} /\ n \in Nat /\ m <= n + 1 /\ n <= Len(c) /\ n + 1 - m = size
      /\ \A k \in 1..size : m + k - 1 \in 1..Len(c) /\ m + k - 1 = (i - 1) + (1 + k)
  <2>1. size \in Nat
    BY <1>1
  <2>2. i \in Nat /\ i > 0
    BY <1>2
  <2>3. i + size <= Len(c)
    BY DEF size
  <2> QED BY <1>2, <2>1, <2>2, <2>3
<1> HIDE DEF m, n
<1>5. IsSeq(arg) /\ Len(arg) = size /\ \A k \in 1..size : arg[k] = c[m + k - 1]
  <2>1. /\ IsSeq(arg) /\ Len(arg) = n + 1 - m
        /\ \A k \in 1..(n + 1 - m) : arg[k] = c[m + k - 1]
    BY <1>4, PartSeq
  <2> QED BY <1>4, <2>1
<1> HIDE DEF arg, tok
<1>6. op \notin {"PUSH", "#bytes", "label"} /\ ~HasImmediate(op)
  BY <1>1, OpNames
<1>7. \A k \in 1..size : arg[k] \in Bytes
  BY <1>4, <1>5 DEF AllBytes
<1>8. IsStatement(tok) /\ AcceptedBy(fork, tok) /\ IsPush(tok.op)
  <2>1. Len(arg) <= size
    BY <1>1, <1>5
  <2> QED BY <1>3, <1>5, <1>6, <1>7, <2>1 DEF IsStatement, AcceptedBy, IsPush, size
<1>9. DataSizeFor(fork, tok) = size
  BY <1>3, <1>6 DEF DataSizeFor, size
<1>10. EncodedFor(fork, tok) = <<95 + size>> \o Pad(arg, size)
  <2>1. PICK k \in 0..32 :
           /\ k = DataSizeFor(fork, tok) /\ IsSeq(tok.arg) /\ Len(tok.arg) <= k
           /\ ResolvedFor(fork, tok) = PushOp(k) /\ PushOp(k) \in DOMAIN ByName[fork]
           /\ EncodedFor(fork, tok) = <<95 + k>> \o Pad(tok.arg, k)
    BY <1>8, PushCoded
  <2> QED BY <1>3, <1>9, <2>1
<1>11. Pad(arg, size) = arg
  <2>1. size \in Nat /\ Len(arg) <= size
    BY <1>1, <1>5
  <2> QED BY <1>5, <2>1, PaddedBytes
<1>12. c[i] = 95 + size
  <2> HIDE DEF size
  <2>1. Code[PushOp(size)] = 95 + size
    BY <1>1, PushCodeOf
  <2> QED BY <1>1, <2>1
<1> DEFINE b == 95 + size
           e == <<b>> \o arg
<1> HIDE DEF b
<1>13. /\ IsSeq(e) /\ Len(e) = size + 1 /\ e[1] = b
       /\ \A k \in 1..size : e[1 + k] = arg[k]
  BY <1>5, OneBefore
<1>14. EncodedFor(fork, tok) = e
  BY <1>10, <1>11 DEF b
<1> HIDE DEF e
<1>15. Slice(c, i - 1, n, e)
  <2>1. n = (i - 1) + Len(e)
    <3>1. Len(e) = size + 1
      BY <1>13, Zenon
    <3>2. size \in 0..32
      BY <1>1, Zenon
    <3>3. n = i + size
      BY DEF n
    <3> HIDE DEF n, size
    <3>4. ASSUME NEW l, l = size + 1 PROVE n = (i - 1) + l
      BY <3>2, <3>3, <3>4
    <3> QED BY <3>1, <3>4
  <2>2. ASSUME NEW k \in 1..Len(e) PROVE c[(i - 1) + k] = e[k]
    <3>1. CASE k = 1
      BY <1>12, <1>13, <3>1 DEF b
    <3>2. CASE k # 1
      <4>1. k - 1 \in 1..size /\ 1 + (k - 1) = k
        <5>1. size \in 0..32
          BY <1>1, Zenon
        <5>2. Len(e) = size + 1
          BY <1>13, Zenon
        <5> HIDE DEF size
        <5>3. k \in 1..(size + 1)
          BY <5>2, Zenon
        <5> QED BY <3>2, <5>1, <5>3
      <4>2. e[k] = arg[k - 1]
        BY <1>13, <4>1
      <4>3. arg[k - 1] = c[m + (k - 1) - 1] /\ m + (k - 1) - 1 = (i - 1) + (1 + (k - 1))
        BY <1>4, <1>5, <4>1
      <4> QED BY <4>1, <4>2, <4>3
    <3> QED BY <3>1, <3>2
  <2> QED BY <1>13, <2>1, <2>2 DEF Slice
<1>16. LineOK(fork, c, tok, i - 1, n)
  <2>1. Len(arg) <= size
    BY <1>1, <1>5
  <2> QED BY <1>3, <1>4, <1>6, <1>14, <1>15, <2>1 DEF LineOK, size
<1> QED BY <1>16 DEF tok, arg, m, n, size

\* Two bytes of code.
LEMMA TwoSlice ==
  ASSUME NEW c, NEW i \in Nat \ {0}, NEW x, NEW y, c[i] = x, c[i + 1] = y
  PROVE  Slice(c, i - 1, i + 1, <<x, y>>)
<1> DEFINE e == <<x, y>>
<1>1. IsSeq(e) /\ Len(e) = 2 /\ e[1] = x /\ e[2] = y
  BY FewSeq
<1> HIDE DEF e
<1>2. \A k \in 1..2 : k = 1 \/ k = 2
  OBVIOUS
<1>3. (i - 1) + 1 = i /\ (i - 1) + 2 = i + 1
  OBVIOUS
<1>4. \A k \in 1..2 : c[(i - 1) + k] = e[k]
  BY <1>1, <1>2, <1>3
<1>5. Slice(c, i - 1, i + 1, e)
  BY <1>1, <1>3, <1>4 DEF Slice
<1> QED BY <1>5 DEF e

\* An operation with a valid immediate.
LEMMA ImmediateLine ==
  ASSUME NEW fork \in DOMAIN Forks, NEW c, IsSeq(c), AllBytes(c), NEW i \in 1..Len(c),
         NEW op \in DOMAIN ByName[fork], HasImmediate(op), c[i] = Code[op], i + 1 <= Len(c),
         ValidateImmediate(op, c[i + 1])
  PROVE  LineOK(fork, c, Line(op, DecodeImmediate(op, c[i + 1])), i - 1, i + 1)
<1> DEFINE x == c[i + 1]
           arg == DecodeImmediate(op, x)
           tok == Line(op, arg)
<1>1. op \in {"DUPN", "SWAPN", "EXCHANGE"} /\ ~Push(op) /\ op \notin {"#bytes", "label", "PUSH"}
  BY OpNames DEF HasImmediate
<1>2. Len(c) \in Nat /\ i + 1 \in 1..Len(c)
  <2>1. Len(c) \in Nat
    BY SeqType
  <2> QED BY <2>1
<1>3. x \in Bytes
  BY <1>2 DEF AllBytes
<1> HIDE DEF x
<1>4. ArgsOK(op, arg) /\ EncodeImmediateArgs(op, arg) = x
  <2>1. CASE op = "EXCHANGE"
    <3>1. x \in Bytes \ (80..127)
      <4>1. ValidateImmediate(op, x)
        BY DEF x
      <4>2. ValidPair(x)
        BY <2>1, <4>1 DEF ValidateImmediate
      <4> QED BY <1>3, <4>2 DEF ValidPair, Bytes
    <3>2. /\ PairOK(DecodePair(x)[1], DecodePair(x)[2])
          /\ EncodePair(DecodePair(x)[1], DecodePair(x)[2]) = x
      BY <3>1, PairByteSurvives
    <3>3. Len(DecodePair(x)) = 2
      BY DEF DecodePair
    <3> QED BY <2>1, <3>2, <3>3 DEF ArgsOK, EncodeImmediateArgs, DecodeImmediate
  <2>2. CASE op # "EXCHANGE"
    <3>1. ValidSingle(x)
      BY <1>1, <2>2 DEF ValidateImmediate, x
    <3>2. DepthOK(DecodeSingle(x)) /\ EncodeSingle(DecodeSingle(x)) = x
      BY <1>3, <3>1, ByteSurvives
    <3> DEFINE d == DecodeSingle(x)
    <3> HIDE DEF d
    <3>3. arg = <<d>>
      BY <2>2 DEF DecodeImmediate, d
    <3>4. Len(arg) = 1 /\ arg[1] = d
      <4> HIDE DEF arg
      <4> QED BY <3>3, FewSeq
    <3> HIDE DEF arg
    <3> QED BY <2>2, <3>2, <3>4 DEF ArgsOK, EncodeImmediateArgs, d
  <2> QED BY <2>1, <2>2
<1>5. tok.t = "op" /\ tok.op = op /\ tok.arg = arg
  BY DEF Line
<1> HIDE DEF tok, arg
<1>6. EncodedFor(fork, tok) = <<Code[op], x>>
  BY <1>1, <1>4, <1>5 DEF EncodedFor, IsPush
<1>7. Slice(c, i - 1, i + 1, <<Code[op], x>>)
  <2>1. i \in Nat \ {0}
    BY <1>2
  <2> QED BY <2>1, TwoSlice DEF x
<1>8. LineOK(fork, c, tok, i - 1, i + 1)
  BY <1>1, <1>4, <1>5, <1>6, <1>7 DEF LineOK
<1> QED BY <1>8 DEF tok, arg, x

\* An operation that stands alone.
LEMMA PlainLine ==
  ASSUME NEW fork \in DOMAIN Forks, NEW c, IsSeq(c), NEW i \in 1..Len(c),
         NEW op \in DOMAIN ByName[fork], ~Push(op), ~HasImmediate(op), c[i] = Code[op],
         op \notin {"#bytes", "label", "PUSH"}
  PROVE  LineOK(fork, c, Line(op, <<>>), i - 1, i)
<1> DEFINE tok == Line(op, <<>>)
           b == Code[op]
           e == <<b>>
<1>1. tok.t = "op" /\ tok.op = op
  BY DEF Line
<1>2. EncodedFor(fork, tok) = e
  BY <1>1 DEF EncodedFor, IsPush
<1>3. Len(c) \in Nat /\ i <= Len(c) /\ i = (i - 1) + 1
  BY SeqType
<1>4. IsSeq(e) /\ Len(e) = 1 /\ e[1] = b
  BY FewSeq
<1> HIDE DEF tok, e
<1>5. Slice(c, i - 1, i, e)
  BY <1>3, <1>4 DEF Slice
<1>6. LineOK(fork, c, tok, i - 1, i)
  BY <1>1, <1>2, <1>3, <1>5 DEF LineOK
<1> QED BY <1>6 DEF tok

\* What is found for a byte is an operation of the fork with that code.
LEMMA FoundByCode ==
  ASSUME job.fork \in DOMAIN Forks, NEW b, OpByCode(b) # NoOp
  PROVE  /\ OpByCode(b) \in DOMAIN ByName[job.fork] /\ Code[OpByCode(b)] = b
         /\ OpByCode(b) \notin {"PUSH", "none", "label", "#bytes"}
<1>1. \E op \in DOMAIN ByName[job.fork] : Code[op] = b
  BY DEF OpByCode, Defined
<1>2. OpByCode(b) = CHOOSE op \in DOMAIN ByName[job.fork] : Code[op] = b
  BY <1>1 DEF OpByCode, Defined
<1>3. OpByCode(b) \in DOMAIN ByName[job.fork] /\ Code[OpByCode(b)] = b
  BY <1>1, <1>2
<1>4. OpByCode(b) \in Ops
  BY <1>3, ForkOps
<1> HIDE DEF OpByCode
<1>5. OpByCode(b) \notin {"PUSH", "none", "label", "#bytes"}
  BY <1>4, CodesAssumption
<1> QED BY <1>3, <1>5

FirstLine(op) == LinesFor(op)[1]

\* The first line for an operation stands for its first byte and what is taken with it.
LEMMA LineFound ==
  ASSUME IsSeq(code), AllBytes(code), job.fork \in DOMAIN Forks, at \in 1..Len(code),
         NEW op, op = OpByCode(code[at])
  PROVE  /\ LineOK(job.fork, code, FirstLine(op), at - 1, at + Taken(op))
         /\ Taken(op) \in Nat /\ IsLine(FirstLine(op))
         /\ \/ op # NoOp /\ LinesFor(op) = <<FirstLine(op)>>
            \/ op = NoOp /\ LinesFor(op) = <<FirstLine(op), NL>>
            \/ op # NoOp /\ FirstLine(op).t = "bytes" /\ LinesFor(op) = <<FirstLine(op), Remark>>
<1> DEFINE good == /\ LineOK(job.fork, code, FirstLine(op), at - 1, at + Taken(op))
                   /\ Taken(op) \in Nat /\ IsLine(FirstLine(op))
                   /\ \/ op # NoOp /\ LinesFor(op) = <<FirstLine(op)>>
                      \/ op = NoOp /\ LinesFor(op) = <<FirstLine(op), NL>>
                      \/ /\ op # NoOp /\ FirstLine(op).t = "bytes"
                         /\ LinesFor(op) = <<FirstLine(op), Remark>>
<1>1. Len(code) \in Nat
  BY SeqType
<1>2. Len(Rest) = Len(code) + 1 - at /\ Data(Rest, FALSE).t = "bytes"
      /\ LineOK(job.fork, code, Data(Rest, FALSE), at - 1, Len(code))
  BY RestLine DEF Rest
<1>3. ASSUME NEW tok, LinesFor(op) = <<tok>> \/ (\E x : LinesFor(op) = <<tok, x>>)
      PROVE  FirstLine(op) = tok
  BY <1>3, FewSeq DEF FirstLine
<1>4. \A tok : tok.t \in {"op", "bytes"} => IsLine(tok)
  BY DEF IsLine
<1>5. CASE op = NoOp
  <2> DEFINE odd == code[at] < 16
             tok == Data(<<code[at]>>, odd)
  <2>0. ~Push(op) /\ ~HasImmediate(op)
    BY <1>5, CodesAssumption DEF NoOp, Push, HasImmediate
  <2>1. LinesFor(op) = <<tok, NL>> /\ Taken(op) = 0
    BY <1>5, <2>0 DEF LinesFor, Taken, InvalidTokens
  <2>2. tok.t = "bytes" /\ LineOK(job.fork, code, tok, at - 1, at)
    <3> HIDE DEF odd
    <3> QED BY ByteLine
  <2> HIDE DEF tok
  <2>3. FirstLine(op) = tok
    BY <1>3, <2>1
  <2>4. at + 0 = at
    BY <1>1
  <2> QED BY <1>4, <1>5, <2>1, <2>2, <2>3, <2>4
<1>6. CASE op # NoOp
  <2>1. /\ op \in DOMAIN ByName[job.fork] /\ Code[op] = code[at]
        /\ op \notin {"PUSH", "none", "label", "#bytes"}
    BY <1>6, FoundByCode
  <2>2. CASE Push(op)
    <3>0. op \in DOMAIN Pushes /\ ~HasImmediate(op)
      BY <2>2, OpNames DEF Push
    <3>1. PushSize(op) \in Nat
      BY <3>0, OpNames
    <3>2. LinesFor(op) = <<PushTokens(op)>>
      BY <1>6, <2>2, <3>0 DEF LinesFor
    <3>3. Taken(op) = IF PushSize(op) > Len(Rest) - 1 THEN Len(Rest) - 1 ELSE PushSize(op)
      BY <1>6, <2>2, <3>0 DEF Taken
    <3>4. FirstLine(op) = PushTokens(op)
      BY <1>3, <3>2
    <3> DEFINE size == PushSize(op)
               rest == Len(Rest)
    <3>5. CASE size > rest - 1
      <4>1. PushTokens(op) = Data(Rest, FALSE)
        BY <3>5 DEF PushTokens
      <4>2. Taken(op) = rest - 1
        BY <3>3, <3>5
      <4> HIDE DEF size, rest
      <4>3. rest - 1 \in Nat /\ at + (rest - 1) = Len(code)
        <5> DEFINE n == Len(code)
        <5>1. n \in Nat /\ at \in 1..n
          BY <1>1
        <5>2. rest = n + 1 - at
          BY <1>2 DEF rest
        <5> HIDE DEF n
        <5>3. rest - 1 \in Nat /\ at + (rest - 1) = n
          BY <5>1, <5>2
        <5> QED BY <5>3 DEF n
      <4>4. at + Taken(op) = Len(code) /\ Taken(op) \in Nat
        BY <4>2, <4>3
      <4>5. FirstLine(op) = Data(Rest, FALSE) /\ LinesFor(op) = <<FirstLine(op)>>
        BY <3>2, <3>4, <4>1
      <4>6. LineOK(job.fork, code, FirstLine(op), at - 1, at + Taken(op))
        BY <1>2, <4>4, <4>5
      <4>7. IsLine(FirstLine(op))
        BY <1>2, <4>5 DEF IsLine
      <4> QED BY <1>6, <4>4, <4>5, <4>6, <4>7
    <3>6. CASE ~(size > rest - 1)
      <4> DEFINE tok == Line(op, SubSeq(code, at + 1, at + size))
      <4>1. PushTokens(op) = tok /\ tok.t = "op"
        BY <3>6 DEF PushTokens, Line
      <4>2. Taken(op) = size
        BY <3>3, <3>6
      <4>3. at + size <= Len(code)
        <5>1. size \in Nat /\ rest = Len(code) + 1 - at
          BY <1>2, <3>1
        <5> HIDE DEF size, rest
        <5> QED BY <1>1, <3>6, <5>1
      <4>4. LineOK(job.fork, code, tok, at - 1, at + size)
        BY <2>1, <2>2, <4>3, PushLine
      <4> HIDE DEF size, rest, tok
      <4>5. size \in Nat
        BY <3>1 DEF size
      <4> QED BY <1>4, <1>6, <3>2, <3>4, <4>1, <4>2, <4>4, <4>5
    <3> QED BY <3>5, <3>6
  <2>3. CASE HasImmediate(op)
    <3>1. ~Push(op)
      BY <2>3, OpNames DEF HasImmediate
    <3>2. LinesFor(op) = ImmediateTokens(op)
      BY <1>6, <2>3, <3>1 DEF LinesFor
    <3>3. Taken(op) = IF Len(Rest) >= 2 /\ ValidateImmediate(op, code[at + 1]) THEN 1 ELSE 0
      BY <1>6, <2>3, <3>1 DEF Taken
    <3>4. at + 0 = at /\ 0 \in Nat /\ 1 \in Nat
      BY <1>1
    <3>5. CASE Len(Rest) < 2
      <4>1. LinesFor(op) = <<Data(Rest, FALSE)>>
        BY <3>2, <3>5 DEF ImmediateTokens
      <4>2. Taken(op) = 0 /\ Len(code) = at
        <5> DEFINE rest == Len(Rest)
        <5>1. rest = Len(code) + 1 - at /\ rest < 2
          BY <1>2, <3>5
        <5> HIDE DEF rest
        <5>2. ~(rest >= 2) /\ Len(code) = at
          BY <1>1, <5>1
        <5> QED BY <3>3, <5>2 DEF rest
      <4>3. FirstLine(op) = Data(Rest, FALSE)
        BY <1>3, <4>1
      <4>4. at + Taken(op) = Len(code) /\ Taken(op) \in Nat
        BY <3>4, <4>2
      <4>5. LineOK(job.fork, code, FirstLine(op), at - 1, at + Taken(op))
        BY <1>2, <4>3, <4>4
      <4>6. IsLine(FirstLine(op)) /\ LinesFor(op) = <<FirstLine(op)>>
        BY <1>2, <4>1, <4>3 DEF IsLine
      <4> QED BY <1>6, <4>4, <4>5, <4>6
    <3>6. CASE ~(Len(Rest) < 2) /\ ValidateImmediate(op, code[at + 1])
      <4> DEFINE tok == Line(op, DecodeImmediate(op, code[at + 1]))
      <4>1. LinesFor(op) = <<tok>> /\ tok.t = "op"
        BY <3>2, <3>6 DEF ImmediateTokens, Line
      <4>2. Taken(op) = 1 /\ at + 1 <= Len(code)
        <5> DEFINE rest == Len(Rest)
        <5>1. rest = Len(code) + 1 - at /\ ~(rest < 2)
          BY <1>2, <3>6
        <5> HIDE DEF rest
        <5>2. rest >= 2 /\ at + 1 <= Len(code)
          BY <1>1, <5>1
        <5> QED BY <3>3, <3>6, <5>2 DEF rest
      <4>3. LineOK(job.fork, code, tok, at - 1, at + 1)
        BY <2>1, <2>3, <3>6, <4>2, ImmediateLine
      <4> HIDE DEF tok
      <4>4. FirstLine(op) = tok
        BY <1>3, <4>1
      <4> QED BY <1>4, <1>6, <3>4, <4>1, <4>2, <4>3, <4>4
    <3>7. CASE ~(Len(Rest) < 2) /\ ~ValidateImmediate(op, code[at + 1])
      <4> DEFINE tok == Data(<<code[at]>>, FALSE)
      <4>1. LinesFor(op) = <<tok, Remark>>
        BY <3>2, <3>7 DEF ImmediateTokens
      <4>2. tok.t = "bytes" /\ LineOK(job.fork, code, tok, at - 1, at)
        BY ByteLine
      <4> HIDE DEF tok
      <4>3. FirstLine(op) = tok
        BY <1>3, <4>1
      <4>4. Taken(op) = 0
        BY <3>3, <3>7
      <4> QED BY <1>4, <1>6, <3>4, <4>1, <4>2, <4>3, <4>4
    <3> QED BY <3>5, <3>6, <3>7
  <2>4. CASE ~Push(op) /\ ~HasImmediate(op)
    <3> DEFINE tok == Line(op, <<>>)
    <3>1. LinesFor(op) = <<tok>> /\ Taken(op) = 0 /\ tok.t = "op"
      BY <1>6, <2>4 DEF LinesFor, Taken, Line
    <3>2. LineOK(job.fork, code, tok, at - 1, at)
      BY <2>1, <2>4, PlainLine
    <3> HIDE DEF tok
    <3>3. FirstLine(op) = tok
      BY <1>3, <3>1
    <3>4. at + 0 = at
      BY <1>1
    <3> QED BY <1>4, <1>6, <3>1, <3>2, <3>3, <3>4
  <2> QED BY <2>2, <2>3, <2>4
<1> QED BY <1>5, <1>6

\* A listing goes on with the lines for an operation.
LEMMA LinesListed ==
  ASSUME IsSeq(code), AllBytes(code), job.fork \in DOMAIN Forks, at \in 1..Len(code),
         NEW tokens, NEW ops, ListedTo(job.fork, code, tokens, at - 1, ops), Fresh(tokens),
         NEW op, op = OpByCode(code[at])
  PROVE  /\ ListedTo(job.fork, code, tokens \o LinesFor(op), at + Taken(op),
                     Append(ops, ShownBy(FirstLine(op))))
         /\ Taken(op) \in Nat
         /\ op = NoOp => Fresh(tokens \o LinesFor(op))
<1> DEFINE tok == FirstLine(op)
           q == at + Taken(op)
           p == at - 1
           ops2 == Append(ops, ShownBy(tok))
<1>1. /\ LineOK(job.fork, code, tok, p, q)
      /\ Taken(op) \in Nat /\ IsLine(tok)
      /\ \/ op # NoOp /\ LinesFor(op) = <<tok>>
         \/ op = NoOp /\ LinesFor(op) = <<tok, NL>>
         \/ op # NoOp /\ tok.t = "bytes" /\ LinesFor(op) = <<tok, Remark>>
  BY LineFound
<1>2. IsSeq(tokens)
  BY ListedType
<1> HIDE DEF tok, q, p
<1>3. ListedTo(job.fork, code, Append(tokens, tok), q, ops2) /\ IsSeq(Append(tokens, tok))
  <2>1. ListedTo(job.fork, code, tokens, p, ops)
    BY DEF p
  <2>2. /\ q <= Len(code)
        /\ \/ tok.t = "bytes" /\ Slice(code, p, q, tok.arg)
           \/ /\ tok.t = "op" /\ tok.op \in DOMAIN ByName[job.fork]
              /\ Push(tok.op) => Len(tok.arg) <= PushSize(tok.op)
              /\ HasImmediate(tok.op) => ArgsOK(tok.op, tok.arg)
              /\ Slice(code, p, q, EncodedFor(job.fork, tok))
    BY <1>1 DEF LineOK
  <2> QED BY <2>1, <2>2, LineListed
<1> HIDE DEF ops2
<1>4. CASE op # NoOp /\ LinesFor(op) = <<tok>>
  <2>1. tokens \o LinesFor(op) = Append(tokens, tok)
    BY <1>2, <1>4, JoinOne
  <2> QED BY <1>1, <1>3, <1>4, <2>1 DEF ops2, tok, q
<1>5. CASE op = NoOp /\ LinesFor(op) = <<tok, NL>>
  <2>1. tokens \o LinesFor(op) = Append(Append(tokens, tok), NL)
    BY <1>2, <1>5, AppendTwo
  <2>2. /\ ListedTo(job.fork, code, Append(Append(tokens, tok), NL), q, ops2)
        /\ Fresh(Append(Append(tokens, tok), NL))
    BY <1>3, ListNewline
  <2> QED BY <1>1, <2>1, <2>2 DEF ops2, tok, q
<1>6. CASE op # NoOp /\ tok.t = "bytes" /\ LinesFor(op) = <<tok, Remark>>
  <2>1. tokens \o LinesFor(op) = Append(Append(tokens, tok), Remark)
    BY <1>2, <1>6, AppendTwo
  <2>2. ListedTo(job.fork, code, Append(Append(tokens, tok), Remark), q, ops2)
    BY <1>2, <1>3, <1>6, RemarkListed
  <2> QED BY <1>1, <1>6, <2>1, <2>2 DEF ops2, tok, q
<1> QED BY <1>1, <1>4, <1>5, <1>6

-----------------------------------------------------------------------------
(* What was written is what is listed.                                       *)

\* The definition of module Disassembler, with the fork as a parameter.
ShownFor(fork, s) ==
  [op  |-> ResolvedFor(fork, s),
   arg |-> IF IsPush(s.op) THEN Pad(s.arg, DataSizeFor(fork, s)) ELSE s.arg]

\* It is the same definition.
LEMMA SameShown == \A s : Shown(s) = ShownFor(job.fork, s)
<1>1. \A s : DataSize(s) = DataSizeFor(job.fork, s)
  BY DEF DataSize, DataSizeFor, Defined
<1> QED BY <1>1, SameDefinitions DEF Shown, ShownFor

\* A code belongs to one operation.
LEMMA FoundIs ==
  ASSUME job.fork \in DOMAIN Forks, NEW op \in DOMAIN ByName[job.fork], NEW b, Code[op] = b
  PROVE  /\ OpByCode(b) = op /\ op # NoOp
         /\ op \notin {"PUSH", "none", "label", "#bytes"}
<1>1. op \in Ops
  BY ForkOps
<1>2. op \notin {"PUSH", "none", "label", "#bytes"}
  BY <1>1, CodesAssumption
<1>3. \E a \in DOMAIN ByName[job.fork] : Code[a] = b
  OBVIOUS
<1>4. OpByCode(b) = CHOOSE a \in DOMAIN ByName[job.fork] : Code[a] = b
  BY <1>3 DEF OpByCode, Defined
<1> DEFINE found == CHOOSE a \in DOMAIN ByName[job.fork] : Code[a] = b
<1>5. found \in DOMAIN ByName[job.fork] /\ Code[found] = b
  BY <1>3
<1> HIDE DEF found
<1>6. \A f \in DOMAIN Forks : \A x, y \in DOMAIN ByName[f] : Code[x] = Code[y] => x = y
  BY CodesDiffer
<1>7. found = op
  BY <1>5, <1>6
<1> QED BY <1>2, <1>4, <1>7 DEF NoOp, found

\* Where the code of a statement is found there is a line for the statement.
LineFor(s) ==
  LET op == OpByCode(code[at])
  IN  /\ ShownBy(FirstLine(op)) = ShownFor(job.fork, s)
      /\ Taken(op) = Len(EncodedFor(job.fork, s)) - 1

\* A push.
LEMMA PushShown ==
  ASSUME job.fork \in DOMAIN Forks, IsSeq(code), at \in 1..Len(code),
         NEW s, IsStatement(s), AcceptedBy(job.fork, s), IsPush(s.op),
         NEW q, q <= Len(code), Slice(code, at - 1, q, EncodedFor(job.fork, s))
  PROVE  LineFor(s)
<1> DEFINE e == EncodedFor(job.fork, s)
<1>1. PICK size \in 0..32 :
           /\ size = DataSizeFor(job.fork, s) /\ IsSeq(s.arg) /\ Len(s.arg) <= size
           /\ ResolvedFor(job.fork, s) = PushOp(size) /\ PushOp(size) \in DOMAIN ByName[job.fork]
           /\ e = <<95 + size>> \o Pad(s.arg, size)
  BY PushCoded
<1> DEFINE data == Pad(s.arg, size)
           op == PushOp(size)
           b == 95 + size
<1>2. Len(code) \in Nat
  BY SeqType
<1>3. IsSeq(data) /\ Len(data) = size
  BY <1>1, Padded
<1> HIDE DEF data, b
<1>4. /\ IsSeq(e) /\ Len(e) = size + 1 /\ e[1] = b
      /\ \A k \in 1..size : e[1 + k] = data[k]
  <2>1. e = <<b>> \o data
    BY <1>1 DEF b, data
  <2> HIDE DEF e
  <2> QED BY <1>3, <2>1, OneBefore
<1> HIDE DEF e
<1>5. q = (at - 1) + Len(e) /\ \A k \in 1..Len(e) : code[(at - 1) + k] = e[k]
  BY DEF Slice, e
<1>6. code[at] = b /\ at + size <= Len(code)
  <2>1. 1 \in 1..Len(e) /\ (at - 1) + 1 = at
    BY <1>2, <1>4
  <2>2. q = at + size
    BY <1>2, <1>4, <1>5
  <2> QED BY <1>4, <1>5, <2>1, <2>2
<1>7. Code[op] = b /\ op \in DOMAIN Pushes /\ PushSize(op) = size
  BY <1>1, PushNumber DEF b
<1>8. PushSize(op) = size
  BY <1>7
<1>9. OpByCode(code[at]) = op /\ op # NoOp
  BY <1>1, <1>6, <1>7, FoundIs
<1>10. Push(op) /\ ~HasImmediate(op)
  BY <1>7, OpNames DEF Push
<1> HIDE DEF op
<1>11. Len(Rest) = Len(code) + 1 - at
  BY RestLine DEF Rest
<1>12. ~(PushSize(op) > Len(Rest) - 1)
  <2> DEFINE rest == Len(Rest)
  <2>1. rest = Len(code) + 1 - at
    BY <1>11
  <2> HIDE DEF rest
  <2>2. ~(size > rest - 1)
    BY <1>2, <1>6, <2>1
  <2> QED BY <1>8, <2>2 DEF rest
<1> DEFINE arg == SubSeq(code, at + 1, at + size)
<1>13. LinesFor(op) = <<Line(op, arg)>>
  BY <1>8, <1>9, <1>10, <1>12 DEF LinesFor, PushTokens
<1>14. Taken(op) = size
  BY <1>8, <1>9, <1>10, <1>12 DEF Taken
<1>15. FirstLine(op) = Line(op, arg)
  <2> HIDE DEF arg
  <2> QED BY <1>13, FewSeq DEF FirstLine
<1>16. arg = data
  <2> DEFINE m == at + 1
             n == at + size
  <2>1. /\ m \in Nat \ {0} /\ n \in Nat /\ m <= n + 1 /\ n <= Len(code) /\ n + 1 - m = size
        /\ \A k \in 1..size : m + k - 1 = (at - 1) + (1 + k) /\ 1 + k \in 1..Len(e)
    BY <1>2, <1>4, <1>6
  <2> HIDE DEF m, n
  <2>2. /\ IsSeq(SubSeq(code, m, n)) /\ Len(SubSeq(code, m, n)) = n + 1 - m
        /\ \A k \in 1..(n + 1 - m) : SubSeq(code, m, n)[k] = code[m + k - 1]
    BY <2>1, PartSeq
  <2>3. IsSeq(arg) /\ Len(arg) = size /\ \A k \in 1..size : arg[k] = code[m + k - 1]
    BY <2>1, <2>2 DEF m, n
  <2> HIDE DEF arg
  <2>4. \A k \in 1..size : arg[k] = data[k]
    BY <1>4, <1>5, <2>1, <2>3
  <2> QED BY <1>3, <2>3, <2>4, SameSeq
<1>17. ShownBy(FirstLine(op)) = ShownFor(job.fork, s)
  <2>1. ShownBy(FirstLine(op)) = [op |-> op, arg |-> data]
    <3> HIDE DEF arg
    <3> QED BY <1>15, <1>16 DEF ShownBy, Line
  <2>2. ShownFor(job.fork, s) = [op |-> op, arg |-> data]
    BY <1>1 DEF ShownFor, op, data
  <2> QED BY <2>1, <2>2
<1>18. Taken(op) = Len(e) - 1
  <2>1. Len(e) - 1 = size
    <3> DEFINE l == Len(e)
    <3>1. l = size + 1 /\ size \in Nat
      BY <1>1, <1>4
    <3> HIDE DEF l, arg, op
    <3>2. l - 1 = size
      BY <3>1
    <3> QED BY <3>2 DEF l
  <2> QED BY <1>14, <2>1
<1> QED BY <1>9, <1>17, <1>18 DEF LineFor, e

\* An operation with an immediate.
LEMMA ImmediateShown ==
  ASSUME job.fork \in DOMAIN Forks, IsSeq(code), at \in 1..Len(code),
         NEW s, IsStatement(s), AcceptedBy(job.fork, s), HasImmediate(s.op), Recognized(s),
         NEW q, q <= Len(code), Slice(code, at - 1, q, EncodedFor(job.fork, s))
  PROVE  LineFor(s)
<1> DEFINE e == EncodedFor(job.fork, s)
           op == s.op
           x == EncodeImmediateArgs(s.op, s.arg)
           b == Code[s.op]
<1>1. /\ e = <<b, x>> /\ x \in Bytes
      /\ ArgsOK(op, s.arg) /\ op \in DOMAIN ByName[job.fork]
      /\ op = "EXCHANGE" => /\ Len(s.arg) = 2 /\ s.arg[1] \in Int /\ s.arg[2] \in Int
                            /\ PairOK(s.arg[1], s.arg[2])
      /\ op # "EXCHANGE" => Len(s.arg) = 1 /\ s.arg[1] \in Int /\ DepthOK(s.arg[1])
  BY ImmediateCoded
<1>2. Len(code) \in Nat
  BY SeqType
<1> HIDE DEF e
<1>3. Len(e) = 2 /\ e[1] = b /\ e[2] = x
  <2> HIDE DEF b, x
  <2> QED BY <1>1, FewSeq
<1>4. q = (at - 1) + Len(e) /\ \A k \in 1..Len(e) : code[(at - 1) + k] = e[k]
  BY DEF Slice, e
<1>5. code[at] = b /\ code[at + 1] = x /\ at + 1 <= Len(code)
  <2>1. 1 \in 1..Len(e) /\ (at - 1) + 1 = at /\ 2 \in 1..Len(e) /\ (at - 1) + 2 = at + 1
    BY <1>2, <1>3
  <2>2. q = at + 1
    BY <1>2, <1>3, <1>4
  <2> QED BY <1>3, <1>4, <2>1, <2>2
<1>6. OpByCode(code[at]) = op /\ op # NoOp
  BY <1>1, <1>5, FoundIs
<1>7. /\ op \in {"DUPN", "SWAPN", "EXCHANGE"} /\ ~Push(op)
      /\ op \notin {"PUSH", "#bytes", "label"}
  BY OpNames DEF HasImmediate
<1>8. IsSeq(s.arg)
  BY DEF IsStatement
<1>9. ValidateImmediate(op, x) /\ DecodeImmediate(op, x) = s.arg
  <2>1. CASE op = "EXCHANGE"
    <3> DEFINE n == s.arg[1]
               m == s.arg[2]
    <3>1. n \in Int /\ m \in Int /\ PairOK(n, m) /\ x = EncodePair(n, m) /\ Len(s.arg) = 2
      BY <1>1, <2>1 DEF EncodeImmediateArgs
    <3>2. PairNumber(n, m) \notin 80..159
      BY <2>1 DEF Recognized
    <3> HIDE DEF x, n, m
    <3>3. ValidPair(x)
      BY <3>1, <3>2, UnrecognizedPairs
    <3>4. DecodePair(x) = <<n, m>>
      BY <3>1, PairSurvives
    <3>5. <<n, m>> = s.arg
      <4> DEFINE p == <<n, m>>
      <4>1. IsSeq(p) /\ Len(p) = 2 /\ p[1] = n /\ p[2] = m
        BY FewSeq
      <4> HIDE DEF p
      <4>2. \A k \in 1..2 : k = 1 \/ k = 2
        OBVIOUS
      <4>3. \A k \in 1..2 : p[k] = s.arg[k]
        BY <4>1, <4>2 DEF n, m
      <4> QED BY <1>8, <3>1, <4>1, <4>3, SameSeq DEF p
    <3>6. ValidateImmediate(op, x)
      BY <2>1, <3>3 DEF ValidateImmediate
    <3>7. DecodeImmediate(op, x) = DecodePair(x)
      BY <2>1 DEF DecodeImmediate
    <3> QED BY <3>4, <3>5, <3>6, <3>7
  <2>2. CASE op # "EXCHANGE"
    <3> DEFINE d == s.arg[1]
    <3>1. d \in Int /\ DepthOK(d) /\ x = EncodeSingle(d) /\ Len(s.arg) = 1
      BY <1>1, <2>2 DEF EncodeImmediateArgs
    <3> HIDE DEF x, d
    <3>2. ValidSingle(x) /\ DecodeSingle(x) = d
      BY <3>1, DepthSurvives
    <3>3. <<d>> = s.arg
      <4> DEFINE p == <<d>>
      <4>1. IsSeq(p) /\ Len(p) = 1 /\ p[1] = d
        BY FewSeq
      <4> HIDE DEF p
      <4>2. \A k \in 1..1 : k = 1
        OBVIOUS
      <4>3. \A k \in 1..1 : p[k] = s.arg[k]
        BY <4>1, <4>2 DEF d
      <4> QED BY <1>8, <3>1, <4>1, <4>3, SameSeq DEF p
    <3>4. ValidateImmediate(op, x)
      BY <1>7, <2>2, <3>2 DEF ValidateImmediate
    <3>5. DecodeImmediate(op, x) = <<d>>
      BY <2>2, <3>2 DEF DecodeImmediate
    <3> QED BY <3>3, <3>4, <3>5
  <2> QED BY <2>1, <2>2
<1>10. Len(Rest) = Len(code) + 1 - at
  BY RestLine DEF Rest
<1>11. Len(Rest) >= 2 /\ ~(Len(Rest) < 2)
  <2> DEFINE rest == Len(Rest)
  <2>1. rest = Len(code) + 1 - at
    BY <1>10
  <2> HIDE DEF rest
  <2>2. rest >= 2 /\ ~(rest < 2)
    BY <1>2, <1>5, <2>1
  <2> QED BY <2>2 DEF rest
<1> HIDE DEF x, b
<1>12. LinesFor(op) = <<Line(op, s.arg)>>
  BY <1>5, <1>6, <1>7, <1>9, <1>11 DEF LinesFor, ImmediateTokens
<1>13. Taken(op) = 1
  BY <1>5, <1>6, <1>7, <1>9, <1>11 DEF Taken
<1>14. FirstLine(op) = Line(op, s.arg)
  BY <1>12, FewSeq DEF FirstLine
<1>15. ShownBy(FirstLine(op)) = ShownFor(job.fork, s)
  <2>1. ShownBy(FirstLine(op)) = [op |-> op, arg |-> s.arg]
    BY <1>14 DEF ShownBy, Line
  <2>2. ShownFor(job.fork, s) = [op |-> op, arg |-> s.arg]
    BY <1>7 DEF ShownFor, ResolvedFor, IsPush
  <2> QED BY <2>1, <2>2
<1>16. Taken(op) = Len(e) - 1
  BY <1>3, <1>13
<1> QED BY <1>6, <1>15, <1>16 DEF LineFor, e

\* Any other operation.
LEMMA PlainShown ==
  ASSUME job.fork \in DOMAIN Forks, IsSeq(code), at \in 1..Len(code),
         NEW s, IsStatement(s), AcceptedBy(job.fork, s), ~NoCode(s),
         ~IsPush(s.op), ~HasImmediate(s.op),
         NEW q, q <= Len(code), Slice(code, at - 1, q, EncodedFor(job.fork, s))
  PROVE  LineFor(s)
<1> DEFINE e == EncodedFor(job.fork, s)
           op == s.op
           b == Code[s.op]
<1>1. e = <<b>> /\ op \in DOMAIN ByName[job.fork]
  BY PlainCoded
<1>2. Len(code) \in Nat
  BY SeqType
<1> HIDE DEF e
<1>3. Len(e) = 1 /\ e[1] = b
  <2> HIDE DEF b
  <2> QED BY <1>1, FewSeq
<1>4. q = (at - 1) + Len(e) /\ \A k \in 1..Len(e) : code[(at - 1) + k] = e[k]
  BY DEF Slice, e
<1>5. code[at] = b
  <2>1. 1 \in 1..Len(e) /\ (at - 1) + 1 = at
    BY <1>2, <1>3
  <2> QED BY <1>3, <1>4, <2>1
<1>6. OpByCode(code[at]) = op /\ op # NoOp /\ op # "PUSH"
  BY <1>1, <1>5, FoundIs
<1>7. ~Push(op)
  BY DEF IsPush
<1>8. s.arg = <<>>
  BY DEF IsStatement, NoCode
<1>9. LinesFor(op) = <<Line(op, <<>>)>> /\ Taken(op) = 0
  BY <1>6, <1>7 DEF LinesFor, Taken
<1>10. FirstLine(op) = Line(op, <<>>)
  BY <1>9, FewSeq DEF FirstLine
<1>11. ShownBy(FirstLine(op)) = ShownFor(job.fork, s)
  <2>1. ShownBy(FirstLine(op)) = [op |-> op, arg |-> <<>>]
    BY <1>10 DEF ShownBy, Line
  <2>2. ShownFor(job.fork, s) = [op |-> op, arg |-> <<>>]
    BY <1>6, <1>8 DEF ShownFor, ResolvedFor
  <2> QED BY <2>1, <2>2
<1>12. Taken(op) = Len(e) - 1
  BY <1>3, <1>9
<1> QED BY <1>6, <1>11, <1>12 DEF LineFor, e

\* Where the code of a statement is there is a line for it.
LEMMA StatementShown ==
  ASSUME job.fork \in DOMAIN Forks, IsSeq(code), at \in 1..Len(code),
         NEW s, IsStatement(s), AcceptedBy(job.fork, s), ~NoCode(s), Recognized(s),
         NEW q, q <= Len(code), Slice(code, at - 1, q, EncodedFor(job.fork, s))
  PROVE  LineFor(s)
<1>1. CASE IsPush(s.op)
  BY <1>1, PushShown
<1>2. CASE HasImmediate(s.op)
  BY <1>2, ImmediateShown
<1>3. CASE ~IsPush(s.op) /\ ~HasImmediate(s.op)
  BY <1>3, PlainShown
<1> QED BY <1>1, <1>2, <1>3

\* The instructions before each statement.
Writes(j, n, w) ==
  /\ w[0] = <<>>
  /\ \A k \in 1..n : w[k] = IF j.program[k].op = "label" THEN w[k - 1]
                            ELSE Append(w[k - 1], ShownFor(j.fork, j.program[k]))

\* There are such.
LEMMA WritesExist ==
  ASSUME NEW j, NEW n \in Nat
  PROVE  \E w : Writes(j, n, w)
<1> DEFINE S == {m \in Nat : \E w : Writes(j, m, w)}
<1>1. 0 \in S
  <2> DEFINE w == [k \in 0..0 |-> <<>>]
  <2>1. w[0] = <<>> /\ \A k \in 1..0 : FALSE
    OBVIOUS
  <2> HIDE DEF w
  <2>2. Writes(j, 0, w)
    BY <2>1 DEF Writes
  <2> QED BY <2>2
<1>2. ASSUME NEW m \in Nat, m \in S PROVE m + 1 \in S
  <2>1. PICK v : Writes(j, m, v)
    BY <1>2
  <2> DEFINE last == IF j.program[m + 1].op = "label" THEN v[m]
                     ELSE Append(v[m], ShownFor(j.fork, j.program[m + 1]))
             w == [k \in 0..(m + 1) |-> IF k = m + 1 THEN last ELSE v[k]]
  <2>2. w[m + 1] = last /\ \A k \in 0..m : w[k] = v[k]
    <3>1. m + 1 \in 0..(m + 1) /\ \A k \in 0..m : k \in 0..(m + 1) /\ k # m + 1
      OBVIOUS
    <3> HIDE DEF last
    <3> QED BY <3>1
  <2> HIDE DEF w
  <2>3. w[0] = <<>>
    <3>1. 0 \in 0..m
      OBVIOUS
    <3> QED BY <2>1, <2>2, <3>1 DEF Writes
  <2>4. ASSUME NEW k \in 1..(m + 1)
        PROVE  w[k] = IF j.program[k].op = "label" THEN w[k - 1]
                      ELSE Append(w[k - 1], ShownFor(j.fork, j.program[k]))
    <3>1. CASE k = m + 1
      <4>1. k - 1 = m /\ m \in 0..m
        BY <3>1
      <4>2. w[k - 1] = v[m] /\ w[k] = last
        BY <2>2, <3>1, <4>1
      <4> QED BY <3>1, <4>2
    <3>2. CASE k # m + 1
      <4>1. k \in 1..m /\ k \in 0..m /\ k - 1 \in 0..m
        BY <3>2
      <4> QED BY <2>1, <2>2, <4>1 DEF Writes
    <3> QED BY <3>1, <3>2
  <2>5. Writes(j, m + 1, w)
    BY <2>3, <2>4 DEF Writes
  <2> QED BY <2>5
<1>3. Nat \subseteq S
  <2> HIDE DEF S
  <2> QED BY <1>1, <1>2, InductiveSet
<1> QED BY <1>3

\* The instructions of the program are those before its end.
LEMMA WrittenIs ==
  ASSUME Len(job.program) \in Nat, NEW w, Writes(job, Len(job.program), w)
  PROVE  Written = w[Len(job.program)]
<1> DEFINE n == Len(job.program)
           D == 0..n
           F(u, k) == IF k = 0 THEN <<>>
                      ELSE IF job.program[k].op = "label" THEN u[k - 1]
                      ELSE Append(u[k - 1], Shown(job.program[k]))
           u0 == [k \in D |-> w[k]]
           f == CHOOSE u : u = [k \in D |-> F(u, k)]
           S == {k \in Nat : k <= n => f[k] = w[k]}
<1>1. n \in Nat /\ n \in D /\ 0 \in D
  OBVIOUS
<1>2. \A k \in D : u0[k] = w[k]
  OBVIOUS
<1>3. ASSUME NEW k \in D PROVE u0[k] = F(u0, k)
  <2>1. CASE k = 0
    BY <1>1, <1>2, <2>1 DEF Writes
  <2>2. CASE k # 0
    <3>1. k \in 1..n /\ k - 1 \in D
      BY <2>2
    <3>2. u0[k] = w[k] /\ u0[k - 1] = w[k - 1]
      BY <1>2, <3>1
    <3>3. w[k] = IF job.program[k].op = "label" THEN w[k - 1]
                 ELSE Append(w[k - 1], ShownFor(job.fork, job.program[k]))
      BY <3>1 DEF Writes
    <3>4. Shown(job.program[k]) = ShownFor(job.fork, job.program[k])
      BY SameShown
    <3> HIDE DEF u0
    <3> QED BY <2>2, <3>2, <3>3, <3>4
  <2> QED BY <2>1, <2>2
<1>4. \E u : u = [k \in D |-> F(u, k)]
  <2>1. u0 = [k \in D |-> u0[k]]
    OBVIOUS
  <2>2. [k \in D |-> u0[k]] = [k \in D |-> F(u0, k)]
    <3> HIDE DEF F, u0, D
    <3> QED BY <1>3
  <2> HIDE DEF F, u0, D
  <2> QED BY <2>1, <2>2
<1>5. f = [k \in D |-> F(f, k)]
  <2> HIDE DEF F, D
  <2> QED BY <1>4
<1>6. Written = f[n]
  BY DEF Written, Program
<1> HIDE DEF f
<1>7. \A k \in D : f[k] = F(f, k)
  <2> HIDE DEF F, D
  <2> QED BY <1>5
<1>8. 0 \in S
  <2>1. f[0] = <<>>
    BY <1>1, <1>7
  <2> QED BY <2>1 DEF Writes
<1>9. ASSUME NEW k \in Nat, k \in S PROVE k + 1 \in S
  <2>1. CASE k + 1 <= n
    <3>1. k + 1 \in D /\ k + 1 \in 1..n /\ (k + 1) - 1 = k /\ k + 1 # 0 /\ f[k] = w[k]
      BY <1>1, <1>9, <2>1
    <3>2. f[k + 1] = F(f, k + 1)
      BY <1>7, <3>1
    <3>3. w[k + 1] = IF job.program[k + 1].op = "label" THEN w[(k + 1) - 1]
                     ELSE Append(w[(k + 1) - 1], ShownFor(job.fork, job.program[k + 1]))
      BY <3>1 DEF Writes
    <3>4. Shown(job.program[k + 1]) = ShownFor(job.fork, job.program[k + 1])
      BY SameShown
    <3> QED BY <3>1, <3>2, <3>3, <3>4
  <2>2. CASE ~(k + 1 <= n)
    BY <2>2
  <2> QED BY <2>1, <2>2
<1>10. Nat \subseteq S
  <2> HIDE DEF S
  <2> QED BY <1>8, <1>9, InductiveSet
<1>11. f[n] = w[n]
  BY <1>1, <1>10
<1> QED BY <1>6, <1>11

\* The instructions of the listing are those that it reads as.
LEMMA ListedIs ==
  ASSUME NEW c, NEW s, NEW g, Reads(job.fork, c, listing, s, g)
  PROVE  Listed = g[Len(listing)]
<1> DEFINE n == Len(listing)
           D == 0..n
           F(u, k) == IF k = 0 THEN <<>>
                      ELSE IF listing[k].t \in {"op", "bytes"}
                           THEN Append(u[k - 1], ShownBy(listing[k]))
                      ELSE u[k - 1]
           u0 == [k \in D |-> g[k]]
           f == CHOOSE u : u = [k \in D |-> F(u, k)]
           S == {k \in Nat : k <= n => f[k] = g[k]}
<1>1. n \in Nat /\ n \in D /\ 0 \in D
  <2>1. n \in Nat
    BY SeqType DEF Reads
  <2> QED BY <2>1
<1>2. \A k \in D : u0[k] = g[k]
  OBVIOUS
<1>3. g[0] = <<>> /\ \A k \in 1..n : g[k] = IF listing[k].t \in {"op", "bytes"}
                                            THEN Append(g[k - 1], ShownBy(listing[k]))
                                            ELSE g[k - 1]
  BY DEF Reads, IsLine
<1>4. ASSUME NEW k \in D PROVE u0[k] = F(u0, k)
  <2>1. CASE k = 0
    BY <1>1, <1>2, <1>3, <2>1
  <2>2. CASE k # 0
    <3>1. k \in 1..n /\ k - 1 \in D
      BY <1>1, <2>2
    <3>2. u0[k] = g[k] /\ u0[k - 1] = g[k - 1]
      BY <1>2, <3>1
    <3> HIDE DEF u0
    <3> QED BY <1>3, <2>2, <3>1, <3>2
  <2> QED BY <2>1, <2>2
<1>5. \E u : u = [k \in D |-> F(u, k)]
  <2>1. u0 = [k \in D |-> u0[k]]
    OBVIOUS
  <2>2. [k \in D |-> u0[k]] = [k \in D |-> F(u0, k)]
    <3> HIDE DEF F, u0, D
    <3> QED BY <1>4
  <2> HIDE DEF F, u0, D
  <2> QED BY <2>1, <2>2
<1>6. f = [k \in D |-> F(f, k)]
  <2> HIDE DEF F, D
  <2> QED BY <1>5
<1>7. Listed = f[n]
  BY DEF Listed
<1> HIDE DEF f
<1>8. \A k \in D : f[k] = F(f, k)
  <2> HIDE DEF F, D
  <2> QED BY <1>6
<1>9. 0 \in S
  <2>1. f[0] = <<>>
    BY <1>1, <1>8
  <2> QED BY <1>3, <2>1
<1>10. ASSUME NEW k \in Nat, k \in S PROVE k + 1 \in S
  <2>1. CASE k + 1 <= n
    <3>1. k + 1 \in D /\ k + 1 \in 1..n /\ (k + 1) - 1 = k /\ k + 1 # 0 /\ f[k] = g[k]
      BY <1>1, <1>10, <2>1
    <3>2. f[k + 1] = F(f, k + 1)
      BY <1>8, <3>1
    <3> QED BY <1>3, <3>1, <3>2
  <2>2. CASE ~(k + 1 <= n)
    BY <2>2
  <2> QED BY <2>1, <2>2
<1>11. Nat \subseteq S
  <2> HIDE DEF S
  <2> QED BY <1>9, <1>10, InductiveSet
<1>12. f[n] = g[n]
  BY <1>1, <1>11
<1> QED BY <1>7, <1>12

\* A program of instructions that the disassembler knows.
OnlyOps(j) ==
  \A i \in 1..Len(j.program) : j.program[i].op # "#bytes" /\ Recognized(j.program[i])

\* These are the instructions before the byte at position a.
ShownTo(j, c, a, ops) ==
  OnlyOps(j) =>
    \E o, w : \E i \in 1..Len(j.program) + 1 :
      Placed(j, c, o) /\ Writes(j, Len(j.program), w) /\ o[i] = a /\ w[i - 1] = ops

\* There are none before the first.
LEMMA ShownStart ==
  ASSUME NEW j, IsJob(j), AllAccepted(j), NEW c, LaidOut(j, Len(j.program) + 1, c)
  PROVE  ShownTo(j, c, 1, <<>>)
<1> SUFFICES ASSUME OnlyOps(j)
             PROVE  \E o, w : \E i \in 1..Len(j.program) + 1 :
                      /\ Placed(j, c, o) /\ Writes(j, Len(j.program), w)
                      /\ o[i] = 1 /\ w[i - 1] = <<>>
  BY DEF ShownTo
<1>1. Len(j.program) \in Nat
  BY SeqType DEF IsJob
<1>2. PICK o : IsSeq(c) /\ Offsets(j, Len(j.program) + 1, c, o)
  BY DEF LaidOut
<1>3. Placed(j, c, o) /\ o[1] = 1
  BY <1>2 DEF Placed, OnlyOps, Offsets
<1>4. PICK w : Writes(j, Len(j.program), w)
  BY <1>1, WritesExist
<1>5. 1 \in 1..Len(j.program) + 1 /\ 1 - 1 = 0
  BY <1>1
<1>6. w[1 - 1] = <<>>
  BY <1>4, <1>5 DEF Writes
<1> QED BY <1>3, <1>4, <1>5, <1>6

\* Labels in between change nothing.
LEMMA SkipLabels ==
  ASSUME NEW j, NEW c, NEW o, Placed(j, c, o), NEW w, Writes(j, Len(j.program), w),
         NEW i \in 1..Len(j.program) + 1
  PROVE  \E k \in 1..Len(j.program) + 1 :
           /\ o[k] = o[i] /\ w[k - 1] = w[i - 1]
           /\ k = Len(j.program) + 1 \/ (k \in 1..Len(j.program) /\ j.program[k].op # "label")
<1> DEFINE n == Len(j.program)
           S == {k \in 1..n + 1 : o[k] = o[i] /\ w[k - 1] = w[i - 1]}
<1>1. n \in Nat /\ n + 1 \in Nat
  BY SeqType DEF Placed, IsJob
<1>2. i \in S
  OBVIOUS
<1>3. PICK k \in S : \A m \in S : m <= k
  <2>1. S \in SUBSET (1..n + 1) /\ S # {}
    BY <1>2
  <2> HIDE DEF S, n
  <2> QED BY <1>1, <2>1, GreatestElement
<1>4. k \in 1..n + 1 /\ o[k] = o[i] /\ w[k - 1] = w[i - 1]
  BY <1>3
<1>5. ASSUME k # n + 1, j.program[k].op = "label" PROVE FALSE
  <2>1. k \in 1..n /\ k + 1 \in 1..n + 1 /\ (k + 1) - 1 = k
    BY <1>1, <1>4, <1>5
  <2>2. o[k + 1] = o[k]
    BY <1>5, <2>1, OnePlaced
  <2>3. w[k] = w[k - 1]
    BY <1>5, <2>1 DEF Writes
  <2>4. k + 1 \in S
    BY <1>4, <2>1, <2>2, <2>3
  <2>5. k + 1 <= k
    BY <1>3, <2>4
  <2> QED BY <1>4, <2>5
<1>6. k = n + 1 \/ (k \in 1..n /\ j.program[k].op # "label")
  <2>1. k = n + 1 \/ k \in 1..n
    BY <1>1, <1>4
  <2> QED BY <1>5, <2>1
<1> QED BY <1>4, <1>6

\* At the end of the code they are all.
LEMMA ShownEnd ==
  ASSUME NEW j, NEW c, NEW ops, ShownTo(j, c, Len(c) + 1, ops), OnlyOps(j)
  PROVE  \E w : Writes(j, Len(j.program), w) /\ w[Len(j.program)] = ops
<1> DEFINE n == Len(j.program)
<1>1. PICK o, w : \E i \in 1..n + 1 :
         Placed(j, c, o) /\ Writes(j, n, w) /\ o[i] = Len(c) + 1 /\ w[i - 1] = ops
  BY DEF ShownTo
<1>2. PICK i \in 1..n + 1 :
         Placed(j, c, o) /\ Writes(j, n, w) /\ o[i] = Len(c) + 1 /\ w[i - 1] = ops
  BY <1>1
<1>3. n \in Nat /\ Len(c) \in Nat
  BY <1>2, SeqType DEF Placed, IsJob
<1>4. PICK k \in 1..n + 1 :
         /\ o[k] = o[i] /\ w[k - 1] = w[i - 1]
         /\ k = n + 1 \/ (k \in 1..n /\ j.program[k].op # "label")
  <2>1. i \in 1..Len(j.program) + 1 /\ Placed(j, c, o) /\ Writes(j, Len(j.program), w)
    BY <1>2
  <2>2. \E k \in 1..Len(j.program) + 1 :
          /\ o[k] = o[i] /\ w[k - 1] = w[i - 1]
          /\ k = Len(j.program) + 1 \/ (k \in 1..Len(j.program) /\ j.program[k].op # "label")
    BY <2>1, SkipLabels
  <2> QED BY <2>2
<1>5. CASE k = n + 1
  <2>1. k - 1 = n
    BY <1>3, <1>5
  <2> QED BY <1>2, <1>4, <2>1
<1>6. CASE k \in 1..n /\ j.program[k].op # "label"
  <2>1. /\ o[k] \in Nat /\ o[k + 1] \in Nat /\ o[k + 1] <= Len(c) + 1
        /\ Scannable(Coded(j, k), j.program[k].op)
        /\ Len(Coded(j, k)) \in Nat /\ o[k + 1] = o[k] + Len(Coded(j, k))
    BY <1>2, <1>6, OnePlaced
  <2>2. Len(Coded(j, k)) > 0
    BY <2>1 DEF Scannable
  <2> DEFINE size == Len(Coded(j, k))
  <2>3. size \in Nat /\ size > 0 /\ o[k + 1] = o[k] + size /\ o[k] = Len(c) + 1
    BY <1>2, <1>4, <2>1, <2>2
  <2> HIDE DEF size
  <2>4. FALSE
    BY <1>3, <2>1, <2>3
  <2> QED BY <2>4
<1> QED BY <1>4, <1>5, <1>6

\* The line that is listed next is the instruction that was written next.
LEMMA ShownStep ==
  ASSUME at \in 1..Len(code), NEW ops, ShownTo(job, code, at, ops),
         NEW op, op = OpByCode(code[at])
  PROVE  ShownTo(job, code, at + 1 + Taken(op), Append(ops, ShownBy(FirstLine(op))))
<1> DEFINE n == Len(job.program)
           a == at + 1 + Taken(op)
           ops2 == Append(ops, ShownBy(FirstLine(op)))
<1>1. SUFFICES ASSUME OnlyOps(job)
               PROVE  \E o, w : \E i \in 1..n + 1 :
                        Placed(job, code, o) /\ Writes(job, n, w) /\ o[i] = a /\ w[i - 1] = ops2
  BY DEF ShownTo
<1>2. PICK o, w : \E i \in 1..n + 1 :
         Placed(job, code, o) /\ Writes(job, n, w) /\ o[i] = at /\ w[i - 1] = ops
  BY <1>1 DEF ShownTo
<1>3. PICK i \in 1..n + 1 :
         Placed(job, code, o) /\ Writes(job, n, w) /\ o[i] = at /\ w[i - 1] = ops
  BY <1>2
<1>4. n \in Nat /\ Len(code) \in Nat /\ IsSeq(code) /\ IsJob(job) /\ AllAccepted(job)
  BY <1>3, SeqType DEF Placed, IsJob
<1>5. o[n + 1] = Len(code) + 1
  BY <1>3 DEF Placed, Offsets
<1>6. PICK k \in 1..n + 1 :
         /\ o[k] = o[i] /\ w[k - 1] = w[i - 1]
         /\ k = n + 1 \/ (k \in 1..n /\ job.program[k].op # "label")
  <2>1. Placed(job, code, o) /\ Writes(job, Len(job.program), w)
    BY <1>3
  <2>2. i \in 1..Len(job.program) + 1
    BY <1>3
  <2>3. \E m \in 1..Len(job.program) + 1 :
          /\ o[m] = o[i] /\ w[m - 1] = w[i - 1]
          /\ m = Len(job.program) + 1 \/ (m \in 1..Len(job.program) /\ job.program[m].op # "label")
    BY <2>1, <2>2, SkipLabels
  <2> QED BY <2>3
<1>7. k \in 1..n /\ job.program[k].op # "label" /\ o[k] = at /\ w[k - 1] = ops
  <2>1. k # n + 1
    <3>1. at # Len(code) + 1
      BY <1>4
    <3> QED BY <1>3, <1>5, <1>6, <3>1
  <2> QED BY <1>3, <1>6, <2>1
<1> DEFINE s == job.program[k]
           e == Coded(job, k)
           size == Len(e)
           q == (at - 1) + size
<1>8. /\ o[k + 1] \in Nat /\ o[k + 1] <= Len(code) + 1
      /\ size \in Nat /\ o[k + 1] = o[k] + size /\ Scannable(e, s.op)
  BY <1>3, <1>7, OnePlaced
<1>9. q <= Len(code) /\ k + 1 \in 1..n + 1 /\ (k + 1) - 1 = k
  <2>1. k + 1 \in 1..n + 1 /\ (k + 1) - 1 = k
    <3>1. n \in Nat /\ k \in 1..n
      BY <1>4, <1>7
    <3> HIDE DEF n
    <3> QED BY <3>1
  <2>2. at + size <= Len(code) + 1 /\ size \in Nat
    BY <1>7, <1>8
  <2> HIDE DEF size
  <2>3. q <= Len(code)
    <3>1. at \in 1..Len(code)
      OBVIOUS
    <3> QED BY <1>4, <2>2, <3>1
  <2> QED BY <2>1, <2>3
<1>10. \A b \in 1..size : code[o[k] + b - 1] = e[b]
  <2>1. k \in 1..(n + 1) - 1
    BY <1>4, <1>7
  <2> QED BY <1>3, <2>1 DEF Placed, Offsets
<1>11. Slice(code, at - 1, q, e)
  <2>1. ASSUME NEW b \in 1..size PROVE code[(at - 1) + b] = e[b]
    <3>1. o[k] + b - 1 = (at - 1) + b
      BY <1>4, <1>7
    <3> QED BY <1>10, <3>1
  <2> QED BY <1>8, <2>1 DEF Slice, Scannable
<1>12. /\ IsStatement(s) /\ AcceptedBy(job.fork, s) /\ ~NoCode(s) /\ Recognized(s)
       /\ job.fork \in DOMAIN Forks /\ e = EncodedFor(job.fork, s)
  BY <1>1, <1>4, <1>7 DEF IsJob, AllAccepted, OnlyOps, NoCode, Coded
<1>13. LineFor(s)
  <2> HIDE DEF s, e, q
  <2> QED BY <1>4, <1>9, <1>11, <1>12, StatementShown
<1>14. ShownBy(FirstLine(op)) = ShownFor(job.fork, s) /\ Taken(op) = size - 1
  BY <1>12, <1>13 DEF LineFor
<1>15. o[k + 1] = a
  <2>1. a = at + 1 + (size - 1)
    BY <1>14
  <2> HIDE DEF size, a
  <2>2. at + 1 + (size - 1) = at + size
    BY <1>4, <1>8
  <2> QED BY <1>7, <1>8, <2>1, <2>2
<1>16. w[(k + 1) - 1] = ops2
  <2>1. w[k] = Append(w[k - 1], ShownFor(job.fork, s))
    BY <1>3, <1>7 DEF Writes
  <2> QED BY <1>7, <1>9, <1>14, <2>1
<1> QED BY <1>3, <1>9, <1>15, <1>16

-----------------------------------------------------------------------------
(* Reading the listing.                                                      *)

\* The assembler reads every token of a listing but a byte with one digit, and what it makes of it
\* is what the token stands for.
LEMMA TokenRead ==
  ASSUME NEW s, NEW g, Reads(job.fork, code, listing, s, g), at \in 1..Len(listing),
         Len(again) = s[at - 1]
  PROVE  /\ Readable(listing[at]) <=> ~Odd(listing[at])
         /\ Slice(code, s[at - 1], s[at], Meaning(listing[at]))
<1> DEFINE tok == listing[at]
           p == s[at - 1]
           q == s[at]
           starts == at = 1 \/ listing[at - 1].t \in {"nl", "pc"}
<1>1. IsSeq(listing) /\ Len(listing) \in Nat
  BY SeqType DEF Reads
<1>2. at \in Nat /\ at - 1 \in 0..Len(listing) /\ at \in 0..Len(listing)
  BY <1>1
<1>3. p \in Nat /\ q \in Nat
  BY <1>2 DEF Reads
<1>4. \/ tok.t = "nl" /\ q = p
      \/ tok.t = "comment" /\ q = p
      \/ tok.t = "pc" /\ q = p /\ starts /\ tok.pc = p
      \/ tok.t = "bytes" /\ starts /\ Slice(code, p, q, tok.arg)
      \/ /\ tok.t = "op" /\ starts /\ tok.op \in DOMAIN ByName[job.fork]
         /\ Push(tok.op) => Len(tok.arg) <= PushSize(tok.op)
         /\ HasImmediate(tok.op) => ArgsOK(tok.op, tok.arg)
         /\ Slice(code, p, q, EncodedFor(job.fork, tok))
  <2>1. TokenOK(job.fork, code, listing, at, s[at - 1], s[at])
    BY DEF Reads
  <2> QED BY <2>1 DEF TokenOK
<1>5. StartsLine <=> starts
  BY DEF StartsLine
<1>6. q = p => Slice(code, p, q, <<>>)
  <2> DEFINE none == <<>>
  <2>1. IsSeq(none) /\ Len(none) = 0
    BY FewSeq
  <2>2. \A b \in 1..0 : FALSE
    OBVIOUS
  <2> HIDE DEF none
  <2>3. q = p => Slice(code, p, q, none)
    BY <1>3, <2>1, <2>2 DEF Slice
  <2> QED BY <2>3 DEF none
<1>7. tok.t = "comment" => at = Len(listing) \/ listing[at + 1] = NL
  <2>1. at = Len(listing) \/ at \in 1..Len(listing) - 1
    BY <1>1, <1>2
  <2> QED BY <2>1 DEF Reads
<1>8. Encoded(tok) = EncodedFor(job.fork, tok)
  BY SameDefinitions
<1> HIDE DEF tok, p, q, starts
<1>9. CASE tok.t = "nl"
  BY <1>4, <1>6, <1>9 DEF Readable, Odd, Meaning, tok, p, q
<1>10. CASE tok.t = "comment"
  BY <1>4, <1>6, <1>7, <1>10 DEF Readable, Odd, Meaning, tok, p, q
<1>11. CASE tok.t = "pc"
  BY <1>4, <1>5, <1>6, <1>11 DEF Readable, Odd, Meaning, tok, p, q
<1>12. CASE tok.t = "bytes"
  BY <1>4, <1>5, <1>12 DEF Readable, Odd, Meaning, tok, p, q
<1>13. CASE tok.t = "op"
  BY <1>4, <1>5, <1>8, <1>13 DEF Readable, Odd, Meaning, Defined, tok, p, q
<1> QED BY <1>4, <1>9, <1>10, <1>11, <1>12, <1>13

\* What was read are the first bytes of the code.
ReadTo(l, c, a, ag, rf, s) ==
  /\ a \in 1..Len(l) + 1 /\ ~rf
  /\ IsSeq(ag) /\ Len(ag) = s[a - 1] /\ \A k \in 1..Len(ag) : ag[k] = c[k]
  /\ \A k \in 1..a - 1 : ~Odd(l[k])

\* What comes out.
Outcome(l, c, ag, rf) ==
  /\ rf => \E k \in 1..Len(l) : Odd(l[k])
  /\ ~rf => ag = c /\ \A k \in 1..Len(l) : ~Odd(l[k])

RoundInvFor(j, st, a, c, po, l, ag, rf) ==
  /\ AllBytes(c)
  /\ st = "generate" => l = <<>>
  /\ st \in {"generate", "disassemble"} => ag = <<>> /\ ~rf
  /\ st = "disassemble" =>
       /\ a \in Nat \ {0} /\ (po = NoOp => Fresh(l))
       /\ \E ops : ListedTo(j.fork, c, l, a - 1, ops) /\ ShownTo(j, c, a, ops)
  /\ st \in {"reassemble", "end"} =>
       \E s, g : /\ Reads(j.fork, c, l, s, g) /\ s[Len(l)] = Len(c)
                 /\ ShownTo(j, c, Len(c) + 1, g[Len(l)])
                 /\ st = "reassemble" => ReadTo(l, c, a, ag, rf, s)
                 /\ st = "end" => Outcome(l, c, ag, rf)

RoundInv == RoundInvFor(job, stage, at, code, prevOp, listing, again, refused)

\* A token is read, or refused.
LEMMA ReassembleRound ==
  ASSUME DisInv, RoundInv, Reassemble
  PROVE  RoundInv'
<1>1. /\ stage = "reassemble" /\ at <= Len(listing)
      /\ job' = job /\ code' = code /\ prevOp' = prevOp /\ listing' = listing
      /\ IF Readable(listing[at])
         THEN /\ again' = again \o Meaning(listing[at]) /\ at' = at + 1
              /\ stage' = "reassemble" /\ refused' = refused
         ELSE refused' = TRUE /\ stage' = "end"
  BY DEF Reassemble
<1>2. /\ AllBytes(code)
      /\ \E s, g : /\ Reads(job.fork, code, listing, s, g) /\ s[Len(listing)] = Len(code)
                   /\ ShownTo(job, code, Len(code) + 1, g[Len(listing)])
                   /\ ReadTo(listing, code, at, again, refused, s)
  BY <1>1 DEF RoundInv, RoundInvFor
<1>3. PICK s, g : /\ Reads(job.fork, code, listing, s, g) /\ s[Len(listing)] = Len(code)
                  /\ ShownTo(job, code, Len(code) + 1, g[Len(listing)])
                  /\ ReadTo(listing, code, at, again, refused, s)
  BY <1>2
<1>4. /\ at \in 1..Len(listing) + 1 /\ ~refused
      /\ IsSeq(again) /\ Len(again) = s[at - 1] /\ \A k \in 1..Len(again) : again[k] = code[k]
      /\ \A k \in 1..at - 1 : ~Odd(listing[k])
  BY <1>3 DEF ReadTo
<1>5. Len(listing) \in Nat /\ \A k \in 0..Len(listing) : s[k] \in Nat /\ s[k] <= Len(code)
  BY <1>3, SeqType DEF Reads
<1>6. /\ at \in 1..Len(listing) /\ at + 1 \in 1..Len(listing) + 1 /\ (at + 1) - 1 = at
      /\ \A k \in 1..at : k \in 1..at - 1 \/ k = at
  BY <1>1, <1>4, <1>5
<1> DEFINE e == Meaning(listing[at])
           more == again \o e
<1>7. /\ Readable(listing[at]) <=> ~Odd(listing[at])
      /\ Slice(code, s[at - 1], s[at], e)
  BY <1>3, <1>4, <1>6, TokenRead
<1>8. CASE Readable(listing[at])
  <2>1. IsSeq(e) /\ s[at] = s[at - 1] + Len(e) /\ \A b \in 1..Len(e) : code[s[at - 1] + b] = e[b]
    BY <1>7 DEF Slice
  <2> HIDE DEF e
  <2>2. /\ IsSeq(more) /\ Len(more) = Len(again) + Len(e)
        /\ \A k \in 1..Len(again) : more[k] = again[k]
        /\ \A k \in 1..Len(e) : more[Len(again) + k] = e[k]
    <3>1. IsSeq(again) /\ IsSeq(e)
      BY <1>4, <2>1
    <3> QED BY <3>1, Joined
  <2>3. Len(again) \in Nat /\ Len(e) \in Nat
    BY <1>4, <2>1, SeqType
  <2> HIDE DEF more
  <2>4. ASSUME NEW k \in 1..Len(more) PROVE more[k] = code[k]
    <3>1. CASE k \in 1..Len(again)
      BY <1>4, <2>2, <3>1
    <3>2. CASE k \notin 1..Len(again)
      <4>1. k - Len(again) \in 1..Len(e) /\ Len(again) + (k - Len(again)) = k
        BY <2>2, <2>3, <3>2
      <4> DEFINE b == k - Len(again)
      <4>2. b \in 1..Len(e) /\ Len(again) + b = k
        BY <4>1
      <4> HIDE DEF b
      <4>3. more[Len(again) + b] = e[b] /\ code[s[at - 1] + b] = e[b]
        BY <2>1, <2>2, <4>2
      <4> QED BY <1>4, <4>2, <4>3
    <3> QED BY <3>1, <3>2
  <2>5. Len(more) = s[(at + 1) - 1]
    BY <1>4, <1>6, <2>1, <2>2
  <2>6. \A k \in 1..(at + 1) - 1 : ~Odd(listing[k])
    BY <1>4, <1>6, <1>7, <1>8
  <2>7. ReadTo(listing, code, at + 1, more, refused, s)
    BY <1>4, <1>6, <2>2, <2>4, <2>5, <2>6 DEF ReadTo
  <2>8. RoundInvFor(job, "reassemble", at + 1, code, prevOp, listing, more, refused)
    BY <1>2, <1>3, <2>7 DEF RoundInvFor
  <2> QED BY <1>1, <1>8, <2>8 DEF RoundInv, more, e
<1>9. CASE ~Readable(listing[at])
  <2>1. Outcome(listing, code, again', TRUE)
    BY <1>6, <1>7, <1>9 DEF Outcome
  <2>2. RoundInvFor(job, "end", at', code, prevOp, listing, again', TRUE)
    BY <1>2, <1>3, <2>1 DEF RoundInvFor
  <2> QED BY <1>1, <1>9, <2>2 DEF RoundInv
<1> QED BY <1>8, <1>9

\* The listing is read.
LEMMA ReassembledRound ==
  ASSUME DisInv, RoundInv, Reassembled
  PROVE  RoundInv'
<1>1. /\ stage = "reassemble" /\ at > Len(listing) /\ stage' = "end"
      /\ job' = job /\ at' = at /\ code' = code /\ prevOp' = prevOp /\ listing' = listing
      /\ again' = again /\ refused' = refused
  BY DEF Reassembled
<1>2. /\ AllBytes(code)
      /\ \E s, g : /\ Reads(job.fork, code, listing, s, g) /\ s[Len(listing)] = Len(code)
                   /\ ShownTo(job, code, Len(code) + 1, g[Len(listing)])
                   /\ ReadTo(listing, code, at, again, refused, s)
  BY <1>1 DEF RoundInv, RoundInvFor
<1>3. PICK s, g : /\ Reads(job.fork, code, listing, s, g) /\ s[Len(listing)] = Len(code)
                  /\ ShownTo(job, code, Len(code) + 1, g[Len(listing)])
                  /\ ReadTo(listing, code, at, again, refused, s)
  BY <1>2
<1>4. /\ at \in 1..Len(listing) + 1 /\ ~refused
      /\ IsSeq(again) /\ Len(again) = s[at - 1] /\ \A k \in 1..Len(again) : again[k] = code[k]
      /\ \A k \in 1..at - 1 : ~Odd(listing[k])
  BY <1>3 DEF ReadTo
<1>5. Len(listing) \in Nat
  BY <1>3, SeqType DEF Reads
<1>6. at - 1 = Len(listing)
  BY <1>1, <1>4, <1>5
<1>7. IsSeq(code)
  BY <1>1 DEF DisInv, DisInvFor, LaidOut
<1>8. again = code
  BY <1>3, <1>4, <1>6, <1>7, SameSeq
<1>9. Outcome(listing, code, again, refused)
  BY <1>4, <1>6, <1>8 DEF Outcome
<1>10. RoundInvFor(job, "end", at, code, prevOp, listing, again, refused)
  BY <1>2, <1>3, <1>9 DEF RoundInvFor
<1> QED BY <1>1, <1>10 DEF RoundInv

\* The code that is generated are bytes.
LEMMA GenerateRound ==
  ASSUME DisInv, RoundInv, Generate
  PROVE  RoundInv'
<1>1. /\ stage = "generate" /\ stage' = "generate" /\ at <= Len(job.program)
      /\ code' = code \o Encoded(job.program[at])
      /\ job' = job /\ listing' = listing /\ again' = again /\ refused' = refused
  BY DEF Generate
<1>2. AllBytes(code) /\ listing = <<>> /\ again = <<>> /\ ~refused
  BY <1>1 DEF RoundInv, RoundInvFor
<1>3. /\ IsJob(job) /\ AllAccepted(job) /\ IsSeq(code)
      /\ at \in 1..Len(job.program) + 1
  BY <1>1 DEF DisInv, DisInvFor, LaidOut
<1>4. at \in 1..Len(job.program)
  <2>1. Len(job.program) \in Nat
    BY <1>3, SeqType DEF IsJob
  <2> QED BY <1>1, <1>3, <2>1
<1> DEFINE s == job.program[at]
           e == EncodedFor(job.fork, s)
<1>5. Encoded(s) = e
  BY SameDefinitions
<1>6. job.fork \in DOMAIN Forks /\ IsStatement(s) /\ AcceptedBy(job.fork, s)
  BY <1>3, <1>4 DEF IsJob, AllAccepted
<1>7. IsSeq(e) /\ AllBytes(e)
  <2> HIDE DEF s
  <2> QED BY <1>6, EncodedIsSeq, CodedBytes
<1> HIDE DEF e
<1>8. AllBytes(code \o e)
  BY <1>2, <1>3, <1>7, JoinedBytes
<1>9. AllBytes(code')
  BY <1>1, <1>5, <1>8
<1>10. RoundInvFor(job, "generate", at', code', prevOp', listing, again, refused)
  BY <1>2, <1>9 DEF RoundInvFor
<1> QED BY <1>1, <1>10 DEF RoundInv

\* Before the first line.
LEMMA NothingListed ==
  ASSUME NEW fork, NEW c, Len(c) \in Nat
  PROVE  ListedTo(fork, c, <<>>, 0, <<>>)
<1> DEFINE l == <<>>
           s == [k \in 0..0 |-> 0]
           g == [k \in 0..0 |-> <<>>]
<1>1. IsSeq(l) /\ Len(l) = 0
  BY FewSeq
<1>2. s[0] = 0 /\ g[0] = <<>> /\ (\A k \in 0..0 : k = 0) /\ 0 \in Nat /\ 0 <= Len(c)
  OBVIOUS
<1>3. (\A k \in 1..0 : FALSE) /\ (\A k \in 1..0 - 1 : FALSE)
  OBVIOUS
<1> HIDE DEF s, g
<1>4. \A k \in 0..0 : s[k] \in Nat /\ s[k] <= Len(c)
  BY <1>2
<1> HIDE DEF l
<1>5. Reads(fork, c, l, s, g)
  BY <1>1, <1>2, <1>3, <1>4 DEF Reads
<1>6. ListedTo(fork, c, l, 0, <<>>)
  BY <1>1, <1>2, <1>5 DEF ListedTo
<1> QED BY <1>6 DEF l

\* The disassembler begins.
LEMMA GeneratedRound ==
  ASSUME DisInv, RoundInv, Generated
  PROVE  RoundInv'
<1>1. /\ stage = "generate" /\ stage' = "disassemble" /\ at > Len(job.program)
      /\ at' = 1 /\ prevOp' = NoOp
      /\ job' = job /\ code' = code /\ listing' = listing /\ again' = again /\ refused' = refused
  BY DEF Generated
<1>2. AllBytes(code) /\ listing = <<>> /\ again = <<>> /\ ~refused
  BY <1>1 DEF RoundInv, RoundInvFor
<1>3. /\ IsJob(job) /\ AllAccepted(job) /\ LaidOut(job, at, code)
      /\ at \in 1..Len(job.program) + 1
  BY <1>1 DEF DisInv, DisInvFor
<1>4. at = Len(job.program) + 1
  <2>1. Len(job.program) \in Nat
    BY <1>3, SeqType DEF IsJob
  <2> QED BY <1>1, <1>3, <2>1
<1>5. ShownTo(job, code, 1, <<>>)
  BY <1>3, <1>4, ShownStart
<1>6. Len(code) \in Nat
  BY <1>3, SeqType DEF LaidOut
<1>7. ListedTo(job.fork, code, <<>>, 1 - 1, <<>>)
  <2>1. 1 - 1 = 0
    OBVIOUS
  <2>2. ListedTo(job.fork, code, <<>>, 0, <<>>)
    BY <1>6, NothingListed
  <2> QED BY <2>1, <2>2
<1>8. Fresh(listing)
  <2>1. Len(listing) = 0
    BY <1>2, FewSeq
  <2> QED BY <2>1 DEF Fresh
<1>9. RoundInvFor(job, "disassemble", 1, code, NoOp, listing, again, refused)
  <2>1. \E ops : ListedTo(job.fork, code, listing, 1 - 1, ops) /\ ShownTo(job, code, 1, ops)
    BY <1>2, <1>5, <1>7
  <2>2. 1 \in Nat \ {0}
    OBVIOUS
  <2> QED BY <1>2, <1>8, <2>1, <2>2 DEF RoundInvFor
<1> QED BY <1>1, <1>9 DEF RoundInv

\* An operation is listed.
LEMMA DisassembleRound ==
  ASSUME DisInv, RoundInv, Disassemble
  PROVE  RoundInv'
<1> DEFINE op == OpByCode(code[at])
<1>1. /\ stage = "disassemble" /\ stage' = "disassemble" /\ at <= Len(code)
      /\ listing' = listing \o Newline(op) \o Prefix(op) \o LinesFor(op)
      /\ at' = at + 1 + Taken(op) /\ prevOp' = op
      /\ job' = job /\ code' = code /\ again' = again /\ refused' = refused
  BY DEF Disassemble
<1>2. /\ AllBytes(code) /\ again = <<>> /\ ~refused
      /\ at \in Nat \ {0} /\ (prevOp = NoOp => Fresh(listing))
      /\ \E ops : ListedTo(job.fork, code, listing, at - 1, ops) /\ ShownTo(job, code, at, ops)
  BY <1>1 DEF RoundInv, RoundInvFor
<1>3. PICK ops : ListedTo(job.fork, code, listing, at - 1, ops) /\ ShownTo(job, code, at, ops)
  BY <1>2
<1>4. IsJob(job) /\ IsSeq(code) /\ job.fork \in DOMAIN Forks
  BY <1>1 DEF DisInv, DisInvFor, LaidOut, IsJob
<1>5. at \in 1..Len(code)
  <2>1. Len(code) \in Nat
    BY <1>4, SeqType
  <2> QED BY <1>1, <1>2, <2>1
<1>6. PICK o : o = op
  OBVIOUS
<1> DEFINE l1 == listing \o Newline(o)
           l2 == l1 \o Prefix(o)
           l3 == l2 \o LinesFor(o)
           more == Append(ops, ShownBy(FirstLine(o)))
           p == at - 1
<1>7. ListedTo(job.fork, code, l1, at - 1, ops) /\ Fresh(l1)
  <2>1. ListedTo(job.fork, code, listing, p, ops)
    BY <1>3
  <2> HIDE DEF p
  <2>2. /\ ListedTo(job.fork, code, listing \o Newline(o), p, ops)
        /\ Fresh(listing \o Newline(o)) /\ IsSeq(listing \o Newline(o))
    BY <1>2, <2>1, NewlineListed
  <2> QED BY <2>2 DEF p
<1>8. ListedTo(job.fork, code, l2, at - 1, ops) /\ Fresh(l2)
  <2> HIDE DEF l1
  <2>1. /\ ListedTo(job.fork, code, l1 \o Prefix(o), at - 1, ops)
        /\ Fresh(l1 \o Prefix(o)) /\ IsSeq(l1 \o Prefix(o))
    BY <1>7, PrefixListed
  <2> QED BY <2>1
<1>9. /\ ListedTo(job.fork, code, l3, at + Taken(o), more)
      /\ Taken(o) \in Nat
      /\ o = NoOp => Fresh(l3)
  <2> HIDE DEF l2
  <2>1. /\ ListedTo(job.fork, code, l2 \o LinesFor(o), at + Taken(o),
                    Append(ops, ShownBy(FirstLine(o))))
        /\ Taken(o) \in Nat
        /\ o = NoOp => Fresh(l2 \o LinesFor(o))
    BY <1>2, <1>4, <1>5, <1>6, <1>8, LinesListed
  <2> QED BY <2>1
<1>10. ShownTo(job, code, at + 1 + Taken(o), more)
  BY <1>3, <1>5, <1>6, ShownStep
<1>11. (at + 1 + Taken(o)) - 1 = at + Taken(o) /\ at + 1 + Taken(o) \in Nat \ {0}
  BY <1>2, <1>9
<1>12. listing' = l3 /\ at' = at + 1 + Taken(o) /\ prevOp' = o
  BY <1>1, <1>6
<1> HIDE DEF l3, more, op
<1> DEFINE a == at + 1 + Taken(o)
<1>13. a - 1 = at + Taken(o) /\ a \in Nat \ {0}
  BY <1>11
<1>14. ShownTo(job, code, a, more)
  BY <1>10
<1>15. at' = a
  BY <1>12
<1> HIDE DEF a
<1>16. RoundInvFor(job, "disassemble", a, code, o, l3, again, refused)
  <2>1. \E x : ListedTo(job.fork, code, l3, a - 1, x) /\ ShownTo(job, code, a, x)
    BY <1>9, <1>13, <1>14
  <2> QED BY <1>2, <1>9, <1>13, <2>1 DEF RoundInvFor
<1> QED BY <1>1, <1>12, <1>15, <1>16 DEF RoundInv

\* The listing is complete.
LEMMA DisassembledRound ==
  ASSUME DisInv, RoundInv, Disassembled
  PROVE  RoundInv'
<1>1. /\ stage = "disassemble" /\ stage' = "reassemble" /\ at > Len(code) /\ at' = 1
      /\ listing' = listing \o Newline(NoOp) /\ prevOp' = prevOp
      /\ job' = job /\ code' = code /\ again' = again /\ refused' = refused
  BY DEF Disassembled
<1>2. /\ AllBytes(code) /\ again = <<>> /\ ~refused
      /\ at \in Nat \ {0} /\ (prevOp = NoOp => Fresh(listing))
      /\ \E ops : ListedTo(job.fork, code, listing, at - 1, ops) /\ ShownTo(job, code, at, ops)
  BY <1>1 DEF RoundInv, RoundInvFor
<1>3. PICK ops : ListedTo(job.fork, code, listing, at - 1, ops) /\ ShownTo(job, code, at, ops)
  BY <1>2
<1>4. IsSeq(code) /\ Len(code) \in Nat
  BY <1>1, SeqType DEF DisInv, DisInvFor, LaidOut
<1>5. at = Len(code) + 1 /\ at - 1 = Len(code)
  <2>1. at - 1 \in Nat /\ at - 1 <= Len(code)
    BY <1>3, ListedType
  <2> QED BY <1>1, <1>2, <1>4, <2>1
<1> DEFINE l == listing \o Newline(NoOp)
<1>6. ListedTo(job.fork, code, l, Len(code), ops)
  <2>1. ListedTo(job.fork, code, listing, Len(code), ops)
    BY <1>3, <1>5
  <2>2. /\ ListedTo(job.fork, code, listing \o Newline(NoOp), Len(code), ops)
        /\ Fresh(listing \o Newline(NoOp)) /\ IsSeq(listing \o Newline(NoOp))
    BY <1>2, <2>1, NewlineListed
  <2> QED BY <2>2
<1> HIDE DEF l
<1>7. PICK s, g : Reads(job.fork, code, l, s, g) /\ s[Len(l)] = Len(code) /\ g[Len(l)] = ops
  BY <1>6 DEF ListedTo
<1>8. ShownTo(job, code, Len(code) + 1, g[Len(l)])
  BY <1>3, <1>5, <1>7
<1>9. ReadTo(l, code, 1, again, refused, s)
  <2>1. Len(l) \in Nat
    BY <1>7, SeqType DEF Reads
  <2>2. IsSeq(again) /\ Len(again) = 0
    BY <1>2, FewSeq
  <2>3. 1 \in 1..Len(l) + 1 /\ 1 - 1 = 0 /\ (\A k \in 1..0 : FALSE)
    BY <2>1
  <2>4. s[1 - 1] = 0
    BY <1>7, <2>3 DEF Reads
  <2> QED BY <1>2, <2>2, <2>3, <2>4 DEF ReadTo
<1>10. RoundInvFor(job, "reassemble", 1, code, prevOp, l, again, refused)
  BY <1>2, <1>7, <1>8, <1>9 DEF RoundInvFor
<1> QED BY <1>1, <1>10 DEF RoundInv, l

\* The invariant holds.
LEMMA RoundInvHolds ==
  ASSUME NEW CONSTANT Jobs, \A j \in Jobs : IsJob(j)
  PROVE  DisInit(Jobs) /\ [][DisNext]_disVars => []RoundInv
<1>1. DisInit(Jobs) => RoundInv
  <2> SUFFICES ASSUME DisInit(Jobs) PROVE RoundInv
    OBVIOUS
  <2>1. /\ stage = "generate" /\ code = <<>> /\ listing = <<>> /\ again = <<>> /\ refused = FALSE
    BY DEF DisInit
  <2>2. AllBytes(code)
    <3>1. Len(code) = 0 /\ \A k \in 1..0 : FALSE
      BY <2>1, FewSeq
    <3> QED BY <3>1 DEF AllBytes
  <2> QED BY <2>1, <2>2 DEF RoundInv, RoundInvFor
<1>2. DisInv /\ RoundInv /\ [DisNext]_disVars => RoundInv'
  <2> SUFFICES ASSUME DisInv, RoundInv, [DisNext]_disVars PROVE RoundInv'
    OBVIOUS
  <2>1. CASE UNCHANGED disVars
    BY <2>1 DEF disVars, RoundInv
  <2> QED BY <2>1, GenerateRound, GeneratedRound, DisassembleRound, DisassembledRound,
             ReassembleRound, ReassembledRound DEF DisNext
<1>3. DisInit(Jobs) /\ [][DisNext]_disVars => []DisInv
  BY DisInvHolds
<1> QED BY <1>1, <1>2, <1>3, PTL

\* Data in a listing are data among what it shows.
LEMMA DataShown ==
  ASSUME NEW fork, NEW c, NEW tokens, NEW s, NEW g, Reads(fork, c, tokens, s, g),
         NEW k \in 1..Len(tokens), tokens[k].t = "bytes"
  PROVE  \E m \in 1..Len(g[Len(tokens)]) : g[Len(tokens)][m].op = "#bytes"
<1> DEFINE n == Len(tokens)
           Has(l) == \E m \in 1..Len(l) : l[m].op = "#bytes"
           S == {i \in Nat : i <= n => IsSeq(g[i]) /\ (k <= i => Has(g[i]))}
<1>1. n \in Nat /\ k \in Nat /\ k > 0 /\ k <= n
  <2>1. n \in Nat
    BY SeqType DEF Reads
  <2> QED BY <2>1
<1>2. /\ g[0] = <<>>
      /\ \A i \in 1..n :
           g[i] = IF IsLine(tokens[i]) THEN Append(g[i - 1], ShownBy(tokens[i])) ELSE g[i - 1]
  BY DEF Reads
<1>3. 0 \in S
  <2>1. IsSeq(g[0])
    BY <1>2, FewSeq
  <2>2. ~(k <= 0)
    BY <1>1
  <2> HIDE DEF Has
  <2> QED BY <2>1, <2>2
<1>4. ASSUME NEW i \in Nat, i \in S PROVE i + 1 \in S
  <2>1. CASE i + 1 <= n
    <3> DEFINE tok == tokens[i + 1]
               l == g[i]
               x == ShownBy(tok)
    <3> HIDE DEF Has, n
    <3>1. i + 1 \in 1..n /\ (i + 1) - 1 = i /\ i <= n /\ (k <= i + 1 => k <= i \/ k = i + 1)
      BY <1>1, <2>1
    <3>2. IsSeq(l) /\ (k <= i => Has(l))
      BY <1>4, <3>1
    <3>3. g[i + 1] = IF IsLine(tok) THEN Append(l, x) ELSE l
      BY <1>2, <3>1
    <3>4. CASE IsLine(tok)
      <4>1. g[i + 1] = Append(l, x)
        BY <3>3, <3>4
      <4>2. /\ IsSeq(Append(l, x)) /\ Len(Append(l, x)) = Len(l) + 1
            /\ \A m \in 1..Len(l) : Append(l, x)[m] = l[m]
            /\ Append(l, x)[Len(l) + 1] = x
        BY <3>2, AppendSeq
      <4>3. Len(l) \in Nat
        BY <3>2, SeqType
      <4> DEFINE more == Append(l, x)
      <4>4. ASSUME k <= i PROVE Has(more)
        <5>1. PICK m \in 1..Len(l) : l[m].op = "#bytes"
          BY <3>2, <4>4 DEF Has
        <5>2. m \in 1..Len(l) + 1 /\ more[m] = l[m]
          BY <4>2, <4>3
        <5> HIDE DEF more, l
        <5> QED BY <4>2, <5>1, <5>2 DEF Has, more
      <4>5. ASSUME k = i + 1 PROVE Has(more)
        <5>1. x.op = "#bytes"
          BY <4>5 DEF ShownBy
        <5>2. Len(l) + 1 \in 1..Len(l) + 1
          BY <4>3
        <5> HIDE DEF x, l
        <5> QED BY <4>2, <5>1, <5>2 DEF Has
      <4>6. g[i + 1] = more /\ IsSeq(more)
        BY <4>1, <4>2
      <4> HIDE DEF l, x, more
      <4>7. k <= i + 1 => Has(more)
        BY <3>1, <4>4, <4>5
      <4>8. IsSeq(g[i + 1]) /\ (k <= i + 1 => Has(g[i + 1]))
        BY <4>6, <4>7
      <4> QED BY <4>8
    <3>5. CASE ~IsLine(tok)
      <4>1. k # i + 1
        BY <3>5 DEF IsLine
      <4> QED BY <3>1, <3>2, <3>3, <3>5, <4>1
    <3> QED BY <3>4, <3>5
  <2>2. CASE ~(i + 1 <= n)
    BY <2>2
  <2> QED BY <2>1, <2>2
<1>5. Nat \subseteq S
  <2> HIDE DEF S
  <2> QED BY <1>3, <1>4, InductiveSet
<1>6. n \in S /\ n <= n
  BY <1>1, <1>5
<1> HIDE DEF Has
<1>7. Has(g[n])
  BY <1>1, <1>6
<1> QED BY <1>7 DEF Has

\* Instructions are no data.
LEMMA NoDataWritten ==
  ASSUME NEW j, IsJob(j), AllAccepted(j), OnlyOps(j), NEW w, Writes(j, Len(j.program), w)
  PROVE  \A m \in 1..Len(w[Len(j.program)]) : w[Len(j.program)][m].op # "#bytes"
<1> DEFINE n == Len(j.program)
           NoData(l) == \A m \in 1..Len(l) : l[m].op # "#bytes"
           S == {i \in Nat : i <= n => IsSeq(w[i]) /\ NoData(w[i])}
<1>1. n \in Nat
  BY SeqType DEF IsJob
<1>2. /\ w[0] = <<>>
      /\ \A i \in 1..n : w[i] = IF j.program[i].op = "label" THEN w[i - 1]
                                ELSE Append(w[i - 1], ShownFor(j.fork, j.program[i]))
  BY DEF Writes
<1>3. 0 \in S
  <2>1. IsSeq(w[0]) /\ Len(w[0]) = 0
    <3>1. IsSeq(<<>>) /\ Len(<<>>) = 0
      BY FewSeq
    <3>2. w[0] = <<>>
      BY <1>2
    <3> QED BY <3>1, <3>2
  <2>2. \A m \in 1..0 : FALSE
    OBVIOUS
  <2>3. NoData(w[0])
    BY <2>1, <2>2
  <2> HIDE DEF NoData
  <2> QED BY <2>1, <2>3
<1>4. ASSUME NEW i \in Nat, i \in S PROVE i + 1 \in S
  <2>1. CASE i + 1 <= n
    <3> DEFINE s == j.program[i + 1]
               l == w[i]
               x == ShownFor(j.fork, s)
    <3> HIDE DEF NoData, n
    <3>1. i + 1 \in 1..n /\ (i + 1) - 1 = i /\ i <= n
      BY <1>1, <2>1
    <3>2. IsSeq(l) /\ NoData(l)
      BY <1>4, <3>1
    <3>3. w[i + 1] = IF s.op = "label" THEN l ELSE Append(l, x)
      BY <1>2, <3>1
    <3>4. CASE s.op = "label"
      BY <3>2, <3>3, <3>4
    <3>5. CASE s.op # "label"
      <4>1. x.op # "#bytes"
        <5>1. x.op = ResolvedFor(j.fork, s)
          BY DEF ShownFor
        <5>2. s.op # "#bytes" /\ IsStatement(s) /\ AcceptedBy(j.fork, s) /\ j.fork \in DOMAIN Forks
          BY <3>1 DEF OnlyOps, IsJob, AllAccepted, n
        <5>3. CASE s.op = "PUSH"
          <6>1. ResolvedFor(j.fork, s) \in DOMAIN Pushes
            BY <5>2, <5>3, PushScannable DEF IsPush
          <6> QED BY <5>1, <6>1, OpNames
        <5>4. CASE s.op # "PUSH"
          BY <5>1, <5>2, <5>4 DEF ResolvedFor
        <5> QED BY <5>3, <5>4
      <4>2. /\ IsSeq(Append(l, x)) /\ Len(Append(l, x)) = Len(l) + 1
            /\ \A m \in 1..Len(l) : Append(l, x)[m] = l[m]
            /\ Append(l, x)[Len(l) + 1] = x
        BY <3>2, AppendSeq
      <4>3. Len(l) \in Nat
        BY <3>2, SeqType
      <4>4. \A m \in 1..Len(l) + 1 : m \in 1..Len(l) \/ m = Len(l) + 1
        BY <4>3
      <4> HIDE DEF l, x
      <4>5. NoData(Append(l, x))
        BY <3>2, <4>1, <4>2, <4>4 DEF NoData
      <4>6. w[i + 1] = Append(l, x)
        BY <3>3, <3>5
      <4>7. IsSeq(w[i + 1]) /\ NoData(w[i + 1])
        BY <4>2, <4>5, <4>6
      <4> QED BY <4>7
    <3> QED BY <3>4, <3>5
  <2>2. CASE ~(i + 1 <= n)
    BY <2>2
  <2> QED BY <2>1, <2>2
<1>5. Nat \subseteq S
  <2> HIDE DEF S
  <2> QED BY <1>3, <1>4, InductiveSet
<1>6. n \in S /\ n <= n
  BY <1>1, <1>5
<1> HIDE DEF NoData
<1>7. NoData(w[n])
  BY <1>1, <1>6
<1> QED BY <1>7 DEF NoData

\* What the invariant says at the end.
LEMMA RoundExact == DisInv /\ RoundInv => RoundTrips
<1> SUFFICES ASSUME DisInv, RoundInv, stage = "end"
             PROVE  /\ refused <=> ~TwoDigits
                    /\ ~refused => again = code
                    /\ OnlyCode /\ AllRecognized => ~refused /\ ShowsAssembled
  BY DEF RoundTrips
<1>1. \E s, g : /\ Reads(job.fork, code, listing, s, g)
                /\ ShownTo(job, code, Len(code) + 1, g[Len(listing)])
                /\ Outcome(listing, code, again, refused)
  BY DEF RoundInv, RoundInvFor
<1>2. PICK s, g : /\ Reads(job.fork, code, listing, s, g)
                  /\ ShownTo(job, code, Len(code) + 1, g[Len(listing)])
                  /\ Outcome(listing, code, again, refused)
  BY <1>1
<1>3. DOMAIN listing = 1..Len(listing)
  BY <1>2, SeqType DEF Reads
<1>4. (refused <=> ~TwoDigits) /\ (~refused => again = code)
  BY <1>2, <1>3 DEF Outcome, TwoDigits
<1>5. ASSUME OnlyCode, AllRecognized PROVE ~refused /\ ShowsAssembled
  <2>1. /\ IsJob(job) /\ AllAccepted(job)
        /\ Len(job.program) \in Nat /\ DOMAIN job.program = 1..Len(job.program)
    BY SeqType DEF DisInv, DisInvFor, IsJob
  <2>2. OnlyOps(job)
    BY <1>5, <2>1 DEF OnlyCode, AllRecognized, OnlyOps, Program
  <2> DEFINE ops == g[Len(listing)]
  <2>3. PICK w : Writes(job, Len(job.program), w) /\ w[Len(job.program)] = ops
    BY <1>2, <2>2, ShownEnd
  <2>4. Written = w[Len(job.program)]
    BY <2>1, <2>3, WrittenIs
  <2>5. Listed = ops
    BY <1>2, ListedIs
  <2>6. \A m \in 1..Len(w[Len(job.program)]) : w[Len(job.program)][m].op # "#bytes"
    BY <2>1, <2>2, <2>3, NoDataWritten
  <2>7. ASSUME NEW k \in 1..Len(listing), listing[k].t = "bytes" PROVE FALSE
    <3>1. \E m \in 1..Len(g[Len(listing)]) : g[Len(listing)][m].op = "#bytes"
      BY <1>2, <2>7, DataShown
    <3> QED BY <2>3, <2>6, <3>1
  <2>8. TwoDigits
    BY <1>3, <2>7 DEF TwoDigits, Odd
  <2> QED BY <1>4, <2>3, <2>4, <2>5, <2>8 DEF ShowsAssembled
<1> QED BY <1>4, <1>5

\* Whatever was assembled, of any length, and whatever bytes were in it, the text that the
\* disassembler prints in any style is accepted unless a byte in it has one digit, and
\* gives the same bytes; a program without data is listed as it was written.
THEOREM RoundTheorem ==
  ASSUME NEW CONSTANT Jobs, \A j \in Jobs : IsInput(j)
  PROVE  DisInit(Jobs) /\ [][DisNext]_disVars => []RoundTrips
<1>0. \A j \in Jobs : IsJob(j)
  BY InputsAreJobs
<1>1. DisInit(Jobs) /\ [][DisNext]_disVars => []DisInv
  BY <1>0, DisInvHolds
<1>2. DisInit(Jobs) /\ [][DisNext]_disVars => []RoundInv
  BY <1>0, RoundInvHolds
<1> QED BY <1>1, <1>2, RoundExact, PTL

-----------------------------------------------------------------------------
(* The command, with these machines inside.                                  *)

AllRequests == UNION {i.requests : i \in Invocations}
AllJobs     == UNION {i.jobs : i \in Invocations}

\* Every step of the command is at most one of the resolution of a fork.
LEMMA SetSteps == [Next]_vars => [SetNext]_setVars
<1> SUFFICES ASSUME [Next]_vars, ~(UNCHANGED setVars) PROVE SetNext
  OBVIOUS
<1>1. ~(UNCHANGED vars)
  BY DEF vars
<1>2. ~(Start \/ InputFails \/ OpenOutput \/ UnknownTarget \/ Informed \/ DocumentHasErrors
        \/ Finished \/ Output \/ Write \/ Kill)
  BY DEF Start, InputFails, OpenOutput, UnknownTarget, Informed, DocumentHasErrors, Finished,
         Output, Write, Kill, Machines
<1>3. ~(Earlier \/ Later \/ Over)
  BY <1>1 DEF Earlier, Later, Over
<1>4. Works
  BY <1>1, <1>2, <1>3 DEF Next
<1> QED BY <1>4 DEF Works

\* And at most one of the assembler and the disassembler.
LEMMA DisSteps == [Next]_vars => [DisNext]_disVars
<1> SUFFICES ASSUME [Next]_vars, ~(UNCHANGED disVars) PROVE DisNext
  OBVIOUS
<1>1. ~(UNCHANGED vars)
  BY DEF vars
<1>2. ~(Start \/ InputFails \/ OpenOutput \/ UnknownTarget \/ Informed \/ DocumentHasErrors
        \/ Finished \/ Output \/ Write \/ Kill)
  BY DEF Start, InputFails, OpenOutput, UnknownTarget, Informed, DocumentHasErrors, Finished,
         Output, Write, Kill, Machines
<1>3. ~Over
  BY <1>1 DEF Over
<1>4. Works \/ Earlier \/ Later
  BY <1>1, <1>2, <1>3 DEF Next
<1> QED BY <1>4 DEF Works, Earlier, Later

\* So the command runs each of them from a beginning that the theorems above are about.
LEMMA Machinery ==
  /\ Spec => SetInit(AllRequests) /\ [][SetNext]_setVars
  /\ Spec => DisInit(AllJobs) /\ [][DisNext]_disVars
<1>1. Init => SetInit(AllRequests)
  BY DEF Init, SetInit, AllRequests
<1>2. Init => DisInit(AllJobs)
  BY DEF Init, DisInit, AllJobs
<1> QED BY <1>1, <1>2, SetSteps, DisSteps, PTL DEF Spec

\* Whatever command is given, the set of a fork is what its lineage gives it, and only a
\* table that makes no sense panics (FindInstructionSet).
THEOREM CommandSetIsExact == Spec => []SetIsExact
<1>1. \A r \in AllRequests : IsRegistry(r[1])
  BY InputsOK DEF AllRequests
<1>2. SetInit(AllRequests) /\ [][SetNext]_setVars => []SetIsExact
  BY <1>1, SetTheorem
<1> QED BY <1>2, Machinery, PTL

\* Jobs are what the assembler can be given.
LEMMA JobsAreInputs == \A j \in AllJobs : IsInput(j)
BY InputsOK DEF AllJobs

\* Whatever was assembled, and in whatever style it is listed, the listing is refused only
\* for a byte with one digit, and otherwise gives the same bytes (geas -d, then geas -a).
THEOREM CommandRoundTrips == Spec => []RoundTrips
<1>1. DisInit(AllJobs) /\ [][DisNext]_disVars => []RoundTrips
  BY JobsAreInputs, RoundTheorem
<1> QED BY <1>1, Machinery, PTL

\* Whatever was assembled from instructions, the machine jumps to JUMPDEST statements only.
THEOREM CommandTargetsAreStatements == Spec => []TargetsAreStatements
<1>1. DisInit(AllJobs) /\ [][DisNext]_disVars => []TargetsAreStatements
  BY JobsAreInputs, TargetsTheorem
<1> QED BY <1>1, Machinery, PTL

\* Whatever was assembled from instructions, warnings tell exactly what cannot be reached.
THEOREM CommandWarningsAreExact == Spec => []WarningsAreExact
<1>1. DisInit(AllJobs) /\ [][DisNext]_disVars => []WarningsAreExact
  BY JobsAreInputs, WarningsTheorem
<1> QED BY <1>1, Machinery, PTL

-----------------------------------------------------------------------------
(* The exit code.                                                            *)

\* What is known of the output file, and of the input, in each phase.  A disassembler
\* that does not know its target never gets to the end of the code.
PhaseInv ==
  /\ cmd.mode \in {"-a", "-d", "-f", "-i"} /\ cmd.to \in {"stdout", "file", "check"}
  /\ cmd.to = "file" => cmd.mode # "-i"
  /\ cmd.fault \in Faults(cmd.mode)
  /\ phase \in {"start", "open", "work", "output", "write", "exit"}
  /\ phase = "start" => dest = "before"
  /\ phase = "open" => cmd.mode = "-d" /\ dest = "before" /\ cmd.fault # "flags"
  /\ phase = "work" =>
       /\ cmd.fault # "flags" /\ (cmd.mode = "-d" => InputFine)
       /\ dest = IF cmd.mode = "-d" /\ cmd.to = "file" THEN "partial" ELSE "before"
  /\ phase \in {"output", "write"} =>
       /\ cmd.mode \in {"-a", "-f"} /\ cmd.fault = "none" /\ Ready
       /\ dest = IF phase = "write" THEN "partial" ELSE "before"
  /\ phase = "write" => cmd.to = "file"
  /\ phase # "exit" /\ cmd.fault = "target" => stage \in {"generate", "disassemble"}

OutcomeInv == PhaseInv /\ OutcomeIsHonest

\* A machine that is ready stays so.
LEMMA StaysReady ==
  /\ Ready /\ Later => Ready'
  /\ Ready /\ UNCHANGED <<cmd, disVars, fmtVars>> => Ready'
<1>1. ASSUME Ready, Later PROVE Ready'
  <2>1. cmd' = cmd
    BY <1>1 DEF Later, cmdVars
  <2>2. CASE cmd.mode = "-f" /\ FmtNext
    <3>1. round = 2
      BY <1>1, <2>2 DEF Ready
    <3>2. round' = 2
      BY <2>2, <3>1 DEF FmtNext, ParseStatement, OpenMacro, CloseMacro, Misplaced, Parsed,
                        PrintStatement, Printed, ParserOnly
    <3> QED BY <2>1, <2>2, <3>2 DEF Ready
  <2>3. CASE cmd.mode = "-d" /\ stage # "end" /\ DisNext
    <3>1. stage = "reassemble"
      BY <1>1, <2>3 DEF Ready
    <3>2. Reassemble \/ Reassembled
      BY <2>3, <3>1 DEF DisNext, Generate, Generated, Disassemble, Disassembled
    <3>3. stage' \in {"reassemble", "end"}
      BY <3>1, <3>2 DEF Reassemble, Reassembled
    <3> QED BY <2>1, <2>3, <3>3 DEF Ready
  <2> QED BY <1>1, <2>2, <2>3 DEF Later
<1>2. ASSUME Ready, UNCHANGED <<cmd, disVars, fmtVars>> PROVE Ready'
  BY <1>2 DEF Ready, disVars, fmtVars
<1> QED BY <1>1, <1>2

\* What the machines do inside a phase.
LEMMA WorksOutcome == OutcomeInv /\ Works => OutcomeInv'
<1> SUFFICES ASSUME OutcomeInv, Works PROVE OutcomeInv'
  OBVIOUS
<1>1. phase = "work" /\ phase' = "work" /\ cmd' = cmd /\ InputFine /\ dest' = dest
  BY DEF Works, Formats
<1>2. cmd.fault # "target" \/ stage' = stage
  BY DEF OutcomeInv, PhaseInv, Faults, Works, disVars
<1>3. PhaseInv'
  BY <1>1, <1>2 DEF OutcomeInv, PhaseInv, InputFine, Faults
<1> QED BY <1>1, <1>3 DEF OutcomeInv, OutcomeIsHonest

\* The exit code tells what has become of the file, for every command line, every input,
\* every failure to read or write, and a kill at any moment.
THEOREM CommandOutcomeIsHonest == Spec => []OutcomeIsHonest
<1>1. Init => OutcomeInv
  BY InvocationsOK DEF Init, DisInit, OutcomeInv, PhaseInv, OutcomeIsHonest
<1>2. OutcomeInv /\ [Next]_vars => OutcomeInv'
  <2> SUFFICES ASSUME OutcomeInv, [Next]_vars PROVE OutcomeInv'
    OBVIOUS
  <2> USE DEF OutcomeInv, PhaseInv, OutcomeIsHonest
  <2>1. CASE UNCHANGED vars
    BY <2>1, StaysReady DEF vars, cmdVars, setVars, disVars, fmtVars, InputFine
  <2>2. CASE Start
    BY <2>2 DEF Start, Exit, Machines, disVars, InputFine, Faults
  <2>3. CASE InputFails
    BY <2>3 DEF InputFails, Exit, InputFine, Faults
  <2>4. CASE OpenOutput
    BY <2>4 DEF OpenOutput, Exit, Machines, disVars, InputFine
  <2>5. CASE UnknownTarget
    BY <2>5 DEF UnknownTarget, Exit
  <2>6. CASE Works
    BY <2>6, WorksOutcome
  <2>7. CASE Informed
    <3>1. /\ phase = "work" /\ cmd.mode = "-i" /\ phase' = "exit" /\ cmd' = cmd /\ dest' = dest
          /\ exit' = (IF state = "done" THEN 0 ELSE 2) /\ state' = state
      BY <2>7 DEF Informed, Exit, Machines, setVars
    <3>2. cmd.fault = "none" /\ dest = "before"
      BY <3>1 DEF Faults
    <3>3. exit' = 0 => state' = "done"
      BY <3>1
    <3>4. cmd'.mode = "-i" /\ cmd'.fault = "none" /\ dest' = "before" /\ cmd'.to = cmd.to
      BY <3>1, <3>2
    <3>5. exit' \in {0, 2}
      BY <3>1
    <3>6. cmd.to # "file"
      BY <3>1
    <3>7. OutcomeIsHonest'
      BY <3>3, <3>4, <3>5, <3>6
    <3>8. PhaseInv'
      BY <3>1
    <3> QED BY <3>7, <3>8
  <2>8. CASE DocumentHasErrors
    BY <2>8 DEF DocumentHasErrors, Exit
  <2>9. CASE Finished
    BY <2>9, StaysReady DEF Finished, Exit, Machines, disVars, InputFine, Ready, Faults
  <2>10. CASE Output
    <3>1. /\ phase = "output" /\ cmd' = cmd /\ Machines
          /\ cmd.mode \in {"-a", "-f"} /\ cmd.fault = "none" /\ Ready /\ dest = "before"
      BY <2>10 DEF Output
    <3>2. Ready'
      BY <3>1, StaysReady DEF Machines
    <3>3. \/ cmd.to # "file" /\ phase' = "exit" /\ exit' \in {0, 1} /\ dest' = "before"
          \/ cmd.to = "file" /\ phase' = "exit" /\ exit' = 1 /\ dest' = "before"
          \/ cmd.to = "file" /\ phase' = "write" /\ dest' = "partial"
      <4>1. CASE cmd.to = "stdout"
        BY <2>10, <3>1, <4>1 DEF Output, Exit
      <4>2. CASE cmd.to = "check"
        BY <2>10, <3>1, <4>2 DEF Output, Exit
      <4>3. CASE cmd.to = "file"
        BY <2>10, <3>1, <4>3 DEF Output, Exit
      <4> QED BY <4>1, <4>2, <4>3
    <3>4. OutcomeIsHonest'
      BY <3>1, <3>2, <3>3
    <3>5. PhaseInv'
      BY <3>1, <3>2, <3>3
    <3> QED BY <3>4, <3>5
  <2>11. CASE Write
    BY <2>11, StaysReady DEF Write, Exit, Machines
  <2>12. CASE Kill
    BY <2>12 DEF Kill, Exit, Killed
  <2>13. CASE Earlier
    <3>1. phase = "start" /\ cmd' = cmd /\ phase' = "start" /\ exit' = exit /\ dest' = dest
      BY <2>13 DEF Earlier, cmdVars
    <3>2. stage' \in {"generate", "disassemble"}
      <4>1. stage = "generate" /\ DisNext
        BY <2>13 DEF Earlier
      <4> QED BY <4>1 DEF DisNext, Generate, Generated, Disassemble, Disassembled, Reassemble,
                          Reassembled
    <3>3. PhaseInv'
      BY <3>1, <3>2
    <3>4. OutcomeIsHonest'
      BY <3>1
    <3> QED BY <3>3, <3>4
  <2>14. CASE Later
    <3>1. phase = "exit" /\ exit = 0 /\ cmd' = cmd /\ phase' = phase /\ exit' = exit /\ dest' = dest
      BY <2>14 DEF Later, cmdVars
    <3>2. cmd.mode # "-i"
      BY <2>14 DEF Later
    <3>3. Ready'
      BY <2>14, <3>1, <3>2, StaysReady
    <3>4. PhaseInv'
      BY <3>1
    <3>5. OutcomeIsHonest'
      BY <3>1, <3>2, <3>3
    <3> QED BY <3>4, <3>5
  <2>15. CASE Over
    BY <2>15, StaysReady DEF Over, vars, cmdVars, setVars, disVars, fmtVars
  <2> QED BY <2>1, <2>2, <2>3, <2>4, <2>5, <2>6, <2>7, <2>8, <2>9, <2>10, <2>11, <2>12, <2>13,
             <2>14, <2>15 DEF Next
<1> QED BY <1>1, <1>2, PTL DEF Spec, OutcomeInv
=============================================================================
