---------------------------- MODULE SessionProofs ----------------------------
(****************************************************************************)
(* Proofs about module Session, for all file systems, limits and nestings:  *)
(* an error list is never more than one above its limit, a compilation      *)
(* without output has an error to show, one with output has found every     *)
(* file its program is made of free of errors, and the same request gives   *)
(* the same result again.                                                   *)
(*                                                                          *)
(* The first two need each other: a compiler takes the list of one nested   *)
(* in it, in one step, and returns on its own only with output or with an   *)
(* error.  What is read must be reports, so that the inductive invariant    *)
(* IInv also says that the documents and frames of every compiler are those *)
(* of files that exist.  The third needs CleanInv: as long as a compiler    *)
(* has no error, all it has gone past is clean, and what it has not is on   *)
(* the lists of its frames, in its documents or among its calls.  The last  *)
(* follows from the actions being steps of one function, StackStep, of the  *)
(* running compilers, whose domain no earlier result belongs to.            *)
(****************************************************************************)
EXTENDS Session, Basics, FiniteSetTheorems, TLAPS

-----------------------------------------------------------------------------
(* Counting the errors of a list.                                            *)

ErrorsIn(l) == {i \in DOMAIN l : l[i] = "error"}

\* A list of reports has a number of errors.
LEMMA Finite ==
  ASSUME NEW l \in Reports
  PROVE  IsFiniteSet(ErrorsIn(l)) /\ NumErrors(l) = Cardinality(ErrorsIn(l)) /\ NumErrors(l) \in Nat
<1>1. DOMAIN l = 1..Len(l) /\ Len(l) \in Nat
  BY DEF Reports
<1>2. IsFiniteSet(1..Len(l))
  BY <1>1, FS_Interval
<1>3. ErrorsIn(l) \in SUBSET (1..Len(l))
  BY <1>1 DEF ErrorsIn
<1>4. IsFiniteSet(ErrorsIn(l))
  BY <1>2, <1>3, FS_Subset
<1> QED BY <1>4, FS_CardinalityType DEF NumErrors, ErrorsIn

\* The errors of two lists add up.
LEMMA Concat ==
  ASSUME NEW l \in Reports, NEW m \in Reports
  PROVE  /\ l \o m \in Reports
         /\ NumErrors(l \o m) = NumErrors(l) + NumErrors(m)
<1> DEFINE shift == [i \in ErrorsIn(m) |-> Len(l) + i]
           S == {Len(l) + i : i \in ErrorsIn(m)}
<1>1. /\ DOMAIN l = 1..Len(l) /\ Len(l) \in Nat
      /\ DOMAIN m = 1..Len(m) /\ Len(m) \in Nat
  BY DEF Reports
<1>2. /\ l \o m \in Reports
      /\ DOMAIN (l \o m) = 1..Len(l) + Len(m)
      /\ \A i \in 1..Len(l) : (l \o m)[i] = l[i]
      /\ \A i \in 1..Len(m) : (l \o m)[Len(l) + i] = m[i]
  BY <1>1 DEF Reports
<1>3. ErrorsIn(l \o m) = ErrorsIn(l) \cup S
  <2>1. ASSUME NEW i \in ErrorsIn(l \o m) PROVE i \in ErrorsIn(l) \cup S
    <3>1. i \in 1..Len(l) + Len(m) /\ (l \o m)[i] = "error"
      BY <1>2, <2>1 DEF ErrorsIn
    <3>2. CASE i <= Len(l)
      BY <1>1, <1>2, <3>1, <3>2 DEF ErrorsIn
    <3>3. CASE i > Len(l)
      <4>1. i - Len(l) \in 1..Len(m) /\ i = Len(l) + (i - Len(l))
        BY <1>1, <3>1, <3>3
      <4>2. m[i - Len(l)] = "error"
        BY <1>2, <3>1, <4>1
      <4> QED BY <1>1, <4>1, <4>2 DEF ErrorsIn
    <3> QED BY <1>1, <3>1, <3>2, <3>3
  <2>2. ASSUME NEW i \in ErrorsIn(l) PROVE i \in ErrorsIn(l \o m)
    BY <1>1, <1>2, <2>2 DEF ErrorsIn
  <2>3. ASSUME NEW i \in ErrorsIn(m) PROVE Len(l) + i \in ErrorsIn(l \o m)
    BY <1>1, <1>2, <2>3 DEF ErrorsIn
  <2> QED BY <2>1, <2>2, <2>3
<1>4. ErrorsIn(l) \cap S = {}
  BY <1>1 DEF ErrorsIn
<1>5. ExistsBijection(ErrorsIn(m), S)
  <2>1. shift \in Bijection(ErrorsIn(m), S)
    BY <1>1 DEF Bijection, Injection, Surjection, IsInjective, ErrorsIn
  <2> QED BY <2>1 DEF ExistsBijection
<1>6. IsFiniteSet(S) /\ Cardinality(S) = Cardinality(ErrorsIn(m))
  BY <1>5, Finite, FS_Bijection
<1>7. Cardinality(ErrorsIn(l) \cup S) = Cardinality(ErrorsIn(l)) + Cardinality(S)
  <2>1. Cardinality(ErrorsIn(l) \cap S) = 0
    BY <1>4, FS_EmptySet
  <2>2. Cardinality(ErrorsIn(l)) \in Nat /\ Cardinality(S) \in Nat
    BY <1>6, Finite, FS_CardinalityType
  <2> HIDE DEF S
  <2>3. Cardinality(ErrorsIn(l) \cup S)
          = Cardinality(ErrorsIn(l)) + Cardinality(S) - Cardinality(ErrorsIn(l) \cap S)
    BY <1>6, Finite, FS_Union
  <2> QED BY <2>1, <2>2, <2>3
<1> QED BY <1>2, <1>3, <1>6, <1>7, Finite

\* A set of numbers has a least one, and Min is it.
LEMMA Least ==
  ASSUME NEW S \in SUBSET Nat, S # {}
  PROVE  Min(S) \in S /\ \A n \in S : Min(S) <= n
BY LeastElement DEF Min

-----------------------------------------------------------------------------
(* Adding reports to a list.                                                 *)

\* One report.
LEMMA OneReport ==
  ASSUME NEW x \in {"error", "warning"}
  PROVE  <<x>> \in Reports /\ NumErrors(<<x>>) <= 1 /\ (x = "error" => HasError(<<x>>))
<1>1. <<x>> \in Reports
  BY DEF Reports
<1>2. ErrorsIn(<<x>>) \in SUBSET {1}
  BY DEF ErrorsIn
<1>3. IsFiniteSet({1}) /\ Cardinality({1}) = 1
  BY FS_Singleton
<1>4. Cardinality(ErrorsIn(<<x>>)) <= 1
  BY <1>2, <1>3, FS_Subset
<1>5. x = "error" => ErrorsIn(<<x>>) = {1}
  BY DEF ErrorsIn
<1>6. x = "error" => NumErrors(<<x>>) = 1
  BY <1>1, <1>3, <1>5, Finite
<1> QED BY <1>1, <1>4, <1>6, Finite DEF HasError

\* None.
LEMMA NoReport == <<>> \in Reports /\ NumErrors(<<>>) = 0
<1>1. <<>> \in Reports
  BY DEF Reports
<1>2. ErrorsIn(<<>>) = {}
  BY DEF ErrorsIn
<1> QED BY <1>1, <1>2, Finite, FS_EmptySet

\* The first n reports, and the next.
LEMMA Prefix ==
  ASSUME NEW new \in Reports, NEW n \in 0..Len(new)
  PROVE  /\ SubSeq(new, 1, n) \in Reports
         /\ n = 0 => SubSeq(new, 1, n) = <<>>
         /\ n = Len(new) => SubSeq(new, 1, n) = new
         /\ NumErrors(SubSeq(new, 1, n)) <= NumErrors(new)
         /\ n < Len(new) => /\ new[n + 1] \in {"error", "warning"}
                            /\ SubSeq(new, 1, n + 1) = SubSeq(new, 1, n) \o <<new[n + 1]>>
<1> DEFINE p == SubSeq(new, 1, n)
<1>1. DOMAIN new = 1..Len(new) /\ Len(new) \in Nat /\ n \in Nat
  BY DEF Reports
<1>2. /\ p \in Reports /\ Len(p) = n /\ DOMAIN p = 1..n
      /\ \A i \in 1..n : p[i] = new[i]
  BY <1>1 DEF Reports
<1>3. n = 0 => p = <<>>
  BY <1>2 DEF Reports
<1>4. n = Len(new) => p = new
  BY <1>1, <1>2 DEF Reports
<1>5. NumErrors(p) <= NumErrors(new)
  <2>1. ErrorsIn(p) \in SUBSET ErrorsIn(new)
    BY <1>1, <1>2 DEF ErrorsIn
  <2> QED BY <1>2, <2>1, Finite, FS_Subset
<1>6. ASSUME n < Len(new)
      PROVE  new[n + 1] \in {"error", "warning"} /\ SubSeq(new, 1, n + 1) = p \o <<new[n + 1]>>
  BY <1>1, <1>2, <1>6 DEF Reports
<1> QED BY <1>2, <1>3, <1>4, <1>5, <1>6

\* Adding reports to a list within its limit takes it one above at most, and does not
\* lose the error that there was among them.
LEMMA AddedOK ==
  ASSUME NEW l \in Reports, NEW new \in Reports, NEW max \in Nat, NumErrors(l) <= max
  PROVE  /\ Added(l, new, max) \in Reports
         /\ NumErrors(Added(l, new, max)) <= max + 1
         /\ HasError(new) => HasError(Added(l, new, max))
         /\ ~HasError(new) => NumErrors(Added(l, new, max)) = NumErrors(l)
<1> DEFINE over == {n \in 1..Len(new) : TooMany(l \o SubSeq(new, 1, n), max)}
<1>1. Len(new) \in Nat /\ NumErrors(l) \in Nat /\ NumErrors(new) \in Nat
  BY Finite DEF Reports
<1>2. NumErrors(l \o new) = NumErrors(l) + NumErrors(new) /\ l \o new \in Reports
  BY Concat
<1>3. CASE over = {}
  <2>1. Added(l, new, max) = l \o new
    BY <1>3 DEF Added
  <2>2. NumErrors(l \o new) <= max
    <3>1. CASE Len(new) = 0
      BY <3>1, <1>1, <1>2, Prefix, NoReport
    <3>2. CASE Len(new) > 0
      <4>1. ~TooMany(l \o SubSeq(new, 1, Len(new)), max)
        BY <1>1, <1>3, <3>2
      <4>2. SubSeq(new, 1, Len(new)) = new
        <5>1. Len(new) \in 0..Len(new)
          BY <1>1
        <5> QED BY <5>1, Prefix
      <4>3. ~(NumErrors(l \o new) > max)
        BY <4>1, <4>2 DEF TooMany
      <4> QED BY <1>1, <1>2, <4>3
    <3> QED BY <1>1, <3>1, <3>2
  <2> QED BY <1>1, <1>2, <2>1, <2>2 DEF HasError
<1>4. CASE over # {}
  <2> DEFINE k == Min(over)
             p == SubSeq(new, 1, k)
  <2>1. k \in over /\ \A n \in over : k <= n
    <3>1. over \in SUBSET Nat
      BY <1>1
    <3> HIDE DEF over
    <3> QED BY <1>4, <3>1, Least
  <2>2. k \in 1..Len(new) /\ TooMany(l \o p, max)
    BY <2>1
  <2>3. Added(l, new, max) = l \o p
    BY <1>4 DEF Added
  <2> DEFINE q == SubSeq(new, 1, k - 1)
  <2>4. NumErrors(l \o q) <= max
    <3>1. CASE k = 1
      <4>1. q = <<>>
        <5>1. 0 \in 0..Len(new) /\ k - 1 = 0
          BY <1>1, <3>1
        <5> QED BY <5>1, Prefix
      <4>2. NumErrors(l \o <<>>) = NumErrors(l) + 0
        BY NoReport, Concat
      <4>3. NumErrors(l \o q) = NumErrors(l)
        <5> HIDE DEF q
        <5> QED BY <1>1, <4>1, <4>2
      <4> QED BY <1>1, <4>3
    <3>2. CASE k > 1
      <4>1. k - 1 \in 1..Len(new) /\ k - 1 \notin over
        BY <1>1, <2>1, <2>2, <3>2
      <4>2. ~TooMany(l \o q, max)
        BY <4>1
      <4>3. q \in Reports
        <5>1. k - 1 \in 0..Len(new)
          BY <4>1
        <5> HIDE DEF k
        <5> QED BY <5>1, Prefix
      <4>4. NumErrors(l \o q) \in Nat
        BY <4>3, Concat, Finite
      <4> QED BY <4>2, <4>4 DEF TooMany
    <3> QED BY <2>2, <3>1, <3>2
  <2> HIDE DEF k, over
  <2>5. k - 1 \in 0..Len(new) /\ k - 1 < Len(new) /\ (k - 1) + 1 = k /\ k \in 0..Len(new)
    BY <1>1, <2>2
  <2>6. q \in Reports /\ new[k] \in {"error", "warning"} /\ p = q \o <<new[k]>> /\ p \in Reports
        /\ NumErrors(p) <= NumErrors(new)
    BY <2>5, Prefix
  <2> HIDE DEF p, q
  <2>7. /\ NumErrors(p) = NumErrors(q) + NumErrors(<<new[k]>>)
        /\ NumErrors(l \o q) = NumErrors(l) + NumErrors(q)
        /\ NumErrors(l \o p) = NumErrors(l) + NumErrors(p) /\ l \o p \in Reports
    BY <2>6, OneReport, Concat
  <2>8. NumErrors(p) \in Nat /\ NumErrors(q) \in Nat /\ NumErrors(<<new[k]>>) \in 0..1
    BY <2>6, OneReport, Finite
  <2>9. NumErrors(l \o p) > max
    BY <2>2 DEF TooMany
  <2>10. NumErrors(new) = 0 => NumErrors(l \o p) <= max
    BY <1>1, <2>6, <2>7, <2>8
  <2>11. NumErrors(l \o p) <= max + 1 /\ NumErrors(l \o p) > 0 /\ NumErrors(new) # 0
    BY <1>1, <2>4, <2>7, <2>8, <2>9, <2>10
  <2> QED BY <1>1, <2>3, <2>7, <2>11 DEF HasError
<1> QED BY <1>3, <1>4

-----------------------------------------------------------------------------
(* Compilers.                                                                *)

\* The error list of a compiler c is above its limit by one at most, and only when c is
\* about to return; and c returns with output or with an error.
ListOK(c) ==
  /\ {"max", "list", "phase", "output"} \subseteq DOMAIN c
  /\ c.max \in Nat \ {0} /\ c.list \in Reports /\ c.output \in BOOLEAN
  /\ NumErrors(c.list) <= c.max + 1
  /\ NumErrors(c.list) > c.max => c.phase = "return" /\ ~c.output
  /\ c.phase = "return" => c.output \/ HasError(c.list)
  /\ c.output => c.phase = "return"

Frames(n) == [doc : 1..n, at : Nat \ {0}, todo : Seq(1..n)]
Docs(n, files) == [file : files, includes : UNION {[D -> 1..n] : D \in SUBSET Nat}]

\* Its documents are files that exist, and its frames are in documents that it has.
LoadedOK(c, files) ==
  /\ {"docs", "frames"} \subseteq DOMAIN c
  /\ c.docs \in Seq(Docs(Len(c.docs), files))
  /\ c.frames \in Seq(Frames(Len(c.docs)))
  /\ c.phase \in {"load", "expand"} => c.frames # <<>>

CompilerOK(c, files) == ListOK(c) /\ LoadedOK(c, files)
Going(c, files) == CompilerOK(c, files) /\ c.phase # "return"

\* A compiler that changes, without a report, and does not return.
LEMMA ChangeOK ==
  ASSUME NEW files, NEW c, Going(c, files), NEW d, LoadedOK(d, files),
         DOMAIN d = DOMAIN c, d.max = c.max, d.list = c.list, d.output = c.output,
         d.phase # "return"
  PROVE  Going(d, files)
BY DEF Going, CompilerOK, ListOK

\* One in which what is stated here stays as it is.
LEMMA OtherOK ==
  ASSUME NEW files, NEW c, CompilerOK(c, files), NEW d,
         DOMAIN d = DOMAIN c, d.max = c.max, d.list = c.list, d.output = c.output,
         d.phase = c.phase, d.docs = c.docs, d.frames = c.frames
  PROVE  CompilerOK(d, files)
BY DEF CompilerOK, ListOK, LoadedOK

\* One that returns with an error.
LEMMA StopOK ==
  ASSUME NEW files, NEW c, CompilerOK(c, files), HasError(c.list), c.output = FALSE
  PROVE  CompilerOK([c EXCEPT !.phase = "return"], files)
<1> DEFINE d == [c EXCEPT !.phase = "return"]
<1>1. /\ DOMAIN d = DOMAIN c /\ d.max = c.max /\ d.list = c.list /\ d.output = FALSE
      /\ d.phase = "return" /\ d.docs = c.docs /\ d.frames = c.frames
  BY DEF CompilerOK, ListOK, LoadedOK
<1> HIDE DEF d
<1>2. ListOK(d) /\ LoadedOK(d, files)
  BY <1>1 DEF CompilerOK, ListOK, LoadedOK
<1> QED BY <1>2 DEF CompilerOK, d

\* Adding reports changes the list and, with an error, may cancel.
LEMMA ReportKeeps ==
  ASSUME NEW files, NEW c, Going(c, files), NEW new \in Reports
  PROVE  /\ Report(c, new).list = Added(c.list, new, c.max) /\ DOMAIN Report(c, new) = DOMAIN c
         /\ Report(c, new).docs = c.docs /\ Report(c, new).frames = c.frames
         /\ Report(c, new).max = c.max /\ Report(c, new).output = FALSE
         /\ Report(c, new).phase
              = IF NumErrors(Added(c.list, new, c.max)) > c.max THEN "return" ELSE c.phase
         /\ ~HasError(new) => Report(c, new).phase = c.phase
<1> DEFINE l == Added(c.list, new, c.max)
<1>1. /\ c.list \in Reports /\ c.max \in Nat \ {0} /\ NumErrors(c.list) <= c.max
      /\ NumErrors(c.list) \in Nat /\ c.output = FALSE
      /\ {"max", "list", "phase", "output", "docs", "frames"} \subseteq DOMAIN c
  <2>1. NumErrors(c.list) \in Nat
    BY Finite DEF Going, CompilerOK, ListOK
  <2> QED BY <2>1 DEF Going, CompilerOK, ListOK, LoadedOK
<1>2. ~HasError(new) => ~(NumErrors(l) > c.max)
  <2>1. ~HasError(new) => NumErrors(l) = NumErrors(c.list)
    BY <1>1, AddedOK
  <2> HIDE DEF l
  <2> QED BY <1>1, <2>1
<1>3. Report(c, new) = [c EXCEPT !.list = l,
                                 !.phase = IF NumErrors(l) > c.max THEN "return" ELSE c.phase]
  BY DEF Report, TooMany
<1> HIDE DEF l
<1> QED BY <1>1, <1>2, <1>3 DEF l

\* Adding reports keeps the limit, and cancels with an error.
LEMMA ReportOK ==
  ASSUME NEW files, NEW c, Going(c, files), NEW new \in Reports
  PROVE  /\ CompilerOK(Report(c, new), files)
         /\ HasError(new) => HasError(Report(c, new).list)
<1> DEFINE d == Report(c, new)
           l == Added(c.list, new, c.max)
<1>1. /\ c.list \in Reports /\ c.max \in Nat \ {0} /\ NumErrors(c.list) <= c.max
      /\ c.phase # "return"
      /\ {"max", "list", "phase", "output", "docs", "frames"} \subseteq DOMAIN c
  <2>1. NumErrors(c.list) \in Nat
    BY Finite DEF Going, CompilerOK, ListOK
  <2> QED BY <2>1 DEF Going, CompilerOK, ListOK, LoadedOK
<1>2. /\ l \in Reports /\ NumErrors(l) <= c.max + 1 /\ NumErrors(l) \in Nat
      /\ HasError(new) => HasError(l)
  BY <1>1, AddedOK, Finite
<1>3. /\ DOMAIN d = DOMAIN c /\ d.max = c.max /\ d.list = l /\ d.output = FALSE
      /\ d.docs = c.docs /\ d.frames = c.frames
      /\ d.phase = IF NumErrors(l) > c.max THEN "return" ELSE c.phase
  BY ReportKeeps
<1> HIDE DEF d, l
<1>4. ListOK(d)
  <2>1. d.list \in Reports /\ d.max \in Nat \ {0} /\ NumErrors(d.list) <= d.max + 1
    BY <1>1, <1>2, <1>3
  <2>2. NumErrors(d.list) > d.max => d.phase = "return"
    BY <1>1, <1>2, <1>3
  <2>3. d.phase = "return" => HasError(d.list)
    BY <1>1, <1>2, <1>3 DEF HasError
  <2>4. d.output = FALSE /\ {"max", "list", "phase", "output"} \subseteq DOMAIN d
    BY <1>1, <1>3
  <2> QED BY <2>1, <2>2, <2>3, <2>4 DEF ListOK
<1>5. LoadedOK(d, files)
  BY <1>1, <1>3 DEF LoadedOK, Going, CompilerOK
<1> QED BY <1>2, <1>3, <1>4, <1>5 DEF CompilerOK, d

-----------------------------------------------------------------------------
(* The running compilers.                                                    *)

StackOK(s, files) ==
  /\ \E S : s \in Seq(S)
  /\ \A i \in 1..Len(s) : CompilerOK(s[i], files)
  /\ \A i \in 1..Len(s) - 1 : s[i].phase # "return"

\* What the requests have returned has output or an error.
ResultsOK(r) ==
  /\ \E S : r \in Seq(S)
  /\ \A i \in 1..Len(r) : r[i].output \/ HasError(r[i].list)

IInv ==
  /\ fs \in FileSystems
  /\ StackOK(stack, DOMAIN fs)
  /\ ResultsOK(results)

\* The innermost compiler changes.
LEMMA BecomesOK ==
  ASSUME IInv, stack # <<>>, NEW c, CompilerOK(c, DOMAIN fs), Becomes(c)
  PROVE  IInv'
<1>1. PICK S : stack \in Seq(S)
  BY DEF IInv, StackOK
<1>2. Len(stack) \in Nat \ {0} /\ DOMAIN stack = 1..Len(stack)
  BY <1>1
<1>3. stack' = [stack EXCEPT ![Len(stack)] = c]
  BY DEF Becomes
<1>4. /\ stack' \in Seq(S \cup {c}) /\ Len(stack') = Len(stack)
      /\ \A i \in 1..Len(stack) : stack'[i] = IF i = Len(stack) THEN c ELSE stack[i]
  <2>1. stack \in Seq(S \cup {c})
    BY <1>1
  <2> QED BY <1>2, <1>3, <2>1
<1>5. StackOK(stack', DOMAIN fs)
  <2>1. \A i \in 1..Len(stack') : CompilerOK(stack'[i], DOMAIN fs)
    BY <1>2, <1>4 DEF IInv, StackOK
  <2>2. ASSUME NEW i \in 1..Len(stack') - 1 PROVE stack'[i].phase # "return"
    <3>1. i \in 1..Len(stack) - 1
      BY <1>4, <2>2
    <3>2. i \in 1..Len(stack) /\ i # Len(stack)
      <4> DEFINE n == Len(stack)
      <4>1. n \in Nat \ {0} /\ i \in 1..n - 1
        BY <1>2, <3>1
      <4> HIDE DEF n
      <4>2. i \in 1..n /\ i # n
        BY <4>1
      <4> QED BY <4>2 DEF n
    <3>3. stack'[i] = stack[i]
      BY <1>4, <3>2
    <3> QED BY <3>1, <3>3 DEF IInv, StackOK
  <2> QED BY <1>4, <2>1, <2>2 DEF StackOK
<1> QED BY <1>5 DEF IInv, Becomes

-----------------------------------------------------------------------------
(* What the steps rely on.                                                   *)

\* The innermost compiler, in a phase in which it runs.
LEMMA InOK ==
  ASSUME IInv, NEW phase, In(phase)
  PROVE  /\ stack # <<>> /\ CompilerOK(C, DOMAIN fs) /\ C.phase = phase
         /\ Len(stack) \in Nat \ {0} /\ DOMAIN stack = 1..Len(stack)
         /\ phase # "return" => Going(C, DOMAIN fs)
<1>1. PICK S : stack \in Seq(S)
  BY DEF IInv, StackOK
<1>2. stack # <<>> /\ Len(stack) \in Nat \ {0} /\ DOMAIN stack = 1..Len(stack)
  BY <1>1 DEF In
<1>3. CompilerOK(C, DOMAIN fs) /\ C.phase = phase
  BY <1>2 DEF IInv, StackOK, In, C
<1> QED BY <1>2, <1>3 DEF Going

\* What reading and parsing a file adds to the list.
LEMMA ParsedOK ==
  ASSUME fs \in FileSystems, NEW f
  PROVE  Parsed(f) \in Reports
<1>1. <<"error">> \in Reports
  BY OneReport
<1> QED BY <1>1, FilesAssumption DEF Parsed

\* The statement at which a compiler is.
LEMMA TopOK ==
  ASSUME IInv, In("load") \/ In("expand")
  PROVE  /\ stack # <<>> /\ Going(C, DOMAIN fs) /\ C.phase \in {"load", "expand"}
         /\ Len(C.docs) \in Nat /\ DOMAIN C.docs = 1..Len(C.docs)
         /\ Len(C.frames) \in Nat \ {0} /\ DOMAIN C.frames = 1..Len(C.frames)
         /\ Top \in Frames(Len(C.docs))
         /\ C.docs[Top.doc] \in Docs(Len(C.docs), DOMAIN fs)
         /\ ~AtEnd => Top.at \in DOMAIN Body
         /\ Body \in Seq({Body[k] : k \in DOMAIN Body})
         /\ \A k \in DOMAIN Body : Body[k].is = "op" => Body[k].report \in Reports
<1>1. stack # <<>> /\ Going(C, DOMAIN fs) /\ C.phase \in {"load", "expand"}
  BY InOK DEF Going
<1>2. /\ C.docs \in Seq(Docs(Len(C.docs), DOMAIN fs))
      /\ C.frames \in Seq(Frames(Len(C.docs))) /\ C.frames # <<>>
  BY <1>1 DEF Going, CompilerOK, LoadedOK
<1>3. /\ Len(C.docs) \in Nat /\ DOMAIN C.docs = 1..Len(C.docs)
      /\ Len(C.frames) \in Nat \ {0} /\ DOMAIN C.frames = 1..Len(C.frames)
      /\ Top \in Frames(Len(C.docs))
  BY <1>2 DEF Top
<1>4. Top.doc \in 1..Len(C.docs) /\ Top.at \in Nat \ {0}
  BY <1>3 DEF Frames
<1>5. C.docs[Top.doc] \in Docs(Len(C.docs), DOMAIN fs)
  BY <1>2, <1>4
<1>6. C.docs[Top.doc].file \in DOMAIN fs
  BY <1>5 DEF Docs
<1>7. /\ Body \in Seq({Body[k] : k \in DOMAIN Body})
      /\ \A k \in DOMAIN Body : Body[k].is = "op" => Body[k].report \in Reports
  BY <1>6, FilesAssumption DEF IInv, Body
<1>8. ~AtEnd => Top.at \in DOMAIN Body
  BY <1>4, <1>7 DEF AtEnd
<1> QED BY <1>1, <1>3, <1>5, <1>7, <1>8

\* Going on to the next statement.
LEMMA PassedOK ==
  ASSUME IInv, In("load") \/ In("expand")
  PROVE  /\ Going(Passed, DOMAIN fs) /\ Passed.docs = C.docs /\ Passed.frames = Advanced
         /\ Passed.phase = C.phase /\ Passed.list = C.list /\ DOMAIN Passed = DOMAIN C
         /\ Advanced \in Seq(Frames(Len(C.docs))) /\ Len(Advanced) = Len(C.frames)
         /\ Advanced # <<>>
<1>1. C.frames \in Seq(Frames(Len(C.docs)))
  BY TopOK DEF Going, CompilerOK, LoadedOK
<1>2. Top \in Frames(Len(C.docs)) /\ Len(C.frames) \in Nat \ {0}
  BY TopOK
<1>3. [Top EXCEPT !.at = @ + 1] \in Frames(Len(C.docs))
  <2> DEFINE t == Top
             n == Len(C.docs)
  <2>1. t \in Frames(n)
    BY <1>2
  <2> HIDE DEF t, n
  <2>2. [t EXCEPT !.at = @ + 1] \in Frames(n)
    BY <2>1 DEF Frames
  <2> QED BY <2>2 DEF t, n
<1>4. Advanced = [C.frames EXCEPT ![Len(C.frames)] = [Top EXCEPT !.at = @ + 1]]
  BY <1>1, <1>2 DEF Advanced, Top
<1>5. /\ Advanced \in Seq(Frames(Len(C.docs))) /\ Len(Advanced) = Len(C.frames)
      /\ Advanced # <<>>
  BY <1>1, <1>2, <1>3, <1>4
<1>6. {"max", "list", "phase", "output", "docs", "frames"} \subseteq DOMAIN C
  BY TopOK DEF Going, CompilerOK, ListOK, LoadedOK
<1>7. /\ DOMAIN Passed = DOMAIN C /\ Passed.frames = Advanced
      /\ Passed.docs = C.docs /\ Passed.max = C.max /\ Passed.list = C.list
      /\ Passed.output = C.output /\ Passed.phase = C.phase
  BY <1>6 DEF Passed
<1>8. LoadedOK(Passed, DOMAIN fs)
  BY <1>5, <1>6, <1>7, TopOK DEF LoadedOK, Going, CompilerOK
<1>9. Going(Passed, DOMAIN fs)
  BY <1>7, <1>8, TopOK, ChangeOK DEF Going
<1> QED BY <1>5, <1>7, <1>9

\* More documents.
LEMMA MoreDocs ==
  ASSUME NEW n \in Nat, NEW files
  PROVE  /\ Docs(n, files) \subseteq Docs(n + 1, files)
         /\ Frames(n) \subseteq Frames(n + 1)
         /\ Seq(Docs(n, files)) \subseteq Seq(Docs(n + 1, files))
         /\ Seq(Frames(n)) \subseteq Seq(Frames(n + 1))
         /\ n > 0 => \A f \in files : Document(f) \in Docs(n, files)
<1>1. 1..n \subseteq 1..n + 1
  OBVIOUS
<1>2. Seq(1..n) \subseteq Seq(1..n + 1)
  BY <1>1
<1>3. Frames(n) \subseteq Frames(n + 1)
  BY <1>1, <1>2 DEF Frames
<1>4. Docs(n, files) \subseteq Docs(n + 1, files)
  <2>1. ASSUME NEW g \in UNION {[D -> 1..n] : D \in SUBSET Nat}
        PROVE  g \in UNION {[D -> 1..n + 1] : D \in SUBSET Nat}
    BY <1>1, <2>1
  <2> QED BY <2>1 DEF Docs
<1>5. ASSUME NEW f \in files, n > 0
      PROVE  Document(f) \in Docs(n, files)
  <2>1. <<>> \in [{} -> 1..n]
    OBVIOUS
  <2>2. <<>> \in UNION {[D -> 1..n] : D \in SUBSET Nat}
    BY <2>1
  <2> QED BY <2>2 DEF Docs, Document
<1> QED BY <1>3, <1>4, <1>5

-----------------------------------------------------------------------------
(* The steps.                                                                *)

\* Nothing is running at first.
LEMMA InitOK == Init => IInv
<1> SUFFICES ASSUME Init PROVE IInv
  OBVIOUS
<1>1. <<>> \in Seq({})
  OBVIOUS
<1> QED BY <1>1 DEF Init, IInv, StackOK, ResultsOK

\* A compiler that has not begun.
LEMMA NewOK ==
  ASSUME NEW files, NEW f, NEW max \in Nat \ {0}, NEW known
  PROVE  /\ Going(NewCompiler(f, max, known), files)
         /\ NewCompiler(f, max, known).list = <<>>
<1> DEFINE c == NewCompiler(f, max, known)
<1>1. /\ {"max", "list", "phase", "output", "docs", "frames"} \subseteq DOMAIN c
      /\ c.max = max /\ c.list = <<>> /\ c.phase = "open" /\ c.output = FALSE
      /\ c.docs = <<>> /\ c.frames = <<>>
  BY DEF NewCompiler
<1> HIDE DEF c
<1>2. ListOK(c)
  <2>1. c.list \in Reports /\ NumErrors(c.list) <= c.max /\ NumErrors(c.list) <= c.max + 1
    BY <1>1, NoReport
  <2>2. ~(NumErrors(c.list) > c.max)
    BY <1>1, NoReport
  <2> QED BY <1>1, <2>1, <2>2 DEF ListOK
<1>3. LoadedOK(c, files)
  BY <1>1 DEF LoadedOK
<1> QED BY <1>1, <1>2, <1>3 DEF Going, CompilerOK, c

\* A request starts a compiler with an empty list.
LEMMA RequestOK ==
  ASSUME IInv, Request
  PROVE  IInv'
<1>1. PICK f \in DOMAIN fs, max \in Limits, known \in BOOLEAN :
        stack' = <<[NewCompiler(f, max, known) EXCEPT !.list = Reset(list)]>>
  BY DEF Request
<1> DEFINE c == NewCompiler(f, max, known)
           d == [c EXCEPT !.list = Reset(list)]
<1>2. Going(c, DOMAIN fs) /\ c.list = <<>>
  BY NewOK, LimitAssumption
<1> HIDE DEF c
<1>3. /\ DOMAIN d = DOMAIN c /\ d.max = c.max /\ d.list = c.list /\ d.output = c.output
      /\ d.phase = c.phase /\ d.docs = c.docs /\ d.frames = c.frames
  BY <1>2 DEF Reset, Going, CompilerOK, ListOK, LoadedOK
<1>4. stack' = <<d>>
  BY <1>1 DEF c
<1> HIDE DEF d
<1>5. CompilerOK(d, DOMAIN fs)
  BY <1>2, <1>3, OtherOK DEF Going
<1>6. /\ stack' \in Seq({d}) /\ Len(stack') = 1 /\ stack'[1] = d
  BY <1>4
<1>7. StackOK(stack', DOMAIN fs)
  BY <1>5, <1>6 DEF StackOK
<1> QED BY <1>7 DEF Request, IInv

\* The file is read; a file that cannot be is no document.
LEMMA OpenOK ==
  ASSUME IInv, Open
  PROVE  IInv'
<1> DEFINE c == Report(C, Parsed(C.file))
           d == [c EXCEPT !.docs = <<Document(C.file)>>, !.frames = Start]
           e == [d EXCEPT !.phase = "load"]
           g == [d EXCEPT !.phase = "expand"]
<1>1. stack # <<>> /\ Going(C, DOMAIN fs) /\ C.phase = "open" /\ Parsed(C.file) \in Reports
  BY InOK, ParsedOK DEF Open, IInv
<1>2. /\ CompilerOK(c, DOMAIN fs) /\ c.output = FALSE
      /\ HasError(Parsed(C.file)) => HasError(c.list)
      /\ ~HasError(Parsed(C.file)) => c.phase = "open"
  <2>1. CompilerOK(c, DOMAIN fs) /\ (HasError(Parsed(C.file)) => HasError(c.list))
    BY <1>1, ReportOK
  <2>2. c.output = FALSE /\ (~HasError(Parsed(C.file)) => c.phase = C.phase)
    BY <1>1, ReportKeeps, ZenonT(30)
  <2> QED BY <1>1, <2>1, <2>2
<1> HIDE DEF c
<1>3. CASE HasError(Parsed(C.file))
  <2>1. Becomes([c EXCEPT !.phase = "return"])
    BY <1>3 DEF Open, c
  <2> QED BY <1>1, <1>2, <1>3, <2>1, StopOK, BecomesOK
<1>4. CASE ~HasError(Parsed(C.file))
  <2>1. Going(c, DOMAIN fs) /\ c.phase = "open"
    BY <1>2, <1>4 DEF Going
  <2>2. C.file \in DOMAIN fs
    BY <1>4, OneReport DEF Parsed
  <2>3. /\ <<Document(C.file)>> \in Seq(Docs(1, DOMAIN fs))
        /\ Start \in Seq(Frames(1)) /\ Start # <<>>
    <3>1. Document(C.file) \in Docs(1, DOMAIN fs)
      BY <2>2, MoreDocs
    <3>2. [doc |-> 1, at |-> 1, todo |-> <<>>] \in Frames(1)
      BY DEF Frames
    <3> QED BY <3>1, <3>2 DEF Start
  <2>4. {"max", "list", "phase", "output", "docs", "frames"} \subseteq DOMAIN c
    BY <2>1 DEF Going, CompilerOK, ListOK, LoadedOK
  <2>5. /\ DOMAIN e = DOMAIN c /\ e.max = c.max /\ e.list = c.list /\ e.output = c.output
        /\ e.phase = "load" /\ e.docs = <<Document(C.file)>> /\ e.frames = Start
    BY <2>4
  <2>6. /\ DOMAIN g = DOMAIN c /\ g.max = c.max /\ g.list = c.list /\ g.output = c.output
        /\ g.phase = "expand" /\ g.docs = <<Document(C.file)>> /\ g.frames = Start
    BY <2>4
  <2>7. C.known => Becomes(e)
    BY <1>4 DEF Open, c
  <2>8. ~C.known => Becomes(Report(g, <<"error">>))
    BY <1>4 DEF Open, c
  <2> HIDE DEF e, g
  <2>9. LoadedOK(e, DOMAIN fs) /\ LoadedOK(g, DOMAIN fs)
    <3>1. Len(<<Document(C.file)>>) = 1
      OBVIOUS
    <3> QED BY <2>3, <2>4, <2>5, <2>6, <3>1 DEF LoadedOK
  <2>10. Going(e, DOMAIN fs) /\ Going(g, DOMAIN fs)
    BY <2>1, <2>5, <2>6, <2>9, ChangeOK
  <2>11. CompilerOK(Report(g, <<"error">>), DOMAIN fs)
    BY <2>10, OneReport, ReportOK
  <2> QED BY <1>1, <2>7, <2>8, <2>10, <2>11, BecomesOK DEF Going
<1> QED BY <1>3, <1>4

\* Going on with reports, which may cancel.
LEMMA PassedReport ==
  ASSUME IInv, In("load") \/ In("expand"), NEW new \in Reports
  PROVE  CompilerOK(Report(Passed, new), DOMAIN fs)
BY PassedOK, ReportOK

\* A target may be rejected and takes effect nevertheless.
LEMMA LoadTargetOK ==
  ASSUME IInv, LoadTarget
  PROVE  IInv'
<1> DEFINE new == (IF Len(C.frames) > 1 THEN <<"error">> ELSE <<>>)
                  \o (IF C.forkDefined THEN <<"error">> ELSE <<>>)
                  \o (IF St.known THEN <<>> ELSE <<"error">>)
           c == Report(Passed, new)
           d == [c EXCEPT !.known = St.known, !.forkDefined = TRUE]
<1>1. In("load") /\ stack # <<>>
  BY TopOK DEF LoadTarget
<1>2. new \in Reports
  BY OneReport, NoReport, Concat
<1>3. Becomes(d)
  BY DEF LoadTarget
<1> HIDE DEF new
<1>4. CompilerOK(c, DOMAIN fs)
  BY <1>1, <1>2, PassedReport
<1> HIDE DEF c
<1>5. /\ DOMAIN d = DOMAIN c /\ d.max = c.max /\ d.list = c.list /\ d.output = c.output
      /\ d.phase = c.phase /\ d.docs = c.docs /\ d.frames = c.frames
  BY <1>4 DEF CompilerOK, ListOK, LoadedOK
<1> HIDE DEF d
<1> QED BY <1>1, <1>3, <1>4, <1>5, OtherOK, BecomesOK

\* A definition may be a duplicate.
LEMMA LoadDefineOK ==
  ASSUME IInv, LoadDefine
  PROVE  IInv'
<1> DEFINE def == <<IF St.global THEN 0 ELSE Top.doc, St.name>>
           d == [Passed EXCEPT !.defs = @ \cup {def}]
<1>1. In("load") /\ stack # <<>>
  BY TopOK DEF LoadDefine
<1>2. CompilerOK(Report(Passed, <<"error">>), DOMAIN fs)
  BY <1>1, OneReport, PassedReport
<1>3. CompilerOK(d, DOMAIN fs)
  <2> DEFINE c == Passed
  <2>1. CompilerOK(c, DOMAIN fs)
    BY <1>1, PassedOK DEF Going
  <2>2. d = [c EXCEPT !.defs = @ \cup {def}]
    OBVIOUS
  <2> HIDE DEF c, def, d
  <2>3. /\ DOMAIN d = DOMAIN c /\ d.max = c.max /\ d.list = c.list /\ d.output = c.output
        /\ d.phase = c.phase /\ d.docs = c.docs /\ d.frames = c.frames
    BY <2>1, <2>2 DEF CompilerOK, ListOK, LoadedOK
  <2> QED BY <2>1, <2>3, OtherOK
<1>4. Becomes(Report(Passed, <<"error">>)) \/ Becomes(d)
  BY DEF LoadDefine
<1> HIDE DEF d
<1> QED BY <1>1, <1>2, <1>3, <1>4, BecomesOK

\* Loading goes past opcodes and assemble(), expansion past directives that have been
\* loaded.
LEMMA PassOK ==
  ASSUME IInv, LoadOther \/ ExpandNothing
  PROVE  IInv'
<1>1. (In("load") \/ In("expand")) /\ Becomes(Passed)
  BY DEF LoadOther, ExpandNothing
<1> QED BY <1>1, TopOK, PassedOK, BecomesOK DEF Going

\* An opcode has reports; without a fork there is a panic.
LEMMA ExpandOpOK ==
  ASSUME IInv, ExpandOp
  PROVE  IInv'
<1>1. In("expand") /\ At("op")
  BY DEF ExpandOp
<1>2. CASE C.known
  <2>1. St.report \in Reports
    BY <1>1, TopOK DEF At, St
  <2>2. Becomes(Report(Passed, St.report))
    BY <1>2 DEF ExpandOp
  <2> QED BY <1>1, <2>1, <2>2, TopOK, PassedReport, BecomesOK
<1>3. CASE ~C.known
  BY <1>3 DEF ExpandOp, Crash, IInv
<1> QED BY <1>2, <1>3

\* A call of assemble() is kept for evaluation.
LEMMA ExpandAssembleOK ==
  ASSUME IInv, ExpandAssemble
  PROVE  IInv'
<1> DEFINE c == Passed
           x == <<Top.doc, St.file>>
           d == [c EXCEPT !.code = Append(@, x)]
<1>1. In("expand") /\ Becomes(d) /\ stack # <<>>
  BY TopOK DEF ExpandAssemble
<1>2. CompilerOK(c, DOMAIN fs)
  BY <1>1, PassedOK DEF Going
<1> HIDE DEF c, x
<1>3. /\ DOMAIN d = DOMAIN c /\ d.max = c.max /\ d.list = c.list /\ d.output = c.output
      /\ d.phase = c.phase /\ d.docs = c.docs /\ d.frames = c.frames
  BY <1>2 DEF CompilerOK, ListOK, LoadedOK
<1> HIDE DEF d
<1> QED BY <1>1, <1>2, <1>3, OtherOK, BecomesOK

\* One more element.
LEMMA Appended ==
  ASSUME NEW S, NEW s \in Seq(S), NEW x \in S
  PROVE  Append(s, x) \in Seq(S) /\ Append(s, x) # <<>>
<1>1. Append(s, x) \in Seq(S) /\ Len(Append(s, x)) = Len(s) + 1 /\ Len(s) \in Nat
  OBVIOUS
<1> QED BY <1>1

\* Moving among the statements of documents.
LEMMA MovedOK ==
  ASSUME IInv, In("load") \/ In("expand"), NEW d, DOMAIN d = DOMAIN C,
         d.max = C.max, d.list = C.list, d.output = C.output, d.docs = C.docs,
         d.phase # "return", d.frames \in Seq(Frames(Len(C.docs))),
         d.phase \in {"load", "expand"} => d.frames # <<>>
  PROVE  CompilerOK(d, DOMAIN fs)
<1>1. Going(C, DOMAIN fs)
  BY TopOK
<1>2. LoadedOK(d, DOMAIN fs)
  BY <1>1 DEF Going, CompilerOK, LoadedOK
<1> QED BY <1>1, <1>2, ChangeOK DEF Going

\* What is stated here of a compiler are fields that it has.
LEMMA Fields ==
  ASSUME IInv, NEW phase, In(phase)
  PROVE  {"max", "list", "phase", "output", "docs", "frames"} \subseteq DOMAIN C
BY InOK DEF CompilerOK, ListOK, LoadedOK

\* The next included document is loaded.
LEMMA LoadNestedOK ==
  ASSUME IInv, LoadNested
  PROVE  IInv'
<1> DEFINE n == Len(C.docs)
           top == [Top EXCEPT !.todo = Tail(@)]
           rest == [C.frames EXCEPT ![Len(C.frames)] = top]
           frame == [doc |-> Head(Top.todo), at |-> 1, todo |-> <<>>]
           d == [C EXCEPT !.frames = Append(rest, frame)]
<1>1. In("load") /\ Top.todo # <<>> /\ stack # <<>>
  BY TopOK DEF LoadNested
<1>2. /\ C.frames \in Seq(Frames(n)) /\ Top \in Frames(n) /\ Len(C.frames) \in Nat \ {0}
      /\ C.phase = "load"
  BY <1>1, TopOK, InOK DEF Going, CompilerOK, LoadedOK
<1>3. frame \in Frames(n) /\ top \in Frames(n)
  <2> DEFINE t == Top
  <2>1. t \in Frames(n) /\ t.todo # <<>>
    BY <1>1, <1>2
  <2> HIDE DEF t, n
  <2>2. t.todo \in Seq(1..n)
    BY <2>1 DEF Frames
  <2>3. Head(t.todo) \in 1..n /\ Tail(t.todo) \in Seq(1..n)
    <3> DEFINE q == t.todo
               S == 1..n
    <3>1. q \in Seq(S) /\ q # <<>>
      BY <2>1, <2>2
    <3> HIDE DEF q, S
    <3>2. Head(q) \in S /\ Tail(q) \in Seq(S)
      BY <3>1
    <3> QED BY <3>2 DEF q, S
  <2>4. [t EXCEPT !.todo = Tail(@)] \in Frames(n)
    BY <2>1, <2>3 DEF Frames
  <2>5. [doc |-> Head(t.todo), at |-> 1, todo |-> <<>>] \in Frames(n)
    BY <2>3 DEF Frames
  <2> QED BY <2>4, <2>5 DEF t
<1>4. Becomes(d)
  <2>1. [C.frames EXCEPT ![Len(C.frames)].todo = Tail(@)] = rest
    BY <1>2 DEF Top
  <2>2. Becomes([C EXCEPT !.frames =
                   Append([C.frames EXCEPT ![Len(C.frames)].todo = Tail(@)], frame)])
    BY DEF LoadNested
  <2> HIDE DEF rest, frame
  <2> QED BY <2>1, <2>2
<1> HIDE DEF n, top, frame
<1>5. Append(rest, frame) \in Seq(Frames(n)) /\ Append(rest, frame) # <<>>
  BY <1>2, <1>3
<1> HIDE DEF rest
<1>6. /\ DOMAIN d = DOMAIN C /\ d.max = C.max /\ d.list = C.list /\ d.output = C.output
      /\ d.docs = C.docs /\ d.phase = "load" /\ d.frames = Append(rest, frame)
  BY <1>1, <1>2, Fields
<1> HIDE DEF d
<1> QED BY <1>1, <1>4, <1>5, <1>6, MovedOK, BecomesOK DEF n

\* At the end of a document its frame is left.
LEMMA Left ==
  ASSUME IInv, In("load") \/ In("expand")
  PROVE  SubSeq(C.frames, 1, Len(C.frames) - 1) \in Seq(Frames(Len(C.docs)))
<1> DEFINE s == C.frames
           S == Frames(Len(C.docs))
<1>1. s \in Seq(S) /\ Len(s) \in Nat \ {0}
  BY TopOK DEF Going, CompilerOK, LoadedOK
<1> HIDE DEF s, S
<1>2. SubSeq(s, 1, Len(s) - 1) \in Seq(S)
  BY <1>1
<1> QED BY <1>2 DEF s, S

\* A document is loaded, and after the first one expansion begins.
LEMMA LoadDoneOK ==
  ASSUME IInv, LoadDone
  PROVE  IInv'
<1> DEFINE rest == SubSeq(C.frames, 1, Len(C.frames) - 1)
           d == [C EXCEPT !.frames = rest]
           e == [C EXCEPT !.phase = "expand", !.frames = Start]
<1>1. In("load") /\ stack # <<>> /\ C.phase = "load"
  BY TopOK, InOK DEF LoadDone
<1>2. rest \in Seq(Frames(Len(C.docs)))
  BY <1>1, Left
<1>3. IF rest # <<>> THEN Becomes(d) ELSE Becomes(e)
  BY DEF LoadDone
<1> HIDE DEF rest
<1>4. /\ DOMAIN d = DOMAIN C /\ d.max = C.max /\ d.list = C.list /\ d.output = C.output
      /\ d.docs = C.docs /\ d.phase = "load" /\ d.frames = rest
  BY <1>1, Fields
<1>5. /\ DOMAIN e = DOMAIN C /\ e.max = C.max /\ e.list = C.list /\ e.output = C.output
      /\ e.docs = C.docs /\ e.phase = "expand" /\ e.frames = Start
  BY <1>1, Fields
<1>6. Start \in Seq(Frames(Len(C.docs))) /\ Start # <<>>
  <2> DEFINE n == Len(C.docs)
  <2>1. 1 \in 1..n
    <3>1. n \in Nat /\ Top.doc \in 1..n
      BY <1>1, TopOK DEF Frames
    <3> QED BY <3>1
  <2> HIDE DEF n
  <2>2. [doc |-> 1, at |-> 1, todo |-> <<>>] \in Frames(n)
    BY <2>1 DEF Frames
  <2> QED BY <2>2 DEF Start, n
<1> HIDE DEF d, e
<1>7. CASE rest # <<>>
  BY <1>1, <1>2, <1>3, <1>4, <1>7, MovedOK, BecomesOK
<1>8. CASE rest = <<>>
  BY <1>1, <1>3, <1>5, <1>6, <1>8, MovedOK, BecomesOK
<1> QED BY <1>7, <1>8

\* A document is expanded, and after the first one evaluation begins.
LEMMA ExpandLeaveOK ==
  ASSUME IInv, ExpandLeave
  PROVE  IInv'
<1> DEFINE rest == SubSeq(C.frames, 1, Len(C.frames) - 1)
           d == [C EXCEPT !.frames = rest, !.phase = IF rest = <<>> THEN "eval" ELSE @]
<1>1. In("expand") /\ stack # <<>> /\ C.phase = "expand" /\ Becomes(d)
  BY TopOK, InOK DEF ExpandLeave
<1>2. rest \in Seq(Frames(Len(C.docs)))
  BY <1>1, Left
<1> HIDE DEF rest
<1>3. /\ DOMAIN d = DOMAIN C /\ d.max = C.max /\ d.list = C.list /\ d.output = C.output
      /\ d.docs = C.docs /\ d.phase = (IF rest = <<>> THEN "eval" ELSE "expand")
      /\ d.frames = rest
  BY <1>1, Fields
<1> HIDE DEF d
<1> QED BY <1>1, <1>2, <1>3, MovedOK, BecomesOK

\* An included document is expanded in place.
LEMMA ExpandIncludeOK ==
  ASSUME IInv, ExpandInclude
  PROVE  IInv'
<1> DEFINE n == Len(C.docs)
           inc == C.docs[Top.doc].includes
           frame == [doc |-> inc[Top.at], at |-> 1, todo |-> <<>>]
           d == [C EXCEPT !.frames = Append(Advanced, frame)]
<1>1. In("expand") /\ stack # <<>> /\ C.phase = "expand"
  BY TopOK, InOK DEF ExpandInclude
<1>2. CASE Top.at \notin DOMAIN inc
  <2>1. Becomes(Passed)
    BY <1>2 DEF ExpandInclude
  <2> QED BY <1>1, <2>1, PassedOK, BecomesOK DEF Going
<1>3. CASE Top.at \in DOMAIN inc
  <2>1. Becomes(d)
    BY <1>3 DEF ExpandInclude
  <2>2. inc[Top.at] \in 1..n
    <3>1. inc \in UNION {[D -> 1..n] : D \in SUBSET Nat}
      BY <1>1, TopOK DEF Docs
    <3> HIDE DEF inc
    <3> QED BY <1>3, <3>1
  <2>3. frame \in Frames(n)
    BY <2>2 DEF Frames
  <2>4. Advanced \in Seq(Frames(n))
    BY <1>1, PassedOK
  <2> HIDE DEF frame, n
  <2>5. Append(Advanced, frame) \in Seq(Frames(n)) /\ Append(Advanced, frame) # <<>>
    BY <2>3, <2>4, Appended
  <2>6. /\ DOMAIN d = DOMAIN C /\ d.max = C.max /\ d.list = C.list /\ d.output = C.output
        /\ d.docs = C.docs /\ d.phase = "expand" /\ d.frames = Append(Advanced, frame)
    BY <1>1, Fields
  <2> HIDE DEF d
  <2> QED BY <1>1, <2>1, <2>5, <2>6, MovedOK, BecomesOK DEF n
<1> QED BY <1>2, <1>3

\* A document gets another include, a frame another document to load.
LEMMA Included ==
  ASSUME NEW files, NEW n \in Nat, NEW f \in files,
         NEW docs \in Seq(Docs(n, files)), Len(docs) = n, NEW i \in 1..n, NEW at \in Nat
  PROVE  /\ Including(docs, i, at, f) \in Seq(Docs(n + 1, files))
         /\ Len(Including(docs, i, at, f)) = n + 1
<1> DEFINE doc  == docs[i]
           inc  == doc.includes
           more == [k \in DOMAIN inc \cup {at} |-> IF k = at THEN n + 1 ELSE inc[k]]
<1>1. doc \in Docs(n, files) /\ doc \in Docs(n + 1, files) /\ DOMAIN docs = 1..n
  <2>1. DOMAIN docs = 1..n /\ i \in DOMAIN docs
    OBVIOUS
  <2>2. docs[i] \in Docs(n, files)
    BY <2>1
  <2> QED BY <2>1, <2>2, MoreDocs
<1> HIDE DEF doc
<1>2. inc \in UNION {[D -> 1..n] : D \in SUBSET Nat}
  BY <1>1 DEF Docs
<1>3. more \in UNION {[D -> 1..n + 1] : D \in SUBSET Nat}
  <2>1. PICK D \in SUBSET Nat : inc \in [D -> 1..n]
    BY <1>2
  <2> HIDE DEF inc
  <2>2. D \cup {at} \in SUBSET Nat /\ DOMAIN inc = D
    BY <2>1
  <2>3. \A k \in D \cup {at} : (IF k = at THEN n + 1 ELSE inc[k]) \in 1..n + 1
    BY <2>1
  <2>4. more \in [D \cup {at} -> 1..n + 1]
    BY <2>2, <2>3
  <2> QED BY <2>2, <2>4
<1> HIDE DEF more
<1>4. [doc EXCEPT !.includes = more] \in Docs(n + 1, files)
  BY <1>1, <1>3 DEF Docs
<1> DEFINE new == [docs EXCEPT ![i] = [doc EXCEPT !.includes = more]]
<1>5. new \in Seq(Docs(n + 1, files)) /\ Len(new) = n
  <2>1. docs \in Seq(Docs(n + 1, files))
    BY MoreDocs
  <2> QED BY <1>1, <1>4, <2>1
<1>6. Including(docs, i, at, f) = Append(new, Document(f))
  <2>1. new = [docs EXCEPT ![i].includes =
                 [k \in DOMAIN @ \cup {at} |-> IF k = at THEN Len(docs) + 1 ELSE @[k]]]
    BY DEF more, doc
  <2> QED BY <2>1 DEF Including
<1> HIDE DEF new
<1>7. /\ Including(docs, i, at, f) \in Seq(Docs(n + 1, files))
      /\ Len(Including(docs, i, at, f)) = n + 1
  <2>1. Document(f) \in Docs(n + 1, files)
    BY MoreDocs
  <2> QED BY <1>5, <1>6, <2>1
<1> QED BY <1>7

\* A frame gets another document to load.
LEMMA Loading ==
  ASSUME NEW n \in Nat, NEW frames \in Seq(Frames(n)), frames # <<>>
  PROVE  ToLoad(frames, n + 1) \in Seq(Frames(n + 1)) /\ ToLoad(frames, n + 1) # <<>>
<1> DEFINE top == frames[Len(frames)]
           new == [top EXCEPT !.todo = Append(@, n + 1)]
           S == Frames(n + 1)
<1>1. /\ top \in S /\ frames \in Seq(S)
      /\ Len(frames) \in Nat \ {0} /\ Len(frames) \in DOMAIN frames
  BY MoreDocs
<1>2. ToLoad(frames, n + 1) = [frames EXCEPT ![Len(frames)] = new]
  BY DEF ToLoad
<1> HIDE DEF top
<1>3. top.todo \in Seq(1..n + 1) /\ n + 1 \in 1..n + 1
  BY <1>1 DEF Frames
<1>4. Append(top.todo, n + 1) \in Seq(1..n + 1)
  BY <1>3, Appended
<1>5. new \in S
  BY <1>1, <1>4 DEF Frames
<1> HIDE DEF new, S
<1>6. [frames EXCEPT ![Len(frames)] = new] \in Seq(S)
      /\ [frames EXCEPT ![Len(frames)] = new] # <<>>
  BY <1>1, <1>5
<1> QED BY <1>2, <1>6 DEF S

\* An #include adds a document, or reports.
LEMMA LoadIncludeOK ==
  ASSUME IInv, LoadInclude
  PROVE  IInv'
<1> DEFINE new == IF DepthReached(Len(C.frames)) THEN <<"error">> ELSE Parsed(St.file)
           c == Report(Passed, new)
<1>1. In("load") /\ stack # <<>> /\ C.phase = "load" /\ At("include")
  BY TopOK, InOK DEF LoadInclude
<1>2. new \in Reports
  BY OneReport, ParsedOK DEF IInv
<1>3. CompilerOK(c, DOMAIN fs)
  <2> HIDE DEF new
  <2> QED BY <1>1, <1>2, PassedReport
<1>4. CASE HasError(new)
  <2>1. Becomes(c)
    BY <1>4 DEF LoadInclude
  <2> HIDE DEF c
  <2> QED BY <1>1, <1>3, <2>1, BecomesOK
<1>5. CASE ~HasError(new)
  <2>1. /\ DOMAIN c = DOMAIN C /\ c.docs = C.docs /\ c.frames = Advanced
        /\ c.output = FALSE /\ c.phase = "load"
    <3> HIDE DEF new
    <3>1. Going(Passed, DOMAIN fs)
      BY <1>1, PassedOK
    <3>2. /\ DOMAIN c = DOMAIN Passed /\ c.docs = Passed.docs /\ c.frames = Passed.frames
          /\ c.output = FALSE /\ c.phase = Passed.phase
      BY <1>2, <1>5, <3>1, ReportKeeps, ZenonT(30)
    <3> HIDE DEF c
    <3> QED BY <1>1, <3>2, PassedOK
  <2>2. St.file \in DOMAIN fs
    BY <1>5, OneReport DEF Parsed
  <2> DEFINE n == Len(C.docs)
             ds == Including(c.docs, Top.doc, Top.at, St.file)
             fr == ToLoad(c.frames, n + 1)
             d == [c EXCEPT !.docs = ds, !.frames = fr]
  <2>3. Becomes(d)
    BY <1>5 DEF LoadInclude
  <2> HIDE DEF c
  <2>4. /\ Going(c, DOMAIN fs) /\ c.phase = "load"
        /\ {"max", "list", "phase", "output", "docs", "frames"} \subseteq DOMAIN c
    BY <1>3, <2>1 DEF Going, CompilerOK, ListOK, LoadedOK
  <2>5. /\ n \in Nat /\ c.docs \in Seq(Docs(n, DOMAIN fs)) /\ Len(c.docs) = n
        /\ c.frames \in Seq(Frames(n)) /\ c.frames # <<>>
        /\ Top.doc \in 1..n /\ Top.at \in Nat
    <3>1. c.docs \in Seq(Docs(n, DOMAIN fs)) /\ c.frames \in Seq(Frames(n)) /\ c.frames # <<>>
      BY <2>1, <2>4 DEF Going, CompilerOK, LoadedOK
    <3>2. n \in Nat /\ Len(c.docs) = n /\ Top.doc \in 1..n /\ Top.at \in Nat
      BY <1>1, <2>1, TopOK DEF Frames
    <3> QED BY <3>1, <3>2
  <2>6. /\ ds \in Seq(Docs(n + 1, DOMAIN fs)) /\ Len(ds) = n + 1
        /\ fr \in Seq(Frames(n + 1)) /\ fr # <<>>
    <3> DEFINE files == DOMAIN fs
               docs == c.docs
               frames == c.frames
               f == St.file
               i == Top.doc
               at == Top.at
    <3>1. /\ n \in Nat /\ f \in files /\ docs \in Seq(Docs(n, files)) /\ Len(docs) = n
          /\ i \in 1..n /\ at \in Nat /\ frames \in Seq(Frames(n)) /\ frames # <<>>
      BY <2>2, <2>5
    <3>2. ds = Including(docs, i, at, f) /\ fr = ToLoad(frames, n + 1)
      OBVIOUS
    <3> HIDE DEF n, files, docs, frames, f, i, at, ds, fr
    <3>3. ds \in Seq(Docs(n + 1, files)) /\ Len(ds) = n + 1
      BY <3>1, <3>2, Included
    <3>4. fr \in Seq(Frames(n + 1)) /\ fr # <<>>
      BY <3>1, <3>2, Loading
    <3> QED BY <3>3, <3>4 DEF files
  <2> HIDE DEF ds, fr, n
  <2>7. /\ DOMAIN d = DOMAIN c /\ d.max = c.max /\ d.list = c.list /\ d.output = c.output
        /\ d.phase = "load" /\ d.docs = ds /\ d.frames = fr
    BY <2>4
  <2> HIDE DEF d
  <2>8. LoadedOK(d, DOMAIN fs)
    BY <2>4, <2>6, <2>7 DEF LoadedOK
  <2>9. Going(d, DOMAIN fs)
    BY <2>4, <2>7, <2>8, ChangeOK
  <2> QED BY <1>1, <2>3, <2>9, BecomesOK DEF Going
<1> QED BY <1>4, <1>5

\* The result of assemble() is reused.
LEMMA EvalCachedOK ==
  ASSUME IInv, EvalCached
  PROVE  IInv'
<1> DEFINE d == [C EXCEPT !.next = @ + 1]
<1>1. stack # <<>> /\ CompilerOK(C, DOMAIN fs) /\ Becomes(d)
  BY InOK DEF EvalCached
<1>2. /\ DOMAIN d = DOMAIN C /\ d.max = C.max /\ d.list = C.list /\ d.output = C.output
      /\ d.phase = C.phase /\ d.docs = C.docs /\ d.frames = C.frames
  BY <1>1 DEF CompilerOK, ListOK, LoadedOK
<1> HIDE DEF d
<1> QED BY <1>1, <1>2, OtherOK, BecomesOK

\* assemble() starts a compiler, and the one that calls it has not returned.
LEMMA EvalAssembleOK ==
  ASSUME IInv, EvalAssemble
  PROVE  IInv'
<1>1. stack # <<>> /\ Going(C, DOMAIN fs) /\ Len(stack) \in Nat \ {0}
  BY InOK DEF EvalAssemble
<1>2. CASE ~C.known
  BY <1>2 DEF EvalAssemble, Crash, IInv
<1>3. CASE C.known
  <2> DEFINE c == NewCompiler(C.code[C.next][2], NestedLimit, TRUE)
             n == Len(stack)
  <2>1. stack' = Append(stack, c) /\ fs' = fs /\ results' = results
    BY <1>3 DEF EvalAssemble
  <2>2. CompilerOK(c, DOMAIN fs)
    BY NewOK, LimitAssumption DEF Going
  <2> HIDE DEF c
  <2>3. PICK S : stack \in Seq(S)
    BY DEF IInv, StackOK
  <2>4. /\ n \in Nat \ {0} /\ stack' \in Seq(S \cup {c}) /\ Len(stack') = n + 1
        /\ stack'[n + 1] = c /\ \A i \in 1..n : stack'[i] = stack[i]
    <3>1. stack \in Seq(S \cup {c})
      BY <2>3
    <3> QED BY <1>1, <2>1, <3>1
  <2>5. /\ \A i \in 1..n : CompilerOK(stack[i], DOMAIN fs)
        /\ \A i \in 1..n - 1 : stack[i].phase # "return"
        /\ stack[n].phase # "return"
    BY <1>1 DEF IInv, StackOK, C, Going
  <2> HIDE DEF n
  <2>6. ASSUME NEW i \in 1..n + 1 PROVE CompilerOK(stack'[i], DOMAIN fs)
    <3>1. i = n + 1 \/ i \in 1..n
      BY <2>4
    <3> QED BY <2>2, <2>4, <2>5, <3>1
  <2>7. ASSUME NEW i \in 1..n PROVE stack'[i].phase # "return"
    <3>1. i = n \/ i \in 1..n - 1
      BY <2>4
    <3> QED BY <2>4, <2>5, <3>1
  <2>8. Len(stack') - 1 = n
    BY <2>4
  <2>9. StackOK(stack', DOMAIN fs)
    BY <2>4, <2>6, <2>7, <2>8 DEF StackOK
  <2> QED BY <2>1, <2>9 DEF IInv
<1> QED BY <1>2, <1>3

\* Without output there is an error.
LEMMA FinishOK ==
  ASSUME IInv, Finish
  PROVE  IInv'
<1> DEFINE d == [C EXCEPT !.output = Accepted(C), !.phase = "return"]
<1>1. stack # <<>> /\ Going(C, DOMAIN fs) /\ Becomes(d)
  BY InOK DEF Finish
<1>2. /\ {"max", "list", "phase", "output", "docs", "frames"} \subseteq DOMAIN C
      /\ C.max \in Nat \ {0} /\ C.list \in Reports /\ C.phase # "return"
      /\ NumErrors(C.list) <= C.max + 1 /\ ~(NumErrors(C.list) > C.max)
  BY <1>1 DEF Going, CompilerOK, ListOK, LoadedOK
<1>3. /\ DOMAIN d = DOMAIN C /\ d.max = C.max /\ d.list = C.list /\ d.output = Accepted(C)
      /\ d.docs = C.docs /\ d.phase = "return" /\ d.frames = C.frames
  BY <1>2
<1> HIDE DEF d
<1>4. ListOK(d)
  <2>1. d.output \in BOOLEAN /\ (d.output \/ HasError(d.list))
    BY <1>3 DEF Accepted, HasError
  <2>2. /\ d.max \in Nat \ {0} /\ d.list \in Reports /\ NumErrors(d.list) <= d.max + 1
        /\ ~(NumErrors(d.list) > d.max) /\ {"max", "list", "phase", "output"} \subseteq DOMAIN d
    BY <1>2, <1>3
  <2> QED BY <1>3, <2>1, <2>2 DEF ListOK
<1>5. LoadedOK(d, DOMAIN fs)
  BY <1>1, <1>2, <1>3 DEF LoadedOK, Going, CompilerOK
<1> QED BY <1>1, <1>4, <1>5, BecomesOK DEF CompilerOK

\* The compiler that has called assemble() takes the reports over.
LEMMA ResumedOK ==
  ASSUME NEW files, NEW p, Going(p, files), NEW c, CompilerOK(c, files)
  PROVE  CompilerOK(Resumed(p, c), files)
<1> DEFINE q == [p EXCEPT !.cache = [k \in DOMAIN @ \cup {p.code[p.next]} |->
                                       IF k = p.code[p.next] THEN c.output ELSE @[k]],
                          !.next = @ + 1]
<1>1. c.list \in Reports
  BY DEF CompilerOK, ListOK
<1>2. Resumed(p, c) = Report(q, c.list)
  BY DEF Resumed
<1>3. /\ DOMAIN q = DOMAIN p /\ q.max = p.max /\ q.list = p.list /\ q.output = p.output
      /\ q.phase = p.phase /\ q.docs = p.docs /\ q.frames = p.frames
  BY DEF Going, CompilerOK, ListOK, LoadedOK
<1> HIDE DEF q
<1>4. Going(q, files)
  BY <1>3, OtherOK DEF Going
<1> QED BY <1>1, <1>2, <1>4, ReportOK

\* A nested compiler returns.
LEMMA ReturnNestedOK ==
  ASSUME IInv, ReturnNested
  PROVE  IInv'
<1> DEFINE n == Len(stack) - 1
           p == stack[n]
           r == Resumed(p, C)
<1>1. /\ Len(stack) \in Nat \ {0} /\ Len(stack) > 1 /\ CompilerOK(C, DOMAIN fs)
      /\ DOMAIN stack = 1..Len(stack)
  BY InOK DEF ReturnNested
<1>2. /\ n \in Nat \ {0} /\ n \in 1..Len(stack) /\ n \in 1..Len(stack) - 1
      /\ Len(stack) - 2 = n - 1
      /\ \A i \in 1..n - 1 : i \in 1..Len(stack) - 1 /\ i \in 1..Len(stack)
  <2> DEFINE m == Len(stack)
  <2>1. m \in Nat /\ m > 1
    BY <1>1
  <2> HIDE DEF m
  <2>2. /\ m - 1 \in Nat \ {0} /\ m - 1 \in 1..m /\ m - 2 = (m - 1) - 1
        /\ \A i \in 1..(m - 1) - 1 : i \in 1..m - 1 /\ i \in 1..m
    BY <2>1
  <2> QED BY <2>2 DEF m
<1>3. stack' = Append(SubSeq(stack, 1, n - 1), r) /\ fs' = fs /\ results' = results
  <2>1. stack' = Append(SubSeq(stack, 1, Len(stack) - 2), r) /\ fs' = fs /\ results' = results
    BY DEF ReturnNested
  <2> QED BY <1>2, <2>1
<1>4. Going(p, DOMAIN fs)
  BY <1>2 DEF IInv, StackOK, Going
<1>5. CompilerOK(r, DOMAIN fs)
  BY <1>1, <1>4, ResumedOK
<1>6. /\ \A i \in 1..n - 1 : CompilerOK(stack[i], DOMAIN fs)
      /\ \A i \in 1..n - 1 : stack[i].phase # "return"
  BY <1>2 DEF IInv, StackOK
<1>7. PICK S : stack \in Seq(S)
  BY DEF IInv, StackOK
<1> HIDE DEF r, p
<1>8. /\ stack' \in Seq(S \cup {r}) /\ Len(stack') = n /\ stack'[n] = r
      /\ \A i \in 1..n - 1 : stack'[i] = stack[i]
  <2> DEFINE s == SubSeq(stack, 1, n - 1)
  <2>1. s \in Seq(S) /\ Len(s) = n - 1 /\ \A i \in 1..n - 1 : s[i] = stack[i]
    <3> DEFINE m == n - 1
    <3>1. stack \in Seq(S) /\ m \in 0..Len(stack) /\ Len(stack) \in Nat
      BY <1>1, <1>2, <1>7
    <3> HIDE DEF m
    <3>2. LET t == SubSeq(stack, 1, m)
          IN  t \in Seq(S) /\ Len(t) = m /\ \A i \in 1..m : t[i] = stack[i]
      BY <3>1
    <3> QED BY <3>2 DEF m
  <2> HIDE DEF s, n
  <2>2. s \in Seq(S \cup {r})
    BY <2>1
  <2> QED BY <1>2, <1>3, <2>1, <2>2 DEF s
<1> HIDE DEF n
<1>9. ASSUME NEW i \in 1..n PROVE CompilerOK(stack'[i], DOMAIN fs)
  <2>1. i = n \/ i \in 1..n - 1
    BY <1>2
  <2> QED BY <1>5, <1>6, <1>8, <2>1
<1>10. StackOK(stack', DOMAIN fs)
  BY <1>6, <1>8, <1>9 DEF StackOK
<1> QED BY <1>3, <1>10 DEF IInv

\* The user's compiler returns.
LEMMA ReturnResultOK ==
  ASSUME IInv, ReturnResult
  PROVE  IInv'
<1> DEFINE r == [file |-> C.file, max |-> C.max, known |-> C.default,
                 output |-> C.output, list |-> C.list]
<1>1. stack' = <<>> /\ fs' = fs /\ results' = Append(results, r)
  BY DEF ReturnResult
<1>2. CompilerOK(C, DOMAIN fs) /\ C.phase = "return"
  BY InOK DEF ReturnResult
<1>3. r.output \/ HasError(r.list)
  BY <1>2 DEF CompilerOK, ListOK
<1> HIDE DEF r
<1>4. PICK S : results \in Seq(S)
  BY DEF IInv, ResultsOK
<1>5. /\ results' \in Seq(S \cup {r}) /\ Len(results) \in Nat /\ Len(results') = Len(results) + 1
      /\ results'[Len(results) + 1] = r
      /\ \A i \in 1..Len(results) : results'[i] = results[i]
  <2>1. results \in Seq(S \cup {r})
    BY <1>4
  <2> QED BY <1>1, <2>1
<1>6. ASSUME NEW i \in 1..Len(results')
      PROVE  results'[i].output \/ HasError(results'[i].list)
  <2>1. i = Len(results) + 1 \/ i \in 1..Len(results)
    BY <1>5
  <2> QED BY <1>3, <1>5, <2>1 DEF IInv, ResultsOK
<1>7. ResultsOK(results')
  BY <1>5, <1>6 DEF ResultsOK
<1>8. StackOK(<<>>, DOMAIN fs)
  <2>1. <<>> \in Seq({})
    OBVIOUS
  <2> QED BY <2>1 DEF StackOK
<1> QED BY <1>1, <1>7, <1>8 DEF IInv

-----------------------------------------------------------------------------
(* The theorems.                                                             *)

\* IInv is inductive.
LEMMA Step == IInv /\ [Next]_vars => IInv'
<1> SUFFICES ASSUME IInv, [Next]_vars PROVE IInv'
  OBVIOUS
<1>1. CASE Request
  BY <1>1, RequestOK
<1>2. CASE Open
  BY <1>2, OpenOK
<1>3. CASE LoadInclude
  BY <1>3, LoadIncludeOK
<1>4. CASE LoadTarget
  BY <1>4, LoadTargetOK
<1>5. CASE LoadDefine
  BY <1>5, LoadDefineOK
<1>6. CASE LoadOther \/ ExpandNothing
  BY <1>6, PassOK
<1>7. CASE LoadNested
  BY <1>7, LoadNestedOK
<1>8. CASE LoadDone
  BY <1>8, LoadDoneOK
<1>9. CASE ExpandOp
  BY <1>9, ExpandOpOK
<1>10. CASE ExpandInclude
  BY <1>10, ExpandIncludeOK
<1>11. CASE ExpandAssemble
  BY <1>11, ExpandAssembleOK
<1>12. CASE ExpandLeave
  BY <1>12, ExpandLeaveOK
<1>13. CASE EvalCached
  BY <1>13, EvalCachedOK
<1>14. CASE EvalAssemble
  BY <1>14, EvalAssembleOK
<1>15. CASE Finish
  BY <1>15, FinishOK
<1>16. CASE ReturnNested
  BY <1>16, ReturnNestedOK
<1>17. CASE ReturnResult
  BY <1>17, ReturnResultOK
<1>18. CASE Rest \/ UNCHANGED vars
  BY <1>18 DEF Rest, vars, IInv
<1> QED BY <1>1, <1>2, <1>3, <1>4, <1>5, <1>6, <1>7, <1>8, <1>9, <1>10, <1>11, <1>12, <1>13,
           <1>14, <1>15, <1>16, <1>17, <1>18 DEF Next, Compile

\* IInv holds.
LEMMA Invariant == Spec => []IInv
BY InitOK, Step, PTL DEF Spec

\* However many errors a file, an include, a nested compiler or a round reports at once,
\* no list ever holds more than one above its limit, and the compilation it belongs to is
\* about to return without output (errorlist.go:50-84).
THEOREM LimitTheorem == Spec => []LimitHolds
<1>1. IInv => LimitHolds
  <2> SUFFICES ASSUME IInv, NEW i \in DOMAIN stack
               PROVE  /\ NumErrors(stack[i].list) <= stack[i].max + 1
                      /\ NumErrors(stack[i].list) > stack[i].max
                           => stack[i].phase = "return" /\ ~stack[i].output
    BY DEF LimitHolds
  <2>1. PICK S : stack \in Seq(S)
    BY DEF IInv, StackOK
  <2>2. CompilerOK(stack[i], DOMAIN fs)
    BY <2>1 DEF IInv, StackOK
  <2> QED BY <2>2 DEF CompilerOK, ListOK
<1> QED BY <1>1, Invariant, PTL

\* Whatever files there are and whatever calls assemble() on what, a compilation that
\* returns no bytecode returns an error (compiler.go:133-135).
THEOREM FailureTheorem == Spec => []FailureExplained
<1>1. IInv => FailureExplained
  <2> SUFFICES ASSUME IInv, NEW i \in DOMAIN results
               PROVE  results[i].output \/ HasError(results[i].list)
    BY DEF FailureExplained
  <2>1. PICK S : results \in Seq(S)
    BY DEF IInv, ResultsOK
  <2> QED BY <2>1 DEF IInv, ResultsOK
<1> QED BY <1>1, Invariant, PTL

-----------------------------------------------------------------------------
(* Clean programs.  What a compiler without errors has seen so far is clean:  *)
(* in the documents in front of the frames of the loader every #include has   *)
(* become a document, and in those the expansion has left every opcode was     *)
(* accepted, every included document was left too, and every assemble() is    *)
(* waiting to be evaluated, or has been with output.                          *)

OpsClean(F, f) ==
  \A k \in DOMAIN F[f].body : F[f].body[k].is = "op" => ~HasError(F[f].body[k].report)
ParsedClean(F, f) == f \in DOMAIN F /\ ~HasError(F[f].parse)
UsedBy(F, f) == Uses(F, f, "include") \cup Uses(F, f, "assemble")

\* A file is sound if it is one of a set of clean files that use only each other.
Sound(F, f) ==
  \E T \in SUBSET DOMAIN F :
    f \in T /\ \A g \in T : ParsedClean(F, g) /\ OpsClean(F, g) /\ UsedBy(F, g) \subseteq T

BodyOf(F, docs, d) == F[docs[d].file].body

\* The #include at statement k of document d, if it is one, has become a document.
Registered(F, docs, d, k) ==
  BodyOf(F, docs, d)[k].is = "include" =>
    /\ k \in DOMAIN docs[d].includes /\ docs[d].includes[k] \in 1..Len(docs)
    /\ docs[docs[d].includes[k]].file = BodyOf(F, docs, d)[k].file

AllRegistered(F, docs, d) == \A k \in DOMAIN BodyOf(F, docs, d) : Registered(F, docs, d, k)

\* Frame r of the loader is in document d, or has it on its list.
Holds(r, d) == r.doc = d \/ \E q \in 1..Len(r.todo) : r.todo[q] = d

LoadClean(F, docs, frames) ==
  /\ \A j \in 1..Len(frames) : \A k \in DOMAIN BodyOf(F, docs, frames[j].doc) :
        k < frames[j].at => Registered(F, docs, frames[j].doc, k)
  /\ \A d \in 1..Len(docs) :
        AllRegistered(F, docs, d) \/ \E j \in 1..Len(frames) : Holds(frames[j], d)

\* Statement k of document d is done with, if the documents in D are.
Seen(F, docs, code, d, k, D) ==
  LET st == BodyOf(F, docs, d)[k] IN
    /\ st.is = "op" => ~HasError(st.report)
    /\ st.is = "assemble" => \E q \in DOMAIN code : code[q] = <<d, st.file>>
    /\ st.is = "include" => docs[d].includes[k] \in D

\* The documents that the frames above frame j are in.
Above(frames, j) == {frames[i].doc : i \in (j + 1)..Len(frames)}

ExpandClean(F, docs, code, frames, D) ==
  /\ D \subseteq 1..Len(docs)
  /\ \A d \in D : \A k \in DOMAIN BodyOf(F, docs, d) : Seen(F, docs, code, d, k, D)
  /\ \A j \in 1..Len(frames) : \A k \in DOMAIN BodyOf(F, docs, frames[j].doc) :
        k < frames[j].at => Seen(F, docs, code, frames[j].doc, k, D \cup Above(frames, j))
  /\ 1 \in D \cup Above(frames, 0)

\* Sound files use sound files.
LEMMA SoundUses ==
  ASSUME NEW F, NEW f, Sound(F, f)
  PROVE  ParsedClean(F, f) /\ OpsClean(F, f) /\ \A g \in UsedBy(F, f) : Sound(F, g)
<1>1. PICK T \in SUBSET DOMAIN F :
        f \in T /\ \A g \in T : ParsedClean(F, g) /\ OpsClean(F, g) /\ UsedBy(F, g) \subseteq T
  BY DEF Sound
<1>2. ASSUME NEW g \in UsedBy(F, f) PROVE Sound(F, g)
  <2>1. g \in T
    BY <1>1
  <2> QED BY <1>1, <2>1 DEF Sound
<1> QED BY <1>1, <1>2

\* Clean files that use only each other and sound files are sound.
LEMMA SoundSet ==
  ASSUME NEW F, NEW S,
         \A f \in S : ParsedClean(F, f) /\ OpsClean(F, f)
                      /\ \A g \in UsedBy(F, f) : g \in S \/ Sound(F, g)
  PROVE  \A f \in S : Sound(F, f)
<1> DEFINE T == S \cup {f \in DOMAIN F : Sound(F, f)}
<1>1. \A f : Sound(F, f) => f \in DOMAIN F
  BY DEF Sound
<1>2. S \subseteq DOMAIN F
  BY DEF ParsedClean
<1>3. ASSUME NEW f \in T PROVE ParsedClean(F, f) /\ OpsClean(F, f) /\ UsedBy(F, f) \subseteq T
  <2>1. CASE f \in S
    BY <1>1, <2>1
  <2>2. CASE Sound(F, f)
    BY <1>1, <2>2, SoundUses
  <2> QED BY <2>1, <2>2
<1>4. T \in SUBSET DOMAIN F
  BY <1>2
<1> HIDE DEF T
<1>5. \A f \in T : Sound(F, f)
  BY <1>3, <1>4 DEF Sound
<1> QED BY <1>5 DEF T

\* The files that a sound file is made of are clean.
LEMMA SoundNeeds ==
  ASSUME fs \in FileSystems, NEW f, Sound(fs, f)
  PROVE  \A g \in Needed(f) : Sound(fs, g)
<1> DEFINE K == Cardinality(DOMAIN fs)
           G(w, n) == IF n = 0 THEN {f} ELSE w[n - 1] \cup UNION {Used(g) : g \in w[n - 1]}
           Good == {n \in Nat : n <= K => \E w : w = [m \in 0..n |-> G(w, m)]}
<1>1. K \in Nat
  BY FilesAssumption, FS_CardinalityType
<1> HIDE DEF K
<1>2. 0 \in Good
  <2> DEFINE w == [m \in 0..0 |-> {f}]
  <2>1. \A m \in 0..0 : G(w, m) = {f}
    OBVIOUS
  <2>2. w = [m \in 0..0 |-> G(w, m)]
    <3> HIDE DEF G
    <3> QED BY <2>1
  <2> HIDE DEF w, G
  <2> QED BY <2>2
<1>3. ASSUME NEW n \in Nat, n \in Good PROVE n + 1 \in Good
  <2>1. SUFFICES ASSUME n + 1 <= K PROVE \E w : w = [m \in 0..(n + 1) |-> G(w, m)]
    OBVIOUS
  <2>2. n <= K
    BY <1>1, <2>1
  <2>3. PICK w : w = [m \in 0..n |-> G(w, m)]
    BY <1>3, <2>2
  <2> DEFINE v == [m \in 0..(n + 1) |-> G(w, m)]
  <2>4. ASSUME NEW m \in 0..n PROVE m \in 0..(n + 1) /\ v[m] = w[m]
    <3>1. w[m] = G(w, m)
      <4> HIDE DEF G
      <4> QED BY <2>3
    <3>2. m \in 0..(n + 1)
      OBVIOUS
    <3>3. v[m] = G(w, m)
      <4> HIDE DEF G
      <4> QED BY <3>2
    <3> HIDE DEF v, G
    <3> QED BY <3>1, <3>2, <3>3
  <2>5. ASSUME NEW m \in 0..(n + 1) PROVE G(w, m) = G(v, m)
    <3>1. m = 0 \/ m - 1 \in 0..n
      OBVIOUS
    <3> HIDE DEF v
    <3> QED BY <2>4, <3>1
  <2>6. v = [m \in 0..(n + 1) |-> G(v, m)]
    <3> HIDE DEF G
    <3> QED BY <2>5
  <2> HIDE DEF v, G
  <2> QED BY <2>6
<1>4. K \in Good
  <2> HIDE DEF Good
  <2> QED BY <1>1, <1>2, <1>3, InductiveSet
<1>5. PICK w : w = [n \in 0..K |-> G(w, n)] /\ Needed(f) = w[K]
  <2> DEFINE u == CHOOSE u : u = [n \in 0..K |-> G(u, n)]
  <2>1. \E v : v = [n \in 0..K |-> G(v, n)]
    BY <1>1, <1>4
  <2>2. u = [n \in 0..K |-> G(u, n)]
    <3> HIDE DEF G
    <3> QED BY <2>1
  <2>3. Needed(f) = u[K]
    BY DEF Needed, K
  <2> HIDE DEF u, G
  <2> QED BY <2>2, <2>3
<1>6. \A n \in 0..K : w[n] = G(w, n)
  <2> HIDE DEF G
  <2> QED BY <1>5
<1> DEFINE Below == {n \in Nat : n <= K => \A g \in w[n] : Sound(fs, g)}
<1>7. 0 \in Below
  <2>1. 0 \in 0..K
    BY <1>1
  <2>2. w[0] = {f}
    BY <1>6, <2>1
  <2> QED BY <2>2
<1>8. ASSUME NEW n \in Nat, n \in Below PROVE n + 1 \in Below
  <2>1. SUFFICES ASSUME n + 1 <= K PROVE \A g \in w[n + 1] : Sound(fs, g)
    OBVIOUS
  <2>2. n <= K /\ n + 1 \in 0..K /\ n + 1 # 0 /\ (n + 1) - 1 = n
    BY <1>1, <2>1
  <2>3. w[n + 1] = w[n] \cup UNION {Used(g) : g \in w[n]}
    BY <1>6, <2>2
  <2>4. \A g \in w[n] : Sound(fs, g)
    BY <1>8, <2>2
  <2>5. \A g \in w[n] : \A h \in Used(g) : Sound(fs, h)
    <3>1. \A g \in w[n] : \A h \in UsedBy(fs, g) : Sound(fs, h)
      BY <2>4, SoundUses
    <3> QED BY <3>1 DEF Used, UsedBy
  <2> QED BY <2>3, <2>4, <2>5
<1>9. K \in Below
  <2> HIDE DEF Below
  <2> QED BY <1>1, <1>7, <1>8, InductiveSet
<1> QED BY <1>1, <1>5, <1>9

\* The top frame goes on to its next statement.
Onward(frames) == [frames EXCEPT ![Len(frames)].at = @ + 1]

\* Going on to the next statement moves the top frame alone.
LEMMA AdvancedFrames ==
  ASSUME NEW n \in Nat, NEW frames \in Seq(Frames(n)), frames # <<>>, NEW adv,
         adv = Onward(frames)
  PROVE  /\ Len(frames) \in Nat \ {0} /\ Len(adv) = Len(frames)
         /\ \A j \in 1..Len(frames) :
              /\ frames[j] \in Frames(n)
              /\ adv[j].doc = frames[j].doc /\ adv[j].todo = frames[j].todo
              /\ adv[j].at = IF j = Len(frames) THEN frames[j].at + 1 ELSE frames[j].at
<1>1. Len(frames) \in Nat \ {0} /\ DOMAIN frames = 1..Len(frames)
      /\ \A j \in 1..Len(frames) : frames[j] \in Frames(n)
  OBVIOUS
<1>2. adv = [j \in 1..Len(frames) |-> IF j = Len(frames) THEN [frames[j] EXCEPT !.at = @ + 1]
                                      ELSE frames[j]]
  BY <1>1 DEF Onward
<1>3. Len(adv) = Len(frames)
  BY <1>1, <1>2
<1>4. ASSUME NEW j \in 1..Len(frames)
      PROVE  /\ adv[j].doc = frames[j].doc /\ adv[j].todo = frames[j].todo
             /\ adv[j].at = IF j = Len(frames) THEN frames[j].at + 1 ELSE frames[j].at
  <2>1. frames[j] \in Frames(n)
    BY <1>1
  <2>2. adv[j] = IF j = Len(frames) THEN [frames[j] EXCEPT !.at = @ + 1] ELSE frames[j]
    BY <1>2
  <2> QED BY <2>1, <2>2 DEF Frames
<1> QED BY <1>1, <1>3, <1>4

\* A frame that goes on has a statement behind it.
LEMMA Behind ==
  ASSUME NEW a \in Nat, NEW k \in Nat, k < a + 1
  PROVE  k < a \/ k = a
OBVIOUS

\* The loader goes past a statement that is no #include, or has become a document.
LEMMA LoadAdvance ==
  ASSUME NEW F, NEW docs, NEW n \in Nat, NEW frames \in Seq(Frames(n)), frames # <<>>,
         LoadClean(F, docs, frames), NEW adv, adv = Onward(frames),
         \A j \in 1..Len(frames) : DOMAIN BodyOf(F, docs, frames[j].doc) \subseteq Nat,
         LET t == frames[Len(frames)] IN Registered(F, docs, t.doc, t.at)
  PROVE  LoadClean(F, docs, adv)
<1> DEFINE L == Len(frames)
<1>1. /\ L \in Nat \ {0} /\ Len(adv) = L
      /\ \A j \in 1..L :
           /\ frames[j] \in Frames(n)
           /\ adv[j].doc = frames[j].doc /\ adv[j].todo = frames[j].todo
           /\ adv[j].at = IF j = L THEN frames[j].at + 1 ELSE frames[j].at
  BY AdvancedFrames
<1> HIDE DEF L
<1>2. ASSUME NEW j \in 1..Len(adv), NEW k \in DOMAIN BodyOf(F, docs, adv[j].doc), k < adv[j].at
      PROVE  Registered(F, docs, adv[j].doc, k)
  <2>1. j \in 1..L /\ adv[j].doc = frames[j].doc /\ k \in Nat /\ frames[j].at \in Nat
    BY <1>1, <1>2 DEF Frames, L
  <2>2. CASE k < frames[j].at
    BY <1>2, <2>1, <2>2 DEF LoadClean, L
  <2>3. CASE ~(k < frames[j].at)
    <3>1. j = L
      BY <1>1, <1>2, <2>1, <2>3
    <3>2. k < frames[j].at + 1
      BY <1>1, <1>2, <2>1, <3>1
    <3>3. k = frames[j].at
      BY <2>1, <2>3, <3>2, Behind
    <3> QED BY <2>1, <3>1, <3>3 DEF L
  <2> QED BY <2>2, <2>3
<1>3. ASSUME NEW d \in 1..Len(docs)
      PROVE  AllRegistered(F, docs, d) \/ \E j \in 1..Len(adv) : Holds(adv[j], d)
  <2>1. ASSUME NEW j \in 1..L, Holds(frames[j], d) PROVE Holds(adv[j], d)
    BY <1>1, <2>1 DEF Holds
  <2> QED BY <1>1, <2>1 DEF LoadClean, L
<1> QED BY <1>2, <1>3 DEF LoadClean

\* The loader goes down into the first document on the list of the top frame.
LEMMA LoadPush ==
  ASSUME NEW F, NEW docs, NEW n \in Nat, NEW frames \in Seq(Frames(n)), frames # <<>>,
         LoadClean(F, docs, frames), NEW new, frames[Len(frames)].todo # <<>>,
         new = Append([frames EXCEPT ![Len(frames)].todo = Tail(@)],
                      [doc |-> Head(frames[Len(frames)].todo), at |-> 1, todo |-> <<>>]),
         DOMAIN BodyOf(F, docs, Head(frames[Len(frames)].todo)) \subseteq Nat \ {0}
  PROVE  LoadClean(F, docs, new)
<1> DEFINE L == Len(frames)
           t == frames[L]
           e == Head(t.todo)
<1>1. L \in Nat \ {0} /\ DOMAIN frames = 1..L /\ \A j \in 1..L : frames[j] \in Frames(n)
  OBVIOUS
<1>2. t.todo \in Seq(1..n)
  <2>1. t \in Frames(n)
    BY <1>1
  <2> HIDE DEF t
  <2> QED BY <2>1 DEF Frames
<1>3. /\ Len(new) = L + 1 /\ new[L + 1] = [doc |-> e, at |-> 1, todo |-> <<>>]
      /\ \A j \in 1..L : /\ new[j].doc = frames[j].doc /\ new[j].at = frames[j].at
                         /\ new[j].todo = IF j = L THEN Tail(t.todo) ELSE frames[j].todo
  <2> DEFINE m == [frames EXCEPT ![L].todo = Tail(@)]
             x == [doc |-> e, at |-> 1, todo |-> <<>>]
  <2>1. m = [j \in 1..L |-> IF j = L THEN [frames[j] EXCEPT !.todo = Tail(@)] ELSE frames[j]]
    BY <1>1
  <2>2. IsSeq(m) /\ Len(m) = L
    <3>1. DOMAIN m = 1..L /\ m = [j \in 1..L |-> m[j]]
      BY <2>1
    <3> HIDE DEF m
    <3> QED BY <1>1, <3>1, MapSeq
  <2>3. \A j \in 1..L : /\ m[j].doc = frames[j].doc /\ m[j].at = frames[j].at
                        /\ m[j].todo = IF j = L THEN Tail(t.todo) ELSE frames[j].todo
    <3> SUFFICES ASSUME NEW j \in 1..L
                 PROVE  /\ m[j].doc = frames[j].doc /\ m[j].at = frames[j].at
                        /\ m[j].todo = IF j = L THEN Tail(t.todo) ELSE frames[j].todo
      OBVIOUS
    <3>1. m[j] = IF j = L THEN [frames[j] EXCEPT !.todo = Tail(@)] ELSE frames[j]
      BY <2>1
    <3>2. frames[j] \in Frames(n)
      BY <1>1
    <3> HIDE DEF m
    <3> QED BY <3>1, <3>2 DEF Frames
  <2> HIDE DEF m, x
  <2>4. new = Append(m, x)
    BY DEF m, x
  <2> QED BY <2>2, <2>3, <2>4, AppendSeq DEF x
<1> HIDE DEF L, t, e
<1>4. ASSUME NEW j \in 1..Len(new), NEW k \in DOMAIN BodyOf(F, docs, new[j].doc), k < new[j].at
      PROVE  Registered(F, docs, new[j].doc, k)
  <2>1. j \in 1..L \/ j = L + 1
    BY <1>1, <1>3
  <2>2. CASE j \in 1..L
    BY <1>3, <1>4, <2>2 DEF LoadClean, L
  <2>3. CASE j = L + 1
    <3>1. k \in Nat \ {0} /\ k < 1
      BY <1>3, <1>4, <2>3 DEF e, t, L
    <3> QED BY <3>1
  <2> QED BY <2>1, <2>2, <2>3
<1>5. ASSUME NEW d \in 1..Len(docs)
      PROVE  AllRegistered(F, docs, d) \/ \E j \in 1..Len(new) : Holds(new[j], d)
  <2>1. ASSUME NEW j \in 1..L, Holds(frames[j], d) PROVE \E i \in 1..Len(new) : Holds(new[i], d)
    <3>1. j \in 1..Len(new) /\ L + 1 \in 1..Len(new)
      BY <1>1, <1>3
    <3>2. CASE frames[j].doc = d \/ j # L
      <4>1. /\ new[j].doc = frames[j].doc
            /\ j # L => new[j].todo = frames[j].todo
        BY <1>3
      <4>2. Holds(new[j], d)
        <5>1. CASE frames[j].doc = d
          BY <4>1, <5>1 DEF Holds
        <5>2. CASE frames[j].doc # d
          BY <2>1, <3>2, <4>1, <5>2 DEF Holds
        <5> QED BY <5>1, <5>2
      <4> QED BY <3>1, <4>2
    <3>3. CASE frames[j].doc # d /\ j = L
      <4>1. PICK q \in 1..Len(t.todo) : t.todo[q] = d
        BY <2>1, <3>3 DEF Holds, t
      <4>2. CASE q = 1
        <5>1. new[L + 1].doc = d
          BY <1>2, <1>3, <4>1, <4>2 DEF e
        <5> QED BY <3>1, <5>1 DEF Holds
      <4>3. CASE q # 1
        <5>1. q - 1 \in 1..Len(Tail(t.todo)) /\ Tail(t.todo)[q - 1] = d
          BY <1>2, <4>1, <4>3
        <5>2. new[j].todo = Tail(t.todo)
          BY <1>3, <3>3
        <5>3. Holds(new[j], d)
          BY <5>1, <5>2 DEF Holds
        <5> QED BY <3>1, <5>3
      <4> QED BY <4>2, <4>3
    <3> QED BY <3>2, <3>3
  <2> QED BY <2>1 DEF LoadClean, L
<1> QED BY <1>4, <1>5 DEF LoadClean

\* It leaves a document at its end, with nothing left to load for it.
LEMMA LoadPop ==
  ASSUME NEW F, NEW docs, NEW n \in Nat, NEW frames \in Seq(Frames(n)), frames # <<>>,
         LoadClean(F, docs, frames), NEW rest, rest = SubSeq(frames, 1, Len(frames) - 1),
         LET t == frames[Len(frames)] IN
           t.todo = <<>> /\ \A k \in DOMAIN BodyOf(F, docs, t.doc) : k < t.at
  PROVE  /\ LoadClean(F, docs, rest)
         /\ rest = <<>> => \A d \in 1..Len(docs) : AllRegistered(F, docs, d)
<1> DEFINE L == Len(frames)
           t == frames[L]
<1>1. L \in Nat \ {0} /\ IsSeq(frames)
  BY DEF IsSeq
<1>2. IsSeq(rest) /\ Len(rest) = L - 1 /\ \A i \in 1..(L - 1) : rest[i] = frames[i]
  <2>1. L > 0
    BY <1>1
  <2> QED BY <1>1, <2>1, ButLast
<1>3. L \in 1..L /\ \A j \in 1..L : j = L \/ j \in 1..(L - 1)
  BY <1>1
<1>4. \A j \in 1..(L - 1) : j \in 1..L
  BY <1>1
<1>5. AllRegistered(F, docs, t.doc)
  <2>1. \A k \in DOMAIN BodyOf(F, docs, t.doc) : k < t.at => Registered(F, docs, t.doc, k)
    BY <1>3 DEF LoadClean
  <2> QED BY <2>1 DEF AllRegistered
<1>6. \A d : Holds(t, d) => d = t.doc
  <2>1. t.todo = <<>>
    OBVIOUS
  <2> HIDE DEF t
  <2>2. 1..Len(t.todo) = {}
    BY <2>1
  <2> QED BY <2>2 DEF Holds
<1> HIDE DEF L
<1>7. ASSUME NEW d \in 1..Len(docs)
      PROVE  AllRegistered(F, docs, d) \/ \E j \in 1..Len(rest) : Holds(rest[j], d)
  <2>1. CASE \E j \in 1..L : Holds(frames[j], d)
    <3>1. PICK j \in 1..L : Holds(frames[j], d)
      BY <2>1
    <3> QED BY <1>2, <1>3, <1>5, <1>6, <3>1
  <2>2. CASE ~\E j \in 1..L : Holds(frames[j], d)
    BY <2>2 DEF LoadClean, L
  <2> QED BY <2>1, <2>2
<1>8. ASSUME NEW j \in 1..Len(rest), NEW k \in DOMAIN BodyOf(F, docs, rest[j].doc),
             k < rest[j].at
      PROVE  Registered(F, docs, rest[j].doc, k)
  <2>1. j \in 1..L /\ rest[j] = frames[j]
    BY <1>2, <1>4
  <2> QED BY <1>8, <2>1 DEF LoadClean, L
<1>9. LoadClean(F, docs, rest)
  BY <1>7, <1>8 DEF LoadClean
<1>10. ASSUME rest = <<>>, NEW d \in 1..Len(docs) PROVE AllRegistered(F, docs, d)
  <2>1. 1..Len(rest) = {}
    BY <1>10
  <2> QED BY <1>7, <2>1
<1> QED BY <1>9, <1>10

\* Of the n documents, document i has an #include more, at, of the file of a new document.
Grown(docs, ds, n, i, at, f) ==
  /\ Len(ds) = n + 1 /\ ds[n + 1] = Document(f)
  /\ \A d \in 1..n : ds[d].file = docs[d].file
  /\ \A d \in 1..n : d # i => ds[d].includes = docs[d].includes
  /\ DOMAIN ds[i].includes = DOMAIN docs[i].includes \cup {at}
  /\ ds[i].includes[at] = n + 1
  /\ \A k \in DOMAIN docs[i].includes : k # at => ds[i].includes[k] = docs[i].includes[k]

\* Its documents are of the files there were, and of the new one.
LEMMA GrownFiles ==
  ASSUME NEW docs, NEW ds, NEW n \in Nat, NEW i, NEW at, NEW f, Grown(docs, ds, n, i, at, f)
  PROVE  /\ Len(ds) = n + 1 /\ ds[n + 1].file = f
         /\ \A d \in 1..n : ds[d].file = docs[d].file
BY DEF Grown, Document

\* The loader makes a document of an #include, and puts it on the list of the top frame.
LEMMA Registering ==
  ASSUME NEW files, NEW n \in Nat, NEW docs \in Seq(Docs(n, files)), Len(docs) = n,
         NEW i \in 1..n, NEW at, NEW f, NEW ds, ds = Including(docs, i, at, f)
  PROVE  Grown(docs, ds, n, i, at, f)
<1> DEFINE more == [k \in DOMAIN docs[i].includes \cup {at} |->
                      IF k = at THEN n + 1 ELSE docs[i].includes[k]]
           m == [docs EXCEPT ![i].includes =
                   [k \in DOMAIN @ \cup {at} |-> IF k = at THEN Len(docs) + 1 ELSE @[k]]]
<1>1. DOMAIN docs = 1..n /\ \A d \in 1..n : docs[d] \in Docs(n, files)
  OBVIOUS
<1>2. m = [d \in 1..n |-> IF d = i THEN [docs[i] EXCEPT !.includes = more] ELSE docs[d]]
  BY <1>1
<1> HIDE DEF more
<1>3. IsSeq(m) /\ Len(m) = n
  <2>1. DOMAIN m = 1..n /\ m = [d \in 1..n |-> m[d]]
    BY <1>2
  <2> HIDE DEF m
  <2> QED BY <2>1, MapSeq
<1>4. ASSUME NEW d \in 1..n
      PROVE  /\ m[d].file = docs[d].file
             /\ d # i => m[d].includes = docs[d].includes
             /\ d = i => m[d].includes = more
  <2>1. m[d] = IF d = i THEN [docs[i] EXCEPT !.includes = more] ELSE docs[d]
    BY <1>2
  <2>2. docs[d] \in Docs(n, files)
    BY <1>1
  <2> HIDE DEF m
  <2> QED BY <2>1, <2>2 DEF Docs
<1> HIDE DEF m
<1>5. ds = Append(m, Document(f))
  BY DEF Including, m
<1>6. /\ Len(ds) = n + 1 /\ ds[n + 1] = Document(f) /\ \A d \in 1..n : ds[d] = m[d]
  BY <1>3, <1>5, AppendSeq
<1>7. /\ DOMAIN more = DOMAIN docs[i].includes \cup {at} /\ more[at] = n + 1
      /\ \A k \in DOMAIN docs[i].includes : k # at => more[k] = docs[i].includes[k]
  BY DEF more
<1> QED BY <1>4, <1>6, <1>7 DEF Grown

\* Going on with one more document to load.
LEMMA Queueing ==
  ASSUME NEW n \in Nat, NEW frames \in Seq(Frames(n)), frames # <<>>, NEW adv, NEW fr,
         adv = Onward(frames), fr = ToLoad(adv, n + 1)
  PROVE  /\ Len(fr) = Len(frames)
         /\ \A j \in 1..Len(frames) :
              /\ fr[j].doc = frames[j].doc
              /\ fr[j].at = IF j = Len(frames) THEN frames[j].at + 1 ELSE frames[j].at
              /\ fr[j].todo = IF j = Len(frames) THEN Append(frames[j].todo, n + 1)
                              ELSE frames[j].todo
<1> DEFINE L == Len(frames)
           t == frames[L]
<1>1. L \in Nat \ {0} /\ DOMAIN frames = 1..L /\ \A j \in 1..L : frames[j] \in Frames(n)
  OBVIOUS
<1>2. adv = [j \in 1..L |-> IF j = L THEN [frames[j] EXCEPT !.at = @ + 1] ELSE frames[j]]
  BY <1>1 DEF Onward
<1>3. DOMAIN adv = 1..L /\ Len(adv) = L
  BY <1>1, <1>2
<1>4. fr = [j \in 1..L |-> IF j = L THEN [adv[j] EXCEPT !.todo = Append(@, n + 1)] ELSE adv[j]]
  BY <1>2, <1>3 DEF ToLoad
<1>5. Len(fr) = L
  BY <1>1, <1>4
<1>6. ASSUME NEW j \in 1..L
      PROVE  /\ fr[j].doc = frames[j].doc
             /\ fr[j].at = IF j = L THEN frames[j].at + 1 ELSE frames[j].at
             /\ fr[j].todo = IF j = L THEN Append(frames[j].todo, n + 1) ELSE frames[j].todo
  <2>1. frames[j] \in Frames(n)
    BY <1>1
  <2>2. adv[j] = IF j = L THEN [frames[j] EXCEPT !.at = @ + 1] ELSE frames[j]
    BY <1>2
  <2>3. fr[j] = IF j = L THEN [adv[j] EXCEPT !.todo = Append(@, n + 1)] ELSE adv[j]
    BY <1>4
  <2>4. CASE j = L
    <3>1. adv[j] = [frames[j] EXCEPT !.at = @ + 1]
      BY <2>2, <2>4
    <3>2. fr[j] = [adv[j] EXCEPT !.todo = Append(@, n + 1)]
      BY <2>3, <2>4
    <3>3. {"doc", "at", "todo"} \subseteq DOMAIN frames[j]
      BY <2>1 DEF Frames
    <3> HIDE DEF L
    <3>4. /\ DOMAIN adv[j] = DOMAIN frames[j] /\ adv[j].doc = frames[j].doc
          /\ adv[j].at = frames[j].at + 1 /\ adv[j].todo = frames[j].todo
      BY <3>1, <3>3
    <3> QED BY <2>4, <3>2, <3>3, <3>4
  <2>5. CASE j # L
    BY <2>2, <2>3, <2>5
  <2> QED BY <2>4, <2>5
<1> QED BY <1>5, <1>6

\* So what the loader has behind it stays registered, the #include too.
LEMMA LoadGrown ==
  ASSUME NEW F, NEW files, NEW n \in Nat, NEW docs, Len(docs) = n,
         NEW frames \in Seq(Frames(n)), frames # <<>>, LoadClean(F, docs, frames),
         \A j \in 1..Len(frames) : DOMAIN BodyOf(F, docs, frames[j].doc) \subseteq Nat,
         NEW t, t = frames[Len(frames)], NEW f,
         BodyOf(F, docs, t.doc)[t.at].file = f,
         NEW ds, Grown(docs, ds, n, t.doc, t.at, f),
         NEW fr, Len(fr) = Len(frames),
         \A j \in 1..Len(frames) :
           /\ fr[j].doc = frames[j].doc
           /\ fr[j].at = IF j = Len(frames) THEN frames[j].at + 1 ELSE frames[j].at
           /\ fr[j].todo = IF j = Len(frames) THEN Append(frames[j].todo, n + 1)
                           ELSE frames[j].todo
  PROVE  LoadClean(F, ds, fr)
<1> DEFINE L == Len(frames)
<1>1. L \in Nat \ {0} /\ \A j \in 1..L : frames[j] \in Frames(n)
  OBVIOUS
<1>2. t \in Frames(n) /\ t.doc \in 1..n /\ t.todo \in Seq(1..n) /\ t.at \in Nat
  <2>1. t \in Frames(n)
    BY <1>1
  <2> QED BY <2>1 DEF Frames
<1>3. /\ Len(ds) = n + 1 /\ ds[n + 1] = Document(f)
      /\ \A d \in 1..n : ds[d].file = docs[d].file
      /\ \A d \in 1..n : d # t.doc => ds[d].includes = docs[d].includes
      /\ DOMAIN ds[t.doc].includes = DOMAIN docs[t.doc].includes \cup {t.at}
      /\ ds[t.doc].includes[t.at] = n + 1
      /\ \A k \in DOMAIN docs[t.doc].includes :
           k # t.at => ds[t.doc].includes[k] = docs[t.doc].includes[k]
  BY DEF Grown
<1>4. /\ Len(fr) = L
      /\ \A j \in 1..L :
           /\ fr[j].doc = frames[j].doc
           /\ fr[j].at = IF j = L THEN frames[j].at + 1 ELSE frames[j].at
           /\ fr[j].todo = IF j = L THEN Append(frames[j].todo, n + 1) ELSE frames[j].todo
  OBVIOUS
<1>5. \A d \in 1..n : BodyOf(F, ds, d) = BodyOf(F, docs, d)
  BY <1>3 DEF BodyOf
<1>6. Registered(F, ds, t.doc, t.at)
  <2>1. /\ t.at \in DOMAIN ds[t.doc].includes /\ ds[t.doc].includes[t.at] = n + 1
    BY <1>3
  <2>2. n + 1 \in 1..Len(ds) /\ ds[n + 1].file = f
    BY <1>3 DEF Document
  <2> QED BY <1>2, <1>5, <2>1, <2>2 DEF Registered
<1>7. ASSUME NEW d \in 1..n, NEW k, Registered(F, docs, d, k) PROVE Registered(F, ds, d, k)
  <2>1. CASE d = t.doc /\ k = t.at
    BY <1>6, <2>1
  <2>2. CASE ~(d = t.doc /\ k = t.at)
    <3>1. SUFFICES ASSUME BodyOf(F, ds, d)[k].is = "include"
                   PROVE  /\ k \in DOMAIN ds[d].includes /\ ds[d].includes[k] \in 1..Len(ds)
                          /\ ds[ds[d].includes[k]].file = BodyOf(F, ds, d)[k].file
      BY DEF Registered
    <3>2. /\ k \in DOMAIN docs[d].includes /\ docs[d].includes[k] \in 1..n
          /\ docs[docs[d].includes[k]].file = BodyOf(F, docs, d)[k].file
      BY <1>5, <1>7, <3>1 DEF Registered
    <3>3. k \in DOMAIN ds[d].includes /\ ds[d].includes[k] = docs[d].includes[k]
      BY <1>3, <2>2, <3>2
    <3>4. docs[d].includes[k] \in 1..Len(ds)
      BY <1>3, <3>2
    <3>5. ds[docs[d].includes[k]].file = BodyOf(F, ds, d)[k].file
      BY <1>3, <1>5, <3>2
    <3> QED BY <3>3, <3>4, <3>5
  <2> QED BY <2>1, <2>2
<1> HIDE DEF L
<1>8. ASSUME NEW j \in 1..Len(fr), NEW k \in DOMAIN BodyOf(F, ds, fr[j].doc), k < fr[j].at
      PROVE  Registered(F, ds, fr[j].doc, k)
  <2>1. j \in 1..L /\ fr[j].doc = frames[j].doc /\ frames[j].doc \in 1..n
        /\ frames[j].at \in Nat
    BY <1>1, <1>4 DEF Frames
  <2>2. k \in DOMAIN BodyOf(F, docs, frames[j].doc) /\ k \in Nat
    BY <1>5, <2>1 DEF L
  <2>3. CASE k < frames[j].at
    <3>1. Registered(F, docs, frames[j].doc, k)
      BY <2>1, <2>2, <2>3 DEF LoadClean, L
    <3> QED BY <1>7, <2>1, <3>1
  <2>4. CASE ~(k < frames[j].at)
    <3>1. j = L
      BY <1>4, <1>8, <2>1, <2>4
    <3>2. k < frames[j].at + 1
      BY <1>4, <1>8, <2>1, <3>1
    <3>3. k = frames[j].at
      BY <2>1, <2>2, <2>4, <3>2, Behind
    <3> QED BY <1>6, <2>1, <3>1, <3>3 DEF L
  <2> QED BY <2>3, <2>4
<1>9. ASSUME NEW d \in 1..Len(ds)
      PROVE  AllRegistered(F, ds, d) \/ \E j \in 1..Len(fr) : Holds(fr[j], d)
  <2>1. d \in 1..n \/ d = n + 1
    BY <1>3
  <2>2. CASE d \in 1..n
    <3>1. AllRegistered(F, docs, d) => AllRegistered(F, ds, d)
      BY <1>5, <1>7, <2>2 DEF AllRegistered
    <3>2. ASSUME NEW j \in 1..L, Holds(frames[j], d) PROVE Holds(fr[j], d)
      <4>1. CASE frames[j].doc = d
        BY <1>4, <4>1 DEF Holds
      <4>2. CASE frames[j].doc # d
        <5>1. PICK q \in 1..Len(frames[j].todo) : frames[j].todo[q] = d
          BY <3>2, <4>2 DEF Holds
        <5>2. CASE j # L
          BY <1>4, <5>1, <5>2 DEF Holds
        <5>3. CASE j = L
          <6>1. fr[j].todo = Append(t.todo, n + 1) /\ frames[j].todo = t.todo
            BY <1>4, <5>3 DEF L
          <6>2. q \in 1..Len(Append(t.todo, n + 1)) /\ Append(t.todo, n + 1)[q] = d
            BY <1>2, <5>1, <6>1
          <6> QED BY <6>1, <6>2 DEF Holds
        <5> QED BY <5>2, <5>3
      <4> QED BY <4>1, <4>2
    <3> QED BY <1>4, <2>2, <3>1, <3>2 DEF LoadClean, L
  <2>3. CASE d = n + 1
    <3>1. L \in 1..L /\ fr[L].todo = Append(t.todo, n + 1)
      <4>1. L \in 1..L /\ t = frames[L]
        BY <1>1 DEF L
      <4> QED BY <1>4, <4>1
    <3>2. /\ Len(t.todo) + 1 \in 1..Len(Append(t.todo, n + 1))
          /\ Append(t.todo, n + 1)[Len(t.todo) + 1] = n + 1
      BY <1>2
    <3>3. Holds(fr[L], d)
      BY <2>3, <3>1, <3>2 DEF Holds
    <3> QED BY <1>4, <3>1, <3>3
  <2> QED BY <2>1, <2>2, <2>3
<1> QED BY <1>8, <1>9 DEF LoadClean

\* That is what the loader does at an #include.
LEMMA LoadGrow ==
  ASSUME NEW F, NEW files, NEW n \in Nat, NEW docs \in Seq(Docs(n, files)), Len(docs) = n,
         NEW frames \in Seq(Frames(n)), frames # <<>>, LoadClean(F, docs, frames),
         \A j \in 1..Len(frames) : DOMAIN BodyOf(F, docs, frames[j].doc) \subseteq Nat,
         NEW t, t = frames[Len(frames)], NEW f,
         BodyOf(F, docs, t.doc)[t.at].file = f,
         NEW adv, adv = Onward(frames),
         NEW ds, ds = Including(docs, t.doc, t.at, f), NEW fr, fr = ToLoad(adv, n + 1)
  PROVE  LoadClean(F, ds, fr)
<1>1. t \in Frames(n) /\ t.doc \in 1..n
  <2>1. Len(frames) \in 1..Len(frames)
    OBVIOUS
  <2>2. t \in Frames(n)
    BY <2>1
  <2> QED BY <2>2 DEF Frames
<1>2. Grown(docs, ds, n, t.doc, t.at, f)
  BY <1>1, Registering
<1>3. LET m == Len(frames)
      IN  /\ Len(fr) = m
          /\ \A j \in 1..m :
               /\ fr[j].doc = frames[j].doc
               /\ fr[j].at = IF j = m THEN frames[j].at + 1 ELSE frames[j].at
               /\ fr[j].todo = IF j = m THEN Append(frames[j].todo, n + 1) ELSE frames[j].todo
  BY Queueing
<1> QED BY <1>2, <1>3, LoadGrown

\* What is done with stays so, with more documents done with and more calls of assemble().
LEMMA SeenMore ==
  ASSUME NEW F, NEW docs, NEW code, NEW more, NEW d, NEW k, NEW D, NEW E, D \subseteq E,
         \A q \in DOMAIN code : q \in DOMAIN more /\ more[q] = code[q],
         Seen(F, docs, code, d, k, D)
  PROVE  Seen(F, docs, more, d, k, E)
BY DEF Seen

\* The expansion goes past a statement that it is done with.
LEMMA ExpandAdvance ==
  ASSUME NEW F, NEW docs, NEW n \in Nat, NEW frames \in Seq(Frames(n)), frames # <<>>,
         NEW code, NEW more, \A q \in DOMAIN code : q \in DOMAIN more /\ more[q] = code[q],
         NEW D, ExpandClean(F, docs, code, frames, D),
         NEW adv, adv = Onward(frames),
         \A j \in 1..Len(frames) : DOMAIN BodyOf(F, docs, frames[j].doc) \subseteq Nat,
         LET t == frames[Len(frames)] IN Seen(F, docs, more, t.doc, t.at, D)
  PROVE  ExpandClean(F, docs, more, adv, D)
<1> DEFINE L == Len(frames)
<1>1. /\ L \in Nat \ {0} /\ Len(adv) = L
      /\ \A j \in 1..L :
           /\ frames[j] \in Frames(n)
           /\ adv[j].doc = frames[j].doc
           /\ adv[j].at = IF j = L THEN frames[j].at + 1 ELSE frames[j].at
  BY AdvancedFrames
<1> HIDE DEF L
<1>2. \A j \in Nat : Above(adv, j) = Above(frames, j)
  <2>1. \A j \in Nat : \A i \in (j + 1)..L : i \in 1..L
    BY <1>1
  <2> QED BY <1>1, <2>1 DEF Above, L
<1>3. ASSUME NEW d \in D, NEW k \in DOMAIN BodyOf(F, docs, d)
      PROVE  Seen(F, docs, more, d, k, D)
  BY SeenMore DEF ExpandClean
<1>4. ASSUME NEW j \in 1..Len(adv), NEW k \in DOMAIN BodyOf(F, docs, adv[j].doc), k < adv[j].at
      PROVE  Seen(F, docs, more, adv[j].doc, k, D \cup Above(adv, j))
  <2> j \in 1..L /\ j \in Nat /\ adv[j].doc = frames[j].doc
    BY <1>1
  <2>1. k \in Nat /\ frames[j].at \in Nat
    <3>1. frames[j].at \in Nat
      BY <1>1 DEF Frames
    <3>2. DOMAIN BodyOf(F, docs, frames[j].doc) \subseteq Nat
      BY DEF L
    <3> QED BY <3>1, <3>2
  <2>2. CASE k < frames[j].at
    <3>1. Seen(F, docs, code, frames[j].doc, k, D \cup Above(frames, j))
      BY <1>4, <2>1, <2>2 DEF ExpandClean, L
    <3>2. Above(adv, j) = Above(frames, j)
      BY <1>2, <2>1
    <3> QED BY <2>1, <3>1, <3>2, SeenMore
  <2>3. CASE ~(k < frames[j].at)
    <3>1. j = L
      BY <1>1, <1>4, <2>1, <2>3
    <3>2. k < frames[j].at + 1
      BY <1>1, <1>4, <2>1, <3>1
    <3>3. k = frames[j].at
      BY <2>1, <2>3, <3>2, Behind
    <3>4. Seen(F, docs, more, adv[j].doc, k, D)
      BY <2>1, <3>1, <3>3 DEF L
    <3> QED BY <3>4, SeenMore
  <2> QED BY <2>2, <2>3
<1>5. Above(adv, 0) = Above(frames, 0)
  BY <1>2
<1> QED BY <1>3, <1>4, <1>5 DEF ExpandClean

\* It goes into the document that an #include has become.
LEMMA ExpandPush ==
  ASSUME NEW F, NEW docs, NEW n \in Nat, NEW frames \in Seq(Frames(n)), frames # <<>>,
         NEW code, NEW D, ExpandClean(F, docs, code, frames, D),
         NEW adv, adv = Onward(frames),
         \A j \in 1..Len(frames) : DOMAIN BodyOf(F, docs, frames[j].doc) \subseteq Nat,
         NEW t, t = frames[Len(frames)], NEW e, docs[t.doc].includes[t.at] = e,
         BodyOf(F, docs, t.doc)[t.at].is = "include",
         DOMAIN BodyOf(F, docs, e) \subseteq Nat \ {0},
         NEW new, new = Append(adv, [doc |-> e, at |-> 1, todo |-> <<>>])
  PROVE  ExpandClean(F, docs, code, new, D)
<1> DEFINE L == Len(frames)
<1>1. /\ L \in Nat \ {0} /\ Len(adv) = L
      /\ \A j \in 1..L :
           /\ frames[j] \in Frames(n)
           /\ adv[j].doc = frames[j].doc
           /\ adv[j].at = IF j = L THEN frames[j].at + 1 ELSE frames[j].at
  BY AdvancedFrames
<1>2. IsSeq(adv)
  <2>1. DOMAIN frames = 1..L
    OBVIOUS
  <2>2. DOMAIN adv = 1..L /\ adv = [j \in 1..L |-> adv[j]]
    BY <2>1 DEF Onward
  <2> QED BY <1>1, <2>2, MapSeq
<1> HIDE DEF L
<1>3. /\ Len(new) = L + 1 /\ \A j \in 1..L : new[j] = adv[j]
      /\ new[L + 1].doc = e /\ new[L + 1].at = 1
  <2> DEFINE x == [doc |-> e, at |-> 1, todo |-> <<>>]
  <2>1. x.doc = e /\ x.at = 1
    OBVIOUS
  <2>2. new = Append(adv, x)
    OBVIOUS
  <2> HIDE DEF x
  <2> QED BY <1>1, <1>2, <2>1, <2>2, AppendSeq
<1>4. ASSUME NEW j \in Nat PROVE Above(frames, j) \subseteq Above(new, j)
  <2>1. \A i \in (j + 1)..L : i \in 1..L /\ i \in (j + 1)..(L + 1)
    BY <1>1
  <2>2. \A i \in 1..L : new[i].doc = frames[i].doc
    BY <1>1, <1>3
  <2> QED BY <1>3, <2>1, <2>2 DEF Above, L
<1>5. e \in Above(new, L)
  <2>1. L + 1 \in (L + 1)..(L + 1)
    BY <1>1
  <2> QED BY <1>3, <2>1 DEF Above
<1>6. ASSUME NEW j \in 1..Len(new), NEW k \in DOMAIN BodyOf(F, docs, new[j].doc), k < new[j].at
      PROVE  Seen(F, docs, code, new[j].doc, k, D \cup Above(new, j))
  <2>1. j \in 1..L \/ j = L + 1
    BY <1>1, <1>3
  <2>2. CASE j = L + 1
    <3>1. k \in Nat \ {0} /\ k < 1
      BY <1>3, <1>6, <2>2
    <3> QED BY <3>1
  <2>3. CASE j \in 1..L
    <3>1. /\ new[j].doc = frames[j].doc /\ k \in Nat /\ frames[j].at \in Nat /\ j \in Nat
          /\ new[j].at = IF j = L THEN frames[j].at + 1 ELSE frames[j].at
      <4>1. /\ new[j].doc = frames[j].doc
            /\ new[j].at = IF j = L THEN frames[j].at + 1 ELSE frames[j].at
        BY <1>1, <1>3, <2>3
      <4>2. frames[j] \in Frames(n) /\ j \in Nat
        BY <1>1, <2>3
      <4>3. frames[j].at \in Nat
        BY <4>2 DEF Frames
      <4>4. k \in Nat
        BY <1>6, <2>3, <4>1 DEF L
      <4> QED BY <4>1, <4>2, <4>3, <4>4
    <3>2. CASE k < frames[j].at
      <4>1. Seen(F, docs, code, frames[j].doc, k, D \cup Above(frames, j))
        BY <1>6, <2>3, <3>1, <3>2 DEF ExpandClean, L
      <4>2. D \cup Above(frames, j) \subseteq D \cup Above(new, j)
        BY <1>4, <3>1
      <4> QED BY <3>1, <4>1, <4>2, SeenMore
    <3>3. CASE ~(k < frames[j].at)
      <4>1. j = L
        BY <1>6, <3>1, <3>3
      <4>2. k < frames[j].at + 1
        BY <1>6, <3>1, <4>1
      <4>3. k = frames[j].at
        BY <3>1, <3>3, <4>2, Behind
      <4> QED BY <1>5, <3>1, <4>1, <4>3 DEF Seen, L
    <3> QED BY <3>2, <3>3
  <2> QED BY <2>1, <2>2, <2>3
<1>7. 1 \in D \cup Above(new, 0)
  BY <1>4 DEF ExpandClean
<1> QED BY <1>6, <1>7 DEF ExpandClean

\* It leaves a document at its end.
LEMMA ExpandPop ==
  ASSUME NEW F, NEW docs, NEW n \in Nat, n = Len(docs),
         NEW frames \in Seq(Frames(n)), frames # <<>>,
         NEW code, NEW D, ExpandClean(F, docs, code, frames, D),
         NEW rest, rest = SubSeq(frames, 1, Len(frames) - 1),
         NEW t, t = frames[Len(frames)], \A k \in DOMAIN BodyOf(F, docs, t.doc) : k < t.at
  PROVE  ExpandClean(F, docs, code, rest, D \cup {t.doc})
<1> DEFINE L == Len(frames)
           E == D \cup {t.doc}
<1>1. L \in Nat \ {0} /\ IsSeq(frames) /\ t \in Frames(n) /\ t.doc \in 1..n
  <2>1. L \in Nat \ {0} /\ IsSeq(frames) /\ t \in Frames(n)
    BY DEF IsSeq
  <2> QED BY <2>1 DEF Frames
<1>2. IsSeq(rest) /\ Len(rest) = L - 1 /\ \A i \in 1..(L - 1) : rest[i] = frames[i]
  <2>1. L > 0
    BY <1>1
  <2> QED BY <1>1, <2>1, ButLast
<1>3. t = frames[L]
  OBVIOUS
<1> HIDE DEF L
<1>4. Above(frames, L) = {}
  <2>1. (L + 1)..L = {}
    BY <1>1
  <2> QED BY <2>1 DEF Above, L
<1>5. ASSUME NEW j \in Nat PROVE D \cup Above(frames, j) \subseteq E \cup Above(rest, j)
  <2>1. ASSUME NEW i \in (j + 1)..L PROVE frames[i].doc \in E \cup Above(rest, j)
    <3>1. i = L \/ (i \in (j + 1)..(L - 1) /\ i \in 1..(L - 1))
      BY <1>1
    <3>2. CASE i = L
      BY <1>3, <3>2
    <3>3. CASE i \in (j + 1)..(L - 1) /\ i \in 1..(L - 1)
      BY <1>2, <3>3 DEF Above
    <3> QED BY <3>1, <3>2, <3>3
  <2> QED BY <2>1 DEF Above, L
<1>6. ASSUME NEW d \in E, NEW k \in DOMAIN BodyOf(F, docs, d)
      PROVE  Seen(F, docs, code, d, k, E)
  <2>1. CASE d \in D
    <3>1. Seen(F, docs, code, d, k, D)
      BY <2>1 DEF ExpandClean
    <3> QED BY <3>1, SeenMore
  <2>2. CASE d = t.doc
    <3>1. L \in 1..L /\ k < frames[L].at /\ d = frames[L].doc
      BY <1>1, <1>3, <2>2
    <3>2. Seen(F, docs, code, d, k, D \cup Above(frames, L))
      BY <3>1 DEF ExpandClean, L
    <3>3. Seen(F, docs, code, d, k, D)
      BY <1>4, <3>2
    <3> QED BY <3>3, SeenMore
  <2> QED BY <2>1, <2>2
<1>7. ASSUME NEW j \in 1..Len(rest), NEW k \in DOMAIN BodyOf(F, docs, rest[j].doc),
             k < rest[j].at
      PROVE  Seen(F, docs, code, rest[j].doc, k, E \cup Above(rest, j))
  <2>1. j \in 1..L /\ rest[j] = frames[j] /\ j \in Nat
    BY <1>1, <1>2
  <2>2. Seen(F, docs, code, rest[j].doc, k, D \cup Above(frames, j))
    BY <1>7, <2>1 DEF ExpandClean, L
  <2>3. D \cup Above(frames, j) \subseteq E \cup Above(rest, j)
    BY <1>5, <2>1
  <2> QED BY <2>2, <2>3, SeenMore
<1>8. 1 \in E \cup Above(rest, 0)
  BY <1>5 DEF ExpandClean
<1>9. E \subseteq 1..Len(docs)
  BY <1>1 DEF ExpandClean
<1> QED BY <1>6, <1>7, <1>8, <1>9 DEF ExpandClean

-----------------------------------------------------------------------------
(* Clean compilers.                                                          *)

\* The fields of a compiler.
CompilerNames ==
  {"file", "max", "default", "known", "forkDefined", "phase", "list", "docs", "defs", "frames",
   "code", "next", "cache", "output"}

\* What a compiler c without errors has seen of its program.
SeenClean(F, c) ==
  /\ \A d \in 1..Len(c.docs) : ParsedClean(F, c.docs[d].file)
  /\ c.docs # <<>> => c.docs[1].file = c.file
  /\ c.phase \in {"open", "load", "expand"} => c.next = 1
  /\ c.phase = "load" => c.docs # <<>> /\ LoadClean(F, c.docs, c.frames)
  /\ c.phase \in {"expand", "eval"} =>
       /\ c.docs # <<>> /\ \A d \in 1..Len(c.docs) : AllRegistered(F, c.docs, d)
       /\ \E D : ExpandClean(F, c.docs, c.code, c.frames, D)
  /\ c.phase = "eval" =>
       /\ c.frames = <<>>
       /\ \A q \in DOMAIN c.code : q < c.next => Sound(F, c.code[q][2])
  /\ \A k \in DOMAIN c.cache : Sound(F, k[2])

CleanC(F, c) ==
  /\ DOMAIN c = CompilerNames /\ IsSeq(c.code) /\ c.next \in Nat \ {0}
  /\ ~HasError(c.list) => SeenClean(F, c)
  /\ c.output => Sound(F, c.file)

\* A compiler waits for the file that its next assemble() names.
Waits(p, f) == p.phase = "eval" /\ p.next \in DOMAIN p.code /\ p.code[p.next][2] = f

CleanInv ==
  /\ \A i \in 1..Len(stack) : CleanC(fs, stack[i])
  /\ \A i \in 1..Len(stack) - 1 : Waits(stack[i], stack[i + 1].file)
  /\ \A i \in 1..Len(results) : results[i].output => Sound(fs, results[i].file)

\* An error stays on the list.
LEMMA ErrorsStay ==
  ASSUME NEW l \in Reports, NEW new \in Reports, NEW max \in Nat, HasError(l)
  PROVE  HasError(Added(l, new, max))
<1> DEFINE over == {n \in 1..Len(new) : TooMany(l \o SubSeq(new, 1, n), max)}
           p == IF over = {} THEN new ELSE SubSeq(new, 1, Min(over))
<1>1. p \in Reports
  <2>1. CASE over = {}
    BY <2>1
  <2>2. CASE over # {}
    <3>1. Len(new) \in Nat
      BY DEF Reports
    <3>2. Min(over) \in over
      <4>1. over \in SUBSET Nat
        BY <3>1
      <4> HIDE DEF over
      <4> QED BY <2>2, <4>1, Least
    <3>3. Min(over) \in 0..Len(new)
      BY <3>1, <3>2
    <3> HIDE DEF over
    <3>4. SubSeq(new, 1, Min(over)) \in Reports
      BY <3>3, Prefix
    <3> QED BY <2>2, <3>4
  <2> QED BY <2>1, <2>2
<1>2. Added(l, new, max) = l \o p
  BY DEF Added
<1> HIDE DEF p
<1>3. /\ NumErrors(l \o p) = NumErrors(l) + NumErrors(p)
      /\ NumErrors(l) \in Nat /\ NumErrors(p) \in Nat
  BY <1>1, Concat, Finite
<1> QED BY <1>2, <1>3 DEF HasError

\* What compiler c is when it has reported, and that it has no error only if it had none.
Reported(c, new, r) ==
  /\ DOMAIN r = CompilerNames /\ r.output = FALSE
  /\ r.file = c.file /\ r.docs = c.docs /\ r.frames = c.frames
  /\ r.code = c.code /\ r.next = c.next /\ r.cache = c.cache
  /\ ~HasError(r.list) => r.phase = c.phase /\ ~HasError(new) /\ ~HasError(c.list)

\* A compiler that reports no error has had none, and goes on.
LEMMA ReportClean ==
  ASSUME NEW files, NEW c, Going(c, files), DOMAIN c = CompilerNames, NEW new \in Reports,
         NEW r, r = Report(c, new)
  PROVE  Reported(c, new, r)
<1>1. /\ c.list \in Reports /\ c.max \in Nat
      /\ HasError(new) => HasError(r.list)
  BY ReportOK DEF Going, CompilerOK, ListOK
<1>2. /\ r.list = Added(c.list, new, c.max) /\ r.output = FALSE
      /\ ~HasError(new) => r.phase = c.phase
  BY ReportKeeps
<1>3. HasError(c.list) => HasError(r.list)
  BY <1>1, <1>2, ErrorsStay
<1> DEFINE l == Added(c.list, new, c.max)
           ph == IF TooMany(l, c.max) THEN "return" ELSE c.phase
<1>4. r = [c EXCEPT !.list = l, !.phase = ph]
  BY DEF Report
<1> HIDE DEF l, ph
<1>5. /\ DOMAIN r = CompilerNames
      /\ r.file = c.file /\ r.docs = c.docs /\ r.frames = c.frames
      /\ r.code = c.code /\ r.next = c.next /\ r.cache = c.cache
  BY <1>4 DEF CompilerNames
<1> QED BY <1>1, <1>2, <1>3, <1>5 DEF Reported

\* The innermost compiler changes.
LEMMA BecomesClean ==
  ASSUME IInv, CleanInv, stack # <<>>, NEW c, CleanC(fs, c), c.file = C.file, Becomes(c)
  PROVE  CleanInv'
<1>1. PICK S : stack \in Seq(S)
  BY DEF IInv, StackOK
<1> DEFINE n == Len(stack)
<1>2. n \in Nat \ {0} /\ DOMAIN stack = 1..n
  BY <1>1
<1>3. /\ Len(stack') = n /\ fs' = fs /\ results' = results
      /\ \A i \in 1..n : stack'[i] = IF i = n THEN c ELSE stack[i]
  <2>1. stack' = [stack EXCEPT ![n] = c] /\ fs' = fs /\ results' = results
    BY DEF Becomes
  <2>2. stack \in Seq(S \cup {c})
    BY <1>1
  <2> QED BY <1>2, <2>1, <2>2
<1>4. C = stack[n]
  BY DEF C
<1> HIDE DEF n
<1>5. \A i \in 1..n : CleanC(fs, stack'[i])
  BY <1>3 DEF CleanInv, n
<1>6. ASSUME NEW i \in 1..n - 1 PROVE Waits(stack'[i], stack'[i + 1].file)
  <2>1. i \in 1..n /\ i + 1 \in 1..n /\ i # n
    BY <1>2
  <2>2. stack'[i] = stack[i] /\ stack'[i + 1].file = stack[i + 1].file
    <3>1. CASE i + 1 = n
      BY <1>3, <1>4, <2>1, <3>1
    <3>2. CASE i + 1 # n
      BY <1>3, <2>1, <3>2
    <3> QED BY <3>1, <3>2
  <2> QED BY <2>2 DEF CleanInv, n
<1>7. \A i \in 1..Len(results) : results[i].output => Sound(fs, results[i].file)
  BY DEF CleanInv
<1> QED BY <1>3, <1>5, <1>6, <1>7 DEF CleanInv

\* The innermost compiler is clean.
LEMMA Here ==
  ASSUME IInv, CleanInv, NEW phase, In(phase)
  PROVE  /\ stack # <<>> /\ CompilerOK(C, DOMAIN fs) /\ CleanC(fs, C) /\ C.phase = phase
         /\ ~HasError(C.list) => SeenClean(fs, C)
<1>1. /\ stack # <<>> /\ CompilerOK(C, DOMAIN fs) /\ C.phase = phase
      /\ Len(stack) \in Nat \ {0}
  BY InOK
<1>2. Len(stack) \in 1..Len(stack)
  BY <1>1
<1>3. CleanC(fs, C)
  BY <1>2 DEF CleanInv, C
<1> QED BY <1>1, <1>3 DEF CleanC

\* The documents of a compiler are files, their statements numbered from 1.
LEMMA Bodies ==
  ASSUME fs \in FileSystems, NEW n \in Nat, NEW docs \in Seq(Docs(n, DOMAIN fs)),
         NEW d \in 1..Len(docs)
  PROVE  docs[d].file \in DOMAIN fs /\ DOMAIN BodyOf(fs, docs, d) \subseteq Nat \ {0}
<1>1. docs[d] \in Docs(n, DOMAIN fs)
  OBVIOUS
<1>2. docs[d].file \in DOMAIN fs
  BY <1>1 DEF Docs
<1> DEFINE body == BodyOf(fs, docs, d)
<1>3. body \in Seq({body[k] : k \in DOMAIN body})
  BY <1>2, FilesAssumption DEF BodyOf
<1> HIDE DEF body
<1>4. DOMAIN body = 1..Len(body) /\ Len(body) \in Nat
  BY <1>3
<1>5. DOMAIN body \subseteq Nat \ {0}
  BY <1>4
<1> QED BY <1>2, <1>5 DEF body

\* Those of the innermost compiler, and its frames.
LEMMA HereFrames ==
  ASSUME IInv, In("load") \/ In("expand")
  PROVE  /\ C.docs \in Seq(Docs(Len(C.docs), DOMAIN fs)) /\ Len(C.docs) \in Nat
         /\ C.frames \in Seq(Frames(Len(C.docs))) /\ C.frames # <<>>
         /\ Top = C.frames[Len(C.frames)] /\ Body = BodyOf(fs, C.docs, Top.doc)
         /\ \A d \in 1..Len(C.docs) : DOMAIN BodyOf(fs, C.docs, d) \subseteq Nat \ {0}
         /\ \A j \in 1..Len(C.frames) : C.frames[j].doc \in 1..Len(C.docs)
         /\ \A j \in 1..Len(C.frames) : DOMAIN BodyOf(fs, C.docs, C.frames[j].doc) \subseteq Nat
<1>1. /\ C.docs \in Seq(Docs(Len(C.docs), DOMAIN fs)) /\ Len(C.docs) \in Nat
      /\ C.frames \in Seq(Frames(Len(C.docs))) /\ C.frames # <<>>
  BY TopOK DEF Going, CompilerOK, LoadedOK
<1>2. \A d \in 1..Len(C.docs) : DOMAIN BodyOf(fs, C.docs, d) \subseteq Nat \ {0}
  BY <1>1, Bodies DEF IInv
<1>3. ASSUME NEW j \in 1..Len(C.frames) PROVE C.frames[j].doc \in 1..Len(C.docs)
  <2>1. C.frames[j] \in Frames(Len(C.docs))
    BY <1>1
  <2> QED BY <2>1 DEF Frames
<1>4. \A j \in 1..Len(C.frames) : DOMAIN BodyOf(fs, C.docs, C.frames[j].doc) \subseteq Nat
  BY <1>2, <1>3
<1> QED BY <1>1, <1>2, <1>3, <1>4 DEF Top, Body, BodyOf

\* At a statement, the compiler goes on with its top frame alone.
LEMMA HerePassed ==
  ASSUME IInv, CleanInv, In("load") \/ In("expand")
  PROVE  /\ Going(Passed, DOMAIN fs) /\ DOMAIN Passed = CompilerNames
         /\ Passed.file = C.file /\ Passed.docs = C.docs /\ Passed.frames = Onward(C.frames)
         /\ Passed.code = C.code /\ Passed.next = C.next /\ Passed.cache = C.cache
         /\ Passed.list = C.list /\ Passed.phase = C.phase /\ Passed.output = FALSE
         /\ C.output = FALSE
<1>1. DOMAIN C = CompilerNames
  BY Here DEF CleanC
<1>2. Going(Passed, DOMAIN fs) /\ Passed.list = C.list /\ Passed.phase = C.phase
  BY PassedOK
<1>3. Passed = [C EXCEPT !.frames = Onward(C.frames)]
  BY DEF Passed, Advanced, Onward
<1>4. /\ DOMAIN Passed = CompilerNames
      /\ Passed.file = C.file /\ Passed.docs = C.docs /\ Passed.frames = Onward(C.frames)
      /\ Passed.code = C.code /\ Passed.next = C.next /\ Passed.cache = C.cache
      /\ Passed.output = C.output
  BY <1>1, <1>3 DEF CompilerNames
<1>5. Passed.output = FALSE
  BY <1>2 DEF Going, CompilerOK, ListOK
<1> QED BY <1>2, <1>4, <1>5

-----------------------------------------------------------------------------
(* The steps.                                                                *)

\* While it loads, or goes on to expand, the compiler stays clean.
LEMMA LoadsOn ==
  ASSUME IInv, CleanInv, In("load"), NEW d, DOMAIN d = CompilerNames, d.file = C.file,
         d.code = C.code, d.next = C.next, d.cache = C.cache, d.output = FALSE,
         ~HasError(d.list) =>
           /\ ~HasError(C.list) /\ d.docs # <<>> /\ d.docs[1].file = C.file
           /\ \A i \in 1..Len(d.docs) : ParsedClean(fs, d.docs[i].file)
           /\ d.phase = "load" /\ LoadClean(fs, d.docs, d.frames)
  PROVE  CleanC(fs, d)
<1>1. CleanC(fs, C) /\ C.phase = "load"
  BY Here
<1>2. ASSUME ~HasError(d.list) PROVE SeenClean(fs, d)
  <2>1. SeenClean(fs, C)
    BY <1>1, <1>2 DEF CleanC
  <2> QED BY <1>1, <1>2, <2>1 DEF SeenClean
<1> QED BY <1>1, <1>2 DEF CleanC

\* While it expands, so too.
LEMMA ExpandsOn ==
  ASSUME IInv, CleanInv, In("expand"), NEW d, DOMAIN d = CompilerNames, d.file = C.file,
         IsSeq(d.code), d.next = C.next, d.cache = C.cache, d.output = FALSE,
         ~HasError(d.list) =>
           /\ ~HasError(C.list) /\ d.docs = C.docs
           /\ d.phase \in {"expand", "eval"} /\ (d.phase = "eval" => d.frames = <<>>)
           /\ \E D : ExpandClean(fs, d.docs, d.code, d.frames, D)
  PROVE  CleanC(fs, d)
<1>1. CleanC(fs, C) /\ C.phase = "expand"
  BY Here
<1>2. ASSUME ~HasError(d.list) PROVE SeenClean(fs, d)
  <2>1. SeenClean(fs, C) /\ C.next = 1
    BY <1>1, <1>2 DEF CleanC, SeenClean
  <2>2. \A q \in DOMAIN d.code : ~(q < d.next)
    <3>1. DOMAIN d.code = 1..Len(d.code) /\ Len(d.code) \in Nat
      BY SeqType
    <3> QED BY <2>1, <3>1
  <2> QED BY <1>1, <1>2, <2>1, <2>2 DEF SeenClean
<1> QED BY <1>1, <1>2 DEF CleanC

\* A statement gone past in loading has its file registered if it is an #include.
LEMMA LoadPasses ==
  ASSUME IInv, CleanInv, In("load"), ~HasError(C.list), ~At("include")
  PROVE  /\ C.docs # <<>> /\ C.docs[1].file = C.file
         /\ \A i \in 1..Len(C.docs) : ParsedClean(fs, C.docs[i].file)
         /\ ~AtEnd => LoadClean(fs, C.docs, Onward(C.frames))
<1>1. SeenClean(fs, C) /\ C.phase = "load"
  BY Here
<1>2. LoadClean(fs, C.docs, C.frames)
  BY <1>1 DEF SeenClean
<1>3. ASSUME ~AtEnd PROVE LoadClean(fs, C.docs, Onward(C.frames))
  <2> DEFINE F == fs
             docs == C.docs
             frames == C.frames
             n == Len(C.docs)
             t == frames[Len(frames)]
  <2>1. /\ n \in Nat /\ frames \in Seq(Frames(n)) /\ frames # <<>>
        /\ \A j \in 1..Len(frames) : DOMAIN BodyOf(F, docs, frames[j].doc) \subseteq Nat
        /\ Top = t /\ Body = BodyOf(F, docs, t.doc)
    BY HereFrames
  <2>2. Registered(F, docs, t.doc, t.at)
    BY <1>3, <2>1 DEF At, Registered
  <2>3. LoadClean(F, docs, frames)
    BY <1>2
  <2> HIDE DEF F, docs, frames, n
  <2>4. LoadClean(F, docs, Onward(frames))
    BY <2>1, <2>2, <2>3, LoadAdvance
  <2> QED BY <2>4 DEF F, docs, frames
<1> QED BY <1>1, <1>3 DEF SeenClean

\* Loading past a statement with reports.
LEMMA LoadReports ==
  ASSUME IInv, CleanInv, In("load"), ~AtEnd, ~At("include"), NEW new \in Reports
  PROVE  CleanC(fs, Report(Passed, new)) /\ Report(Passed, new).file = C.file
<1> DEFINE r == Report(Passed, new)
<1>1. /\ DOMAIN r = CompilerNames /\ r.output = FALSE
      /\ r.file = C.file /\ r.docs = C.docs /\ r.frames = Onward(C.frames)
      /\ r.code = C.code /\ r.next = C.next /\ r.cache = C.cache
      /\ ~HasError(r.list) => r.phase = "load" /\ ~HasError(C.list)
  <2> DEFINE c == Passed
  <2>1. /\ Going(c, DOMAIN fs) /\ DOMAIN c = CompilerNames
        /\ c.file = C.file /\ c.docs = C.docs /\ c.frames = Onward(C.frames)
        /\ c.code = C.code /\ c.next = C.next /\ c.cache = C.cache
        /\ c.list = C.list /\ c.phase = C.phase
    BY HerePassed
  <2>2. C.phase = "load" /\ r = Report(c, new)
    BY Here
  <2> HIDE DEF c, r
  <2>3. Reported(c, new, r)
    BY <2>1, <2>2, ReportClean
  <2> QED BY <2>1, <2>2, <2>3 DEF Reported
<1> HIDE DEF r
<1>2. CleanC(fs, r)
  BY <1>1, LoadPasses, LoadsOn
<1> QED BY <1>1, <1>2 DEF r

\* What being clean does not depend on may change.
LEMMA SameClean ==
  ASSUME NEW F, NEW c, CleanC(F, c), NEW d, DOMAIN d = DOMAIN c, d.file = c.file,
         d.list = c.list, d.phase = c.phase, d.docs = c.docs, d.frames = c.frames,
         d.code = c.code, d.next = c.next, d.cache = c.cache, d.output = c.output
  PROVE  CleanC(F, d)
BY DEF CleanC, SeenClean

\* A request starts with nothing seen.
LEMMA NewClean ==
  ASSUME NEW F, NEW f, NEW max, NEW known
  PROVE  CleanC(F, NewCompiler(f, max, known))
<1> DEFINE c == NewCompiler(f, max, known)
<1>1. /\ DOMAIN c = CompilerNames /\ c.code = <<>> /\ c.next = 1 /\ c.phase = "open"
      /\ c.docs = <<>> /\ c.cache = <<>> /\ c.output = FALSE
  BY DEF NewCompiler, CompilerNames
<1> HIDE DEF c
<1>2. IsSeq(c.code)
  <2>1. <<>> \in Seq({})
    OBVIOUS
  <2> QED BY <1>1, <2>1 DEF IsSeq
<1>3. 1..Len(c.docs) = {} /\ DOMAIN c.cache = {}
  BY <1>1
<1>4. SeenClean(F, c)
  BY <1>1, <1>3 DEF SeenClean
<1> QED BY <1>1, <1>2, <1>4 DEF CleanC, c

\* A request.
LEMMA RequestClean ==
  ASSUME IInv, CleanInv, Request
  PROVE  CleanInv'
<1>1. PICK f \in DOMAIN fs, max \in Limits, known \in BOOLEAN :
        stack' = <<[NewCompiler(f, max, known) EXCEPT !.list = Reset(list)]>>
  BY DEF Request
<1> DEFINE c == NewCompiler(f, max, known)
           d == [c EXCEPT !.list = Reset(list)]
<1>2. CleanC(fs, c) /\ c.list = <<>>
  BY NewClean DEF NewCompiler
<1>3. d = c
  <2>1. "list" \in DOMAIN c /\ c = [x \in DOMAIN c |-> c[x]]
    BY DEF NewCompiler
  <2> HIDE DEF c
  <2>2. DOMAIN d = DOMAIN c /\ \A x \in DOMAIN c : d[x] = c[x]
    BY <1>2, <2>1 DEF Reset
  <2>3. d = [x \in DOMAIN d |-> d[x]]
    OBVIOUS
  <2> HIDE DEF d
  <2> QED BY <2>1, <2>2, <2>3
<1>4. stack' = <<d>> /\ fs' = fs /\ results' = results
  BY <1>1 DEF Request
<1> HIDE DEF c, d
<1>5. Len(stack') = 1 /\ stack'[1] = c
  BY <1>3, <1>4
<1>6. 1..Len(stack') - 1 = {} /\ 1..Len(stack') = {1}
  BY <1>5
<1> QED BY <1>2, <1>4, <1>5, <1>6 DEF CleanInv

\* The file is read.
LEMMA OpenClean ==
  ASSUME IInv, CleanInv, Open
  PROVE  CleanInv'
<1> DEFINE new == Parsed(C.file)
           c == Report(C, new)
           d == [c EXCEPT !.docs = <<Document(C.file)>>, !.frames = Start]
           e == [d EXCEPT !.phase = "load"]
           g == [d EXCEPT !.phase = "expand"]
           h == [c EXCEPT !.phase = "return"]
<1>1. /\ stack # <<>> /\ Going(C, DOMAIN fs) /\ C.phase = "open" /\ CleanC(fs, C)
      /\ new \in Reports /\ DOMAIN C = CompilerNames
      /\ ~HasError(C.list) => SeenClean(fs, C)
  <2>1. Going(C, DOMAIN fs)
    BY InOK DEF Open
  <2> QED BY <2>1, Here, ParsedOK DEF Open, IInv, CleanC
<1>2. IF HasError(new) THEN Becomes(h) ELSE IF C.known THEN Becomes(e)
      ELSE Becomes(Report(g, <<"error">>))
  BY DEF Open
<1>3. ~HasError(new) => ParsedClean(fs, C.file)
  BY OneReport DEF Parsed, ParsedClean
<1>4. Reported(C, new, c)
  <2> DEFINE x == C
  <2>1. Going(x, DOMAIN fs) /\ DOMAIN x = CompilerNames /\ new \in Reports /\ c = Report(x, new)
    BY <1>1
  <2> HIDE DEF x, new, c
  <2>2. Reported(x, new, c)
    BY <2>1, ReportClean
  <2> QED BY <2>2 DEF x
<1>5. HasError(new) => HasError(c.list)
  BY <1>1, ReportOK
<1>6. CompilerOK(c, DOMAIN fs)
  BY <1>1, ReportOK
<1> HIDE DEF c, new
<1>7. /\ DOMAIN h = CompilerNames /\ h.list = c.list /\ h.output = FALSE /\ h.file = C.file
      /\ h.code = C.code /\ h.next = C.next
  BY <1>4 DEF Reported, CompilerNames
<1>8. /\ DOMAIN e = CompilerNames /\ e.list = c.list /\ e.output = FALSE /\ e.file = C.file
      /\ e.code = C.code /\ e.next = C.next /\ e.cache = C.cache /\ e.phase = "load"
      /\ e.docs = <<Document(C.file)>> /\ e.frames = Start
  BY <1>4 DEF Reported, CompilerNames
<1>9. /\ DOMAIN g = CompilerNames /\ g.list = c.list /\ g.output = FALSE /\ g.file = C.file
      /\ g.code = C.code /\ g.next = C.next /\ g.max = c.max /\ g.phase = "expand"
      /\ g.docs = <<Document(C.file)>> /\ g.frames = Start
  BY <1>4 DEF Reported, CompilerNames
<1>10. IsSeq(C.code) /\ C.next \in Nat \ {0}
  BY <1>1 DEF CleanC
<1> DEFINE r == Report(g, <<"error">>)
<1> HIDE DEF h, e, g
<1>11. CASE HasError(new)
  <2>1. CleanC(fs, h)
    BY <1>5, <1>7, <1>10, <1>11 DEF CleanC
  <2> QED BY <1>1, <1>2, <1>7, <1>11, <2>1, BecomesClean
<1>12. CASE ~HasError(new) /\ C.known
  <2> DEFINE docs == <<Document(C.file)>>
  <2>1. Len(docs) = 1 /\ docs # <<>> /\ docs[1].file = C.file
    BY DEF Document
  <2>2. ParsedClean(fs, C.file) /\ C.file \in DOMAIN fs
    BY <1>3, <1>12 DEF ParsedClean
  <2>3. 1..Len(docs) = {1} /\ docs[1].file = C.file
    BY <2>1
  <2>4. DOMAIN BodyOf(fs, docs, 1) \subseteq Nat \ {0}
    <3>1. docs \in Seq(Docs(1, DOMAIN fs))
      <4>1. Document(C.file) \in Docs(1, DOMAIN fs)
        BY <2>2, MoreDocs
      <4> QED BY <4>1
    <3>2. 1 \in 1..Len(docs) /\ 1 \in Nat
      BY <2>3
    <3> HIDE DEF docs
    <3> QED BY <3>1, <3>2, Bodies DEF IInv
  <2> HIDE DEF docs
  <2>5. LoadClean(fs, docs, Start)
    <3>1. /\ Len(Start) = 1 /\ Start[1].doc = 1 /\ Start[1].at = 1
      BY DEF Start
    <3>2. 1..Len(Start) = {1}
      BY <3>1
    <3>3. \A k \in DOMAIN BodyOf(fs, docs, 1) : ~(k < 1)
      BY <2>4
    <3>4. Holds(Start[1], 1)
      BY <3>1 DEF Holds
    <3> QED BY <2>3, <3>1, <3>2, <3>3, <3>4 DEF LoadClean
  <2>6. ASSUME ~HasError(e.list) PROVE SeenClean(fs, e)
    <3>1. SeenClean(fs, C) /\ C.next = 1
      BY <1>1, <1>4, <1>8, <2>6 DEF Reported, SeenClean
    <3>2. e.docs = docs /\ e.phase = "load" /\ e.frames = Start /\ e.file = C.file
          /\ e.next = 1 /\ e.cache = C.cache
      BY <1>8, <3>1 DEF docs
    <3> QED BY <2>1, <2>2, <2>3, <2>5, <3>1, <3>2 DEF SeenClean
  <2>7. CleanC(fs, e)
    BY <1>8, <1>10, <2>6 DEF CleanC
  <2> QED BY <1>1, <1>2, <1>8, <1>12, <2>7, BecomesClean
<1>13. CASE ~HasError(new) /\ ~C.known
  <2> DEFINE l == Added(g.list, <<"error">>, g.max)
             p == IF TooMany(l, g.max) THEN "return" ELSE g.phase
  <2>1. c.list \in Reports /\ c.max \in Nat /\ ~(NumErrors(c.list) > c.max)
        /\ NumErrors(c.list) \in Nat
    <3>1. c.phase # "return"
      BY <1>1, <1>13, ReportKeeps DEF c, new
    <3> QED BY <1>6, <3>1, Finite DEF CompilerOK, ListOK
  <2>2. HasError(l)
    <3>1. g.list \in Reports /\ g.max \in Nat /\ NumErrors(g.list) <= g.max
      BY <1>9, <2>1
    <3> HIDE DEF l
    <3> QED BY <3>1, OneReport, AddedOK DEF l
  <2>3. r = [g EXCEPT !.list = l, !.phase = p]
    BY DEF Report
  <2> HIDE DEF l, p, r
  <2>4. /\ DOMAIN r = CompilerNames /\ r.list = l /\ r.output = FALSE /\ r.file = C.file
        /\ r.code = C.code /\ r.next = C.next
    BY <1>9, <2>3 DEF CompilerNames
  <2>5. CleanC(fs, r)
    BY <1>10, <2>2, <2>4 DEF CleanC
  <2>6. Becomes(r)
    BY <1>2, <1>13 DEF r
  <2> QED BY <1>1, <2>4, <2>5, <2>6, BecomesClean
<1> QED BY <1>11, <1>12, <1>13

\* Loading past what is no #include, without a report.
LEMMA LoadQuiet ==
  ASSUME IInv, CleanInv, In("load"), ~AtEnd, ~At("include")
  PROVE  CleanC(fs, Passed) /\ Passed.file = C.file
<1> DEFINE d == Passed
<1>1. /\ DOMAIN d = CompilerNames /\ d.file = C.file /\ d.docs = C.docs
      /\ d.frames = Onward(C.frames) /\ d.code = C.code /\ d.next = C.next /\ d.cache = C.cache
      /\ d.list = C.list /\ d.phase = C.phase /\ d.output = FALSE
  BY HerePassed
<1>2. C.phase = "load"
  BY Here
<1> HIDE DEF d
<1>3. CleanC(fs, d)
  BY <1>1, <1>2, LoadPasses, LoadsOn
<1> QED BY <1>1, <1>3 DEF d

\* A target.
LEMMA LoadTargetClean ==
  ASSUME IInv, CleanInv, LoadTarget
  PROVE  CleanInv'
<1> DEFINE new == (IF Len(C.frames) > 1 THEN <<"error">> ELSE <<>>)
                  \o (IF C.forkDefined THEN <<"error">> ELSE <<>>)
                  \o (IF St.known THEN <<>> ELSE <<"error">>)
           c == Report(Passed, new)
           d == [c EXCEPT !.known = St.known, !.forkDefined = TRUE]
<1>1. In("load") /\ stack # <<>> /\ ~AtEnd /\ ~At("include")
  BY TopOK DEF LoadTarget, At
<1>2. new \in Reports
  BY OneReport, NoReport, Concat
<1>3. Becomes(d)
  BY DEF LoadTarget
<1> HIDE DEF new
<1>4. CleanC(fs, c) /\ c.file = C.file
  BY <1>1, <1>2, LoadReports
<1> HIDE DEF c
<1>5. /\ DOMAIN d = DOMAIN c /\ d.file = c.file /\ d.list = c.list /\ d.phase = c.phase
      /\ d.docs = c.docs /\ d.frames = c.frames /\ d.code = c.code /\ d.next = c.next
      /\ d.cache = c.cache /\ d.output = c.output
  BY <1>4 DEF CleanC, CompilerNames
<1> HIDE DEF d
<1>6. CleanC(fs, d)
  BY <1>4, <1>5, SameClean
<1> QED BY <1>1, <1>3, <1>4, <1>5, <1>6, BecomesClean

\* A definition.
LEMMA LoadDefineClean ==
  ASSUME IInv, CleanInv, LoadDefine
  PROVE  CleanInv'
<1> DEFINE def == <<IF St.global THEN 0 ELSE Top.doc, St.name>>
           c == Passed
           d == [c EXCEPT !.defs = @ \cup {def}]
           r == Report(Passed, <<"error">>)
<1>1. In("load") /\ stack # <<>> /\ ~AtEnd /\ ~At("include")
  BY TopOK DEF LoadDefine, At
<1>2. CleanC(fs, r) /\ r.file = C.file
  BY <1>1, OneReport, LoadReports
<1>3. Becomes(r) \/ Becomes(d)
  BY DEF LoadDefine
<1>4. CleanC(fs, c) /\ c.file = C.file
  BY <1>1, LoadQuiet
<1> HIDE DEF c, def, r
<1>5. /\ DOMAIN d = DOMAIN c /\ d.file = c.file /\ d.list = c.list /\ d.phase = c.phase
      /\ d.docs = c.docs /\ d.frames = c.frames /\ d.code = c.code /\ d.next = c.next
      /\ d.cache = c.cache /\ d.output = c.output
  BY <1>4 DEF CleanC, CompilerNames
<1> HIDE DEF d
<1>6. CleanC(fs, d)
  BY <1>4, <1>5, SameClean
<1> QED BY <1>1, <1>2, <1>3, <1>4, <1>5, <1>6, BecomesClean

\* An opcode, or a call of assemble().
LEMMA LoadOtherClean ==
  ASSUME IInv, CleanInv, LoadOther
  PROVE  CleanInv'
<1>1. In("load") /\ stack # <<>> /\ ~AtEnd /\ ~At("include") /\ Becomes(Passed)
  BY TopOK DEF LoadOther, At
<1> QED BY <1>1, LoadQuiet, BecomesClean

\* The documents and frames of a compiler without errors that has loaded an #include.
LEMMA IncludingClean ==
  ASSUME IInv, CleanInv, In("load"), At("include"), ~HasError(C.list),
         ~HasError(Parsed(St.file)), NEW ds, NEW fr,
         ds = Including(C.docs, Top.doc, Top.at, St.file),
         fr = ToLoad(Onward(C.frames), Len(C.docs) + 1)
  PROVE  /\ ds # <<>> /\ ds[1].file = C.file
         /\ \A i \in 1..Len(ds) : ParsedClean(fs, ds[i].file)
         /\ LoadClean(fs, ds, fr)
<1> DEFINE F == fs
           files == DOMAIN fs
           docs == C.docs
           frames == C.frames
           n == Len(docs)
           t == frames[Len(frames)]
           f == St.file
<1>1. /\ n \in Nat /\ docs \in Seq(Docs(n, files)) /\ frames \in Seq(Frames(n)) /\ frames # <<>>
      /\ \A j \in 1..Len(frames) : DOMAIN BodyOf(F, docs, frames[j].doc) \subseteq Nat
      /\ Top = t /\ Body = BodyOf(F, docs, t.doc)
  BY HereFrames
<1>2. SeenClean(F, C) /\ C.phase = "load"
  BY Here
<1>3. /\ LoadClean(F, docs, frames) /\ docs # <<>> /\ docs[1].file = C.file
      /\ \A i \in 1..n : ParsedClean(F, docs[i].file)
  BY <1>2 DEF SeenClean
<1>4. ds = Including(docs, t.doc, t.at, f) /\ fr = ToLoad(Onward(frames), n + 1)
      /\ BodyOf(F, docs, t.doc)[t.at].file = f
  BY <1>1 DEF St
<1>5. ParsedClean(F, f)
  BY OneReport DEF Parsed, ParsedClean
<1>6. t.doc \in 1..n
  <2>1. t \in Frames(n)
    BY <1>1, TopOK
  <2> HIDE DEF t, n
  <2> QED BY <2>1 DEF Frames
<1> HIDE DEF F, files, docs, frames, n, f
<1>7. n = Len(docs)
  BY DEF n
<1>8. LoadClean(F, ds, fr)
  BY <1>1, <1>3, <1>4, <1>7, LoadGrow
<1>9. Grown(docs, ds, n, t.doc, t.at, f)
  BY <1>1, <1>4, <1>6, <1>7, Registering
<1>10. /\ Len(ds) = n + 1 /\ ds[n + 1].file = f
       /\ \A i \in 1..n : ds[i].file = docs[i].file
  <2> HIDE DEF t
  <2> QED BY <1>1, <1>9, GrownFiles
<1>11. 1 \in 1..n
  BY <1>1, <1>6
<1>12. ds # <<>> /\ ds[1].file = C.file
  <2>1. ds # <<>>
    <3>1. Len(ds) # 0
      BY <1>1, <1>10
    <3> QED BY <3>1
  <2> QED BY <1>3, <1>10, <1>11, <2>1
<1>13. ASSUME NEW i \in 1..Len(ds) PROVE ParsedClean(F, ds[i].file)
  <2>1. i \in 1..n \/ i = n + 1
    BY <1>1, <1>10
  <2> QED BY <1>3, <1>5, <1>10, <2>1
<1> QED BY <1>8, <1>12, <1>13 DEF F

\* An #include.
LEMMA LoadIncludeClean ==
  ASSUME IInv, CleanInv, LoadInclude
  PROVE  CleanInv'
<1> DEFINE new == IF DepthReached(Len(C.frames)) THEN <<"error">> ELSE Parsed(St.file)
           p == Passed
           c == Report(p, new)
           ds == Including(c.docs, Top.doc, Top.at, St.file)
           fr == ToLoad(c.frames, Len(C.docs) + 1)
           d == [c EXCEPT !.docs = ds, !.frames = fr]
<1>1. In("load") /\ stack # <<>> /\ C.phase = "load" /\ At("include")
  BY TopOK, InOK DEF LoadInclude
<1>2. new \in Reports
  BY OneReport, ParsedOK DEF IInv
<1>3. /\ HasError(new) => Becomes(c)
      /\ ~HasError(new) => Becomes(d)
  BY DEF LoadInclude
<1>4. ~HasError(new) => ~HasError(Parsed(St.file))
  BY OneReport
<1>5. /\ Going(p, DOMAIN fs) /\ DOMAIN p = CompilerNames
      /\ p.file = C.file /\ p.docs = C.docs /\ p.frames = Onward(C.frames)
      /\ p.code = C.code /\ p.next = C.next /\ p.cache = C.cache
      /\ p.list = C.list /\ p.phase = C.phase
  BY <1>1, HerePassed
<1> HIDE DEF p, new
<1>6. Reported(p, new, c) /\ (HasError(new) => HasError(c.list))
  <2>1. HasError(new) => HasError(c.list)
    BY <1>2, <1>5, ReportOK
  <2>2. c = Report(p, new)
    OBVIOUS
  <2> HIDE DEF c
  <2> QED BY <1>2, <1>5, <2>1, <2>2, ReportClean
<1> HIDE DEF c
<1>7. /\ DOMAIN c = CompilerNames /\ c.file = C.file /\ c.docs = C.docs
      /\ c.frames = Onward(C.frames) /\ c.code = C.code /\ c.next = C.next
      /\ c.cache = C.cache /\ c.output = FALSE
      /\ ~HasError(c.list) => c.phase = "load" /\ ~HasError(C.list)
  BY <1>1, <1>5, <1>6 DEF Reported
<1>8. CASE HasError(new)
  <2>1. CleanC(fs, c)
    BY <1>1, <1>6, <1>7, <1>8, LoadsOn
  <2> QED BY <1>1, <1>3, <1>7, <1>8, <2>1, BecomesClean
<1>9. CASE ~HasError(new)
  <2>1. ds = Including(C.docs, Top.doc, Top.at, St.file)
        /\ fr = ToLoad(Onward(C.frames), Len(C.docs) + 1)
    BY <1>7
  <2> HIDE DEF ds, fr
  <2>2. /\ DOMAIN d = CompilerNames /\ d.file = C.file /\ d.docs = ds
        /\ d.frames = fr /\ d.code = C.code /\ d.next = C.next /\ d.list = c.list
        /\ d.cache = C.cache /\ d.output = FALSE /\ d.phase = c.phase
    BY <1>7 DEF CompilerNames
  <2> HIDE DEF d
  <2>3. ASSUME ~HasError(C.list)
        PROVE  /\ ds # <<>> /\ ds[1].file = C.file
               /\ \A i \in 1..Len(ds) : ParsedClean(fs, ds[i].file)
               /\ LoadClean(fs, ds, fr)
    BY <1>1, <1>4, <1>9, <2>1, <2>3, IncludingClean
  <2>4. CleanC(fs, d)
    BY <1>1, <1>7, <2>2, <2>3, LoadsOn
  <2> QED BY <1>1, <1>3, <1>9, <2>2, <2>4, BecomesClean
<1> QED BY <1>8, <1>9

\* The next included document.
LEMMA LoadNestedClean ==
  ASSUME IInv, CleanInv, LoadNested
  PROVE  CleanInv'
<1> DEFINE new == Append([C.frames EXCEPT ![Len(C.frames)].todo = Tail(@)],
                         [doc |-> Head(Top.todo), at |-> 1, todo |-> <<>>])
           d == [C EXCEPT !.frames = new]
<1>1. In("load") /\ stack # <<>> /\ C.phase = "load" /\ Top.todo # <<>> /\ Becomes(d)
  BY TopOK, InOK DEF LoadNested
<1>2. CleanC(fs, C) /\ CompilerOK(C, DOMAIN fs)
  BY <1>1, Here
<1>3. ASSUME ~HasError(C.list) PROVE SeenClean(fs, C) /\ LoadClean(fs, C.docs, new)
  <2>1. SeenClean(fs, C)
    BY <1>1, <1>3, Here
  <2> DEFINE F == fs
             docs == C.docs
             frames == C.frames
             n == Len(docs)
             t == frames[Len(frames)]
  <2>2. /\ n \in Nat /\ frames \in Seq(Frames(n)) /\ frames # <<>>
        /\ \A i \in 1..n : DOMAIN BodyOf(F, docs, i) \subseteq Nat \ {0}
        /\ Top = t
    BY <1>1, HereFrames
  <2>3. LoadClean(F, docs, frames) /\ t.todo # <<>>
    BY <1>1, <2>1, <2>2 DEF SeenClean
  <2>4. Head(t.todo) \in 1..n
    <3>1. t \in Frames(n)
      BY <1>1, <2>2, TopOK
    <3> HIDE DEF t, n
    <3>2. t.todo \in Seq(1..n)
      BY <3>1 DEF Frames
    <3> DEFINE q == t.todo
               S == 1..n
    <3>3. q \in Seq(S) /\ q # <<>>
      BY <2>3, <3>2
    <3> HIDE DEF q, S
    <3>4. Head(q) \in S
      BY <3>3
    <3> QED BY <3>4 DEF q, S
  <2>5. new = Append([frames EXCEPT ![Len(frames)].todo = Tail(@)],
                     [doc |-> Head(frames[Len(frames)].todo), at |-> 1, todo |-> <<>>])
    BY <2>2
  <2>6. DOMAIN BodyOf(F, docs, Head(t.todo)) \subseteq Nat \ {0}
    BY <2>2, <2>4
  <2> HIDE DEF F, docs, frames, n, new
  <2>7. LoadClean(F, docs, new)
    BY <2>2, <2>3, <2>5, <2>6, LoadPush
  <2> QED BY <2>1, <2>7 DEF F, docs
<1> HIDE DEF new
<1>4. /\ DOMAIN d = CompilerNames /\ d.file = C.file /\ d.docs = C.docs
      /\ d.frames = new /\ d.code = C.code /\ d.next = C.next /\ d.list = C.list
      /\ d.cache = C.cache /\ d.output = C.output /\ d.phase = "load"
  BY <1>1, <1>2 DEF CompilerNames, CleanC
<1> HIDE DEF d
<1>5. d.output = FALSE
  BY <1>1, <1>2, <1>4 DEF CompilerOK, ListOK
<1>6. ASSUME ~HasError(C.list)
      PROVE  /\ C.docs # <<>> /\ C.docs[1].file = C.file
             /\ \A i \in 1..Len(C.docs) : ParsedClean(fs, C.docs[i].file)
             /\ LoadClean(fs, C.docs, new)
  BY <1>1, <1>3, <1>6 DEF SeenClean
<1>7. CleanC(fs, d)
  BY <1>1, <1>4, <1>5, <1>6, LoadsOn
<1> QED BY <1>1, <1>4, <1>7, BecomesClean

\* Nothing is expanded at first.
LEMMA StartClean ==
  ASSUME NEW F, NEW docs, NEW code, DOMAIN BodyOf(F, docs, 1) \subseteq Nat \ {0}
  PROVE  ExpandClean(F, docs, code, Start, {})
<1>1. /\ Len(Start) = 1 /\ Start[1].doc = 1 /\ Start[1].at = 1
  BY DEF Start
<1>2. 1..Len(Start) = {1} /\ (0 + 1)..Len(Start) = {1}
  BY <1>1
<1>3. \A k \in DOMAIN BodyOf(F, docs, 1) : ~(k < 1)
  OBVIOUS
<1>4. 1 \in Above(Start, 0)
  BY <1>1, <1>2 DEF Above
<1> QED BY <1>1, <1>2, <1>3, <1>4 DEF ExpandClean

\* The end of a document.
LEMMA LoadDoneClean ==
  ASSUME IInv, CleanInv, LoadDone
  PROVE  CleanInv'
<1> DEFINE rest == SubSeq(C.frames, 1, Len(C.frames) - 1)
           d == [C EXCEPT !.frames = rest]
           e == [C EXCEPT !.phase = "expand", !.frames = Start]
<1>1. In("load") /\ stack # <<>> /\ C.phase = "load" /\ AtEnd /\ Top.todo = <<>>
  BY TopOK, InOK DEF LoadDone
<1>2. IF rest # <<>> THEN Becomes(d) ELSE Becomes(e)
  BY DEF LoadDone
<1>3. CleanC(fs, C) /\ CompilerOK(C, DOMAIN fs)
  BY <1>1, Here
<1>4. ASSUME ~HasError(C.list)
      PROVE  /\ SeenClean(fs, C) /\ LoadClean(fs, C.docs, rest)
             /\ rest = <<>> => \A i \in 1..Len(C.docs) : AllRegistered(fs, C.docs, i)
  <2>1. SeenClean(fs, C)
    BY <1>1, <1>4, Here
  <2> DEFINE F == fs
             docs == C.docs
             frames == C.frames
             n == Len(docs)
             t == frames[Len(frames)]
  <2>2. /\ n \in Nat /\ frames \in Seq(Frames(n)) /\ frames # <<>>
        /\ Top = t /\ Body = BodyOf(F, docs, t.doc)
    BY <1>1, HereFrames
  <2>3. LoadClean(F, docs, frames) /\ t.todo = <<>>
    BY <1>1, <2>1, <2>2 DEF SeenClean
  <2>4. \A k \in DOMAIN BodyOf(F, docs, t.doc) : k < t.at
    <3>1. Body \in Seq({Body[k] : k \in DOMAIN Body}) /\ Top \in Frames(n)
      BY <1>1, TopOK
    <3>2. DOMAIN Body = 1..Len(Body) /\ Len(Body) \in Nat
      BY <3>1
    <3>3. Top.at \in Nat /\ Top.at > Len(Body)
      <4> DEFINE top == Top
      <4> HIDE DEF top, n
      <4>1. top.at \in Nat
        BY <3>1 DEF Frames, top
      <4> QED BY <1>1, <4>1 DEF AtEnd, top
    <3>4. \A k \in DOMAIN Body : k < Top.at
      BY <3>2, <3>3
    <3> QED BY <2>2, <3>4
  <2> HIDE DEF F, docs, frames, n
  <2>5. /\ LoadClean(F, docs, rest)
        /\ rest = <<>> => \A i \in 1..Len(docs) : AllRegistered(F, docs, i)
    <3>1. rest = SubSeq(frames, 1, Len(frames) - 1)
      BY DEF frames
    <3> HIDE DEF rest
    <3> QED BY <2>2, <2>3, <2>4, <3>1, LoadPop
  <2> QED BY <2>1, <2>5 DEF F, docs
<1> HIDE DEF rest
<1>5. /\ DOMAIN d = CompilerNames /\ d.file = C.file /\ d.docs = C.docs
      /\ d.frames = rest /\ d.code = C.code /\ d.next = C.next /\ d.list = C.list
      /\ d.cache = C.cache /\ d.output = C.output /\ d.phase = "load"
  BY <1>1, <1>3 DEF CompilerNames, CleanC
<1>6. /\ DOMAIN e = CompilerNames /\ e.file = C.file /\ e.docs = C.docs
      /\ e.frames = Start /\ e.code = C.code /\ e.next = C.next /\ e.list = C.list
      /\ e.cache = C.cache /\ e.output = C.output /\ e.phase = "expand"
  BY <1>1, <1>3 DEF CompilerNames, CleanC
<1> HIDE DEF d, e
<1>7. C.output = FALSE
  BY <1>1, <1>3 DEF CompilerOK, ListOK
<1>8. CASE rest # <<>>
  <2>1. ASSUME ~HasError(C.list)
        PROVE  /\ C.docs # <<>> /\ C.docs[1].file = C.file
               /\ \A i \in 1..Len(C.docs) : ParsedClean(fs, C.docs[i].file)
               /\ LoadClean(fs, C.docs, rest)
    BY <1>1, <1>4, <2>1 DEF SeenClean
  <2>2. CleanC(fs, d)
    BY <1>1, <1>5, <1>7, <2>1, LoadsOn
  <2> QED BY <1>1, <1>2, <1>5, <1>8, <2>2, BecomesClean
<1>9. CASE rest = <<>>
  <2>1. ASSUME ~HasError(C.list) PROVE SeenClean(fs, e)
    <3>1. /\ SeenClean(fs, C) /\ \A i \in 1..Len(C.docs) : AllRegistered(fs, C.docs, i)
      BY <1>4, <1>9, <2>1
    <3>2. DOMAIN BodyOf(fs, C.docs, 1) \subseteq Nat \ {0}
      <4> DEFINE n == Len(C.docs)
      <4>1. n \in Nat /\ C.frames # <<>> /\ C.frames \in Seq(Frames(n)) /\ Top.doc \in 1..n
        BY <1>1, HereFrames, TopOK DEF Frames
      <4>2. 1 \in 1..n
        BY <4>1
      <4> QED BY <1>1, <4>2, HereFrames
    <3>3. ExpandClean(fs, C.docs, C.code, Start, {})
      BY <3>2, StartClean
    <3> QED BY <1>1, <1>6, <3>1, <3>3 DEF SeenClean
  <2>2. CleanC(fs, e)
    BY <1>3, <1>6, <1>7, <2>1 DEF CleanC
  <2> QED BY <1>1, <1>2, <1>6, <1>9, <2>2, BecomesClean
<1> QED BY <1>8, <1>9

\* Expansion goes past a statement that it is done with.
LEMMA ExpandPasses ==
  ASSUME IInv, CleanInv, In("expand"), ~AtEnd, ~HasError(C.list), NEW more,
         \A q \in DOMAIN C.code : q \in DOMAIN more /\ more[q] = C.code[q],
         \A D : Seen(fs, C.docs, more, Top.doc, Top.at, D)
  PROVE  \E D : ExpandClean(fs, C.docs, more, Onward(C.frames), D)
<1>1. SeenClean(fs, C) /\ C.phase = "expand"
  BY Here
<1> DEFINE F == fs
           docs == C.docs
           frames == C.frames
           n == Len(docs)
           code == C.code
<1>2. PICK D : ExpandClean(F, docs, code, frames, D)
  BY <1>1 DEF SeenClean
<1>3. /\ n \in Nat /\ frames \in Seq(Frames(n)) /\ frames # <<>> /\ Top = frames[Len(frames)]
      /\ \A j \in 1..Len(frames) : DOMAIN BodyOf(F, docs, frames[j].doc) \subseteq Nat
  BY HereFrames
<1>4. Seen(F, docs, more, Top.doc, Top.at, D)
  OBVIOUS
<1>5. \A q \in DOMAIN code : q \in DOMAIN more /\ more[q] = code[q]
  OBVIOUS
<1> HIDE DEF F, docs, frames, n, code
<1>6. ExpandClean(F, docs, more, Onward(frames), D)
  BY <1>2, <1>3, <1>4, <1>5, ExpandAdvance
<1> QED BY <1>6 DEF F, docs, frames

\* The statement at which a compiler is.
LEMMA HereSeen ==
  ASSUME IInv, In("expand"), ~AtEnd, NEW more, NEW D,
         St.is = "op" => ~HasError(St.report),
         St.is = "assemble" => \E q \in DOMAIN more : more[q] = <<Top.doc, St.file>>,
         St.is = "include" => C.docs[Top.doc].includes[Top.at] \in D
  PROVE  Seen(fs, C.docs, more, Top.doc, Top.at, D)
<1>1. BodyOf(fs, C.docs, Top.doc)[Top.at] = St
  BY HereFrames DEF St
<1> QED BY <1>1 DEF Seen

\* An opcode.
LEMMA ExpandOpClean ==
  ASSUME IInv, CleanInv, ExpandOp
  PROVE  CleanInv'
<1>1. In("expand") /\ At("op") /\ ~AtEnd /\ stack # <<>> /\ C.phase = "expand"
  BY TopOK, InOK DEF ExpandOp, At
<1>2. CASE C.known
  <2> DEFINE new == St.report
             p == Passed
             r == Report(p, new)
  <2>1. new \in Reports
    BY <1>1, TopOK DEF At, St
  <2>2. Becomes(r)
    BY <1>2 DEF ExpandOp
  <2>3. /\ Going(p, DOMAIN fs) /\ DOMAIN p = CompilerNames
        /\ p.file = C.file /\ p.docs = C.docs /\ p.frames = Onward(C.frames)
        /\ p.code = C.code /\ p.next = C.next /\ p.cache = C.cache
        /\ p.list = C.list /\ p.phase = C.phase
    BY <1>1, HerePassed
  <2> HIDE DEF p, new
  <2>4. Reported(p, new, r)
    <3>1. r = Report(p, new)
      OBVIOUS
    <3> HIDE DEF r
    <3> QED BY <2>1, <2>3, <3>1, ReportClean
  <2> HIDE DEF r
  <2>5. /\ DOMAIN r = CompilerNames /\ r.file = C.file /\ r.docs = C.docs
        /\ r.frames = Onward(C.frames) /\ r.code = C.code /\ r.next = C.next
        /\ r.cache = C.cache /\ r.output = FALSE
        /\ ~HasError(r.list) => r.phase = "expand" /\ ~HasError(C.list) /\ ~HasError(new)
    BY <1>1, <2>3, <2>4 DEF Reported
  <2>6. ASSUME ~HasError(r.list)
        PROVE  \E D : ExpandClean(fs, C.docs, C.code, Onward(C.frames), D)
    <3>1. St.is = "op" /\ ~HasError(St.report)
      BY <1>1, <2>5, <2>6 DEF At, St, new
    <3>2. \A D : Seen(fs, C.docs, C.code, Top.doc, Top.at, D)
      BY <1>1, <3>1, HereSeen
    <3> QED BY <1>1, <2>5, <2>6, <3>2, ExpandPasses
  <2>7. IsSeq(C.code)
    BY <1>1, Here DEF CleanC
  <2>8. CleanC(fs, r)
    BY <1>1, <2>5, <2>6, <2>7, ExpandsOn
  <2> QED BY <1>1, <2>2, <2>5, <2>8, BecomesClean
<1>3. CASE ~C.known
  BY <1>3 DEF ExpandOp, Crash, CleanInv
<1> QED BY <1>2, <1>3

\* An #include.
LEMMA ExpandIncludeClean ==
  ASSUME IInv, CleanInv, ExpandInclude
  PROVE  CleanInv'
<1> DEFINE inc == C.docs[Top.doc].includes
           x == [doc |-> inc[Top.at], at |-> 1, todo |-> <<>>]
           d == [C EXCEPT !.frames = Append(Advanced, x)]
<1>1. In("expand") /\ At("include") /\ ~AtEnd /\ stack # <<>> /\ C.phase = "expand"
  BY TopOK, InOK DEF ExpandInclude, At
<1>2. /\ Top.at \notin DOMAIN inc => Becomes(Passed)
      /\ Top.at \in DOMAIN inc => Becomes(d)
  BY DEF ExpandInclude
<1>3. CleanC(fs, C) /\ CompilerOK(C, DOMAIN fs) /\ IsSeq(C.code) /\ C.output = FALSE
  <2>1. CleanC(fs, C) /\ CompilerOK(C, DOMAIN fs)
    BY <1>1, Here
  <2> QED BY <1>1, <2>1 DEF CleanC, CompilerOK, ListOK
<1>4. ASSUME ~HasError(C.list)
      PROVE  /\ Top.at \in DOMAIN inc /\ inc[Top.at] \in 1..Len(C.docs)
  <2>1. SeenClean(fs, C)
    BY <1>1, <1>4, Here
  <2>2. Top.doc \in 1..Len(C.docs)
    <3> DEFINE t == Top
               n == Len(C.docs)
    <3>1. t \in Frames(n)
      BY <1>1, TopOK
    <3> HIDE DEF t, n
    <3>2. t.doc \in 1..n
      BY <3>1 DEF Frames
    <3> QED BY <3>2 DEF t, n
  <2>3. AllRegistered(fs, C.docs, Top.doc)
    BY <1>1, <2>1, <2>2 DEF SeenClean
  <2>4. Top.at \in DOMAIN BodyOf(fs, C.docs, Top.doc)
        /\ BodyOf(fs, C.docs, Top.doc)[Top.at].is = "include"
    BY <1>1, HereFrames, TopOK DEF At
  <2> QED BY <2>3, <2>4 DEF AllRegistered, Registered
<1>5. CASE Top.at \notin DOMAIN inc
  <2> DEFINE p == Passed
  <2>1. /\ DOMAIN p = CompilerNames
        /\ p.file = C.file /\ p.docs = C.docs /\ p.code = C.code /\ p.next = C.next
        /\ p.cache = C.cache /\ p.list = C.list /\ p.output = FALSE
    BY <1>1, HerePassed
  <2> HIDE DEF p
  <2>2. CleanC(fs, p)
    BY <1>1, <1>3, <1>4, <1>5, <2>1, ExpandsOn
  <2> QED BY <1>1, <1>2, <1>5, <2>1, <2>2, BecomesClean DEF p
<1>6. CASE Top.at \in DOMAIN inc
  <2> DEFINE new == Append(Advanced, x)
  <2>1. ASSUME ~HasError(C.list)
        PROVE  \E D : ExpandClean(fs, C.docs, C.code, new, D)
    <3>1. SeenClean(fs, C)
      BY <1>1, <2>1, Here
    <3> DEFINE F == fs
               docs == C.docs
               frames == C.frames
               n == Len(docs)
               code == C.code
               t == Top
               e == inc[Top.at]
    <3>2. PICK D : ExpandClean(F, docs, code, frames, D)
      BY <1>1, <3>1 DEF SeenClean
    <3>3. /\ n \in Nat /\ frames \in Seq(Frames(n)) /\ frames # <<>> /\ t = frames[Len(frames)]
          /\ \A j \in 1..Len(frames) : DOMAIN BodyOf(F, docs, frames[j].doc) \subseteq Nat
          /\ \A j \in 1..n : DOMAIN BodyOf(F, docs, j) \subseteq Nat \ {0}
          /\ BodyOf(F, docs, t.doc)[t.at].is = "include"
      BY <1>1, HereFrames DEF At
    <3>4. e \in 1..n /\ docs[t.doc].includes[t.at] = e
      BY <1>4, <2>1
    <3>5. new = Append(Onward(frames), [doc |-> e, at |-> 1, todo |-> <<>>])
      BY DEF Advanced, Onward
    <3>6. DOMAIN BodyOf(F, docs, e) \subseteq Nat \ {0}
      BY <3>3, <3>4
    <3> HIDE DEF F, docs, frames, n, code, t, e, new
    <3>7. ExpandClean(F, docs, code, new, D)
      BY <3>2, <3>3, <3>4, <3>5, <3>6, ExpandPush
    <3> QED BY <3>7 DEF F, docs, code
  <2> HIDE DEF new
  <2>2. /\ DOMAIN d = CompilerNames /\ d.file = C.file /\ d.docs = C.docs
        /\ d.frames = new /\ d.code = C.code /\ d.next = C.next /\ d.list = C.list
        /\ d.cache = C.cache /\ d.output = FALSE /\ d.phase = "expand"
    BY <1>1, <1>3 DEF CompilerNames, CleanC, new
  <2> HIDE DEF d
  <2>3. CleanC(fs, d)
    BY <1>1, <1>3, <2>1, <2>2, ExpandsOn
  <2> QED BY <1>1, <1>2, <1>6, <2>2, <2>3, BecomesClean
<1> QED BY <1>5, <1>6

\* A call of assemble().
LEMMA ExpandAssembleClean ==
  ASSUME IInv, CleanInv, ExpandAssemble
  PROVE  CleanInv'
<1> DEFINE p == Passed
           x == <<Top.doc, St.file>>
           more == Append(p.code, x)
           d == [p EXCEPT !.code = more]
<1>1. /\ In("expand") /\ At("assemble") /\ ~AtEnd /\ stack # <<>> /\ C.phase = "expand"
      /\ Becomes(d)
  BY TopOK, InOK DEF ExpandAssemble, At
<1>2. /\ DOMAIN p = CompilerNames
      /\ p.file = C.file /\ p.docs = C.docs /\ p.frames = Onward(C.frames)
      /\ p.code = C.code /\ p.next = C.next /\ p.cache = C.cache
      /\ p.list = C.list /\ p.phase = C.phase /\ p.output = FALSE
  BY <1>1, HerePassed
<1>3. IsSeq(C.code)
  BY <1>1, Here DEF CleanC
<1> HIDE DEF p, x
<1>4. /\ IsSeq(more) /\ Len(more) = Len(C.code) + 1 /\ more[Len(C.code) + 1] = x
      /\ \A q \in 1..Len(C.code) : more[q] = C.code[q]
  BY <1>2, <1>3, AppendSeq
<1> HIDE DEF more
<1>5. /\ \A q \in DOMAIN C.code : q \in DOMAIN more /\ more[q] = C.code[q]
      /\ Len(C.code) + 1 \in DOMAIN more
  BY <1>3, <1>4, SeqType
<1>6. /\ DOMAIN d = CompilerNames /\ d.file = C.file /\ d.docs = C.docs
      /\ d.frames = Onward(C.frames) /\ d.code = more /\ d.next = C.next
      /\ d.cache = C.cache /\ d.list = C.list /\ d.phase = "expand" /\ d.output = FALSE
  BY <1>1, <1>2 DEF CompilerNames
<1> HIDE DEF d
<1>7. ASSUME ~HasError(C.list)
      PROVE  \E D : ExpandClean(fs, C.docs, more, Onward(C.frames), D)
  <2>1. St.is = "assemble"
    BY <1>1 DEF At, St
  <2>2. \A D : Seen(fs, C.docs, more, Top.doc, Top.at, D)
    BY <1>1, <1>4, <1>5, <2>1, HereSeen DEF x
  <2> QED BY <1>1, <1>5, <1>7, <2>2, ExpandPasses
<1>8. CleanC(fs, d)
  BY <1>1, <1>4, <1>6, <1>7, ExpandsOn
<1> QED BY <1>1, <1>6, <1>8, BecomesClean

\* A directive that loading has dealt with.
LEMMA ExpandNothingClean ==
  ASSUME IInv, CleanInv, ExpandNothing
  PROVE  CleanInv'
<1> DEFINE p == Passed
<1>1. /\ In("expand") /\ (At("target") \/ At("define")) /\ ~AtEnd /\ stack # <<>>
      /\ C.phase = "expand" /\ Becomes(p)
  BY TopOK, InOK DEF ExpandNothing, At
<1>2. /\ DOMAIN p = CompilerNames
      /\ p.file = C.file /\ p.docs = C.docs /\ p.frames = Onward(C.frames)
      /\ p.code = C.code /\ p.next = C.next /\ p.cache = C.cache
      /\ p.list = C.list /\ p.phase = C.phase /\ p.output = FALSE
  BY <1>1, HerePassed
<1> HIDE DEF p
<1>3. IsSeq(C.code)
  BY <1>1, Here DEF CleanC
<1>4. ASSUME ~HasError(C.list)
      PROVE  \E D : ExpandClean(fs, C.docs, C.code, Onward(C.frames), D)
  <2>1. St.is \in {"target", "define"}
    BY <1>1 DEF At, St
  <2>2. \A D : Seen(fs, C.docs, C.code, Top.doc, Top.at, D)
    BY <1>1, <2>1, HereSeen
  <2> QED BY <1>1, <1>4, <2>2, ExpandPasses
<1>5. CleanC(fs, p)
  BY <1>1, <1>2, <1>3, <1>4, ExpandsOn
<1> QED BY <1>1, <1>2, <1>5, BecomesClean

\* The end of a document.
LEMMA ExpandLeaveClean ==
  ASSUME IInv, CleanInv, ExpandLeave
  PROVE  CleanInv'
<1> DEFINE rest == SubSeq(C.frames, 1, Len(C.frames) - 1)
           d == [C EXCEPT !.frames = rest, !.phase = IF rest = <<>> THEN "eval" ELSE @]
<1>1. In("expand") /\ AtEnd /\ stack # <<>> /\ C.phase = "expand" /\ Becomes(d)
  BY TopOK, InOK DEF ExpandLeave
<1>2. CleanC(fs, C) /\ CompilerOK(C, DOMAIN fs) /\ IsSeq(C.code) /\ C.output = FALSE
  <2>1. CleanC(fs, C) /\ CompilerOK(C, DOMAIN fs)
    BY <1>1, Here
  <2> QED BY <1>1, <2>1 DEF CleanC, CompilerOK, ListOK
<1>3. ASSUME ~HasError(C.list)
      PROVE  \E D : ExpandClean(fs, C.docs, C.code, rest, D)
  <2>1. SeenClean(fs, C)
    BY <1>1, <1>3, Here
  <2> DEFINE F == fs
             docs == C.docs
             frames == C.frames
             n == Len(docs)
             code == C.code
             t == Top
  <2>2. PICK D : ExpandClean(F, docs, code, frames, D)
    BY <1>1, <2>1 DEF SeenClean
  <2>3. /\ n \in Nat /\ frames \in Seq(Frames(n)) /\ frames # <<>> /\ t = frames[Len(frames)]
        /\ Body = BodyOf(F, docs, t.doc)
    BY <1>1, HereFrames
  <2>4. \A k \in DOMAIN BodyOf(F, docs, t.doc) : k < t.at
    <3>1. Body \in Seq({Body[k] : k \in DOMAIN Body}) /\ t \in Frames(n)
      BY <1>1, TopOK
    <3>2. DOMAIN Body = 1..Len(Body) /\ Len(Body) \in Nat
      BY <3>1
    <3>3. t.at > Len(Body)
      BY <1>1 DEF AtEnd
    <3> HIDE DEF t, n, F, docs
    <3>4. t.at \in Nat
      BY <3>1 DEF Frames
    <3>5. \A k \in DOMAIN Body : k < t.at
      BY <3>2, <3>3, <3>4
    <3> QED BY <2>3, <3>5
  <2>5. rest = SubSeq(frames, 1, Len(frames) - 1) /\ n = Len(docs)
    OBVIOUS
  <2> HIDE DEF F, docs, frames, n, code, t, rest
  <2>6. ExpandClean(F, docs, code, rest, D \cup {t.doc})
    BY <2>2, <2>3, <2>4, <2>5, ExpandPop
  <2> QED BY <2>6 DEF F, docs, code
<1> HIDE DEF rest
<1>4. /\ DOMAIN d = CompilerNames /\ d.file = C.file /\ d.docs = C.docs
      /\ d.frames = rest /\ d.code = C.code /\ d.next = C.next /\ d.list = C.list
      /\ d.cache = C.cache /\ d.output = FALSE
      /\ d.phase = IF rest = <<>> THEN "eval" ELSE "expand"
  BY <1>1, <1>2 DEF CompilerNames, CleanC
<1> HIDE DEF d
<1>5. CleanC(fs, d)
  BY <1>1, <1>2, <1>3, <1>4, ExpandsOn
<1> QED BY <1>1, <1>4, <1>5, BecomesClean

\* A call that was evaluated before.
LEMMA EvalCachedClean ==
  ASSUME IInv, CleanInv, EvalCached
  PROVE  CleanInv'
<1> DEFINE d == [C EXCEPT !.next = @ + 1]
<1>1. /\ In("eval") /\ stack # <<>> /\ C.phase = "eval" /\ Becomes(d)
      /\ C.code[C.next] \in DOMAIN C.cache
  BY InOK DEF EvalCached
<1>2. CleanC(fs, C) /\ CompilerOK(C, DOMAIN fs) /\ C.output = FALSE
  <2>1. CleanC(fs, C) /\ CompilerOK(C, DOMAIN fs)
    BY <1>1, Here
  <2> QED BY <1>1, <2>1 DEF CompilerOK, ListOK
<1>3. C.next \in Nat \ {0} /\ IsSeq(C.code)
  BY <1>2 DEF CleanC
<1>4. /\ DOMAIN d = CompilerNames /\ d.file = C.file /\ d.docs = C.docs
      /\ d.frames = C.frames /\ d.code = C.code /\ d.next = C.next + 1 /\ d.list = C.list
      /\ d.cache = C.cache /\ d.output = FALSE /\ d.phase = "eval"
  BY <1>1, <1>2 DEF CompilerNames, CleanC
<1> HIDE DEF d
<1>5. ASSUME ~HasError(d.list) PROVE SeenClean(fs, d)
  <2>1. SeenClean(fs, C)
    BY <1>1, <1>4, <1>5, Here
  <2>2. ASSUME NEW q \in DOMAIN d.code, q < d.next PROVE Sound(fs, d.code[q][2])
    <3>1. q \in Nat
      BY <1>3, <1>4, SeqType
    <3>2. q < C.next \/ q = C.next
      BY <1>3, <1>4, <2>2, <3>1, Behind
    <3>3. CASE q < C.next
      BY <1>1, <1>4, <2>1, <3>3 DEF SeenClean
    <3>4. CASE q = C.next
      BY <1>1, <1>4, <2>1, <3>4 DEF SeenClean
    <3> QED BY <3>2, <3>3, <3>4
  <2> QED BY <1>1, <1>4, <2>1, <2>2 DEF SeenClean
<1>6. CleanC(fs, d)
  BY <1>3, <1>4, <1>5 DEF CleanC
<1> QED BY <1>1, <1>4, <1>6, BecomesClean

\* A nested compiler starts, for the file the one that calls it waits for.
LEMMA EvalAssembleClean ==
  ASSUME IInv, CleanInv, EvalAssemble
  PROVE  CleanInv'
<1>1. /\ In("eval") /\ stack # <<>> /\ C.phase = "eval" /\ Len(stack) \in Nat \ {0}
      /\ C.next <= Len(C.code)
  BY InOK DEF EvalAssemble
<1>2. CASE ~C.known
  BY <1>2 DEF EvalAssemble, Crash, CleanInv
<1>3. CASE C.known
  <2> DEFINE c == NewCompiler(C.code[C.next][2], NestedLimit, TRUE)
             n == Len(stack)
  <2>1. stack' = Append(stack, c) /\ fs' = fs /\ results' = results
    BY <1>3 DEF EvalAssemble
  <2>2. CleanC(fs, c) /\ c.file = C.code[C.next][2]
    BY NewClean DEF NewCompiler
  <2>3. Waits(C, c.file)
    <3>1. C.next \in Nat \ {0} /\ IsSeq(C.code)
      BY <1>1, Here DEF CleanC
    <3>2. DOMAIN C.code = 1..Len(C.code) /\ Len(C.code) \in Nat
      BY <3>1, SeqType
    <3>3. C.next \in DOMAIN C.code
      BY <1>1, <3>1, <3>2
    <3> QED BY <1>1, <2>2, <3>3 DEF Waits
  <2> HIDE DEF c
  <2>4. IsSeq(stack)
    BY DEF IInv, StackOK, IsSeq
  <2>5. /\ n \in Nat \ {0} /\ Len(stack') = n + 1
        /\ stack'[n + 1] = c /\ \A i \in 1..n : stack'[i] = stack[i]
    BY <1>1, <2>1, <2>4, AppendSeq
  <2>6. C = stack[n] /\ \A i \in 1..n : CleanC(fs, stack[i])
    BY DEF C, CleanInv
  <2>7. \A i \in 1..n - 1 : Waits(stack[i], stack[i + 1].file)
    BY DEF CleanInv
  <2> HIDE DEF n
  <2>8. ASSUME NEW i \in 1..n + 1 PROVE CleanC(fs, stack'[i])
    <3>1. i = n + 1 \/ i \in 1..n
      BY <2>5
    <3> QED BY <2>2, <2>5, <2>6, <3>1
  <2>9. ASSUME NEW i \in 1..n PROVE Waits(stack'[i], stack'[i + 1].file)
    <3>1. i = n \/ (i \in 1..n - 1 /\ i + 1 \in 1..n)
      BY <2>5
    <3> QED BY <2>3, <2>5, <2>6, <2>7, <3>1
  <2>10. Len(stack') - 1 = n
    BY <2>5
  <2>11. \A i \in 1..Len(results) : results[i].output => Sound(fs, results[i].file)
    BY DEF CleanInv
  <2> QED BY <2>1, <2>5, <2>8, <2>9, <2>10, <2>11 DEF CleanInv
<1> QED BY <1>2, <1>3

\* When every call is evaluated without an error, the file is sound.
LEMMA AllSound ==
  ASSUME NEW F, NEW c, SeenClean(F, c), c.phase = "eval", IsSeq(c.code), c.next \in Nat,
         c.next > Len(c.code)
  PROVE  Sound(F, c.file)
<1> DEFINE docs == c.docs
           code == c.code
<1>1. PICK D : ExpandClean(F, docs, code, c.frames, D)
  BY DEF SeenClean
<1>2. D \subseteq 1..Len(docs) /\ 1 \in D
  <2>1. c.frames = <<>>
    BY DEF SeenClean
  <2>2. Above(c.frames, 0) = {}
    <3>1. (0 + 1)..Len(c.frames) = {}
      BY <2>1
    <3> QED BY <3>1 DEF Above
  <2> QED BY <1>1, <2>2 DEF ExpandClean
<1>3. \A d \in D : \A k \in DOMAIN BodyOf(F, docs, d) : Seen(F, docs, code, d, k, D)
  BY <1>1 DEF ExpandClean
<1>4. /\ \A d \in 1..Len(docs) : ParsedClean(F, docs[d].file) /\ AllRegistered(F, docs, d)
      /\ docs # <<>> /\ docs[1].file = c.file
  BY DEF SeenClean
<1>5. \A q \in DOMAIN code : Sound(F, code[q][2])
  <2>1. \A q \in DOMAIN code : q < c.next
    <3>1. DOMAIN code = 1..Len(code) /\ Len(code) \in Nat
      BY SeqType
    <3> QED BY <3>1
  <2> QED BY <2>1 DEF SeenClean
<1> HIDE DEF docs, code
<1> DEFINE S == {docs[d].file : d \in D}
<1>6. ASSUME NEW d \in D
      PROVE  LET f == docs[d].file IN
             /\ ParsedClean(F, f) /\ OpsClean(F, f)
             /\ \A g \in UsedBy(F, f) : g \in S \/ Sound(F, g)
  <2> DEFINE f == docs[d].file
  <2>1. ParsedClean(F, f) /\ AllRegistered(F, docs, d) /\ BodyOf(F, docs, d) = F[f].body
    BY <1>2, <1>4 DEF BodyOf
  <2>2. \A k \in DOMAIN F[f].body : Seen(F, docs, code, d, k, D) /\ Registered(F, docs, d, k)
    BY <1>3, <2>1 DEF AllRegistered
  <2>3. OpsClean(F, f)
    BY <2>1, <2>2 DEF Seen, OpsClean
  <2>4. ASSUME NEW g \in UsedBy(F, f) PROVE g \in S \/ Sound(F, g)
    <3>1. PICK k \in DOMAIN F[f].body :
            F[f].body[k].file = g /\ F[f].body[k].is \in {"include", "assemble"}
      BY <2>4 DEF UsedBy, Uses
    <3>2. CASE F[f].body[k].is = "include"
      <4>1. docs[d].includes[k] \in D /\ docs[docs[d].includes[k]].file = g
        BY <2>1, <2>2, <3>1, <3>2 DEF Seen, Registered
      <4> QED BY <4>1
    <3>3. CASE F[f].body[k].is = "assemble"
      <4>1. PICK q \in DOMAIN code : code[q] = <<d, g>>
        BY <2>1, <2>2, <3>1, <3>3 DEF Seen
      <4> QED BY <1>5, <4>1
    <3> QED BY <3>1, <3>2, <3>3
  <2> QED BY <2>1, <2>3, <2>4
<1>7. \A f \in S : ParsedClean(F, f) /\ OpsClean(F, f)
                   /\ \A g \in UsedBy(F, f) : g \in S \/ Sound(F, g)
  BY <1>6
<1>8. c.file \in S
  BY <1>2, <1>4
<1> HIDE DEF S
<1> QED BY <1>7, <1>8, SoundSet

\* The end of a compilation.
LEMMA FinishClean ==
  ASSUME IInv, CleanInv, Finish
  PROVE  CleanInv'
<1> DEFINE d == [C EXCEPT !.output = Accepted(C), !.phase = "return"]
<1>1. /\ In("eval") /\ stack # <<>> /\ C.phase = "eval" /\ Becomes(d)
      /\ C.next > Len(C.code)
  BY InOK DEF Finish
<1>2. CleanC(fs, C)
  BY <1>1, Here
<1>3. C.next \in Nat \ {0} /\ IsSeq(C.code)
  BY <1>2 DEF CleanC
<1>4. /\ DOMAIN d = CompilerNames /\ d.file = C.file /\ d.docs = C.docs
      /\ d.frames = C.frames /\ d.code = C.code /\ d.next = C.next /\ d.list = C.list
      /\ d.cache = C.cache /\ d.output = Accepted(C) /\ d.phase = "return"
  BY <1>1, <1>2 DEF CompilerNames, CleanC
<1> HIDE DEF d
<1>5. ASSUME ~HasError(C.list) PROVE SeenClean(fs, d) /\ Sound(fs, C.file)
  <2>1. SeenClean(fs, C)
    BY <1>1, <1>5, Here
  <2>2. SeenClean(fs, d)
    BY <1>4, <2>1 DEF SeenClean
  <2>3. Sound(fs, C.file)
    BY <1>1, <1>3, <2>1, AllSound
  <2> QED BY <2>2, <2>3
<1>6. CleanC(fs, d)
  BY <1>3, <1>4, <1>5 DEF CleanC, Accepted
<1> QED BY <1>1, <1>4, <1>6, BecomesClean

\* The compiler that has called assemble() without an error has found a sound file.
LEMMA ResumedClean ==
  ASSUME NEW F, NEW files, NEW p, Going(p, files), CleanC(F, p),
         NEW c, CompilerOK(c, files), CleanC(F, c), c.phase = "return", Waits(p, c.file)
  PROVE  CleanC(F, Resumed(p, c)) /\ Resumed(p, c).file = p.file
<1> DEFINE cache == [k \in DOMAIN p.cache \cup {p.code[p.next]} |->
                       IF k = p.code[p.next] THEN c.output ELSE p.cache[k]]
           q == [p EXCEPT !.cache = cache, !.next = @ + 1]
           r == Report(q, c.list)
<1>1. Resumed(p, c) = r
  BY DEF Resumed
<1>2. c.list \in Reports /\ p.next \in Nat \ {0} /\ IsSeq(p.code) /\ p.phase = "eval"
  BY DEF CompilerOK, ListOK, CleanC, Waits
<1>3. DOMAIN cache = DOMAIN p.cache \cup {p.code[p.next]}
  OBVIOUS
<1> HIDE DEF cache
<1>4. /\ DOMAIN q = CompilerNames /\ q.file = p.file /\ q.docs = p.docs /\ q.max = p.max
      /\ q.frames = p.frames /\ q.code = p.code /\ q.next = p.next + 1 /\ q.list = p.list
      /\ q.cache = cache /\ q.output = p.output /\ q.phase = p.phase
  BY DEF CompilerNames, CleanC
<1> HIDE DEF q
<1>5. Going(q, files)
  <2>1. DOMAIN q = DOMAIN p
    BY <1>4 DEF CleanC
  <2> QED BY <1>4, <2>1, OtherOK DEF Going
<1>6. Reported(q, c.list, r)
  <2>1. r = Report(q, c.list)
    OBVIOUS
  <2> HIDE DEF r
  <2> QED BY <1>2, <1>4, <1>5, <2>1, ReportClean
<1> HIDE DEF r
<1>7. /\ DOMAIN r = CompilerNames /\ r.file = p.file /\ r.docs = p.docs
      /\ r.frames = p.frames /\ r.code = p.code /\ r.next = p.next + 1
      /\ r.cache = cache /\ r.output = FALSE
      /\ ~HasError(r.list) => r.phase = "eval" /\ ~HasError(c.list) /\ ~HasError(p.list)
  BY <1>2, <1>4, <1>6 DEF Reported
<1>8. ASSUME ~HasError(r.list) PROVE SeenClean(F, r)
  <2>1. SeenClean(F, p) /\ ~HasError(c.list)
    BY <1>7, <1>8 DEF CleanC
  <2>2. Sound(F, p.code[p.next][2])
    BY <2>1 DEF CompilerOK, ListOK, CleanC, Waits
  <2>3. \A k \in DOMAIN r.cache : Sound(F, k[2])
    BY <1>3, <1>7, <2>1, <2>2 DEF SeenClean
  <2>4. ASSUME NEW i \in DOMAIN r.code, i < r.next PROVE Sound(F, r.code[i][2])
    <3>1. i \in Nat
      BY <1>2, <1>7, SeqType
    <3>2. i < p.next \/ i = p.next
      BY <1>2, <1>7, <2>4, <3>1, Behind
    <3>3. CASE i < p.next
      BY <1>2, <1>7, <2>1, <3>3 DEF SeenClean
    <3>4. CASE i = p.next
      BY <1>7, <2>2, <3>4
    <3> QED BY <3>2, <3>3, <3>4
  <2> QED BY <1>2, <1>7, <1>8, <2>1, <2>3, <2>4 DEF SeenClean
<1>9. CleanC(F, r)
  BY <1>2, <1>7, <1>8 DEF CleanC
<1> QED BY <1>1, <1>7, <1>9

\* A nested compiler returns.
LEMMA ReturnNestedClean ==
  ASSUME IInv, CleanInv, ReturnNested
  PROVE  CleanInv'
<1> DEFINE m == Len(stack)
           n == m - 1
           p == stack[n]
           r == Resumed(p, C)
<1>1. /\ m \in Nat \ {0} /\ m > 1 /\ CompilerOK(C, DOMAIN fs) /\ IsSeq(stack)
      /\ C.phase = "return" /\ CleanC(fs, C) /\ C = stack[m]
  <2>1. In("return") /\ m > 1
    BY DEF ReturnNested
  <2> QED BY <2>1, InOK, Here DEF IInv, StackOK, IsSeq, C
<1>2. stack' = Append(SubSeq(stack, 1, m - 2), r) /\ fs' = fs /\ results' = results
  BY DEF ReturnNested
<1>3. /\ \A i \in 1..m : CompilerOK(stack[i], DOMAIN fs) /\ CleanC(fs, stack[i])
      /\ \A i \in 1..m - 1 : stack[i].phase # "return"
      /\ \A i \in 1..m - 1 : Waits(stack[i], stack[i + 1].file)
  BY DEF IInv, StackOK, CleanInv
<1> HIDE DEF m
<1>4. /\ n \in Nat \ {0} /\ n \in 1..m /\ n \in 1..m - 1 /\ n + 1 = m /\ m - 2 = n - 1
      /\ \A i \in 1..n - 1 : i \in 1..m - 1 /\ i \in 1..m /\ i + 1 \in 1..n
      /\ \A i \in 1..n : i = n \/ i \in 1..n - 1
  BY <1>1
<1>5. CleanC(fs, r) /\ r.file = p.file
  <2>1. Going(p, DOMAIN fs) /\ CleanC(fs, p) /\ Waits(p, C.file)
    BY <1>1, <1>3, <1>4 DEF Going
  <2> HIDE DEF p
  <2> QED BY <1>1, <2>1, ResumedClean
<1>6. /\ Len(stack') = n /\ stack'[n] = r
      /\ \A i \in 1..n - 1 : stack'[i] = stack[i]
  <2>1. PICK S : stack \in Seq(S)
    BY <1>1 DEF IsSeq
  <2> DEFINE w == n - 1
             s == SubSeq(stack, 1, w)
  <2>2. w \in 0..Len(stack) /\ Len(stack) \in Nat
    <3>1. w \in 0..m /\ m \in Nat
      BY <1>1, <1>4
    <3> HIDE DEF w, n
    <3> QED BY <3>1 DEF m
  <2> HIDE DEF w
  <2>3. s \in Seq(S) /\ Len(s) = w /\ \A i \in 1..w : s[i] = stack[i]
    BY <2>1, <2>2
  <2>4. stack' = Append(s, r)
    BY <1>2, <1>4 DEF w
  <2> HIDE DEF s, r
  <2>5. IsSeq(s)
    BY <2>3 DEF IsSeq
  <2>6. /\ Len(stack') = w + 1 /\ stack'[w + 1] = r
        /\ \A i \in 1..w : stack'[i] = stack[i]
    BY <2>3, <2>4, <2>5, AppendSeq
  <2>7. w + 1 = n
    BY <1>4 DEF w
  <2> HIDE DEF n
  <2> QED BY <2>6, <2>7 DEF w
<1> HIDE DEF n, r
<1>7. ASSUME NEW i \in 1..n PROVE CleanC(fs, stack'[i])
  BY <1>3, <1>4, <1>5, <1>6
<1>8. ASSUME NEW i \in 1..n - 1 PROVE Waits(stack'[i], stack'[i + 1].file)
  <2>1. Waits(stack[i], stack[i + 1].file)
    BY <1>3, <1>4
  <2>2. stack'[i + 1].file = stack[i + 1].file
    <3>1. i + 1 = n \/ i + 1 \in 1..n - 1
      BY <1>4
    <3> QED BY <1>5, <1>6, <3>1 DEF p
  <2> QED BY <1>6, <2>1, <2>2
<1>9. \A i \in 1..Len(results) : results[i].output => Sound(fs, results[i].file)
  BY DEF CleanInv
<1> QED BY <1>2, <1>6, <1>7, <1>8, <1>9 DEF CleanInv

\* The user's compiler returns.
LEMMA ReturnResultClean ==
  ASSUME IInv, CleanInv, ReturnResult
  PROVE  CleanInv'
<1> DEFINE r == [file |-> C.file, max |-> C.max, known |-> C.default,
                 output |-> C.output, list |-> C.list]
<1>1. stack' = <<>> /\ fs' = fs /\ results' = Append(results, r) /\ In("return")
  BY DEF ReturnResult
<1>2. r.output => Sound(fs, r.file)
  BY <1>1, Here DEF CleanC
<1> HIDE DEF r
<1>3. IsSeq(results)
  BY DEF IInv, ResultsOK, IsSeq
<1>4. /\ Len(results') = Len(results) + 1 /\ results'[Len(results) + 1] = r
      /\ \A i \in 1..Len(results) : results'[i] = results[i]
  BY <1>1, <1>3, AppendSeq
<1>5. ASSUME NEW i \in 1..Len(results')
      PROVE  results'[i].output => Sound(fs, results'[i].file)
  <2>1. i = Len(results) + 1 \/ i \in 1..Len(results)
    BY <1>3, <1>4, SeqType
  <2> QED BY <1>2, <1>4, <2>1 DEF CleanInv
<1>6. 1..Len(stack') = {} /\ 1..Len(stack') - 1 = {}
  BY <1>1
<1> QED BY <1>1, <1>5, <1>6 DEF CleanInv

\* CleanInv is inductive.
LEMMA CleanStep == IInv /\ CleanInv /\ [Next]_vars => CleanInv'
<1> SUFFICES ASSUME IInv, CleanInv, [Next]_vars PROVE CleanInv'
  OBVIOUS
<1>1. CASE Request
  BY <1>1, RequestClean
<1>2. CASE Open
  BY <1>2, OpenClean
<1>3. CASE LoadInclude
  BY <1>3, LoadIncludeClean
<1>4. CASE LoadTarget
  BY <1>4, LoadTargetClean
<1>5. CASE LoadDefine
  BY <1>5, LoadDefineClean
<1>6. CASE LoadOther
  BY <1>6, LoadOtherClean
<1>7. CASE LoadNested
  BY <1>7, LoadNestedClean
<1>8. CASE LoadDone
  BY <1>8, LoadDoneClean
<1>9. CASE ExpandOp
  BY <1>9, ExpandOpClean
<1>10. CASE ExpandInclude
  BY <1>10, ExpandIncludeClean
<1>11. CASE ExpandAssemble
  BY <1>11, ExpandAssembleClean
<1>12. CASE ExpandNothing
  BY <1>12, ExpandNothingClean
<1>13. CASE ExpandLeave
  BY <1>13, ExpandLeaveClean
<1>14. CASE EvalCached
  BY <1>14, EvalCachedClean
<1>15. CASE EvalAssemble
  BY <1>15, EvalAssembleClean
<1>16. CASE Finish
  BY <1>16, FinishClean
<1>17. CASE ReturnNested
  BY <1>17, ReturnNestedClean
<1>18. CASE ReturnResult
  BY <1>18, ReturnResultClean
<1>19. CASE Rest \/ UNCHANGED vars
  BY <1>19 DEF Rest, vars, CleanInv
<1> QED BY <1>1, <1>2, <1>3, <1>4, <1>5, <1>6, <1>7, <1>8, <1>9, <1>10, <1>11, <1>12, <1>13,
           <1>14, <1>15, <1>16, <1>17, <1>18, <1>19 DEF Next, Compile

\* CleanInv holds.
LEMMA CleanInvariant == Spec => []CleanInv
<1>1. Init => CleanInv
  <2> SUFFICES ASSUME Init PROVE CleanInv
    OBVIOUS
  <2>1. stack = <<>> /\ results = <<>>
    BY DEF Init
  <2>2. 1..Len(stack) = {} /\ 1..Len(stack) - 1 = {} /\ 1..Len(results) = {}
    BY <2>1
  <2> QED BY <2>2 DEF CleanInv
<1> QED BY <1>1, CleanStep, Invariant, PTL DEF Spec

\* A compilation has output only if every file its program is made of, by #include and
\* assemble() to any depth and in whichever nested compiler, could be read, parsed and
\* expanded without an error, whatever the limits are and however files include each other
\* (compiler.go:133-135, evaluator_builtins.go:214-250).
THEOREM OutputTheorem == Spec => []OutputIsClean
<1>1. IInv /\ CleanInv => OutputIsClean
  <2> SUFFICES ASSUME IInv, CleanInv, NEW i \in DOMAIN results, results[i].output,
                      NEW f \in Needed(results[i].file)
               PROVE  /\ f \in DOMAIN fs /\ ~HasError(fs[f].parse)
                      /\ \A k \in DOMAIN fs[f].body :
                           fs[f].body[k].is = "op" => ~HasError(fs[f].body[k].report)
    BY DEF OutputIsClean
  <2>1. i \in 1..Len(results)
    BY SeqType DEF IInv, ResultsOK, IsSeq
  <2>2. Sound(fs, results[i].file) /\ fs \in FileSystems
    BY <2>1 DEF CleanInv, IInv
  <2>3. Sound(fs, f)
    BY <2>2, SoundNeeds
  <2>4. ParsedClean(fs, f) /\ OpsClean(fs, f)
    BY <2>3, SoundUses
  <2> QED BY <2>4 DEF ParsedClean, OpsClean
<1> QED BY <1>1, Invariant, CleanInvariant, PTL

-----------------------------------------------------------------------------
(* Compilations repeat.  Nothing but the files and what a compiler has been   *)
(* started with decides its steps: each action is a step of one function of   *)
(* the stack of compilers.                                                    *)

\* The parts of the steps below.
Passing(c) == [c EXCEPT !.frames = Onward(c.frames)]
Leaving(c) == SubSeq(c.frames, 1, Len(c.frames) - 1)
ReadAs(F, f) == IF f \in DOMAIN F THEN F[f].parse ELSE <<"error">>

OpenStep(F, d) ==
  LET c == Report(d, ReadAs(F, d.file)) IN
    IF HasError(ReadAs(F, d.file)) THEN [c EXCEPT !.phase = "return"]
    ELSE LET e == [c EXCEPT !.docs = <<Document(d.file)>>, !.frames = Start] IN
         IF d.known THEN [e EXCEPT !.phase = "load"]
         ELSE Report([e EXCEPT !.phase = "expand"], <<"error">>)

LoadIncludeStep(F, d, r, st) ==
  LET new == IF DepthReached(Len(d.frames)) THEN <<"error">> ELSE ReadAs(F, st.file)
      c   == Report(Passing(d), new)
  IN  IF HasError(new) THEN c
      ELSE [c EXCEPT !.docs = Including(@, r.doc, r.at, st.file),
                     !.frames = ToLoad(@, Len(d.docs) + 1)]

LoadTargetStep(d, st) ==
  LET c == Report(Passing(d), (IF Len(d.frames) > 1 THEN <<"error">> ELSE <<>>)
                              \o (IF d.forkDefined THEN <<"error">> ELSE <<>>)
                              \o (IF st.known THEN <<>> ELSE <<"error">>))
  IN  [c EXCEPT !.known = st.known, !.forkDefined = TRUE]

LoadDefineStep(d, r, st) ==
  LET def == <<IF st.global THEN 0 ELSE r.doc, st.name>> IN
    IF def \in d.defs THEN Report(Passing(d), <<"error">>)
    ELSE [Passing(d) EXCEPT !.defs = @ \cup {def}]

LoadEndStep(d, r) ==
  IF r.todo # <<>>
  THEN [d EXCEPT !.frames = Append([d.frames EXCEPT ![Len(d.frames)].todo = Tail(@)],
                                   [doc |-> Head(r.todo), at |-> 1, todo |-> <<>>])]
  ELSE IF Leaving(d) # <<>> THEN [d EXCEPT !.frames = Leaving(d)]
  ELSE [d EXCEPT !.phase = "expand", !.frames = Start]

LoadStep(F, d, r, st, ended) ==
  IF ended THEN LoadEndStep(d, r)
  ELSE IF st.is = "include" THEN LoadIncludeStep(F, d, r, st)
  ELSE IF st.is = "target" THEN LoadTargetStep(d, st)
  ELSE IF st.is = "define" THEN LoadDefineStep(d, r, st)
  ELSE Passing(d)

ExpandIncludeStep(d, r) ==
  LET inc == d.docs[r.doc].includes IN
    IF r.at \notin DOMAIN inc THEN Passing(d)
    ELSE [d EXCEPT !.frames = Append(Onward(d.frames),
                                     [doc |-> inc[r.at], at |-> 1, todo |-> <<>>])]

ExpandStep(d, r, st, ended) ==
  IF ended THEN [d EXCEPT !.frames = Leaving(d),
                          !.phase = IF Leaving(d) = <<>> THEN "eval" ELSE @]
  ELSE IF st.is = "op" THEN Report(Passing(d), st.report)
  ELSE IF st.is = "include" THEN ExpandIncludeStep(d, r)
  ELSE IF st.is = "assemble" THEN [Passing(d) EXCEPT !.code = Append(@, <<r.doc, st.file>>)]
  ELSE Passing(d)

\* What the innermost compiler d does on its own.
OwnStep(F, d) ==
  LET r     == d.frames[Len(d.frames)]
      body  == F[d.docs[r.doc].file].body
      ended == r.at > Len(body)
  IN  IF d.phase = "open" THEN OpenStep(F, d)
      ELSE IF d.phase = "load" THEN LoadStep(F, d, r, body[r.at], ended)
      ELSE IF d.phase = "expand" THEN ExpandStep(d, r, body[r.at], ended)
      ELSE IF d.next > Len(d.code) THEN [d EXCEPT !.output = Accepted(d), !.phase = "return"]
      ELSE [d EXCEPT !.next = @ + 1]

Calls(d) == d.phase = "eval" /\ d.next <= Len(d.code) /\ d.code[d.next] \notin DOMAIN d.cache

\* What a step makes of the stack of compilers s.
StackStep(F, s) ==
  LET n == Len(s)
      d == s[n]
  IN  IF d.phase = "return" THEN Append(SubSeq(s, 1, n - 2), Resumed(s[n - 1], d))
      ELSE IF Calls(d) THEN Append(s, NewCompiler(d.code[d.next][2], NestedLimit, TRUE))
      ELSE [s EXCEPT ![n] = OwnStep(F, d)]

\* Nothing is left but to return to the user.
Ended(s) == Len(s) = 1 /\ s[1].phase = "return"

\* The compiler has been at work since it was started.
Kept(c, d) == DOMAIN d = CompilerNames /\ d.file = c.file /\ d.max = c.max /\ d.default = c.default
Named(c)   == DOMAIN c = CompilerNames

\* An own step is one of OwnStep.
LEMMA OpenRepeats ==
  ASSUME Open, Named(C)
  PROVE  Becomes(OwnStep(fs, C)) /\ Kept(C, OwnStep(fs, C))
<1>1. C.phase = "open"
  BY DEF Open, In
<1> DEFINE d == OwnStep(fs, C)
<1>2. d = OpenStep(fs, C)
  BY <1>1 DEF OwnStep
<1>3. Becomes(d)
  BY <1>2 DEF Open, OpenStep, Parsed, ReadAs
<1>4. Kept(C, OpenStep(fs, C))
  BY DEF OpenStep, Report, Kept, Named, CompilerNames
<1> QED BY <1>2, <1>3, <1>4

\* The statement the innermost compiler is at, if it is at one of this kind.
LEMMA AtOne ==
  ASSUME NEW kind, At(kind)
  PROVE  /\ ~(Top.at > Len(Body)) /\ Body[Top.at].is = kind /\ St = Body[Top.at]
BY DEF At, AtEnd, St

\* Going on keeps what a compiler was started with.
LEMMA PassingKeeps ==
  ASSUME NEW c, Named(c)
  PROVE  Kept(c, Passing(c)) /\ \A new : Kept(c, Report(Passing(c), new))
BY DEF Passing, Report, Kept, Named, CompilerNames

\* A step of the loader is one of LoadStep.
LEMMA LoadRepeats ==
  ASSUME Named(C), LoadInclude \/ LoadTarget \/ LoadDefine \/ LoadOther \/ LoadNested \/ LoadDone
  PROVE  Becomes(OwnStep(fs, C)) /\ Kept(C, OwnStep(fs, C))
<1> DEFINE d == OwnStep(fs, C)
           r == Top
<1>1. C.phase = "load"
  BY DEF LoadInclude, LoadTarget, LoadDefine, LoadOther, LoadNested, LoadDone, In
<1>2. d = LoadStep(fs, C, Top, Body[Top.at], Top.at > Len(Body))
  BY <1>1 DEF OwnStep, Top, Body
<1>3. Passed = Passing(C)
  BY DEF Passed, Advanced, Passing, Onward
<1> HIDE DEF d
<1>4. CASE LoadInclude
  <2>1. ~(Top.at > Len(Body)) /\ Body[Top.at].is = "include" /\ St = Body[Top.at]
    BY <1>4, AtOne DEF LoadInclude
  <2>2. d = LoadIncludeStep(fs, C, Top, St)
    BY <1>2, <2>1 DEF LoadStep
  <2>3. Becomes(d)
    BY <1>3, <1>4, <2>2 DEF LoadInclude, LoadIncludeStep, Parsed, ReadAs
  <2>4. Kept(C, LoadIncludeStep(fs, C, Top, St))
    BY PassingKeeps DEF LoadIncludeStep, Kept, Named, CompilerNames
  <2> QED BY <2>2, <2>3, <2>4 DEF d
<1>5. CASE LoadTarget
  <2>1. ~(Top.at > Len(Body)) /\ Body[Top.at].is = "target" /\ St = Body[Top.at]
    BY <1>5, AtOne DEF LoadTarget
  <2>2. d = LoadTargetStep(C, St)
    BY <1>2, <2>1 DEF LoadStep
  <2>3. Becomes(d)
    BY <1>3, <1>5, <2>2 DEF LoadTarget, LoadTargetStep
  <2>4. Kept(C, LoadTargetStep(C, St))
    BY PassingKeeps DEF LoadTargetStep, Kept, Named, CompilerNames
  <2> QED BY <2>2, <2>3, <2>4 DEF d
<1>6. CASE LoadDefine
  <2>1. ~(Top.at > Len(Body)) /\ Body[Top.at].is = "define" /\ St = Body[Top.at]
    BY <1>6, AtOne DEF LoadDefine
  <2>2. d = LoadDefineStep(C, Top, St)
    BY <1>2, <2>1 DEF LoadStep
  <2>3. Becomes(d)
    BY <1>3, <1>6, <2>2 DEF LoadDefine, LoadDefineStep
  <2>4. Kept(C, LoadDefineStep(C, Top, St))
    BY PassingKeeps DEF LoadDefineStep, Kept, Named, CompilerNames
  <2> QED BY <2>2, <2>3, <2>4 DEF d
<1>7. CASE LoadOther
  <2>1. ~(Top.at > Len(Body)) /\ Body[Top.at].is \in {"op", "assemble"}
    BY <1>7, AtOne DEF LoadOther
  <2>2. d = Passing(C)
    BY <1>2, <2>1 DEF LoadStep
  <2> QED BY <1>3, <1>7, <2>2, PassingKeeps DEF LoadOther, d
<1>8. CASE LoadNested \/ LoadDone
  <2>1. d = LoadEndStep(C, Top)
    BY <1>2, <1>8 DEF LoadStep, LoadNested, LoadDone, AtEnd
  <2>2. Becomes(d)
    BY <1>8, <2>1 DEF LoadEndStep, LoadNested, LoadDone, Leaving
  <2>3. Kept(C, LoadEndStep(C, Top))
    BY DEF LoadEndStep, Kept, Named, CompilerNames
  <2> QED BY <2>1, <2>2, <2>3 DEF d
<1> QED BY <1>4, <1>5, <1>6, <1>7, <1>8

\* A step of the expansion is one of ExpandStep.
LEMMA ExpandRepeats ==
  ASSUME Named(C), ~crashed',
         ExpandOp \/ ExpandInclude \/ ExpandAssemble \/ ExpandNothing \/ ExpandLeave
  PROVE  Becomes(OwnStep(fs, C)) /\ Kept(C, OwnStep(fs, C))
<1> DEFINE d == OwnStep(fs, C)
<1>1. C.phase = "expand"
  BY DEF ExpandOp, ExpandInclude, ExpandAssemble, ExpandNothing, ExpandLeave, In
<1>2. d = ExpandStep(C, Top, Body[Top.at], Top.at > Len(Body))
  BY <1>1 DEF OwnStep, Top, Body
<1>3. Passed = Passing(C) /\ Advanced = Onward(C.frames)
  BY DEF Passed, Advanced, Passing, Onward
<1> HIDE DEF d
<1>4. CASE ExpandOp
  <2>1. ~(Top.at > Len(Body)) /\ Body[Top.at].is = "op" /\ St = Body[Top.at]
    BY <1>4, AtOne DEF ExpandOp
  <2>2. d = Report(Passing(C), St.report)
    BY <1>2, <2>1 DEF ExpandStep
  <2> QED BY <1>3, <1>4, <2>2, PassingKeeps DEF ExpandOp, Crash, d
<1>5. CASE ExpandInclude
  <2>1. ~(Top.at > Len(Body)) /\ Body[Top.at].is = "include"
    BY <1>5, AtOne DEF ExpandInclude
  <2>2. d = ExpandIncludeStep(C, Top)
    BY <1>2, <2>1 DEF ExpandStep
  <2>3. Becomes(d)
    BY <1>3, <1>5, <2>2 DEF ExpandInclude, ExpandIncludeStep
  <2>4. Kept(C, ExpandIncludeStep(C, Top))
    BY PassingKeeps DEF ExpandIncludeStep, Kept, Named, CompilerNames
  <2> QED BY <2>2, <2>3, <2>4 DEF d
<1>6. CASE ExpandAssemble
  <2>1. ~(Top.at > Len(Body)) /\ Body[Top.at].is = "assemble" /\ St = Body[Top.at]
    BY <1>6, AtOne DEF ExpandAssemble
  <2>2. d = [Passing(C) EXCEPT !.code = Append(@, <<Top.doc, St.file>>)]
    BY <1>2, <2>1 DEF ExpandStep
  <2>3. Kept(C, [Passing(C) EXCEPT !.code = Append(@, <<Top.doc, St.file>>)])
    BY PassingKeeps DEF Kept, Named, CompilerNames
  <2> QED BY <1>3, <1>6, <2>2, <2>3 DEF ExpandAssemble, d
<1>7. CASE ExpandNothing
  <2>1. ~(Top.at > Len(Body)) /\ Body[Top.at].is \in {"target", "define"}
    BY <1>7, AtOne DEF ExpandNothing
  <2>2. d = Passing(C)
    BY <1>2, <2>1 DEF ExpandStep
  <2> QED BY <1>3, <1>7, <2>2, PassingKeeps DEF ExpandNothing, d
<1>8. CASE ExpandLeave
  <2>1. d = [C EXCEPT !.frames = Leaving(C), !.phase = IF Leaving(C) = <<>> THEN "eval" ELSE @]
    BY <1>2, <1>8 DEF ExpandStep, ExpandLeave, AtEnd
  <2>2. Becomes(d)
    BY <1>8, <2>1 DEF ExpandLeave, Leaving
  <2>3. Kept(C, d)
    BY <2>1 DEF Kept, Named, CompilerNames
  <2> QED BY <2>2, <2>3 DEF d
<1> QED BY <1>4, <1>5, <1>6, <1>7, <1>8

\* So is a step of the evaluation that calls no other compiler.
LEMMA EvalRepeats ==
  ASSUME Named(C), C.next \in Nat, IsSeq(C.code), EvalCached \/ Finish
  PROVE  Becomes(OwnStep(fs, C)) /\ Kept(C, OwnStep(fs, C))
<1> DEFINE d == OwnStep(fs, C)
<1>1. C.phase = "eval"
  BY DEF EvalCached, Finish, In
<1>2. d = IF C.next > Len(C.code) THEN [C EXCEPT !.output = Accepted(C), !.phase = "return"]
          ELSE [C EXCEPT !.next = @ + 1]
  BY <1>1 DEF OwnStep
<1> HIDE DEF d
<1>3. CASE EvalCached /\ ~(C.next > Len(C.code))
  <2>1. d = [C EXCEPT !.next = @ + 1]
    BY <1>2, <1>3
  <2> QED BY <1>3, <2>1 DEF EvalCached, Kept, Named, CompilerNames, d
<1>4. CASE Finish
  <2>1. d = [C EXCEPT !.output = Accepted(C), !.phase = "return"]
    BY <1>2, <1>4 DEF Finish
  <2> QED BY <1>4, <2>1 DEF Finish, Kept, Named, CompilerNames, d
<1>5. EvalCached => ~(C.next > Len(C.code))
  <2>1. Len(C.code) \in Nat
    BY SeqType
  <2> QED BY <2>1 DEF EvalCached
<1> QED BY <1>3, <1>4, <1>5

\* From s0 the stack of compilers has come to s, without returning to the user before.
Runs(F, s0, s) ==
  \E n \in Nat \ {0} : \E tr :
    /\ DOMAIN tr = 1..n /\ tr[1] = s0 /\ tr[n] = s
    /\ \A k \in 1..n - 1 : ~Ended(tr[k]) /\ tr[k + 1] = StackStep(F, tr[k])

\* It has come to itself.
LEMMA RunsHere ==
  ASSUME NEW F, NEW s
  PROVE  Runs(F, s, s)
<1> DEFINE tr == [k \in 1..1 |-> s]
<1>1. DOMAIN tr = 1..1 /\ tr[1] = s
  OBVIOUS
<1>2. \A k \in 1..1 - 1 : ~Ended(tr[k]) /\ tr[k + 1] = StackStep(F, tr[k])
  <2>1. 1..1 - 1 = {}
    OBVIOUS
  <2> QED BY <2>1
<1> HIDE DEF tr
<1>3. \E t : /\ DOMAIN t = 1..1 /\ t[1] = s /\ t[1] = s
             /\ \A k \in 1..1 - 1 : ~Ended(t[k]) /\ t[k + 1] = StackStep(F, t[k])
  BY <1>1, <1>2
<1>4. 1 \in Nat \ {0}
  OBVIOUS
<1> QED BY <1>3, <1>4 DEF Runs

\* It goes on.
LEMMA RunsOn ==
  ASSUME NEW F, NEW s0, NEW s, Runs(F, s0, s), ~Ended(s)
  PROVE  Runs(F, s0, StackStep(F, s))
<1>1. PICK n, tr :
        /\ n \in Nat \ {0} /\ DOMAIN tr = 1..n /\ tr[1] = s0 /\ tr[n] = s
        /\ \A k \in 1..n - 1 : ~Ended(tr[k]) /\ tr[k + 1] = StackStep(F, tr[k])
  BY DEF Runs
<1> n \in Nat \ {0}
  BY <1>1
<1> DEFINE t == [k \in 1..n + 1 |-> IF k <= n THEN tr[k] ELSE StackStep(F, s)]
<1>2. /\ n + 1 \in Nat \ {0} /\ DOMAIN t = 1..n + 1 /\ t[n + 1] = StackStep(F, s)
      /\ \A k \in 1..n : t[k] = tr[k]
  OBVIOUS
<1> HIDE DEF t
<1>3. ASSUME NEW k \in 1..n PROVE ~Ended(t[k]) /\ t[k + 1] = StackStep(F, t[k])
  <2>1. CASE k = n
    BY <1>1, <1>2, <2>1
  <2>2. CASE k # n
    <3>1. k \in 1..n - 1 /\ k + 1 \in 1..n
      BY <2>2
    <3> QED BY <1>1, <1>2, <3>1
  <2> QED BY <2>1, <2>2
<1>4. t[1] = s0 /\ (n + 1) - 1 = n
  BY <1>1, <1>2
<1> QED BY <1>2, <1>3, <1>4 DEF Runs

Stepping(F, a, n) == \A k \in 1..n - 1 : a[k + 1] = StackStep(F, a[k])

\* Two runs of the same compilation agree as long as both last.
LEMMA RunsAgree ==
  ASSUME NEW F, NEW n \in Nat, NEW a, NEW b, a[1] = b[1],
         Stepping(F, a, n), Stepping(F, b, n)
  PROVE  \A k \in 1..n : a[k] = b[k]
<1> DEFINE S == {k \in Nat : k + 1 \in 1..n => a[k + 1] = b[k + 1]}
<1>1. 0 \in S
  OBVIOUS
<1>2. ASSUME NEW k \in Nat, k \in S PROVE k + 1 \in S
  <2> SUFFICES ASSUME (k + 1) + 1 \in 1..n PROVE a[(k + 1) + 1] = b[(k + 1) + 1]
    OBVIOUS
  <2>1. k + 1 \in 1..n /\ k + 1 \in 1..n - 1
    OBVIOUS
  <2>2. a[k + 1] = b[k + 1]
    BY <1>2, <2>1
  <2> QED BY <2>1, <2>2 DEF Stepping
<1> HIDE DEF S
<1>3. Nat \subseteq S
  BY <1>1, <1>2, InductiveSet
<1>4. ASSUME NEW k \in 1..n PROVE a[k] = b[k]
  <2>1. k - 1 \in Nat /\ (k - 1) + 1 = k
    OBVIOUS
  <2> QED BY <1>3, <2>1 DEF S
<1> QED BY <1>4

\* A compilation ends in one way.
LEMMA RunsEnd ==
  ASSUME NEW F, NEW s0, NEW s, NEW t, Runs(F, s0, s), Runs(F, s0, t), Ended(s), Ended(t)
  PROVE  s = t
<1>1. PICK n, a :
        /\ n \in Nat \ {0} /\ DOMAIN a = 1..n /\ a[1] = s0 /\ a[n] = s
        /\ \A k \in 1..n - 1 : ~Ended(a[k]) /\ a[k + 1] = StackStep(F, a[k])
  BY DEF Runs
<1>2. PICK m, b :
        /\ m \in Nat \ {0} /\ DOMAIN b = 1..m /\ b[1] = s0 /\ b[m] = t
        /\ \A k \in 1..m - 1 : ~Ended(b[k]) /\ b[k + 1] = StackStep(F, b[k])
  BY DEF Runs
<1> n \in Nat \ {0} /\ m \in Nat \ {0}
  BY <1>1, <1>2
<1>3. CASE n <= m
  <2>1. Stepping(F, a, n) /\ Stepping(F, b, n)
    BY <1>1, <1>2, <1>3 DEF Stepping
  <2>2. \A k \in 1..n : a[k] = b[k]
    <3>1. a[1] = b[1] /\ n \in Nat
      BY <1>1, <1>2
    <3> QED BY <2>1, <3>1, RunsAgree
  <2>3. b[n] = s
    BY <1>1, <2>2
  <2>4. n = m
    BY <1>2, <1>3, <2>3
  <2> QED BY <1>2, <2>3, <2>4
<1>4. CASE m <= n
  <2>1. Stepping(F, a, m) /\ Stepping(F, b, m)
    BY <1>1, <1>2, <1>4 DEF Stepping
  <2>2. \A k \in 1..m : a[k] = b[k]
    <3>1. a[1] = b[1] /\ m \in Nat
      BY <1>1, <1>2
    <3> QED BY <2>1, <3>1, RunsAgree
  <2>3. a[m] = t
    BY <1>2, <2>2
  <2>4. n = m
    BY <1>1, <1>4, <2>3
  <2> QED BY <1>1, <2>3, <2>4
<1> QED BY <1>3, <1>4

\* What the user is told of a compilation, and how one starts.
Result(c) ==
  [file |-> c.file, max |-> c.max, known |-> c.default, output |-> c.output, list |-> c.list]
Started(f, max, known) == <<[NewCompiler(f, max, known) EXCEPT !.list = <<>>]>>
StartOf(c) == Started(c.file, c.max, c.default)

\* The compilation that is running, and each that has returned, has come from its start.
RepeatInv ==
  /\ stack # <<>> => Runs(fs, StartOf(stack[1]), stack)
  /\ \A i \in DOMAIN results : \E s :
       /\ Ended(s) /\ Runs(fs, Started(results[i].file, results[i].max, results[i].known), s)
       /\ results[i] = Result(s[1])

\* The running compilers have all their fields.
LEMMA Running ==
  ASSUME IInv, CleanInv, stack # <<>>
  PROVE  /\ Len(stack) \in Nat \ {0} /\ C = stack[Len(stack)]
         /\ \E S : stack \in Seq(S)
         /\ \A i \in 1..Len(stack) :
              Named(stack[i]) /\ IsSeq(stack[i].code) /\ stack[i].next \in Nat
<1>1. PICK S : stack \in Seq(S)
  BY DEF IInv, StackOK
<1>2. Len(stack) \in Nat \ {0} /\ C = stack[Len(stack)]
  BY <1>1 DEF C
<1> QED BY <1>1, <1>2 DEF CleanInv, CleanC, Named

\* What a step leaves alone, apart from the stack of compilers.
SameRun(s) ==
  /\ stack' = s /\ fs' = fs /\ results' = results
  /\ stack' # <<>> /\ StartOf(stack'[1]) = StartOf(stack[1])

\* A step of the innermost compiler alone is one of StackStep.
LEMMA OwnRepeats ==
  ASSUME IInv, CleanInv, stack # <<>>, C.phase # "return", ~Calls(C),
         Becomes(OwnStep(fs, C)), Kept(C, OwnStep(fs, C))
  PROVE  ~Ended(stack) /\ SameRun(StackStep(fs, stack))
<1> DEFINE n == Len(stack)
           d == OwnStep(fs, C)
<1>1. n \in Nat \ {0} /\ C = stack[n]
  BY Running
<1>2. PICK S : stack \in Seq(S)
  BY Running
<1>3. stack' = [stack EXCEPT ![n] = d] /\ fs' = fs /\ results' = results
  BY DEF Becomes
<1>4. StackStep(fs, stack) = [stack EXCEPT ![n] = d]
  BY <1>1 DEF StackStep
<1>5. d.file = C.file /\ d.max = C.max /\ d.default = C.default
  BY DEF Kept
<1> HIDE DEF n, d
<1>6. stack'[1] = IF n = 1 THEN d ELSE stack[1]
  <2>1. 1 \in DOMAIN stack
    BY <1>1, <1>2 DEF n
  <2> QED BY <1>3, <2>1
<1>7. StartOf(stack'[1]) = StartOf(stack[1])
  BY <1>1, <1>5, <1>6 DEF StartOf
<1>8. stack' # <<>>
  <2>1. DOMAIN stack' = 1..n
    BY <1>2, <1>3 DEF n
  <2>2. DOMAIN <<>> = {}
    OBVIOUS
  <2>3. 1 \in 1..n
    BY <1>1
  <2> QED BY <2>1, <2>2, <2>3
<1>9. ~Ended(stack)
  BY <1>1 DEF Ended, n
<1> QED BY <1>3, <1>4, <1>7, <1>8, <1>9 DEF SameRun

\* A call of assemble() is one of StackStep.
LEMMA CallRepeats ==
  ASSUME IInv, CleanInv, EvalAssemble, ~crashed'
  PROVE  ~Ended(stack) /\ SameRun(StackStep(fs, stack))
<1> DEFINE n == Len(stack)
           d == NewCompiler(C.code[C.next][2], NestedLimit, TRUE)
<1>1. stack # <<>> /\ C.phase = "eval"
  BY DEF EvalAssemble, In
<1>2. n \in Nat \ {0} /\ C = stack[n]
  BY <1>1, Running
<1>3. PICK S : stack \in Seq(S)
  BY <1>1, Running
<1>4. stack' = Append(stack, d) /\ fs' = fs /\ results' = results /\ Calls(C)
  BY <1>1 DEF EvalAssemble, Crash, Calls
<1>5. StackStep(fs, stack) = Append(stack, d)
  BY <1>1, <1>2, <1>4 DEF StackStep
<1> HIDE DEF n, d
<1>6. stack'[1] = stack[1] /\ stack' # <<>>
  <2>1. stack \in Seq(S \cup {d}) /\ 1 \in 1..Len(stack)
    BY <1>2, <1>3 DEF n
  <2> QED BY <1>4, <2>1
<1>7. ~Ended(stack)
  BY <1>1, <1>2 DEF Ended, n
<1> QED BY <1>4, <1>5, <1>6, <1>7 DEF SameRun

\* So is the return of a nested compiler.
LEMMA ReturnRepeats ==
  ASSUME IInv, CleanInv, ReturnNested
  PROVE  ~Ended(stack) /\ SameRun(StackStep(fs, stack))
<1> DEFINE n == Len(stack)
           p == stack[n - 1]
           d == Resumed(p, C)
<1>1. stack # <<>> /\ C.phase = "return" /\ n > 1
  BY DEF ReturnNested, In
<1>2. n \in Nat \ {0} /\ C = stack[n]
  BY <1>1, Running
<1>3. PICK S : stack \in Seq(S)
  BY <1>1, Running
<1>4. stack' = Append(SubSeq(stack, 1, n - 2), d) /\ fs' = fs /\ results' = results
  BY DEF ReturnNested
<1>5. StackStep(fs, stack) = Append(SubSeq(stack, 1, n - 2), d)
  BY <1>1, <1>2 DEF StackStep
<1>6. d.file = p.file /\ d.max = p.max /\ d.default = p.default
  <2>1. n - 1 \in 1..Len(stack)
    BY <1>1, <1>2
  <2>2. Named(p)
    BY <1>1, <2>1, Running
  <2> HIDE DEF p
  <2> QED BY <2>2 DEF Resumed, Report, Named, CompilerNames
<1> HIDE DEF d
<1>7. stack' # <<>> /\ stack'[1] = IF n = 2 THEN d ELSE stack[1]
  <2> DEFINE t == SubSeq(stack, 1, n - 2)
  <2>1. t \in Seq(S) /\ Len(t) = n - 2 /\ \A i \in 1..n - 2 : t[i] = stack[i]
    <3>1. n - 2 \in 0..n /\ n = Len(stack)
      BY <1>1, <1>2
    <3> HIDE DEF n
    <3> QED BY <1>2, <1>3, <3>1
  <2> HIDE DEF t
  <2>2. t \in Seq(S \cup {d})
    BY <2>1
  <2> HIDE DEF n
  <2>3. stack' = Append(t, d)
    BY <1>4 DEF t
  <2>4. CASE n = 2
    BY <2>1, <2>2, <2>3, <2>4
  <2>5. CASE n # 2
    BY <1>1, <1>2, <2>1, <2>2, <2>3, <2>5
  <2> QED BY <2>4, <2>5
<1>8. StartOf(stack'[1]) = StartOf(stack[1])
  <2>1. n = 2 => p = stack[1]
    BY <1>2
  <2> HIDE DEF n, p
  <2> QED BY <1>6, <1>7, <2>1 DEF StartOf
<1>9. ~Ended(stack)
  BY <1>1, <1>2 DEF Ended
<1> QED BY <1>4, <1>5, <1>7, <1>8, <1>9 DEF SameRun

\* All steps of a compilation but the last are steps of StackStep.
LEMMA CompileRepeats ==
  ASSUME IInv, CleanInv, Compile, ~ReturnResult, ~crashed'
  PROVE  stack # <<>> /\ ~Ended(stack) /\ SameRun(StackStep(fs, stack))
<1>1. stack # <<>>
  BY DEF Compile, Open, LoadInclude, LoadTarget, LoadDefine, LoadOther, LoadNested, LoadDone,
         ExpandOp, ExpandInclude, ExpandAssemble, ExpandNothing, ExpandLeave, EvalCached,
         EvalAssemble, Finish, ReturnNested, In
<1>2. Named(C) /\ IsSeq(C.code) /\ C.next \in Nat
  BY <1>1, Running
<1>3. CASE Open
  <2>1. C.phase = "open"
    BY <1>3 DEF Open, In
  <2> QED BY <1>1, <1>2, <1>3, <2>1, OpenRepeats, OwnRepeats DEF Calls
<1>4. CASE LoadInclude \/ LoadTarget \/ LoadDefine \/ LoadOther \/ LoadNested \/ LoadDone
  <2>1. C.phase = "load"
    BY <1>4 DEF LoadInclude, LoadTarget, LoadDefine, LoadOther, LoadNested, LoadDone, In
  <2>2. Becomes(OwnStep(fs, C)) /\ Kept(C, OwnStep(fs, C))
    BY <1>2, <1>4, LoadRepeats
  <2> QED BY <1>1, <2>1, <2>2, OwnRepeats DEF Calls
<1>5. CASE ExpandOp \/ ExpandInclude \/ ExpandAssemble \/ ExpandNothing \/ ExpandLeave
  <2>1. C.phase = "expand"
    BY <1>5 DEF ExpandOp, ExpandInclude, ExpandAssemble, ExpandNothing, ExpandLeave, In
  <2>2. Becomes(OwnStep(fs, C)) /\ Kept(C, OwnStep(fs, C))
    BY <1>2, <1>5, ExpandRepeats
  <2> QED BY <1>1, <2>1, <2>2, OwnRepeats DEF Calls
<1>6. CASE EvalCached \/ Finish
  <2>1. C.phase = "eval" /\ ~Calls(C)
    <3>1. Len(C.code) \in Nat
      BY <1>2, SeqType
    <3> QED BY <1>2, <1>6, <3>1 DEF EvalCached, Finish, In, Calls
  <2>2. Becomes(OwnStep(fs, C)) /\ Kept(C, OwnStep(fs, C))
    BY <1>2, <1>6, EvalRepeats
  <2> QED BY <1>1, <2>1, <2>2, OwnRepeats
<1>7. CASE EvalAssemble
  BY <1>1, <1>7, CallRepeats
<1>8. CASE ReturnNested
  BY <1>1, <1>8, ReturnRepeats
<1> QED BY <1>3, <1>4, <1>5, <1>6, <1>7, <1>8 DEF Compile

\* RepeatInv is inductive, given what the other invariants say.
LEMMA RepeatStep == IInv /\ CleanInv /\ RepeatInv /\ [Next]_vars => RepeatInv'
<1> SUFFICES ASSUME IInv, CleanInv, RepeatInv, [Next]_vars PROVE RepeatInv'
  OBVIOUS
<1>1. CASE Request
  <2>1. PICK f \in DOMAIN fs, max \in Limits, known \in BOOLEAN :
          stack' = <<[NewCompiler(f, max, known) EXCEPT !.list = Reset(list)]>>
    BY <1>1 DEF Request
  <2> DEFINE c == [NewCompiler(f, max, known) EXCEPT !.list = <<>>]
  <2>2. [NewCompiler(f, max, known) EXCEPT !.list = Reset(list)] = c
    BY DEF Reset
  <2>3. c.file = f /\ c.max = max /\ c.default = known
    BY DEF NewCompiler
  <2> HIDE DEF c
  <2>4. stack' = <<c>> /\ fs' = fs /\ results' = results
    BY <1>1, <2>1, <2>2 DEF Request, c
  <2>5. stack'[1] = c
    BY <2>4
  <2>6. StartOf(c) = <<c>>
    BY <2>3 DEF StartOf, Started, c
  <2>7. Runs(fs, StartOf(stack'[1]), stack')
    BY <2>4, <2>5, <2>6, RunsHere
  <2> QED BY <2>4, <2>7 DEF RepeatInv
<1>2. CASE ReturnResult
  <2>1. stack # <<>> /\ Ended(stack)
    BY <1>2 DEF ReturnResult, In, Ended, C
  <2>2. C = stack[1]
    BY <2>1 DEF C, Ended
  <2>3. stack' = <<>> /\ fs' = fs /\ results' = Append(results, Result(C))
    BY <1>2 DEF ReturnResult, Result
  <2>4. PICK S : results \in Seq(S)
    BY DEF IInv, ResultsOK
  <2> DEFINE new == Result(C)
  <2>5. new.file = C.file /\ new.max = C.max /\ new.known = C.default
    BY DEF Result
  <2>6. Runs(fs, Started(new.file, new.max, new.known), stack)
    BY <2>1, <2>2, <2>5 DEF RepeatInv, StartOf
  <2>7. new = Result(stack[1])
    BY <2>2
  <2> HIDE DEF new
  <2>8. \A i \in DOMAIN results' :
          results'[i] = new \/ (i \in DOMAIN results /\ results'[i] = results[i])
    <3>1. results \in Seq(S \cup {new}) /\ results' = Append(results, new)
      BY <2>3, <2>4 DEF new
    <3> QED BY <3>1
  <2>9. ASSUME NEW i \in DOMAIN results'
        PROVE  \E s : /\ Ended(s)
                      /\ Runs(fs', Started(results'[i].file, results'[i].max, results'[i].known), s)
                      /\ results'[i] = Result(s[1])
    <3>1. CASE results'[i] = new
      BY <2>1, <2>3, <2>6, <2>7, <3>1
    <3>2. CASE i \in DOMAIN results /\ results'[i] = results[i]
      BY <2>3, <3>2 DEF RepeatInv
    <3> QED BY <2>8, <3>1, <3>2
  <2> QED BY <2>3, <2>9 DEF RepeatInv
<1>3. CASE Compile /\ ~ReturnResult /\ ~crashed'
  <2>1. stack # <<>> /\ ~Ended(stack) /\ SameRun(StackStep(fs, stack))
    BY <1>3, CompileRepeats
  <2>2. Runs(fs, StartOf(stack[1]), StackStep(fs, stack))
    BY <2>1, RunsOn DEF RepeatInv
  <2> QED BY <2>1, <2>2 DEF RepeatInv, SameRun
<1>4. CASE Rest \/ UNCHANGED vars
  BY <1>4 DEF Rest, vars, RepeatInv
<1>5. CASE Compile /\ crashed'
  <2>1. UNCHANGED <<fs, stack, results>>
    BY <1>5 DEF Compile, Becomes, Crash, Open, LoadInclude, LoadTarget, LoadDefine, LoadOther,
         LoadNested, LoadDone, ExpandOp, ExpandInclude, ExpandAssemble, ExpandNothing, ExpandLeave,
         EvalCached, EvalAssemble, Finish, ReturnNested, ReturnResult, In
  <2> QED BY <2>1 DEF RepeatInv
<1> QED BY <1>1, <1>2, <1>3, <1>4, <1>5 DEF Next

\* Nothing of one compilation, cancelled or not, shows in the next: the same file compiled
\* with the same settings gives the same output and the same reports (compiler.go:133-152).
THEOREM RepeatTheorem == Spec => []Repeatable
<1>1. Init => RepeatInv
  BY DEF Init, RepeatInv
<1>2. RepeatInv => Repeatable
  <2> SUFFICES ASSUME RepeatInv, NEW i \in DOMAIN results, NEW j \in DOMAIN results,
                      results[i].file = results[j].file, results[i].max = results[j].max,
                      results[i].known = results[j].known
               PROVE  results[i] = results[j]
    BY DEF Repeatable
  <2> DEFINE s0 == Started(results[i].file, results[i].max, results[i].known)
  <2>1. PICK s : Ended(s) /\ Runs(fs, s0, s) /\ results[i] = Result(s[1])
    BY DEF RepeatInv
  <2>2. PICK t : Ended(t) /\ Runs(fs, s0, t) /\ results[j] = Result(t[1])
    BY DEF RepeatInv
  <2> HIDE DEF s0
  <2>3. s = t
    BY <2>1, <2>2, RunsEnd
  <2> QED BY <2>1, <2>2, <2>3
<1> QED BY <1>1, <1>2, Invariant, CleanInvariant, RepeatStep, PTL DEF Spec
=============================================================================
