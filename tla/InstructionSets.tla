--------------------------- MODULE InstructionSets ---------------------------
(****************************************************************************)
(* FindInstructionSet (internal/evm/instruction_set.go): a fork name becomes *)
(* the set of its operations, computed along the chain of the fork's        *)
(* ancestors, and the questions other parts ask of the result.              *)
(****************************************************************************)
EXTENDS Opcodes, FiniteSets

VARIABLES registry,     \* forkReg
          asked,        \* the name given to FindInstructionSet
          state,        \* where the resolution stands
          lineage,      \* the chain found so far, the fork asked for first
          byName, byCode, opRemoved

setVars == <<registry, asked, state, lineage, byName, byCode, opRemoved>>

NoOps == [c \in {} |-> c]

\* A request is a table of forks, the shipped one (Forks) or one it could become,
\* and a name.
SetInit(requests) ==
  /\ \E r \in requests : registry = r[1] /\ asked = r[2]
  /\ state = "find"
  /\ lineage = <<>>
  /\ byName = {} /\ byCode = NoOps /\ opRemoved = NoOps

\* A canonical name, or else an alias of whichever entry the map yields first.
Found ==
  IF asked \in DOMAIN registry THEN {asked}
  ELSE {f \in DOMAIN registry : asked \in registry[f].aliases}

Find ==
  /\ state = "find"
  /\ \/ /\ Found = {}
        /\ state' = "unknown" /\ UNCHANGED lineage
     \/ \E def \in Found : state' = "lineage" /\ lineage' = <<def>>
  /\ UNCHANGED <<registry, asked, byName, byCode, opRemoved>>

Visited == {lineage[i] : i \in DOMAIN lineage}

\* Follow the parent.  A cycle or an unknown parent is a panic of the caller.
Ascend ==
  /\ state = "lineage"
  /\ LET parent == registry[lineage[Len(lineage)]].parent
     IN  \/ parent = NoParent /\ state' = "remove" /\ UNCHANGED lineage
         \/ /\ parent # NoParent /\ parent \notin DOMAIN registry \ Visited
            /\ state' = "panic" /\ UNCHANGED lineage
         \/ /\ parent \in DOMAIN registry \ Visited
            /\ lineage' = Append(lineage, parent) /\ UNCHANGED state
  /\ UNCHANGED <<registry, asked, byName, byCode, opRemoved>>

\* The oldest definition that is not resolved yet.
Def == registry[lineage[Len(lineage)]]

Without(f, keys) == [k \in DOMAIN f \ keys |-> f[k]]

Amended(f, entries) ==
  [k \in DOMAIN f \cup DOMAIN entries |-> IF k \in DOMAIN entries THEN entries[k] ELSE f[k]]

CodesOf(ops) == {Code[op] : op \in ops}

\* Each code with its operation.
Named(ops) == [c \in CodesOf(ops) |-> CHOOSE op \in ops : Code[op] = c]

SameCode(ops) == Cardinality(CodesOf(ops)) # Cardinality(ops)

\* The removals of a definition come before its additions, so that a code can be
\* given to another operation.
Remove ==
  /\ state = "remove"
  /\ IF Def.removed \subseteq byName /\ ~SameCode(Def.removed)
     THEN /\ state' = "add"
          /\ byName' = byName \ Def.removed
          /\ byCode' = Without(byCode, CodesOf(Def.removed))
          /\ opRemoved' = Amended(opRemoved, [op \in Def.removed |-> lineage[Len(lineage)]])
     ELSE state' = "panic" /\ UNCHANGED <<byName, byCode, opRemoved>>
  /\ UNCHANGED <<registry, asked, lineage>>

\* mutant: an operation that comes back is still known as removed.
AddForgetful ==
  /\ state = "add"
  /\ byName' = byName \cup Def.added
  /\ byCode' = Amended(byCode, Named(Def.added))
  /\ lineage' = SubSeq(lineage, 1, Len(lineage) - 1)
  /\ state' = IF Len(lineage) = 1 THEN "done" ELSE "remove"
  /\ UNCHANGED <<registry, asked, opRemoved>>

Add ==
  /\ state = "add"
  /\ IF /\ Def.added \cap byName = {} /\ ~SameCode(Def.added)
        /\ CodesOf(Def.added) \cap DOMAIN byCode = {}
     THEN /\ byName' = byName \cup Def.added
          /\ byCode' = Amended(byCode, Named(Def.added))
          /\ opRemoved' = Without(opRemoved, Def.added)
          /\ lineage' = SubSeq(lineage, 1, Len(lineage) - 1)
          /\ state' = IF Len(lineage) = 1 THEN "done" ELSE "remove"
     ELSE state' = "panic" /\ UNCHANGED <<byName, byCode, opRemoved, lineage>>
  /\ UNCHANGED <<registry, asked>>

SetNext == Find \/ Ascend \/ Remove \/ Add

-----------------------------------------------------------------------------
(* The same set, defined without the procedure.                              *)

\* The fork and its ancestors, as far as the chain goes and no name repeats.
Chain(reg, f) ==
  LET up[n \in 0..Cardinality(DOMAIN reg)] ==
        IF n = 0 THEN f
        ELSE IF up[n - 1] \in DOMAIN reg THEN reg[up[n - 1]].parent ELSE NoParent
  IN  [n \in DOMAIN up |-> up[n]]

Mentions(def) == def.added \cup def.removed

\* The nearest fork of a chain that mentions the operation.
Nearest(reg, chain, op) ==
  LET hits == {n \in DOMAIN chain : chain[n] \in DOMAIN reg /\ op \in Mentions(reg[chain[n]])}
  IN  IF hits = {} THEN NoParent ELSE chain[CHOOSE n \in hits : \A m \in hits : n <= m]

OpsOf(reg, f) ==
  LET chain == Chain(reg, f)
  IN  {op \in Ops : LET g == Nearest(reg, chain, op) IN g # NoParent /\ op \in reg[g].added}

\* What FindInstructionSet gives for the shipped forks: the code of each operation.
\* (With @@ TLC builds the tables once, and not at every use.)
ByName == [f \in DOMAIN Forks |-> [op \in OpsOf(Forks, f) |-> Code[op]] @@ NoOps] @@ NoOps

\* The definitions of a chain make sense: it ends, each removes what there is, and
\* adds names and codes that are free.
WellFormed(reg, f) ==
  LET chain == Chain(reg, f)
      before(g) == IF reg[g].parent = NoParent THEN {} ELSE OpsOf(reg, reg[g].parent)
      sane(g) ==
        LET old  == before(g)
            kept == old \ reg[g].removed
        IN  /\ reg[g].removed \subseteq old
            /\ reg[g].added \cap kept = {}
            /\ ~SameCode(reg[g].added \cup kept)
  IN  /\ chain[Cardinality(DOMAIN reg)] = NoParent
      /\ \A n \in DOMAIN chain : chain[n] # NoParent => chain[n] \in DOMAIN reg /\ sane(chain[n])

\* A table of forks names operations that exist, and the name that stands for no
\* parent is the name of no fork.
IsRegistry(reg) ==
  /\ IsFiniteSet(DOMAIN reg) /\ NoParent \notin DOMAIN reg
  /\ \A f \in DOMAIN reg : Mentions(reg[f]) \subseteq Ops

\* There are finitely many operations, the definitions that are shipped make sense
\* (FindInstructionSet panics on others; TestForkDefs checks that the chains end), and
\* every shipped fork can push data of any size.
ASSUME OpsAssumption == IsFiniteSet(Ops)
ASSUME ForksAssumption == IsRegistry(Forks) /\ \A f \in DOMAIN Forks : WellFormed(Forks, f)
ASSUME ByNameAssumption == \A f \in DOMAIN Forks : DOMAIN ByName[f] = OpsOf(Forks, f)
ASSUME PushAssumption ==
  \A f \in DOMAIN Forks : \A n \in 1..32 : PushOp(n) \in DOMAIN ByName[f]

-----------------------------------------------------------------------------
(* Questions about the result.                                               *)

ForkWhereOpRemoved(op) == IF op \in DOMAIN opRemoved THEN opRemoved[op] ELSE NoParent

ForksWhereOpAdded(op) == {f \in DOMAIN registry : op \in registry[f].added}

\* Why the assembler does not know an operation.
ResolveError(op) ==
  IF op \in byName THEN "none"
  ELSE IF ForkWhereOpRemoved(op) # NoParent THEN "removed"
  ELSE IF ForksWhereOpAdded(op) # {} THEN "added elsewhere"
  ELSE "unknown"

\* A resolved set has exactly the operations that the nearest mention of each along
\* the chain of ancestors decides for, the table of codes is the inverse of the table
\* of names, and the operations known as removed are those a fork of the chain removed
\* last (the three cases of ForkWhereOpRemoved's comment give "").  Only a chain that
\* makes no sense panics, and the shipped forks never do.
SetIsExact ==
  /\ state = "done" =>
       \E f \in DOMAIN registry :
         /\ f = asked \/ (asked \notin DOMAIN registry /\ asked \in registry[f].aliases)
         /\ WellFormed(registry, f)
         /\ byName = OpsOf(registry, f)
         /\ DOMAIN byCode = CodesOf(byName)
         /\ \A c \in DOMAIN byCode : byCode[c] \in byName /\ Code[byCode[c]] = c
         /\ LET chain == Chain(registry, f) IN
              \A op \in Ops \ byName : ForkWhereOpRemoved(op) = Nearest(registry, chain, op)
         /\ DOMAIN opRemoved \cap byName = {}
  /\ state = "panic" =>
       /\ registry # Forks
       /\ \E f \in Found : ~WellFormed(registry, f)
  /\ state = "unknown" =>
       \A f \in DOMAIN registry : asked # f /\ asked \notin registry[f].aliases
==============================================================================
