------------------------------ MODULE MCCommand ------------------------------
(* Bounded inputs for the commands of geas. *)
EXTENDS FormatMeaning

-----------------------------------------------------------------------------
(* Forks: the shipped table with every name and some aliases; small tables in *)
(* which operations that share a code come and go, parents are missing or in  *)
(* a cycle, and an alias belongs to two forks.                                *)

Shared == {"DIFFICULTY", "RANDOM", "STOP"}

SmallTables ==
  {[a |-> Fork({}, NoParent, x, {}), b |-> Fork({"z"}, parent, {"RANDOM"}, {"DIFFICULTY"}),
    c |-> Fork({"z"}, "b", y, z)] :
     x \in SUBSET Shared, y \in SUBSET Shared, z \in SUBSET Shared, parent \in {"a", "c", "x"}}

MCRequests ==
  ({Forks} \X (DOMAIN Forks \cup {"eip150", "merge", "nofork"})) \cup (SmallTables \X {"c", "z"})

-----------------------------------------------------------------------------
(* Programs: all of up to three statements over a few operations, every byte  *)
(* alone and every byte behind each operation with an immediate, every depth  *)
(* and every pair.                                                            *)

St(op, arg) == [op |-> op, arg |-> arg]

Statements ==
  {St(op, <<>>) : op \in {"STOP", "JUMP", "JUMPI", "JUMPDEST", "PUSH", "label"}}
    \cup {St("PUSH", <<91>>), St("PUSH2", <<96>>), St("DUPN", <<108>>), St("EXCHANGE", <<1, 19>>)}
    \cup {St("#bytes", <<91>>), St("#bytes", <<97>>), St("#bytes", <<254, 230>>)}

Programs == UNION {[1..n -> Statements] : n \in 0..3}

ByteByByte ==
  {<<St("#bytes", <<b>>)>> : b \in Bytes}
    \cup {<<St("#bytes", <<op, b>>)>> : op \in {97, 230, 231, 232}, b \in Bytes}
    \cup {<<St(op, <<depth>>)>> : op \in {"DUPN", "SWAPN"}, depth \in 17..235}
    \cup {<<St("EXCHANGE", <<n, m>>)>> : n \in 1..13, m \in 1..29}

Job(fork, program, pc, labels, blanks) ==
  [fork |-> fork, program |-> program, style |-> [pc |-> pc, labels |-> labels, blanks |-> blanks]]

MCJobs ==
  {Job("amsterdam", p, FALSE, labels, ~labels) : p \in Programs, labels \in BOOLEAN}
    \cup {Job(fork, p, TRUE, FALSE, TRUE) : p \in ByteByByte, fork \in {"amsterdam", "london"}}

-----------------------------------------------------------------------------
(* Sources: expressions with up to three operators, and documents of up to    *)
(* four lines or parts of lines.                                              *)

Id(n) == Tok("id", n)
One   == Tok("num", "1")
Op(o) == Tok("arith", o)
Brackets(s) == <<Tok("(", "")>> \o s \o <<Tok(")", "")>>

Operands ==
  {<<Id("a")>>, Brackets(<<Id("a"), Op("+"), One>>), <<Op("-"), Id("a")>>,
   <<Id("f")>> \o Brackets(<<One, Tok(",", ""), NLTok, Id("a"), Op("*"), One>>),
   <<Id("f")>> \o Brackets(<<>>), Brackets(<<One, NLTok>>)}

Links ==
  {<<Op(o), Id("a")>> : o \in {"+", "-", "*", "%"}} \cup {<<Tok("percent", "a")>>}
    \cup {<<Op(o)>> \o x : o \in {"-", "*"}, x \in Operands}

Expressions ==
  Operands \cup {x \o l : x \in Operands, l \in Links}
    \cup {x \o l \o m : x \in Operands, l \in Links, m \in Links}
    \cup {<<One>> \o l \o m \o <<Op(o), One>> : l \in Links, m \in Links, o \in {"+", "%"}}

Remarks == {Note("y", 1, FALSE), Note("z", 2, FALSE), Note("[", 3, TRUE)}

Parts ==
  {<<NLTok>>, <<Id("stop"), NLTok>>, <<Id("stop"), Note("x", 2, FALSE), NLTok>>}
    \cup {<<c, NLTok>> : c \in Remarks}
    \cup {<<Tok("macro", "m"), Tok("{", "")>>, <<Tok("}", "")>>, <<Tok("percent", "m")>>,
          <<Tok("label", "l"), Id("stop"), NLTok>>, <<Tok("define", "d"), One, NLTok>>,
          <<Tok("bytes", ""), One, NLTok>>}

Joined(parts) ==
  LET upto[i \in 0..Len(parts)] == IF i = 0 THEN <<>> ELSE upto[i - 1] \o parts[i]
  IN  upto[Len(parts)]

Documents == {Joined(s) : s \in UNION {[1..n -> Parts] : n \in 0..4}}

\* A macro with nothing in it but a comment behind its opening brace.
Hollow(text) ==
  \E i, j, c \in DOMAIN text :
    /\ i < c /\ c < j /\ text[i].k = "{" /\ text[c].k = "comment" /\ text[j].k = "}"
    /\ \A n \in i + 1..j - 1 : n = c \/ text[n] = NLTok

MCSources ==
  {d \in Documents : ~Hollow(d)} \cup {<<Id("push")>> \o x \o <<NLTok>> : x \in Expressions}

HollowMacros ==
  {<<Tok("macro", "m"), Tok("{", ""), c, NLTok, Tok("}", ""), NLTok>> : c \in Remarks}

-----------------------------------------------------------------------------
(* Command lines.  One of each kind gets all inputs, the others a single one.  *)

OneRequest == {<<[a |-> Fork({}, NoParent, {}, {})], "a">>}
OneJob     == {Job("osaka", <<St("STOP", <<>>)>>, FALSE, FALSE, TRUE)}
OneSource  == {<<Id("stop"), NLTok>>}

Cmd(mode, to, fault) == [mode |-> mode, to |-> to, fault |-> fault]
Call(c, requests, jobs, sources) ==
  [cmd |-> c, requests |-> requests, jobs |-> jobs, sources |-> sources]

SmallCalls ==
  UNION {{Call(Cmd(mode, to, fault), OneRequest, OneJob, OneSource) :
            to \in IF mode = "-i" THEN {"stdout"} ELSE {"stdout", "file"}, fault \in Faults(mode)} :
           mode \in {"-a", "-d", "-f", "-i"}}

MCInvocations ==
  SmallCalls \cup
  {Call(Cmd("-f", "check", "none"), OneRequest, OneJob, OneSource \cup {<<Id("stop")>>}),
   Call(Cmd("-f", "file", "none"), OneRequest, OneJob, MCSources),
   Call(Cmd("-d", "stdout", "none"), OneRequest, MCJobs, OneSource),
   Call(Cmd("-i", "stdout", "none"), MCRequests, OneJob, OneSource)}

MCBrace == {Call(Cmd("-f", "file", "none"), OneRequest, OneJob, HollowMacros \cup OneSource)}
==============================================================================
