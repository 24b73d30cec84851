------------------------------- MODULE Session -------------------------------
(****************************************************************************)
(* A user's compiler and the compilers nested in it: loading of a file and  *)
(* its includes (internal/loader), the error list that aborts a compilation *)
(* from wherever it has got to, and the assemble() macro, which runs another *)
(* compiler in the middle of evaluation (asm/compiler.go,                   *)
(* asm/evaluator_builtins.go).  Expansion and layout proper are reduced to  *)
(* the errors statements cause; modules Expansion and Layout model them.    *)
(****************************************************************************)
EXTENDS Integers, Sequences, FiniteSets, FiniteSetsExt

CONSTANTS
  FileSystems,   \* each a function from the names of existing files to contents
  Limits,        \* values given to SetMaxErrors
  NestedLimit,   \* limit of a nested compiler, 10 in the code
  MaxDepth,      \* the include depth limit
  MaxRequests    \* bound of the model: compilations of one compiler

(* A file is what its parser reports, a list of "error" and "warning", and   *)
(* its statements: an #include, an assemble(), a #pragma target naming a     *)
(* known or unknown fork, a macro definition, and an opcode other than PUSH  *)
(* that the compiler accepts, rejects, or accepts with a warning.            *)
File(parse, body) == [parse |-> parse, body |-> body]
Include(f)     == [is |-> "include", file |-> f]
Assemble(f)    == [is |-> "assemble", file |-> f]
Target(known)  == [is |-> "target", known |-> known]
Define(n, global) == [is |-> "define", name |-> n, global |-> global]
Instr(report)  == [is |-> "op", report |-> report]

Uses(fs, f, kind) ==
  {fs[f].body[k].file : k \in {j \in DOMAIN fs[f].body : fs[f].body[j].is = kind}}

\* No file assembles itself: the code has no limit on that.
Grounded(fs) ==
  \E rank \in [DOMAIN fs -> 0..Cardinality(DOMAIN fs)] :
    \A f \in DOMAIN fs :
      /\ \A g \in Uses(fs, f, "include") \cap DOMAIN fs : rank[f] <= rank[g]
      /\ \A g \in Uses(fs, f, "assemble") \cap DOMAIN fs : rank[f] < rank[g]

\* What a parser reports, or what comes of expanding a statement.
Reports == Seq({"error", "warning"})

ASSUME FilesAssumption ==
  \A fs \in FileSystems :
    /\ IsFiniteSet(DOMAIN fs)
    /\ \A f \in DOMAIN fs :
         LET body == fs[f].body IN
           /\ fs[f].parse \in Reports
           /\ body \in Seq({body[k] : k \in DOMAIN body})
           /\ \A k \in DOMAIN body : body[k].is = "op" => body[k].report \in Reports
ASSUME GroundedAssumption == \A fs \in FileSystems : Grounded(fs)
ASSUME LimitAssumption    == Limits \subseteq Nat \ {0} /\ NestedLimit \in Nat \ {0}

VARIABLES
  fs,        \* the file system
  list,      \* the error list of the user's compiler, kept until the next request
  stack,     \* the running compilers, the innermost one last
  results,   \* what the requests have returned
  crashed    \* a panic other than the one that cancels compilation

vars == <<fs, list, stack, results, crashed>>

-----------------------------------------------------------------------------
(* The error list *)

NumErrors(l) == Cardinality({i \in DOMAIN l : l[i] = "error"})
HasError(l)  == NumErrors(l) > 0

TooMany(l, max) == NumErrors(l) > max

AddedAll(l, new, max) == l \o new   \* mutant: the limit is checked at the end

\* Adding stops with the error that is one too many.
Added(l, new, max) ==
  LET over == {n \in 1..Len(new) : TooMany(l \o SubSeq(new, 1, n), max)}
  IN  l \o (IF over = {} THEN new ELSE SubSeq(new, 1, Min(over)))

\* A compiler c goes on with the reports `new' on its list, or is cancelled.
Report(c, new) ==
  LET l == Added(c.list, new, c.max)
  IN  [c EXCEPT !.list = l, !.phase = IF TooMany(l, c.max) THEN "return" ELSE c.phase]

NewCompiler(f, max, known) ==
  [file |-> f, max |-> max, default |-> known, known |-> known, forkDefined |-> FALSE,
   phase |-> "open", list |-> <<>>, docs |-> <<>>, defs |-> {}, frames |-> <<>>,
   code |-> <<>>, next |-> 1, cache |-> <<>>, output |-> FALSE]

C == stack[Len(stack)]
In(phase) == ~crashed /\ stack # <<>> /\ C.phase = phase

Becomes(c) ==
  /\ stack' = [stack EXCEPT ![Len(stack)] = c]
  /\ UNCHANGED <<fs, list, results, crashed>>

Crash == crashed' = TRUE /\ UNCHANGED <<fs, list, stack, results>>

-----------------------------------------------------------------------------
(* Requests *)

Init ==
  /\ fs \in FileSystems
  /\ list = <<>> /\ stack = <<>> /\ results = <<>> /\ crashed = FALSE

ResetNone(l) == l   \* mutant: the list is not cleared
Reset(l)     == <<>>

\* CompileFile, with a limit set before and a default fork that may not exist.
Request ==
  /\ ~crashed /\ stack = <<>> /\ Len(results) < MaxRequests
  /\ \E f \in DOMAIN fs, max \in Limits, known \in BOOLEAN :
        stack' = <<[NewCompiler(f, max, known) EXCEPT !.list = Reset(list)]>>
  /\ UNCHANGED <<fs, list, results, crashed>>

\* What reading and parsing a file adds to the list.
Parsed(f) == IF f \in DOMAIN fs THEN fs[f].parse ELSE <<"error">>

Start == <<[doc |-> 1, at |-> 1, todo |-> <<>>]>>
Document(f) == [file |-> f, includes |-> <<>>]

\* Without a known default fork the document is not loaded, but compiled.
Open ==
  /\ In("open")
  /\ LET c == Report(C, Parsed(C.file)) IN
       IF HasError(Parsed(C.file)) THEN Becomes([c EXCEPT !.phase = "return"])
       ELSE LET d == [c EXCEPT !.docs = <<Document(C.file)>>, !.frames = Start] IN
            Becomes(IF C.known THEN [d EXCEPT !.phase = "load"]
                    ELSE Report([d EXCEPT !.phase = "expand"], <<"error">>))

-----------------------------------------------------------------------------
(* Statements of the document at the top of the frames *)

Top        == C.frames[Len(C.frames)]
Body       == fs[C.docs[Top.doc].file].body
AtEnd      == Top.at > Len(Body)
At(kind)   == ~AtEnd /\ Body[Top.at].is = kind
St         == Body[Top.at]
Advanced   == [C.frames EXCEPT ![Len(C.frames)].at = @ + 1]
Passed     == [C EXCEPT !.frames = Advanced]

-----------------------------------------------------------------------------
(* Loading *)

DepthReached(depth) == depth > MaxDepth

\* Statement `at' of document i includes file f.
Including(docs, i, at, f) ==
  Append([docs EXCEPT ![i].includes =
            [k \in DOMAIN @ \cup {at} |-> IF k = at THEN Len(docs) + 1 ELSE @[k]]], Document(f))

\* Documents included are loaded after the rest of this one.
ToLoad(frames, n) == [frames EXCEPT ![Len(frames)].todo = Append(@, n)]

\* The document becomes known for the statement unless reading fails.
LoadInclude ==
  /\ In("load") /\ At("include")
  /\ LET new == IF DepthReached(Len(C.frames)) THEN <<"error">> ELSE Parsed(St.file)
         c   == Report(Passed, new)
     IN  Becomes(IF HasError(new) THEN c
                 ELSE [c EXCEPT !.docs = Including(@, Top.doc, Top.at, St.file),
                                !.frames = ToLoad(@, Len(C.docs) + 1)])

\* A target is rejected in an included file and when it is the second one, but
\* takes effect all the same; an unknown one leaves the program without a fork.
LoadTarget ==
  /\ In("load") /\ At("target")
  /\ LET c == Report(Passed, (IF Len(C.frames) > 1 THEN <<"error">> ELSE <<>>)
                             \o (IF C.forkDefined THEN <<"error">> ELSE <<>>)
                             \o (IF St.known THEN <<>> ELSE <<"error">>))
     IN  Becomes([c EXCEPT !.known = St.known, !.forkDefined = TRUE])

\* Global definitions share one table, local ones have one for each document.
LoadDefine ==
  /\ In("load") /\ At("define")
  /\ LET def == <<IF St.global THEN 0 ELSE Top.doc, St.name>> IN
       IF def \in C.defs THEN Becomes(Report(Passed, <<"error">>))
       ELSE Becomes([Passed EXCEPT !.defs = @ \cup {def}])

LoadOther ==
  /\ In("load") /\ (At("op") \/ At("assemble"))
  /\ Becomes(Passed)

LoadNestedAgain ==   \* mutant: the document stays in the list
  /\ In("load") /\ AtEnd /\ Top.todo # <<>>
  /\ Becomes([C EXCEPT !.frames = Append(@, [doc |-> Head(Top.todo), at |-> 1, todo |-> <<>>])])

LoadNested ==
  /\ In("load") /\ AtEnd /\ Top.todo # <<>>
  /\ Becomes([C EXCEPT !.frames = Append([C.frames EXCEPT ![Len(C.frames)].todo = Tail(@)],
                                         [doc |-> Head(Top.todo), at |-> 1, todo |-> <<>>])])

LoadDone ==
  /\ In("load") /\ AtEnd /\ Top.todo = <<>>
  /\ LET rest == SubSeq(C.frames, 1, Len(C.frames) - 1) IN
       Becomes(IF rest # <<>> THEN [C EXCEPT !.frames = rest]
               ELSE [C EXCEPT !.phase = "expand", !.frames = Start])

-----------------------------------------------------------------------------
(* Expansion: opcodes are looked up in the fork, documents that could not be *)
(* read are skipped.                                                         *)

ExpandOp ==
  /\ In("expand") /\ At("op")
  /\ IF C.known THEN Becomes(Report(Passed, St.report)) ELSE Crash

ExpandInclude ==
  /\ In("expand") /\ At("include")
  /\ LET inc == C.docs[Top.doc].includes IN
       Becomes(IF Top.at \notin DOMAIN inc THEN Passed
               ELSE [C EXCEPT !.frames = Append(Advanced, [doc |-> inc[Top.at], at |-> 1,
                                                           todo |-> <<>>])])

ExpandAssemble ==
  /\ In("expand") /\ At("assemble")
  /\ Becomes([Passed EXCEPT !.code = Append(@, <<Top.doc, St.file>>)])

ExpandNothing ==
  /\ In("expand") /\ (At("target") \/ At("define"))
  /\ Becomes(Passed)

ExpandLeave ==
  /\ In("expand") /\ AtEnd
  /\ LET rest == SubSeq(C.frames, 1, Len(C.frames) - 1) IN
       Becomes([C EXCEPT !.frames = rest, !.phase = IF rest = <<>> THEN "eval" ELSE @])

-----------------------------------------------------------------------------
(* Evaluation of assemble(), and the end of a compilation *)

EvalCached ==
  /\ In("eval") /\ C.next <= Len(C.code) /\ C.code[C.next] \in DOMAIN C.cache
  /\ Becomes([C EXCEPT !.next = @ + 1])

\* The nested compiler takes the fork and the depth limit of the one that calls
\* it, and has an error list and a limit of its own.
EvalAssemble ==
  /\ In("eval") /\ C.next <= Len(C.code) /\ C.code[C.next] \notin DOMAIN C.cache
  /\ IF ~C.known THEN Crash
     ELSE /\ stack' = Append(stack, NewCompiler(C.code[C.next][2], NestedLimit, TRUE))
          /\ UNCHANGED <<fs, list, results, crashed>>

AcceptedWithoutWarnings(c) == c.list = <<>>   \* mutant: warnings are taken for errors

\* No output if there have been errors.
Accepted(c) == ~HasError(c.list)

Finish ==
  /\ In("eval") /\ C.next > Len(C.code)
  /\ Becomes([C EXCEPT !.output = Accepted(C), !.phase = "return"])

ResumedQuietly(p, c) ==   \* mutant: the reports are lost
  [p EXCEPT !.cache = [k \in DOMAIN @ \cup {p.code[p.next]} |->
                         IF k = p.code[p.next] THEN c.output ELSE @[k]],
            !.next = @ + 1]

\* The compiler p that has called assemble() takes the reports and the result
\* of the nested compiler c.
Resumed(p, c) ==
  Report([p EXCEPT !.cache = [k \in DOMAIN @ \cup {p.code[p.next]} |->
                                IF k = p.code[p.next] THEN c.output ELSE @[k]],
                   !.next = @ + 1], c.list)

\* CatchAbort ends each compiler's cancellation at its own CompileFile; the one
\* that has called it goes on with the errors, and with empty bytecode if failed.
ReturnNested ==
  /\ In("return") /\ Len(stack) > 1
  /\ stack' = Append(SubSeq(stack, 1, Len(stack) - 2), Resumed(stack[Len(stack) - 1], C))
  /\ UNCHANGED <<fs, list, results, crashed>>

ReturnResult ==
  /\ In("return") /\ Len(stack) = 1
  /\ list' = C.list
  /\ results' = Append(results, [file |-> C.file, max |-> C.max, known |-> C.default,
                                 output |-> C.output, list |-> C.list])
  /\ stack' = <<>>
  /\ UNCHANGED <<fs, crashed>>

Rest == (crashed \/ (stack = <<>> /\ Len(results) = MaxRequests)) /\ UNCHANGED vars

Compile ==
  \/ Open \/ LoadInclude \/ LoadTarget \/ LoadDefine \/ LoadOther \/ LoadNested \/ LoadDone
  \/ ExpandOp \/ ExpandInclude \/ ExpandAssemble \/ ExpandNothing \/ ExpandLeave
  \/ EvalCached \/ EvalAssemble \/ Finish \/ ReturnNested \/ ReturnResult

Next == Request \/ Compile \/ Rest

\* A request runs to its end in one goroutine; the user need not make any.
Spec == Init /\ [][Next]_vars /\ WF_vars(Compile)

-----------------------------------------------------------------------------
(* Properties *)

\* A compilation stops with the first error above its limit, whichever part
\* reports it and however many come at once, and then has no output
\* (errorlist.go:50-84).
LimitHolds ==
  \A i \in DOMAIN stack :
    LET c == stack[i] IN
      /\ NumErrors(c.list) <= c.max + 1
      /\ NumErrors(c.list) > c.max => c.phase = "return" /\ ~c.output

Used(f) == IF f \in DOMAIN fs THEN Uses(fs, f, "include") \cup Uses(fs, f, "assemble") ELSE {}

\* The files that f is made of, by any chain of #include and assemble().
Needed(f) ==
  LET within[n \in 0..Cardinality(DOMAIN fs)] ==
        IF n = 0 THEN {f} ELSE within[n - 1] \cup UNION {Used(g) : g \in within[n - 1]}
  IN  within[Cardinality(DOMAIN fs)]

\* There is output only if every file the program is made of, however deep and
\* in whichever nested compiler, was read, parsed and compiled without error.
OutputIsClean ==
  \A i \in DOMAIN results : results[i].output =>
    \A f \in Needed(results[i].file) :
      /\ f \in DOMAIN fs /\ ~HasError(fs[f].parse)
      /\ \A k \in DOMAIN fs[f].body : fs[f].body[k].is = "op" => ~HasError(fs[f].body[k].report)

\* A failed compilation has an error to show: no output is never the effect of
\* warnings alone or of a cancellation in a nested compiler (compiler.go:133-135).
FailureExplained ==
  \A i \in DOMAIN results : ~results[i].output => HasError(results[i].list)

\* Nothing of one compilation, cancelled or not, shows in the next: the same
\* file compiled again with the same settings gives the same result.
Repeatable ==
  \A i, j \in DOMAIN results :
    /\ results[i].file = results[j].file /\ results[i].max = results[j].max
    /\ results[i].known = results[j].known
    => results[i] = results[j]

\* Every request is answered, also for files that include themselves.
Answered == stack # <<>> ~> (stack = <<>> \/ crashed)

\* Compilation fails with an error, never with a panic: "If compilation fails,
\* the returned slice is nil" (compiler.go:133-135).
NeverCrashes == ~crashed
=============================================================================
