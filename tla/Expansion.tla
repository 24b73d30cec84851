------------------------------ MODULE Expansion ------------------------------
(****************************************************************************)
(* Expansion of documents into one list of instructions, and the resolution *)
(* of the labels in their arguments (asm/compiler_expand.go,                *)
(* asm/compiler_prog.go, asm/evaluator.go).  A call of an instruction macro *)
(* expands a clone of its body, so each call has labels of its own; an      *)
(* #include expands the one document the loader parsed for the statement.   *)
(****************************************************************************)
EXTENDS Integers, Sequences, FiniteSets

CONSTANTS
  Sources,   \* the programs to expand
  Globals    \* the label names that are global, i.e. capitalised

(* A source is a sequence of documents in the order the loader visits them, *)
(* the first one the program itself.  Each is a file (parent 0) or the body *)
(* of a macro defined in the file `parent'; macros have at most one         *)
(* parameter.  Arguments are label references or the parameter.             *)
Param    == [is |-> "param"]
Ref(n)   == [is |-> "ref", name |-> n]
Label(n, dotted) == [is |-> "label", name |-> n, dotted |-> dotted]
Push(e)  == [is |-> "push", arg |-> e]
Jump(n)  == [is |-> "jump", name |-> n]
Call(d, args) == [is |-> "call", doc |-> d, args |-> args]
Include(d)    == [is |-> "include", doc |-> d]

\* The parameter has a meaning in the body of a macro that declares it and in
\* the files such a body includes.
HasParam(src, d) ==
  IF src[d].parent # 0 THEN src[d].params = 1
  ELSE \E m \in DOMAIN src : src[m].params = 1 /\ Include(d) \in {src[m].body[k] : k \in DOMAIN src[m].body}

Places(src) == UNION {{<<d, k>> : k \in DOMAIN src[d].body} : d \in DOMAIN src}

IsList(l) == l \in Seq({l[k] : k \in DOMAIN l})

IsSource(src) ==
  /\ IsList(src) /\ 1 \in DOMAIN src /\ src[1].parent = 0
  /\ \A d \in DOMAIN src :
       /\ IsList(src[d].body)
       /\ src[d].parent \in {0} \cup {f \in DOMAIN src : src[f].parent = 0}  \* no nesting
       /\ src[d].params \in (IF src[d].parent = 0 THEN {0} ELSE 0..1)
  /\ \A x \in Places(src) :
       LET st == src[x[1]].body[x[2]] IN
         /\ st.is \in {"label", "push", "jump", "call", "include"}
         /\ st.is = "call" =>
              st.doc \in DOMAIN src /\ src[st.doc].parent # 0 /\ IsList(st.args)
         \* the loader parses a document of its own for every #include
         /\ st.is = "include" =>
              /\ st = Include(st.doc) /\ st.doc \in DOMAIN src
              /\ st.doc > x[1] /\ src[st.doc].parent = 0
              /\ \A y \in Places(src) \ {x} : src[y[1]].body[y[2]] # st
         \* the loader reports a second definition of a local label
         /\ st.is = "label" /\ st.name \notin Globals =>
              \A k \in DOMAIN src[x[1]].body \ {x[2]} :
                src[x[1]].body[k].is = "label" => src[x[1]].body[k].name # st.name
         /\ (st.is = "push" /\ st.arg = Param) \/ (st.is = "call" /\ Param \in {st.args[k] : k \in DOMAIN st.args})
              => HasParam(src, x[1])

ASSUME SourcesAssumption == \A src \in Sources : IsSource(src)

VARIABLES
  docs,        \* the source
  phase,       \* "expand", "eval" or "done"
  sections,    \* compilerSection of every expanded document
  frames,      \* the expansions in progress: section and next statement
  macroStack,  \* macros being expanded
  elems,       \* the instructions, with the section they belong to
  labels,      \* the label instances, in order of definition
  errors,      \* what has been reported
  labelInstr,  \* instruction of each registered label instance
  cur,         \* instruction being evaluated
  env,         \* the expression it has come down to, and its section
  resolved     \* index in `labels' that each evaluated argument has found

vars == <<docs, phase, sections, frames, macroStack, elems, labels, errors,
          labelInstr, cur, env, resolved>>

-----------------------------------------------------------------------------
(* Sections and definitions *)

Frame     == frames[Len(frames)]
Sec       == Frame.sec
Doc       == sections[Sec].doc
Statement == docs[Doc].body[Frame.at]
AtStatement(kind) ==
  phase = "expand" /\ frames # <<>> /\ Frame.at <= Len(docs[Doc].body) /\ Statement.is = kind

Advanced == [frames EXCEPT ![Len(frames)].at = @ + 1]

IsMacro(d) == docs[d].parent # 0

\* The document a section expands, as the pointer that keys its labels: bodies
\* are cloned for each call, files are not.
PointerShared(s) == <<sections[s].doc, 0>>   \* mutant: bodies are not cloned
Pointer(s) == <<sections[s].doc, IF IsMacro(sections[s].doc) THEN s ELSE 0>>

\* The documents enclosing a section, innermost first.
Enclosing(s) ==
  LET d == sections[s].doc
  IN  IF IsMacro(d) THEN <<Pointer(s), <<d, 0>>, <<docs[d].parent, 0>>>> ELSE <<Pointer(s)>>

DefinedIn(d, n) ==
  {<<d, k>> : k \in {j \in DOMAIN docs[d].body :
                       docs[d].body[j].is = "label" /\ docs[d].body[j].name = n}}

Instances(n) == {i \in DOMAIN labels : labels[i].name = n}

\* What the loader knows of a global name is the first definition it has seen.
FirstLoaded(n) ==
  LET all == UNION {DefinedIn(d, n) : d \in DOMAIN docs}
  IN  {x \in all : \A y \in all : x[1] < y[1] \/ (x[1] = y[1] /\ x[2] <= y[2])}

\* The definition a name refers to in a section: of a global name its instance
\* in the program so far, or else the first one loaded; of a local one that in
\* the nearest enclosing document.
Definitions(n, s) ==
  IF n \in Globals
  THEN IF Instances(n) # {} THEN {labels[i].def : i \in Instances(n)} ELSE FirstLoaded(n)
  ELSE LET d == sections[s].doc
       IN  IF DefinedIn(d, n) # {} \/ ~IsMacro(d) THEN DefinedIn(d, n)
           ELSE DefinedIn(docs[d].parent, n)

Dotted(def) == docs[def[1]].body[def[2]].dotted

Key(l) == <<IF l.name \in Globals THEN <<0, 0>> ELSE l.doc, l.def>>

Init ==
  /\ docs \in Sources
  /\ phase = "expand"
  /\ sections = <<[doc |-> 1, parent |-> 0, callsite |-> 0, args |-> <<>>]>>
  /\ frames = <<[sec |-> 1, at |-> 1]>>
  /\ macroStack = {}
  /\ elems = <<>> /\ labels = <<>> /\ errors = {}
  /\ labelInstr = <<>> /\ cur = 1 /\ env = <<>> /\ resolved = <<>>

-----------------------------------------------------------------------------
(* Expansion *)

\* Labels whose instruction has not been added yet point to the next one.
AttachAgain(ls) ==   \* mutant: labels stay pending
  [i \in DOMAIN ls |-> [ls[i] EXCEPT !.instr = Len(elems) + 1]]
Attach(ls) == [i \in DOMAIN ls |-> IF ls[i].instr = 0 THEN [ls[i] EXCEPT !.instr = Len(elems) + 1]
                                   ELSE ls[i]]

Instruction(op, e) == [op |-> op, arg |-> e, sec |-> Sec]

DuplicateElsewhere(st) ==   \* mutant: the same definition twice goes unnoticed
  st.name \in Globals /\ \E i \in Instances(st.name) : labels[i].def # <<Doc, Frame.at>>

Duplicate(st) == st.name \in Globals /\ Instances(st.name) # {}

\* A label is pending until the next instruction, which is its own JUMPDEST
\* unless it is dotted.
ExpandLabel ==
  /\ AtStatement("label")
  /\ LET st  == Statement
         new == [name |-> st.name, doc |-> Pointer(Sec), def |-> <<Doc, Frame.at>>,
                 instr |-> 0, sec |-> Sec]
     IN  IF Duplicate(st)
         THEN /\ errors' = errors \cup {<<"duplicate label", st.name>>}
              /\ UNCHANGED <<elems, labels>>
         ELSE IF st.dotted
         THEN /\ labels' = Append(labels, new)
              /\ UNCHANGED <<elems, errors>>
         ELSE /\ labels' = Attach(Append(labels, new))
              /\ elems' = Append(elems, Instruction("jumpdest", Param))
              /\ UNCHANGED errors
  /\ frames' = Advanced
  /\ UNCHANGED <<docs, phase, sections, macroStack, labelInstr, cur, env, resolved>>

ExpandPush ==
  /\ AtStatement("push")
  /\ elems' = Append(elems, Instruction("push", Statement.arg))
  /\ labels' = Attach(labels)
  /\ frames' = Advanced
  /\ UNCHANGED <<docs, phase, sections, macroStack, errors, labelInstr, cur, env, resolved>>

\* `jump @label' pushes the label and jumps, provided that the label is defined
\* and stands for a JUMPDEST.
ExpandJump ==
  /\ AtStatement("jump")
  /\ LET defs == Definitions(Statement.name, Sec)
     IN  IF defs = {} \/ \E def \in defs : Dotted(def)
         THEN /\ errors' = errors \cup {<<"jump", Statement.name>>}
              /\ UNCHANGED <<elems, labels>>
         ELSE /\ elems' = elems \o <<Instruction("push", Ref(Statement.name)),
                                    Instruction("jump", Param)>>
              /\ labels' = Attach(labels)
              /\ UNCHANGED errors
  /\ frames' = Advanced
  /\ UNCHANGED <<docs, phase, sections, macroStack, labelInstr, cur, env, resolved>>

Enter(d, callsite, args) ==
  /\ sections' = Append(sections, [doc |-> d, parent |-> Sec, callsite |-> callsite, args |-> args])
  /\ frames' = Append(Advanced, [sec |-> Len(sections) + 1, at |-> 1])

\* The arguments are kept with the section that calls, where they have a meaning.
ExpandCall ==
  /\ AtStatement("call")
  /\ Statement.doc \notin macroStack
  /\ Len(Statement.args) = docs[Statement.doc].params
  /\ macroStack' = macroStack \cup {Statement.doc}
  /\ Enter(Statement.doc, Sec, Statement.args)
  /\ UNCHANGED <<docs, phase, elems, labels, errors, labelInstr, cur, env, resolved>>

CallFailsAgain ==   \* mutant: expansion does not continue after the call
  /\ AtStatement("call")
  /\ Statement.doc \in macroStack \/ Len(Statement.args) # docs[Statement.doc].params
  /\ errors' = errors \cup {<<"call", Statement.doc>>}
  /\ UNCHANGED <<docs, phase, sections, frames, macroStack, elems, labels, labelInstr, cur, env, resolved>>

CallFails ==
  /\ AtStatement("call")
  /\ \/ /\ Statement.doc \in macroStack
        /\ errors' = errors \cup {<<"recursive call", Statement.doc>>}
     \/ /\ Statement.doc \notin macroStack
        /\ Len(Statement.args) # docs[Statement.doc].params
        /\ errors' = errors \cup {<<"argument count", Statement.doc>>}
  /\ frames' = Advanced
  /\ UNCHANGED <<docs, phase, sections, macroStack, elems, labels, labelInstr, cur, env, resolved>>

\* A file included by a macro body is expanded with the arguments of the call.
ExpandInclude ==
  /\ AtStatement("include")
  /\ Enter(Statement.doc, sections[Sec].callsite, sections[Sec].args)
  /\ UNCHANGED <<docs, phase, macroStack, elems, labels, errors, labelInstr, cur, env, resolved>>

LeaveSectionStays ==   \* mutant: the macro is not taken off the stack
  /\ phase = "expand" /\ Len(frames) > 1 /\ Frame.at > Len(docs[Doc].body)
  /\ frames' = SubSeq(frames, 1, Len(frames) - 1)
  /\ UNCHANGED <<docs, phase, sections, macroStack, elems, labels, errors, labelInstr, cur, env, resolved>>

LeaveSection ==
  /\ phase = "expand" /\ Len(frames) > 1 /\ Frame.at > Len(docs[Doc].body)
  /\ frames' = SubSeq(frames, 1, Len(frames) - 1)
  /\ macroStack' = macroStack \ {Doc}
  /\ UNCHANGED <<docs, phase, sections, elems, labels, errors, labelInstr, cur, env, resolved>>

\* registerLabels makes the instances known to the evaluator, the last one of a
\* key prevailing.
Registered(ls) ==
  [k \in {Key(ls[i]) : i \in DOMAIN ls} |->
     CHOOSE i \in DOMAIN ls : Key(ls[i]) = k /\ \A j \in DOMAIN ls : Key(ls[j]) = k => j <= i]

\* finishExpansion adds an empty instruction for labels at the very end.
FinishExpansion ==
  /\ phase = "expand" /\ Len(frames) = 1 /\ Frame.at > Len(docs[Doc].body)
  /\ elems' = IF \E i \in DOMAIN labels : labels[i].instr = 0
              THEN Append(elems, Instruction("empty", Param)) ELSE elems
  /\ labels' = Attach(labels)
  /\ labelInstr' = Registered(labels)
  /\ phase' = "eval" /\ frames' = <<>>
  /\ UNCHANGED <<docs, sections, macroStack, errors, cur, env, resolved>>

-----------------------------------------------------------------------------
(* Evaluation of arguments *)

Evaluating == phase = "eval" /\ cur <= Len(elems)

\* env is <<>> between instructions, or holds one expression.
StartArgument ==
  /\ Evaluating /\ elems[cur].op = "push" /\ env = <<>>
  /\ env' = <<[expr |-> elems[cur].arg, sec |-> elems[cur].sec]>>
  /\ UNCHANGED <<docs, phase, sections, frames, macroStack, elems, labels, errors,
                 labelInstr, cur, resolved>>

SkipInstruction ==
  /\ Evaluating /\ elems[cur].op # "push"
  /\ cur' = cur + 1
  /\ UNCHANGED <<docs, phase, sections, frames, macroStack, elems, labels, errors,
                 labelInstr, env, resolved>>

Expr == env[1].expr
Args == sections[env[1].sec].args

\* The parameter stands for the argument of the call, in the section of the call.
EvalVariable ==
  /\ Evaluating /\ env # <<>> /\ Expr = Param
  /\ env' = <<[expr |-> Args[1], sec |-> sections[env[1].sec].callsite]>>
  /\ UNCHANGED <<docs, phase, sections, frames, macroStack, elems, labels, errors,
                 labelInstr, cur, resolved>>

\* The registered instances of a reference, nearest document first.
LabelKeys(e) ==
  LET defs == Definitions(e.expr.name, e.sec)
  IN  IF e.expr.name \in Globals
      THEN {<<<<0, 0>>, def>> : def \in defs} \cap DOMAIN labelInstr
      ELSE {<<Enclosing(e.sec)[j], def>> : j \in DOMAIN Enclosing(e.sec), def \in defs}
             \cap DOMAIN labelInstr

EvalLabelRef ==
  /\ Evaluating /\ env # <<>> /\ Expr # Param /\ LabelKeys(env[1]) # {}
  /\ \E k \in LabelKeys(env[1]) :
        resolved' = [i \in DOMAIN resolved \cup {cur} |->
                       IF i = cur THEN labelInstr[k] ELSE resolved[i]]
  /\ cur' = cur + 1 /\ env' = <<>>
  /\ UNCHANGED <<docs, phase, sections, frames, macroStack, elems, labels, errors, labelInstr>>

\* The first reference without an instance in the program ends the evaluation.
EvalFails ==
  /\ Evaluating /\ env # <<>> /\ Expr # Param /\ LabelKeys(env[1]) = {}
  /\ errors' = errors \cup {<<"eval", cur>>}
  /\ phase' = "done"
  /\ UNCHANGED <<docs, sections, frames, macroStack, elems, labels, labelInstr, cur, env, resolved>>

EvalDone ==
  /\ phase = "eval" /\ cur > Len(elems)
  /\ phase' = "done"
  /\ UNCHANGED <<docs, sections, frames, macroStack, elems, labels, errors, labelInstr, cur, env, resolved>>

Done == phase = "done" /\ UNCHANGED vars

Next ==
  \/ ExpandLabel \/ ExpandPush \/ ExpandJump \/ ExpandCall \/ CallFails \/ ExpandInclude
  \/ LeaveSection \/ FinishExpansion
  \/ StartArgument \/ SkipInstruction \/ EvalVariable \/ EvalLabelRef \/ EvalFails \/ EvalDone
  \/ Done

Spec == Init /\ [][Next]_vars /\ WF_vars(Next)

-----------------------------------------------------------------------------
(* Properties *)

\* What the calls have given for the parameter of section s, and the section where
\* it is written.
Given[s \in DOMAIN sections] ==
  IF sections[s].args = <<>> THEN [expr |-> Param, sec |-> s]
  ELSE IF sections[s].args[1] # Param
       THEN [expr |-> sections[s].args[1], sec |-> sections[s].callsite]
       ELSE Given[sections[s].callsite]

\* The label that an argument in section s names, and the section where it is written.
Written(e, s) == IF e = Param THEN Given[s] ELSE [expr |-> e, sec |-> s]

\* Hygiene.  A local label found for an argument is an instance of the section
\* the argument is written in, if its document defines the name, or else of a
\* section of the enclosing file; no argument gets a label of another call.
OwnLabels ==
  \A c \in DOMAIN resolved :
    LET w == Written(elems[c].arg, elems[c].sec)
        l == labels[resolved[c]]
        d == sections[w.sec].doc
    IN  /\ l.name = w.expr.name
        /\ l.name \notin Globals =>
             IF DefinedIn(d, l.name) # {} THEN l.sec = w.sec
             ELSE IsMacro(d) /\ sections[l.sec].doc = docs[d].parent

\* A `jump @label' that the compiler accepts lands on a JUMPDEST
\* (validateJumpArg checks the label before the instances are known).
JumpsLand ==
  \A c \in DOMAIN resolved :
    c < Len(elems) /\ elems[c + 1].op = "jump" =>
      LET i == labels[resolved[c]].instr IN i \in DOMAIN elems /\ elems[i].op = "jumpdest"

\* Without an error, a global label is written in one expanded section only,
\* whatever macros and files the definitions came through.
NoSilentDuplicates ==
  phase # "expand" /\ errors = {} =>
    \A s, t \in DOMAIN sections : \A n \in Globals :
      DefinedIn(sections[s].doc, n) # {} /\ DefinedIn(sections[t].doc, n) # {} => s = t

\* A call is only rejected as recursive if the macro reaches itself through
\* calls and includes; two calls one after the other are not a recursion.
Uses(d) == {docs[d].body[k].doc : k \in {j \in DOMAIN docs[d].body :
                                            docs[d].body[j].is \in {"call", "include"}}}
RecursionJustified ==
  \A d \in DOMAIN docs :
    <<"recursive call", d>> \in errors =>
      \A S \in SUBSET DOMAIN docs :
        Uses(d) \subseteq S /\ (\A x \in S : Uses(x) \subseteq S) => d \in S

\* Expansion and evaluation end, on recursive macros too.
Terminates == <>(phase = "done")
=============================================================================
