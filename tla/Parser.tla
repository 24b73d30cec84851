-------------------------------- MODULE Parser --------------------------------
(****************************************************************************)
(* The lexer goroutine, the channel between it and the parser, and the      *)
(* parser's control: which token each of its functions accepts, what it     *)
(* puts back, and how it recovers from an error (internal/ast/lexer.go,     *)
(* internal/ast/parse.go).  Tokens are their types and lines.  The parser's *)
(* recursion is a stack of frames, each naming what is to be read next.     *)
(* Dotted and plain labels, and their references, are one type.              *)
(* Operator precedence decides which tree is built but not which tokens are *)
(* read, and is left out, as is the text of tokens.                         *)
(****************************************************************************)
EXTENDS Integers, Sequences, FiniteSets

CONSTANTS
  Inputs,   \* set of sources, each a sequence of lines, each of those a
            \* sequence of token types
  Meaning,  \* what some lines are by themselves: "blank", "error", "open" or
            \* "close" of an instruction macro, or the statement they hold
  Entries   \* subset of {"Parse", "ParseOpcode"}

ASSUME EntryAssumption == Entries \subseteq {"Parse", "ParseOpcode"}

\* The types of tokens.  The lexer marks lines and the end of the source itself.
Lines   == {"lineStart", "lineEnd"}
Stops   == {"lineEnd", "eof", "comment"}
Values  == {"number", "string", "variable", "labelRef"}
Directives == {"#define", "#include", "#assemble", "#pragma", "#bytes", "#other"}
Types   == Lines \cup Stops \cup Values \cup Directives \cup
  {"invalid", "identifier", "dottedIdentifier", "label", "pcLabel", "openParen", "closeParen",
   "openBrace", "closeBrace", "openBracket", "closeBracket", "comma", "equals", "minus", "op",
   "instMacroIdent"}

ASSUME InputsAssumption ==
  \A src \in Inputs :
    src # <<>> /\ src \in Seq(Seq(Types \ {"lineStart", "lineEnd", "eof"}))

VARIABLES
  input,    \* the source
  entry,    \* the function that was called
  sent,     \* the lexer: line and position of the token to be sent
  closed,   \* the lexer: it has closed the channel and ended
  buffer,   \* tokens put back, at most one
  stack,    \* what the parser is to read, the next first
  phase,    \* "parse", "resync", "drain" or "done"
  pending,  \* the statement being read
  outer,    \* the instruction macro whose body is being read, or None
  doc,      \* statements of the document, and of the macro body
  errors    \* errors reported, by line, and whether they are warnings

vars == <<input, entry, sent, closed, buffer, stack, phase, pending, outer, doc, errors>>
lexer == <<input, entry, closed>>

None == [is |-> "none", line |-> 0]

Token(typ, line) == [typ |-> typ, line |-> line]

\* What the lexer makes of the source: each line between lineStart and lineEnd,
\* the last one ended by eof.
Lexed(at) ==
  LET n == at[1] IN
  Token(CASE at[2] = 0 -> "lineStart"
          [] at[2] \in DOMAIN input[n] -> input[n][at[2]]
          [] OTHER -> IF n = Len(input) THEN "eof" ELSE "lineEnd",
        n)

After(at) == IF at[2] <= Len(input[at[1]]) THEN <<at[1], at[2] + 1>> ELSE <<at[1] + 1, 0>>

AllSent == sent[1] > Len(input)

-----------------------------------------------------------------------------
(* Reading tokens *)

ZeroInvalid == Token("invalid", 0)   \* mutant: eof is not the first token type
\* Receiving from the closed channel gives the zero token, which is an eof.
Zero == Token("eof", 0)

CanRead == buffer # <<>> \/ ~AllSent \/ closed

Tok == IF buffer # <<>> THEN buffer[Len(buffer)]
       ELSE IF AllSent THEN Zero ELSE Lexed(sent)

\* The next token is read and `back' put back.  The channel is unbuffered: the
\* lexer's send and the parser's receive are one step.
Read(back) ==
  /\ buffer' = (IF buffer = <<>> THEN <<>> ELSE SubSeq(buffer, 1, Len(buffer) - 1)) \o back
  /\ sent' = IF buffer = <<>> /\ ~AllSent THEN After(sent) ELSE sent
  /\ UNCHANGED lexer

Close ==
  /\ ~closed /\ AllSent
  /\ closed' = TRUE
  /\ UNCHANGED <<input, entry, sent, buffer, stack, phase, pending, outer, doc, errors>>

-----------------------------------------------------------------------------
(* The rules: at a frame, a token of the given types leads to other frames, *)
(* and is put back or not.  A token with no rule is an error.               *)

Rule(frame, on, then)   == [at |-> frame, on |-> on, then |-> then, back |-> "nothing"]
Peek(frame, on, then)   == [at |-> frame, on |-> on, then |-> then, back |-> "token"]
Modulo(frame, on, then) == [at |-> frame, on |-> on, then |-> then, back |-> "identifier"]

Expr == <<"primary", "arith">>

PrimaryRules == {
  Rule("primary", Values, <<>>),
  Rule("primary", {"identifier", "dottedIdentifier"}, <<"callopt">>),
  Rule("primary", {"minus"}, <<"primary">>),
  Rule("primary", {"openParen"}, <<"paren">>),
  Rule("callopt", {"openParen"}, <<"args">>),
  Peek("callopt", Types \ {"openParen"}, <<>>) }

\* In an expression the lexer's %name is the operator and an identifier.
ArithRules == {
  Rule("arith", {"op", "minus"}, <<"operand">>),
  Modulo("arith", {"instMacroIdent"}, <<"operand">>),
  Peek("arith", Types \ {"op", "minus", "instMacroIdent"}, <<>>),
  Peek("operand", Types \ {"comma", "closeParen", "closeBrace", "lineEnd", "eof"}, Expr) }

ParenRulesLoose == {   \* mutant: the end of the line closes the parenthesis
  Peek("paren", Types \ {"closeParen"}, Expr \o <<"parenEnd">>),
  Rule("parenEnd", {"closeParen"}, <<>>),
  Peek("parenEnd", {"lineEnd", "eof"}, <<>>) }

ParenRules == {
  Peek("paren", Types \ {"closeParen"}, Expr \o <<"parenEnd">>),
  Rule("parenEnd", {"closeParen"}, <<>>),
  Rule("parenEnd", Lines, <<"parenEnd">>) }

\* Lines may end before a comma or the closing parenthesis, not after a comma.
ListRules == {
  Rule("args", {"closeParen"}, <<>>),
  Peek("args", Types \ {"closeParen"}, Expr \o <<"argsEnd">>),
  Rule("argsEnd", {"comma"}, <<"args">>),
  Rule("argsEnd", Lines, <<"argsEnd">>),
  Rule("argsEnd", {"closeParen"}, <<>>),
  Rule("params", {"closeParen"}, <<>>),
  Rule("params", {"identifier"}, <<"paramsEnd">>),
  Rule("paramsEnd", {"comma"}, <<"params">>),
  Rule("paramsEnd", Lines, <<"paramsEnd">>),
  Rule("paramsEnd", {"closeParen"}, <<>>) }

ImmediateRules == {
  Rule("imm", {"number"}, <<"immEnd">>),
  Rule("immEnd", {"closeBracket"}, <<>>),
  Rule("immEnd", {"comma"}, <<"lastImm">>),
  Rule("lastImm", {"number"}, <<"lastImmEnd">>),
  Rule("lastImmEnd", {"closeBracket"}, <<>>) }

OpcodeRules == {
  Rule("opcode", {"openBracket"}, <<"imm", "opcodeArg">>),
  Peek("opcode", Types \ {"openBracket"}, <<"opcodeArg">>),
  Peek("opcodeArg", Stops, <<>>),
  Peek("opcodeArg", Types \ Stops, Expr) }

CallRules == {
  Peek("call", Stops, <<>>),
  Rule("call", {"openParen"}, <<"args">>) }

DirectiveRules == {
  Rule("file", {"string"}, <<>>),
  Rule("pragma", {"identifier"}, <<"pragmaValue">>),
  Rule("pragmaValue", {"string", "number"}, <<>>) }

BytesRules == {
  Rule("bytes", {"label"}, <<"namedBytes">>),
  Peek("bytes", Types \ {"label", "lineEnd", "eof"}, Expr),
  Peek("namedBytes", Types \ {"label", "lineEnd", "eof"}, Expr) }

NoBody == Stops \cup {"openBrace"}

\* A further parenthesis after an instruction macro's parameters is skipped.
DefineRules == {
  Rule("define", {"identifier"}, <<"definition">>),
  Rule("definition", {"openParen"}, <<"params", "body">>),
  Rule("definition", {"equals"}, Expr),
  Peek("definition", Types \ (NoBody \cup {"openParen", "equals"}), <<"legacy">>),
  Rule("body", {"equals"}, Expr),
  Peek("body", Types \ (NoBody \cup {"equals"}), <<"legacy">>),
  Rule("macro", {"openBrace"}, <<"macroStart">>),
  Rule("macro", {"openParen"}, <<"params", "macroParams">>),
  Rule("macroParams", {"openBrace"}, <<"macroStart">>),
  Rule("macroParams", {"openParen"}, <<"macroParams">>),
  Rule("macroStart", Lines, <<"macroStart">>) }

OnlyOpcodeRules == {
  Rule("start", {"lineStart"}, <<"name">>),
  Rule("start", {"identifier"}, <<"opcode", "end">>),
  Rule("name", {"identifier"}, <<"opcode", "end">>) }

Rules == PrimaryRules \cup ArithRules \cup ParenRules \cup ListRules \cup ImmediateRules
  \cup OpcodeRules \cup CallRules \cup DirectiveRules \cup BytesRules \cup DefineRules
  \cup OnlyOpcodeRules

RulesAt == [f \in {r.at : r \in Rules} |-> {r \in Rules : r.at = f}]

Back(tok, how) ==
  IF how = "nothing" THEN <<>>
  ELSE <<[tok EXCEPT !.typ = IF how = "identifier" THEN how ELSE tok.typ]>>

-----------------------------------------------------------------------------
(* Steps of the parser *)

InMacro == outer # None
Parsing == phase = "parse" /\ CanRead
At(frame, types) == Parsing /\ Head(stack) = frame /\ Tok.typ \in types

Init ==
  /\ input \in Inputs /\ entry \in Entries
  /\ sent = <<1, 0>> /\ closed = FALSE /\ buffer = <<>>
  /\ stack = IF entry = "Parse" THEN <<"statement">> ELSE <<"start">>
  /\ phase = "parse" /\ pending = None /\ outer = None
  /\ doc = [top |-> <<>>, body |-> <<>>] /\ errors = <<>>

Follow ==
  /\ Parsing /\ Head(stack) \in DOMAIN RulesAt
  /\ \E r \in RulesAt[Head(stack)] :
    /\ Tok.typ \in r.on
    /\ Read(Back(Tok, r.back))
    /\ stack' = r.then \o Tail(stack)
    /\ UNCHANGED <<phase, pending, outer, doc, errors>>

SkipLine ==
  /\ At("statement", Lines)
  /\ Read(<<>>)
  /\ UNCHANGED <<stack, phase, pending, outer, doc, errors>>

\* Statements by the token they start with, and what has to follow it.
Starts ==
  [typ \in {"comment", "label", "pcLabel", "identifier", "instMacroIdent"}
           \cup (Directives \ {"#other"}) |->
     CASE typ \in {"comment", "label", "pcLabel"} -> <<"rest">>
       [] typ = "identifier" -> <<"opcode", "rest">>
       [] typ = "instMacroIdent" -> <<"call", "rest">>
       [] typ \in {"#include", "#assemble"} -> <<"file", "rest">>
       [] typ = "#pragma" -> <<"pragma", "rest">>
       [] typ = "#bytes" -> <<"bytes", "rest">>
       [] typ = "#define" -> <<"define", "rest">>]

StartStatement ==
  /\ At("statement", DOMAIN Starts)
  /\ InMacro => Tok.typ # "#define"
  /\ Read(<<>>)
  /\ pending' = [is |-> Tok.typ, line |-> Tok.line]
  /\ stack' = Starts[Tok.typ] \o stack
  /\ UNCHANGED <<phase, outer, doc, errors>>

DefineMacro ==
  /\ At("define", {"instMacroIdent"})
  /\ Read(<<>>)
  /\ stack' = <<"macro">> \o SubSeq(stack, 3, Len(stack))
  /\ UNCHANGED <<phase, pending, outer, doc, errors>>

\* The body is read into a document of its own.
EnterBody ==
  /\ At("macroStart", Types \ Lines)
  /\ Read(Back(Tok, IF Tok.typ = "comment" THEN "nothing" ELSE "token"))
  /\ outer' = pending /\ doc' = [doc EXCEPT !.body = <<>>]
  /\ stack' = <<"statement">> \o Tail(stack)
  /\ UNCHANGED <<phase, pending, errors>>

LeaveBody ==
  /\ At("statement", {"closeBrace"}) /\ InMacro
  /\ Read(<<>>)
  /\ outer' = None
  /\ doc' = [top |-> Append(doc.top, [is |-> "macro", line |-> outer.line, body |-> doc.body]),
             body |-> <<>>]
  /\ stack' = Tail(stack)
  /\ UNCHANGED <<phase, pending, errors>>

\* The rest of the line: its end, a comment, or another statement.
FinishStatement ==
  /\ At("rest", Types)
  /\ Read(Back(Tok, IF Tok.typ \in {"lineEnd", "comment"} THEN "nothing" ELSE "token"))
  /\ doc' = IF InMacro THEN [doc EXCEPT !.body = Append(@, pending)]
                       ELSE [doc EXCEPT !.top = Append(@, pending)]
  /\ stack' = Tail(stack)
  /\ UNCHANGED <<phase, pending, outer, errors>>

\* A definition without = is accepted with a warning.
Legacy ==
  /\ Parsing /\ Head(stack) = "legacy"
  /\ errors' = Append(errors, [line |-> Tok.line, warning |-> TRUE])
  /\ stack' = Expr \o Tail(stack)
  /\ UNCHANGED <<lexer, sent, buffer, phase, pending, outer, doc>>

EndDocument ==
  /\ \/ At("statement", {"eof"}) /\ ~InMacro
     \/ At("end", Stops)
  /\ Read(<<>>)
  /\ phase' = "drain"
  /\ UNCHANGED <<stack, pending, outer, doc, errors>>

-----------------------------------------------------------------------------
(* Errors *)

Accepts(frame, typ) ==
  \/ frame \in DOMAIN RulesAt /\ \E r \in RulesAt[frame] : typ \in r.on
  \/ /\ frame = "statement"
     /\ \/ typ \in Lines
        \/ typ \in DOMAIN Starts /\ (InMacro => typ # "#define")
        \/ typ = (IF InMacro THEN "closeBrace" ELSE "eof")
  \/ frame = "define" /\ typ = "instMacroIdent"
  \/ frame \in {"macroStart", "rest", "legacy"}
  \/ frame = "end" /\ typ \in Stops

\* These functions report the error at a token read earlier, so that skipping
\* the line does not take into account that its end has been read.
ReportsEarlier == {"pragmaValue", "bytes", "namedBytes"}

RecoveredInside ==   \* mutant: the parser's document is not restored
  /\ stack' = <<"statement">> \o (IF InMacro THEN <<"statement">> ELSE <<>>)
  /\ UNCHANGED <<outer, doc>>
  /\ phase' = IF entry = "Parse" THEN "parse" ELSE "drain"

\* The panic of throwError ends at Parse, or at ParseOpcode, which returns.
Recovered ==
  /\ stack' = <<"statement">> /\ outer' = None /\ doc' = [doc EXCEPT !.body = <<>>]
  /\ phase' = IF entry = "Parse" THEN "parse" ELSE "drain"

EndsAtOnce(typ) == TRUE   \* mutant: the rest of the line is not skipped
Ends(typ) == typ \in {"lineEnd", "eof"}

ThrowError ==
  /\ Parsing /\ ~Accepts(Head(stack), Tok.typ)
  /\ Read(<<>>)
  /\ LET earlier == Head(stack) \in ReportsEarlier IN
       /\ errors' = Append(errors, [line |-> IF earlier THEN pending.line ELSE Tok.line,
                                    warning |-> FALSE])
       /\ IF Ends(Tok.typ) /\ ~earlier THEN Recovered
          ELSE phase' = "resync" /\ UNCHANGED <<stack, outer, doc>>
  /\ UNCHANGED pending

Resync ==
  /\ phase = "resync" /\ CanRead
  /\ Read(<<>>)
  /\ IF Ends(Tok.typ) THEN Recovered ELSE UNCHANGED <<stack, outer, doc, phase>>
  /\ UNCHANGED <<pending, errors>>

\* The lexer is run to its end before the parser returns.
Drain ==
  /\ phase = "drain" /\ CanRead
  /\ Read(<<>>)
  /\ phase' = IF Tok.typ = "eof" THEN "done" ELSE "drain"
  /\ UNCHANGED <<stack, pending, outer, doc, errors>>

Rest == phase = "done" /\ closed /\ UNCHANGED vars

Parse == Follow \/ SkipLine \/ StartStatement \/ DefineMacro \/ EnterBody \/ LeaveBody
         \/ FinishStatement \/ Legacy \/ EndDocument \/ ThrowError \/ Resync \/ Drain

Next == Parse \/ Close \/ Rest

\* Two goroutines that are always scheduled.
Spec == Init /\ [][Next]_vars /\ WF_vars(Parse) /\ WF_vars(Close)

-----------------------------------------------------------------------------
(* Properties *)

\* What a source is line by line: every line is read for itself, except that an
\* error ends the macro it is in, and that a macro must be closed.
ByLine ==
  LET nothing == [top |-> <<>>, body |-> <<>>, open |-> 0, errors |-> <<>>]
      Error(r, n) == [r EXCEPT !.errors = Append(@, n), !.open = 0, !.body = <<>>]
      Holds(r, st) == IF r.open = 0 THEN [r EXCEPT !.top = Append(@, st)]
                                    ELSE [r EXCEPT !.body = Append(@, st)]
      Line(r, n) ==
        LET m == Meaning[input[n]] IN
        CASE m = "blank" -> r
          [] m = "error" \/ (m \in {"open", "#define"} /\ r.open # 0)
                         \/ (m = "close" /\ r.open = 0) -> Error(r, n)
          [] m = "open"  /\ r.open = 0 -> [r EXCEPT !.open = n]
          [] m = "close" /\ r.open # 0 ->
               [r EXCEPT !.top = Append(@, [is |-> "macro", line |-> r.open, body |-> r.body]),
                         !.open = 0, !.body = <<>>]
          [] OTHER -> Holds(r, [is |-> m, line |-> n])
      upTo[n \in 0..Len(input)] == IF n = 0 THEN nothing ELSE Line(upTo[n - 1], n)
      all == upTo[Len(input)]
  IN  IF all.open = 0 THEN all ELSE Error(all, Len(input))

RealErrors == LET Real(e) == ~e.warning IN SelectSeq(errors, Real)

\* Errors do not spread: after one "the parser is returned to the toplevel and
\* will continue parsing at the next line" (parse.go:75-76), so that statements
\* and errors are those the lines have by themselves.
LinesAreSeparate ==
  phase = "done" /\ entry = "Parse" /\ (\A n \in DOMAIN input : input[n] \in DOMAIN Meaning) =>
    /\ doc.top = ByLine.top
    /\ [k \in DOMAIN RealErrors |-> RealErrors[k].line] = ByLine.errors

\* Of any source, valid or not, a line has at most one error, and errors come in
\* the order of lines: what an error leaves behind is not reported again.
OneErrorPerLine ==
  \A j, k \in DOMAIN errors :
    j < k /\ ~errors[j].warning /\ ~errors[k].warning => errors[j].line < errors[k].line

\* What closes the brackets and braces that are open after a token, the innermost first;
\* once one has been closed by another kind, that is all there is to say.
Closing == [openParen |-> "closeParen", openBracket |-> "closeBracket", openBrace |-> "closeBrace"]
Nested(open, typ) ==
  CASE open = <<"wrong">> -> open
    [] open # <<"wrong">> /\ typ \in DOMAIN Closing -> <<Closing[typ]>> \o open
    [] open # <<"wrong">> /\ typ \in {"closeParen", "closeBracket", "closeBrace"} ->
         IF open # <<>> /\ Head(open) = typ THEN Tail(open) ELSE <<"wrong">>
    [] OTHER -> open

\* The brackets open after each token of a line, and after each line of a source.
OpenInLine(before, line) ==
  LET open[k \in 0..Len(line)] == IF k = 0 THEN before ELSE Nested(open[k - 1], line[k])
  IN  open
OpenIn(src) ==
  LET open[n \in 0..Len(src)] ==
        IF n = 0 THEN <<>> ELSE OpenInLine(open[n - 1], src[n])[Len(src[n])]
  IN  open

\* A parenthesis is opened right behind one that is closed.
Reopens == \E n \in DOMAIN input : \E k \in 1..Len(input[n]) - 1 :
             input[n][k] = "closeParen" /\ input[n][k + 1] = "openParen"

\* Accepted sources have their parentheses, brackets and braces closed, in the order they
\* were opened, across lines, put-back tokens and macro bodies.  Sources are left out
\* that open a parenthesis right behind one: after the parameters of an instruction
\* macro the parser skips it (parse.go:365-370).
BracketsMatch ==
  phase = "done" /\ entry = "Parse" /\ ~Reopens /\ (\A k \in DOMAIN errors : errors[k].warning) =>
    OpenIn(input)[Len(input)] = <<>>

\* Both goroutines end, whatever is parsed, and whether the parser has read all
\* of the source or not: the lexer is never left waiting (parse.go:68-72).
Terminates == <>(phase = "done" /\ closed)
=============================================================================
