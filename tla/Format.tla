------------------------------- MODULE Format -------------------------------
(****************************************************************************)
(* geas -f: the parser of statements, comments and expressions              *)
(* (internal/ast/parse.go) and the printer (internal/printer/printer.go),   *)
(* run twice: on a source, and on the text printed for it.                  *)
(*                                                                          *)
(* A text is a sequence of tokens with the line breaks among them; blanks   *)
(* and columns are left out.  The parser of an erroneous source (recovery,  *)
(* reports) is the subject of module Parser: here it only gives up.         *)
(*                                                                          *)
(* How expressions are read and printed is a parameter, which module        *)
(* Expressions gives.                                                       *)
(****************************************************************************)
EXTENDS Tokens, FiniteSets, TLC

CONSTANTS ExprAt(_, _), ListAt(_, _),   \* parseExpr, parseCallArguments: tokens, the first of them
          PrintExpr(_), PrintList(_)    \* the tokens of a tree, and of a list of trees

VARIABLES source,       \* the text to format
          round,        \* 1: the source is formatted, 2: the output of round 1
          step,         \* "parse", "print", "end"; "errors" when the parser gave up
          toks, pos,    \* what the lexer sends, and the next token
          doc,          \* the statements of the document
          macro,        \* the instruction macro whose body is being read, or NoMacro
          printed,      \* how many statements are printed
          outputs,      \* for each round, the text printed
          docs          \* for each round, the document parsed

fmtVars == <<source, round, step, toks, pos, doc, macro, printed, outputs, docs>>

NoMacro == [head |-> None]

-----------------------------------------------------------------------------
(* Lexing.  Everything up to the end of the line belongs to a comment.        *)

InComment(text, i) ==
  \E j \in 1..i - 1 : text[j].k = "comment" /\ \A n \in j..i : text[n] # NLTok

Lex(text) ==
  LET from[i \in 1..Len(text) + 1] ==
        IF i > Len(text) THEN <<Tok("eof", "")>>
        ELSE IF text[i] = NLTok THEN <<Tok("le", ""), Tok("ls", "")>> \o from[i + 1]
        ELSE IF InComment(text, i) THEN from[i + 1]
        ELSE <<text[i]>> \o from[i + 1]
  IN  <<Tok("ls", "")>> \o from[1]

-----------------------------------------------------------------------------
(* Statements.                                                               *)

Statement(kind, name, arg, block) ==
  [k |-> kind, v |-> name, arg |-> arg, block |-> block, comment |-> None]

EndsStatement(i) == toks[i].k \in {"le", "eof", "comment"}

\* The statement at token i that is not a macro definition, without its comment.
\* An argument is a sequence of expressions.
StatementAt(i, block) ==
  LET st(args) == Statement(toks[i].k, toks[i].v, args, block)
      one(j)   == Then(ExprAt(toks, j), LAMBDA x : Result(st(<<x.e>>), x.n))
  IN  CASE toks[i].k \in {"label", "comment"} -> Result(st(<<>>), i + 1)
        [] toks[i].k = "id" ->
             IF EndsStatement(i + 1) THEN Result(st(<<>>), i + 1) ELSE one(i + 1)
        [] toks[i].k = "bytes" -> one(i + 1)
        [] toks[i].k = "define" ->
             one(IF toks[i + 1].k = "=" THEN i + 2 ELSE i + 1)
        [] toks[i].k = "percent" ->
             IF EndsStatement(i + 1) THEN Result(st(<<>>), i + 1)
             ELSE IF toks[i + 1].k # "(" THEN Failed(i + 1)
             ELSE Then(ListAt(toks, i + 2), LAMBDA args : Result(st(args.e), args.n))
        [] OTHER -> Failed(i)

\* A comment that is a statement keeps its level.
Whole(st, i) == IF toks[i].k = "comment" THEN st @@ [note |-> toks[i]] ELSE st

AtTop == macro = NoMacro
First == SkipLines(toks, pos)
Block == Cardinality({i \in pos..First : toks[i].k = "ls"}) > 1

AddStatement(st) ==
  IF AtTop THEN doc' = Append(doc, st) /\ UNCHANGED macro
  ELSE macro' = [macro EXCEPT !.body = Append(@, st)] /\ UNCHANGED doc

ParserOnly == UNCHANGED <<source, round, toks, printed, outputs, docs>>

ParseStatement ==
  /\ step = "parse" /\ toks[First].k \notin {"eof", "}", "macro"}
  /\ LET r  == StatementAt(First, Block)
         st == Whole(r.e, First)
     IN  IF ~r.ok THEN step' = "errors" /\ UNCHANGED <<pos, doc, macro>>
         ELSE /\ UNCHANGED step
              /\ CASE toks[r.n].k = "le"      -> pos' = r.n + 1 /\ AddStatement(st)
                   [] toks[r.n].k = "comment" -> /\ pos' = r.n + 1
                                                 /\ AddStatement([st EXCEPT !.comment = toks[r.n]])
                   [] OTHER                   -> pos' = r.n /\ AddStatement(st)
  /\ ParserOnly

\* The opening brace and the first comment behind it, on whatever line.
OpenMacro ==
  /\ step = "parse" /\ AtTop /\ toks[First].k = "macro" /\ toks[First + 1].k = "{"
  /\ LET i == SkipLines(toks, First + 2)
         start == IF toks[i].k = "comment" THEN toks[i] ELSE None
     IN  /\ macro' = [head |-> toks[First], block |-> Block, start |-> start, body |-> <<>>]
         /\ pos' = IF start = None THEN i ELSE i + 1
  /\ UNCHANGED <<step, doc>> /\ ParserOnly

CloseMacro ==
  /\ step = "parse" /\ ~AtTop /\ toks[First].k = "}"
  /\ doc' = Append(doc, Statement("macro", macro.head.v, <<>>, macro.block)
                          @@ [start |-> macro.start, body |-> macro.body])
  /\ macro' = NoMacro /\ pos' = First + 1
  /\ UNCHANGED step /\ ParserOnly

\* The end of the text in a macro, a closing brace outside, a macro in a macro.
Misplaced ==
  /\ step = "parse"
  /\ \/ toks[First].k = IF AtTop THEN "}" ELSE "eof"
     \/ toks[First].k = "macro" /\ (~AtTop \/ toks[First + 1].k # "{")
  /\ step' = "errors"
  /\ UNCHANGED <<pos, doc, macro>> /\ ParserOnly

Parsed ==
  /\ step = "parse" /\ AtTop /\ toks[First].k = "eof"
  /\ step' = "print" /\ printed' = 0
  /\ docs' = Append(docs, doc) /\ outputs' = Append(outputs, <<>>)
  /\ UNCHANGED <<source, round, toks, pos, doc, macro>>

-----------------------------------------------------------------------------
(* The printer.                                                              *)

\* A comment behind something is printed with one semicolon.
Attached(c) == [c EXCEPT !.level = 1]

StartsBeside(c) == c.level = 1 \/ c.stack

LineTokens(st) ==
  LET head == <<Tok(st.k, st.v)>>
  IN  CASE st.k = "comment"         -> <<st.note>>
        [] st.k = "label"           -> head
        [] st.k = "define"          -> head \o <<Tok("=", "")>> \o PrintExpr(st.arg[1])
        [] st.k = "percent"         -> head \o PrintList(st.arg)
        [] st.k \in {"id", "bytes"} ->
             IF st.arg = <<>> THEN head ELSE head \o PrintExpr(st.arg[1])

\* document: a blank line before a block, the statement, its comment, the line's end.
Framed(st, tokens) ==
  (IF st.block THEN <<NLTok>> ELSE <<>>) \o tokens
    \o (IF st.comment = None THEN <<>> ELSE <<Attached(st.comment)>>) \o <<NLTok>>

BodyTokens(body) ==
  LET upto[i \in 0..Len(body)] ==
        IF i = 0 THEN <<>> ELSE upto[i - 1] \o Framed(body[i], LineTokens(body[i]))
  IN  upto[Len(body)]

\* mutant: a start comment on its own line loses its level.
StartCommentLevelled(st) ==
  IF st.start = None THEN <<>>
  ELSE IF StartsBeside(st.start) THEN <<Attached(st.start)>>
  ELSE <<NLTok, Attached(st.start)>>

StartComment(st) ==
  IF st.start = None THEN <<>>
  ELSE IF StartsBeside(st.start) THEN <<Attached(st.start)>>
  ELSE <<NLTok, st.start>>

\* mutant: the body continues the line of the start comment.
MacroTokensJoined(st) ==
  <<Tok("macro", st.v), Tok("{", "")>> \o StartComment(st)
    \o (IF st.start = None /\ st.body # <<>> THEN <<NLTok>> ELSE <<>>)
    \o BodyTokens(st.body) \o <<Tok("}", "")>>

\* Nothing ends the line of the start comment when the body is empty.
MacroTokens(st) ==
  <<Tok("macro", st.v), Tok("{", "")>> \o StartComment(st)
    \o (IF st.body = <<>> THEN <<>> ELSE <<NLTok>> \o BodyTokens(st.body)) \o <<Tok("}", "")>>

PrintStatement ==
  /\ step = "print" /\ printed < Len(doc)
  /\ LET st == doc[printed + 1]
         tokens == IF st.k = "macro" THEN MacroTokens(st) ELSE LineTokens(st)
     IN  outputs' = [outputs EXCEPT ![round] = @ \o Framed(st, tokens)]
  /\ printed' = printed + 1
  /\ UNCHANGED <<source, round, step, toks, pos, doc, macro, docs>>

\* The output of the first round is the source of the second.
Printed ==
  /\ step = "print" /\ printed = Len(doc)
  /\ IF round = 1
     THEN round' = 2 /\ step' = "parse" /\ toks' = Lex(outputs[1]) /\ pos' = 1 /\ doc' = <<>>
     ELSE step' = "end" /\ UNCHANGED <<round, toks, pos, doc>>
  /\ UNCHANGED <<source, macro, printed, outputs, docs>>

FmtInit(sources) ==
  /\ source \in sources
  /\ round = 1 /\ step = "parse"
  /\ toks = Lex(source) /\ pos = 1
  /\ doc = <<>> /\ macro = NoMacro /\ printed = 0
  /\ outputs = <<>> /\ docs = <<>>

FmtNext ==
  ParseStatement \/ OpenMacro \/ CloseMacro \/ Misplaced \/ Parsed \/ PrintStatement \/ Printed

-----------------------------------------------------------------------------
(* Properties.                                                               *)

\* The level of a comment behind a statement carries no meaning.
PlainStatement(st) ==
  [st EXCEPT !.comment = IF @ = None THEN None ELSE Attached(@)]

PlainStart(c) == IF c # None /\ StartsBeside(c) THEN Attached(c) ELSE c

Plain(document) ==
  [i \in DOMAIN document |->
     LET st == PlainStatement(document[i])
     IN  IF st.k = "macro"
         THEN [st EXCEPT !.start = PlainStart(@),
                         !.body = [j \in DOMAIN @ |-> PlainStatement(@[j])]]
         ELSE st]

\* What is printed for a source that parses is accepted by the parser, and means the
\* same: the same statements in the same macros with the same arguments, and every
\* comment with the statement it was written for.
MeaningKept ==
  /\ round = 2 => step # "errors"
  /\ Len(docs) = 2 => Plain(docs[2]) = Plain(docs[1])

\* Formatting what was formatted changes nothing: geas -f -check accepts what
\* geas -f -w wrote.
Idempotent == step = "end" => outputs[2] = outputs[1]
=============================================================================
