----------------------------- MODULE ParserProofs -----------------------------
(****************************************************************************)
(* Proofs about Parser, for sources of any length, valid or not.  Errors    *)
(* come in the order of lines because what has been reported is always on a *)
(* line before the next token and before the statement that is being read   *)
(* (LineInv).  Brackets match because each function that the parser is in   *)
(* either owes the bracket that closes it or none, and what is owed, from   *)
(* the innermost function to the outermost, is what is open behind the last *)
(* token that was read and not put back (BracketInv).                       *)
(****************************************************************************)
EXTENDS Parser, Basics, SequenceTheorems

-----------------------------------------------------------------------------
(* Tokens *)

\* The statements that a token can start, and what they are made of.
LEMMA StartsFacts ==
  /\ DOMAIN Starts = {"comment", "label", "pcLabel", "identifier", "instMacroIdent", "#include",
                      "#assemble", "#pragma", "#bytes", "#define"}
  /\ \A t \in {"comment", "label", "pcLabel"} : Starts[t] = <<"rest">>
  /\ Starts["identifier"] = <<"opcode", "rest">> /\ Starts["instMacroIdent"] = <<"call", "rest">>
  /\ \A t \in {"#include", "#assemble"} : Starts[t] = <<"file", "rest">>
  /\ Starts["#pragma"] = <<"pragma", "rest">> /\ Starts["#bytes"] = <<"bytes", "rest">>
  /\ Starts["#define"] = <<"define", "rest">>
BY DEF Starts, Directives

\* Rules are for the functions called by a statement's; they put back an eof, and a %name only
\* as an identifier.
RuleOK(r) ==
  /\ r.at # "statement"
  /\ r.back \in {"nothing", "token", "identifier"}
  /\ "eof" \in r.on => r.back = "token"
  /\ r.back = "identifier" => r.on = {"instMacroIdent"}

\* Each rule is one of these.
LEMMA RulesOK == \A r \in Rules : RuleOK(r)
<1>1. \A r \in PrimaryRules : RuleOK(r)
  BY DEF PrimaryRules, Rule, Peek, Modulo, Values, RuleOK
<1>2. \A r \in ArithRules : RuleOK(r)
  BY DEF ArithRules, Rule, Peek, Modulo, RuleOK
<1>3. \A r \in ParenRules : RuleOK(r)
  BY DEF ParenRules, Rule, Peek, Modulo, Lines, RuleOK
<1>4. \A r \in ListRules : RuleOK(r)
  BY DEF ListRules, Rule, Peek, Modulo, Lines, RuleOK
<1>5. \A r \in ImmediateRules \cup OpcodeRules \cup CallRules : RuleOK(r)
  BY DEF ImmediateRules, OpcodeRules, CallRules, Rule, Peek, Modulo, Stops, RuleOK
<1>6. \A r \in DirectiveRules \cup BytesRules : RuleOK(r)
  BY DEF DirectiveRules, BytesRules, Rule, Peek, Modulo, RuleOK
<1>7. \A r \in DefineRules : RuleOK(r)
  BY DEF DefineRules, Rule, Peek, Modulo, Lines, RuleOK
<1>8. \A r \in OnlyOpcodeRules : RuleOK(r)
  BY DEF OnlyOpcodeRules, Rule, Peek, Modulo, RuleOK
<1> QED BY <1>1, <1>2, <1>3, <1>4, <1>5, <1>6, <1>7, <1>8 DEF Rules

-----------------------------------------------------------------------------
(* The lexer's position, and the token that was put back *)

Position ==
  /\ input \in Inputs
  /\ sent \in (1..Len(input) + 1) \X Nat
  /\ ~AllSent => sent[2] <= Len(input[sent[1]]) + 1
  /\ closed => AllSent

Tokens == {t \in [typ : Types, line : 1..Len(input)] :
             t.typ = "lineEnd" => t.line < Len(input)}

\* The token put back is the one that was sent last.
KeptOK(t) == t \in Tokens /\ sent[1] = IF Ends(t.typ) THEN t.line + 1 ELSE t.line

BufferOK == buffer = <<>> \/ (buffer = <<buffer[1]>> /\ KeptOK(buffer[1]))

\* The line of the next token, or the one after the last.
NextLine == IF buffer # <<>> THEN buffer[1].line ELSE sent[1]

\* What a source is.
LEMMA InputFacts ==
  ASSUME input \in Inputs
  PROVE  /\ Len(input) \in Nat \ {0} /\ DOMAIN input = 1..Len(input)
         /\ \A n \in 1..Len(input) :
              /\ Len(input[n]) \in Nat /\ DOMAIN input[n] = 1..Len(input[n])
              /\ \A k \in 1..Len(input[n]) : input[n][k] \in Types \ {"lineStart", "lineEnd", "eof"}
<1> DEFINE T == Types \ {"lineStart", "lineEnd", "eof"}
<1>1. input \in Seq(Seq(T)) /\ input # <<>>
  BY InputsAssumption
<1> HIDE DEF T
<1>2. Len(input) \in Nat \ {0} /\ DOMAIN input = 1..Len(input)
  BY <1>1
<1>3. \A n \in 1..Len(input) : input[n] \in Seq(T)
  BY <1>1
<1>4. \A n \in 1..Len(input) :
        Len(input[n]) \in Nat /\ DOMAIN input[n] = 1..Len(input[n])
        /\ \A k \in 1..Len(input[n]) : input[n][k] \in T
  BY <1>3
<1> QED BY <1>2, <1>4 DEF T

\* What the lexer sends, and where it is then.
LEMMA LexedFacts ==
  ASSUME Position, ~AllSent
  PROVE  /\ Lexed(sent) \in Tokens /\ Lexed(sent).line = sent[1]
         /\ After(sent) \in (1..Len(input) + 1) \X Nat
         /\ After(sent)[1] <= Len(input) => After(sent)[2] <= Len(input[After(sent)[1]]) + 1
         /\ Lexed(sent).typ = "eof" => sent[1] = Len(input)
         /\ After(sent)[1] = IF Ends(Lexed(sent).typ) THEN sent[1] + 1 ELSE sent[1]
<1> DEFINE n == sent[1]
           k == sent[2]
           L == Len(input)
<1>1. L \in Nat \ {0} /\ n \in 1..L + 1 /\ k \in Nat /\ ~(n > L) /\ input \in Inputs
  BY InputFacts DEF Position, AllSent
<1>2. n \in 1..L
  BY <1>1
<1>3. /\ Len(input[n]) \in Nat /\ DOMAIN input[n] = 1..Len(input[n])
      /\ \A j \in 1..Len(input[n]) : input[n][j] \in Types \ {"lineStart", "lineEnd", "eof"}
  BY <1>1, <1>2, InputFacts
<1>4. k <= Len(input[n]) + 1
  BY DEF Position
<1>5. "lineStart" \in Types /\ "lineEnd" \in Types /\ "eof" \in Types
  BY DEF Types, Lines, Stops
<1>6. CASE k = 0
  <2>1. Lexed(sent) = Token("lineStart", n)
    BY <1>3, <1>6 DEF Lexed
  <2>2. After(sent) = <<n, k + 1>>
    BY <1>3, <1>6 DEF After
  <2>3. ~Ends("lineStart")
    BY DEF Ends
  <2>4. Lexed(sent) \in Tokens /\ Lexed(sent).line = n /\ Lexed(sent).typ = "lineStart"
    BY <1>2, <1>5, <2>1 DEF Token, Tokens
  <2> QED BY <1>1, <1>2, <1>3, <1>6, <2>2, <2>3, <2>4
<1>7. CASE k \in 1..Len(input[n])
  <2>1. Lexed(sent) = Token(input[n][k], n)
    BY <1>3, <1>7 DEF Lexed
  <2>2. After(sent) = <<n, k + 1>>
    BY <1>3, <1>7 DEF After
  <2>3. ~Ends(input[n][k]) /\ input[n][k] \in Types /\ input[n][k] \notin {"lineEnd", "eof"}
    BY <1>3, <1>7 DEF Ends
  <2>4. Lexed(sent) \in Tokens /\ Lexed(sent).line = n /\ Lexed(sent).typ = input[n][k]
    BY <1>2, <2>1, <2>3 DEF Token, Tokens
  <2> QED BY <1>1, <1>2, <1>3, <1>7, <2>2, <2>3, <2>4
<1>8. CASE k = Len(input[n]) + 1
  <2> DEFINE e == IF n = Len(input) THEN "eof" ELSE "lineEnd"
  <2>1. k # 0 /\ k \notin DOMAIN input[n] /\ ~(k <= Len(input[n]))
    BY <1>3, <1>8
  <2>2. Lexed(sent) = Token(e, n)
    BY <2>1 DEF Lexed
  <2>3. After(sent) = <<n + 1, 0>>
    BY <2>1 DEF After
  <2>4. Ends(e) /\ e \in Types /\ (e = "lineEnd" => n < Len(input))
                /\ (e = "eof" => n = Len(input))
    BY <1>1, <1>2, <1>5 DEF Ends
  <2> HIDE DEF e
  <2>5. Lexed(sent) \in Tokens /\ Lexed(sent).line = n /\ Lexed(sent).typ = e
    BY <1>2, <2>2, <2>4 DEF Token, Tokens
  <2>6. n + 1 <= Len(input) => Len(input[n + 1]) \in Nat
    BY <1>1, <1>2, InputFacts
  <2> QED BY <1>1, <1>2, <2>3, <2>4, <2>5, <2>6
<1> QED BY <1>3, <1>1, <1>4, <1>6, <1>7, <1>8

\* Reading a token, unless it is the zero token of the closed channel.
LEMMA ReadFacts ==
  ASSUME Position, BufferOK, ~(AllSent /\ buffer = <<>>), NEW back, Read(back)
  PROVE  /\ Tok \in Tokens /\ Tok.line = NextLine
         /\ buffer' = back /\ Position'
         /\ sent'[1] = IF Ends(Tok.typ) THEN Tok.line + 1 ELSE Tok.line
<1>1. input' = input /\ closed' = closed
  BY DEF Read, lexer
<1>2. CASE buffer = <<>>
  <2>1. ~AllSent /\ Tok = Lexed(sent) /\ sent' = After(sent) /\ NextLine = sent[1]
    BY <1>2 DEF Tok, Read, NextLine
  <2>2. buffer' = <<>> \o back
    BY <1>2 DEF Read
  <2>3. buffer' = back
    BY <2>2
  <2> QED BY <1>1, <2>1, <2>3, LexedFacts DEF Position, AllSent
<1>3. CASE buffer # <<>>
  <2>1. PICK t : buffer = <<t>> /\ KeptOK(t)
    BY <1>3 DEF BufferOK
  <2>2. Len(buffer) = 1 /\ buffer[1] = t
    BY <2>1
  <2>3. Tok = t /\ NextLine = t.line /\ sent' = sent
    BY <1>3, <2>2 DEF Tok, Read, NextLine
  <2>4. SubSeq(buffer, 1, Len(buffer) - 1) = <<>>
    BY <2>1, <2>2
  <2>5. buffer' = back
    <3>1. buffer' = <<>> \o back
      BY <1>3, <2>4 DEF Read
    <3> QED BY <3>1
  <2> QED BY <1>1, <2>1, <2>3, <2>5 DEF Position, AllSent, KeptOK
<1> QED BY <1>2, <1>3

-----------------------------------------------------------------------------
(* Errors come in the order of lines *)

\* While the parser reads, what it has reported is on lines before the next token, and before
\* the statement it is in, at whose line a few functions report; while it skips a line, on
\* lines up to that one.
ErrorsBehind ==
  \A k \in DOMAIN errors : ~errors[k].warning =>
    /\ phase = "parse" => errors[k].line < NextLine
    /\ phase = "parse" /\ (stack # <<"statement">> \/ InMacro) => errors[k].line < pending.line
    /\ phase = "resync" => errors[k].line <= sent[1]

\* After the end of the source has been read nothing is open any more.
NothingOpen == phase = "parse" /\ AllSent /\ buffer = <<>> => stack = <<"statement">> /\ ~InMacro

ErrorRecord == [line : 0..Len(input), warning : BOOLEAN]

LineInv ==
  /\ Position /\ BufferOK /\ NothingOpen
  /\ phase \in {"parse", "resync", "drain", "done"}
  /\ phase # "parse" => buffer = <<>>
  /\ errors \in Seq(ErrorRecord)
  /\ pending.line \in 0..Len(input) /\ pending.line <= NextLine
  /\ ErrorsBehind /\ OneErrorPerLine

\* A statement is read on, with a token consumed or put back.
LEMMA ReadOn ==
  ASSUME LineInv, phase = "parse", ~(AllSent /\ buffer = <<>>),
         NEW how \in {"nothing", "token", "identifier"}, Read(Back(Tok, how)),
         Tok.typ = "eof" => how = "token", how = "identifier" => Tok.typ = "instMacroIdent",
         phase' = "parse", errors' = errors,
         \/ pending'.line = Tok.line
         \/ /\ pending' = pending
            /\ stack = <<"statement">> /\ ~InMacro => stack' = <<"statement">> /\ outer' = outer
  PROVE  LineInv'
<1> DEFINE b == Back(Tok, how)
<1>1. Position /\ BufferOK /\ OneErrorPerLine /\ ErrorsBehind
  BY DEF LineInv
<1>2. /\ Tok \in Tokens /\ Tok.line = NextLine /\ buffer' = b /\ Position'
      /\ sent'[1] = IF Ends(Tok.typ) THEN Tok.line + 1 ELSE Tok.line
  BY <1>1, ReadFacts
<1>3. input' = input /\ Len(input) \in Nat
  BY <1>1, InputFacts DEF Read, lexer, Position
<1>4. /\ Tok.typ \in Types /\ Tok.line \in 1..Len(input)
      /\ Tok.typ = "lineEnd" => Tok.line < Len(input)
      /\ Tok = [typ |-> Tok.typ, line |-> Tok.line]
  BY <1>2 DEF Tokens
<1>5. BufferOK' /\ NextLine' \in {Tok.line, Tok.line + 1}
      /\ (AllSent' => buffer' # <<>>)
  <2>1. CASE how = "nothing"
    <3>1. b = <<>>
      BY <2>1 DEF Back
    <3>2. Tok.typ # "eof"
      BY <2>1
    <3>3. ~AllSent'
      BY <1>2, <1>3, <1>4, <3>2 DEF AllSent, Ends
    <3>4. NextLine' = sent'[1]
      BY <1>2, <3>1 DEF NextLine
    <3> QED BY <1>2, <1>4, <3>1, <3>3, <3>4 DEF BufferOK
  <2>2. CASE how # "nothing"
    <3>1. PICK y : y = IF how = "identifier" THEN "identifier" ELSE Tok.typ
      OBVIOUS
    <3>2. PICK n : n = Tok.line
      OBVIOUS
    <3>3. PICK t : t = [typ |-> y, line |-> n]
      OBVIOUS
    <3>4. b = <<t>>
      BY <1>4, <2>2, <3>1, <3>2, <3>3 DEF Back
    <3>5. y \in Types /\ (Ends(y) <=> Ends(Tok.typ)) /\ (y = "lineEnd" => Tok.typ = "lineEnd")
      <4>1. "identifier" \in Types
        BY DEF Types
      <4> QED BY <1>4, <3>1, <4>1 DEF Ends
    <3>6. t.typ = y /\ t.line = n /\ t \in [typ : Types, line : 1..Len(input)]
      BY <1>4, <3>2, <3>3, <3>5
    <3> HIDE DEF b
    <3>7. buffer' = <<t>> /\ buffer'[1] = t /\ buffer' # <<>>
      BY <1>2, <3>4
    <3>8. t \in [typ : Types, line : 1..Len(input')] /\ (t.typ = "lineEnd" => t.line < Len(input'))
      BY <1>3, <1>4, <3>2, <3>5, <3>6
    <3>9. sent'[1] = IF Ends(t.typ) THEN t.line + 1 ELSE t.line
      BY <1>2, <3>2, <3>5, <3>6
    <3>10. BufferOK'
      BY <3>7, <3>8, <3>9 DEF BufferOK, KeptOK, Tokens
    <3>11. NextLine' = n
      BY <3>6, <3>7 DEF NextLine
    <3> QED BY <3>2, <3>7, <3>10, <3>11
  <2> QED BY <2>1, <2>2
<1>6. NothingOpen'
  BY <1>5 DEF NothingOpen
<1>7. errors \in Seq(ErrorRecord) /\ pending.line \in 0..Len(input) /\ pending.line <= NextLine
  BY DEF LineInv
<1>8. (errors \in Seq(ErrorRecord))' /\ OneErrorPerLine'
  BY <1>1, <1>3, <1>7 DEF ErrorRecord, OneErrorPerLine
<1>9. pending'.line \in 0..Len(input') /\ pending'.line <= NextLine'
  BY <1>2, <1>3, <1>4, <1>5, <1>7
<1>10. ErrorsBehind'
  <2> SUFFICES ASSUME NEW k \in DOMAIN errors, ~errors[k].warning
               PROVE  /\ errors[k].line < NextLine'
                      /\ stack' # <<"statement">> \/ InMacro' => errors[k].line < pending'.line
    BY DEF ErrorsBehind
  <2>1. errors[k] \in ErrorRecord /\ errors[k].line \in Nat
    <3>1. errors[k] \in ErrorRecord
      BY <1>7
    <3> QED BY <1>3, <3>1 DEF ErrorRecord
  <2>2. errors[k].line < Tok.line
    BY <1>1, <1>2 DEF ErrorsBehind
  <2>3. stack # <<"statement">> \/ InMacro => errors[k].line < pending.line
    BY <1>1 DEF ErrorsBehind
  <2>4. errors[k].line < NextLine'
    BY <1>4, <1>5, <2>1, <2>2
  <2>5. CASE pending'.line = Tok.line
    BY <2>2, <2>4, <2>5
  <2>6. CASE pending' = pending /\ (stack = <<"statement">> /\ ~InMacro =>
                                     stack' = <<"statement">> /\ outer' = outer)
    BY <2>3, <2>4, <2>6 DEF InMacro
  <2> QED BY <2>5, <2>6
<1> QED BY <1>2, <1>5, <1>6, <1>8, <1>9, <1>10 DEF LineInv

\* Behind the end of the source there is only an eof for the document.
LEMMA AtZero ==
  ASSUME LineInv, phase = "parse", AllSent, buffer = <<>>
  PROVE  Tok.typ = "eof" /\ Head(stack) = "statement" /\ ~InMacro
<1>1. stack = <<"statement">> /\ ~InMacro
  BY DEF LineInv, NothingOpen
<1>2. Tok = Zero
  BY DEF Tok
<1> QED BY <1>1, <1>2 DEF Zero, Token

\* The rules that a token has.
LEMMA RuleFacts ==
  ASSUME NEW f, f \in DOMAIN RulesAt, NEW r \in RulesAt[f]
  PROVE  r \in Rules /\ r.at = f /\ RuleOK(r)
BY RulesOK DEF RulesAt

\* Steps that read on.
LEMMA ReadingStep ==
  ASSUME LineInv,
         Follow \/ SkipLine \/ StartStatement \/ DefineMacro \/ EnterBody \/ LeaveBody
           \/ FinishStatement
  PROVE  LineInv'
<1>1. CASE Follow
  <2>1. PICK r \in RulesAt[Head(stack)] : Tok.typ \in r.on /\ Read(Back(Tok, r.back))
    BY <1>1 DEF Follow
  <2>2. /\ phase = "parse" /\ Head(stack) \in DOMAIN RulesAt
        /\ UNCHANGED <<phase, pending, outer, errors>>
    BY <1>1 DEF Follow, Parsing
  <2>3. r.at = Head(stack) /\ RuleOK(r)
    BY <2>1, <2>2, RuleFacts
  <2>4. Head(stack) # "statement" /\ stack # <<"statement">>
    <3>1. Head(<<"statement">>) = "statement"
      OBVIOUS
    <3> QED BY <2>3, <3>1 DEF RuleOK
  <2>5. ~(AllSent /\ buffer = <<>>)
    BY <2>2, <2>4, AtZero
  <2>6. /\ r.back \in {"nothing", "token", "identifier"}
        /\ Tok.typ = "eof" => r.back = "token"
        /\ r.back = "identifier" => Tok.typ = "instMacroIdent"
    BY <2>1, <2>3 DEF RuleOK
  <2> QED BY <2>1, <2>2, <2>4, <2>5, <2>6, ReadOn
<1>2. CASE SkipLine
  <2>1. /\ phase = "parse" /\ Tok.typ \in Lines /\ Read(<<>>)
        /\ UNCHANGED <<stack, phase, pending, outer, errors>>
    BY <1>2 DEF SkipLine, At, Parsing
  <2>2. Tok.typ # "eof" /\ Back(Tok, "nothing") = <<>>
    BY <2>1 DEF Lines, Back
  <2> QED BY <2>1, <2>2, AtZero, ReadOn
<1>3. CASE StartStatement
  <2>1. /\ phase = "parse" /\ Tok.typ \in DOMAIN Starts /\ Read(<<>>)
        /\ pending' = [is |-> Tok.typ, line |-> Tok.line]
        /\ UNCHANGED <<phase, errors>>
    BY <1>3 DEF StartStatement, At, Parsing
  <2>2. Tok.typ # "eof" /\ Back(Tok, "nothing") = <<>> /\ pending'.line = Tok.line
    BY <2>1, StartsFacts DEF Back
  <2> QED BY <2>1, <2>2, AtZero, ReadOn
<1>4. CASE DefineMacro
  <2>1. /\ phase = "parse" /\ Tok.typ = "instMacroIdent" /\ Read(<<>>) /\ Head(stack) = "define"
        /\ UNCHANGED <<phase, pending, outer, errors>>
    BY <1>4 DEF DefineMacro, At, Parsing
  <2>2. stack # <<"statement">> /\ Back(Tok, "nothing") = <<>>
    BY <2>1 DEF Back
  <2> QED BY <2>1, <2>2, AtZero, ReadOn
<1>5. CASE EnterBody
  <2> DEFINE how == IF Tok.typ = "comment" THEN "nothing" ELSE "token"
  <2>1. /\ phase = "parse" /\ Read(Back(Tok, how)) /\ Head(stack) = "macroStart"
        /\ UNCHANGED <<phase, pending, errors>>
    BY <1>5 DEF EnterBody, At, Parsing
  <2>2. /\ stack # <<"statement">> /\ how \in {"nothing", "token", "identifier"}
        /\ (Tok.typ = "eof" => how = "token") /\ how # "identifier"
    BY <2>1
  <2> HIDE DEF how
  <2> QED BY <2>1, <2>2, AtZero, ReadOn
<1>6. CASE LeaveBody
  <2>1. /\ phase = "parse" /\ Tok.typ = "closeBrace" /\ Read(<<>>) /\ InMacro
        /\ UNCHANGED <<phase, pending, errors>>
    BY <1>6 DEF LeaveBody, At, Parsing
  <2>2. Back(Tok, "nothing") = <<>>
    BY DEF Back
  <2> QED BY <2>1, <2>2, AtZero, ReadOn
<1>7. CASE FinishStatement
  <2> DEFINE how == IF Tok.typ \in {"lineEnd", "comment"} THEN "nothing" ELSE "token"
  <2>1. /\ phase = "parse" /\ Read(Back(Tok, how)) /\ Head(stack) = "rest"
        /\ UNCHANGED <<phase, pending, outer, errors>>
    BY <1>7 DEF FinishStatement, At, Parsing
  <2>2. /\ stack # <<"statement">> /\ how \in {"nothing", "token", "identifier"}
        /\ (Tok.typ = "eof" => how = "token") /\ how # "identifier"
    BY <2>1
  <2> HIDE DEF how
  <2> QED BY <2>1, <2>2, AtZero, ReadOn
<1> QED BY <1>1, <1>2, <1>3, <1>4, <1>5, <1>6, <1>7

\* One more report, at a line that is not before an error.
LEMMA AnotherError ==
  ASSUME LineInv, input' = input, NEW line \in 0..Len(input), NEW warning \in BOOLEAN,
         errors' = Append(errors, [line |-> line, warning |-> warning]),
         ~warning => \A k \in DOMAIN errors : ~errors[k].warning => errors[k].line < line
  PROVE  /\ (errors \in Seq(ErrorRecord))' /\ OneErrorPerLine'
         /\ \A k \in DOMAIN errors' : ~errors'[k].warning =>
              \/ k \in DOMAIN errors /\ errors'[k] = errors[k]
              \/ ~warning /\ errors'[k].line = line
<1> DEFINE e == [line |-> line, warning |-> warning]
           n == Len(errors)
<1>1. errors \in Seq(ErrorRecord) /\ OneErrorPerLine
  BY DEF LineInv
<1>2. PICK x : x = e
  OBVIOUS
<1>3. x \in ErrorRecord /\ x.line = line /\ x.warning = warning
  BY <1>2 DEF ErrorRecord
<1>4. errors' = Append(errors, x)
  BY <1>2
<1>5. n \in Nat /\ DOMAIN errors = 1..n /\ DOMAIN errors' = 1..(n + 1) /\ errors' \in Seq(ErrorRecord)
      /\ (\A k \in 1..n : errors'[k] = errors[k]) /\ errors'[n + 1] = x
  BY <1>1, <1>3, <1>4
<1>6. (errors \in Seq(ErrorRecord))'
  BY <1>5 DEF ErrorRecord
<1>7. OneErrorPerLine'
  <2> SUFFICES ASSUME NEW j \in 1..(n + 1), NEW k \in 1..(n + 1), j < k,
                      ~errors'[j].warning, ~errors'[k].warning
               PROVE  errors'[j].line < errors'[k].line
    BY <1>5 DEF OneErrorPerLine
  <2>1. j \in 1..n /\ errors'[j] = errors[j]
    BY <1>5
  <2>2. CASE k = n + 1
    BY <1>3, <1>5, <2>1, <2>2
  <2>3. CASE k \in 1..n
    BY <1>1, <1>5, <2>1, <2>3 DEF OneErrorPerLine
  <2> QED BY <1>5, <2>2, <2>3
<1>8. \A k \in 1..(n + 1) : k \in 1..n \/ k = n + 1
  BY <1>5
<1> QED BY <1>3, <1>5, <1>6, <1>7, <1>8

\* A definition without = is reported at the token that is read next, as a warning.
LEMMA LegacyStep ==
  ASSUME LineInv, Legacy
  PROVE  LineInv'
<1>1. /\ phase = "parse" /\ Head(stack) = "legacy"
      /\ errors' = Append(errors, [line |-> Tok.line, warning |-> TRUE])
      /\ UNCHANGED <<input, entry, closed, sent, buffer, phase, pending, outer>>
  BY DEF Legacy, Parsing, lexer
<1>2. stack # <<"statement">> /\ ~(AllSent /\ buffer = <<>>)
  BY <1>1, AtZero
<1>3. Tok \in Tokens
  <2>1. CASE buffer = <<>>
    BY <1>2, <2>1, LexedFacts DEF LineInv, Tok
  <2>2. CASE buffer # <<>>
    <3>1. buffer = <<buffer[1]>> /\ KeptOK(buffer[1])
      BY <2>2 DEF LineInv, BufferOK
    <3>2. Len(buffer) = 1
      BY <3>1
    <3> QED BY <2>2, <3>1, <3>2 DEF Tok, KeptOK
  <2> QED BY <2>1, <2>2
<1>4. Tok.line \in 0..Len(input)
  BY <1>3, InputFacts DEF Tokens, LineInv, Position
<1>5. /\ (errors \in Seq(ErrorRecord))' /\ OneErrorPerLine'
      /\ \A k \in DOMAIN errors' : ~errors'[k].warning =>
              k \in DOMAIN errors /\ errors'[k] = errors[k]
  BY <1>1, <1>4, AnotherError
<1>6. Position' /\ BufferOK' /\ NothingOpen' /\ (phase' # "parse" => buffer' = <<>>)
      /\ phase' \in {"parse", "resync", "drain", "done"} /\ NextLine' = NextLine
  BY <1>1, <1>2 DEF LineInv, Position, AllSent, BufferOK, KeptOK, Tokens, NothingOpen, NextLine
<1>7. ErrorsBehind'
  BY <1>1, <1>2, <1>5, <1>6 DEF LineInv, ErrorsBehind
<1> QED BY <1>1, <1>5, <1>6, <1>7 DEF LineInv

\* Where a token has been read and nothing put back, the lexer may have ended.
LEMMA Consumed ==
  ASSUME LineInv, Read(<<>>)
  PROVE  /\ Position' /\ buffer' = <<>> /\ input' = input /\ closed' = closed
         /\ NextLine' = sent'[1] /\ sent'[1] \in Nat /\ NextLine <= sent'[1] /\ NextLine \in Nat
         /\ AllSent /\ buffer = <<>> => sent' = sent
<1>1. Position /\ BufferOK
  BY DEF LineInv
<1>2. input' = input /\ closed' = closed /\ Len(input) \in Nat
  BY <1>1, InputFacts DEF Read, lexer, Position
<1>3. CASE AllSent /\ buffer = <<>>
  <2>1. sent' = sent /\ buffer' = <<>> \o <<>>
    BY <1>3 DEF Read
  <2>2. buffer' = <<>>
    BY <2>1
  <2>3. NextLine = sent[1] /\ NextLine' = sent'[1]
    BY <1>3, <2>2 DEF NextLine
  <2> QED BY <1>1, <1>2, <2>1, <2>2, <2>3 DEF Position, AllSent
<1>4. CASE ~(AllSent /\ buffer = <<>>)
  <2>1. /\ Tok \in Tokens /\ Tok.line = NextLine /\ buffer' = <<>> /\ Position'
        /\ sent'[1] = IF Ends(Tok.typ) THEN Tok.line + 1 ELSE Tok.line
    BY <1>1, <1>4, ReadFacts
  <2>2. NextLine' = sent'[1]
    BY <2>1 DEF NextLine
  <2>3. Tok.line \in Nat
    BY <1>2, <2>1 DEF Tokens
  <2> QED BY <1>2, <1>4, <2>1, <2>2, <2>3
<1> QED BY <1>3, <1>4

\* After the end of the document, and after the lexer has ended, errors stay as they are.
LEMMA EndStep ==
  ASSUME LineInv, EndDocument \/ Drain \/ Close \/ Rest
  PROVE  LineInv'
<1>1. CASE EndDocument \/ Drain
  <2>1. Read(<<>>) /\ phase' \in {"drain", "done"} /\ UNCHANGED <<pending, errors>>
    BY <1>1 DEF EndDocument, Drain
  <2>2. /\ Position' /\ buffer' = <<>> /\ input' = input /\ NextLine' = sent'[1]
        /\ NextLine <= sent'[1] /\ NextLine \in Nat /\ sent'[1] \in Nat
    BY <2>1, Consumed
  <2>3. Len(input) \in Nat
    BY InputFacts DEF LineInv, Position
  <2>4. pending'.line \in 0..Len(input') /\ pending'.line <= NextLine'
    BY <2>1, <2>2, <2>3 DEF LineInv
  <2>5. NothingOpen' /\ ErrorsBehind' /\ BufferOK' /\ OneErrorPerLine'
    BY <2>1, <2>2 DEF NothingOpen, ErrorsBehind, BufferOK, OneErrorPerLine, LineInv
  <2>6. (errors \in Seq(ErrorRecord))'
    BY <2>1, <2>2 DEF LineInv, ErrorRecord
  <2> QED BY <2>1, <2>2, <2>4, <2>5, <2>6 DEF LineInv
<1>2. CASE Close \/ Rest
  <2>1. /\ UNCHANGED <<input, sent, buffer, stack, phase, pending, outer, errors>>
        /\ closed' => AllSent \/ closed
    BY <1>2 DEF Close, Rest, vars
  <2>2. Position' /\ BufferOK' /\ NextLine' = NextLine /\ AllSent' = AllSent
    BY <2>1 DEF LineInv, Position, AllSent, BufferOK, KeptOK, Tokens, NextLine
  <2>3. NothingOpen' /\ ErrorsBehind' /\ OneErrorPerLine'
    BY <2>1, <2>2 DEF NothingOpen, ErrorsBehind, OneErrorPerLine, LineInv, InMacro
  <2>4. (errors \in Seq(ErrorRecord))'
    BY <2>1 DEF LineInv, ErrorRecord
  <2> QED BY <2>1, <2>2, <2>3, <2>4 DEF LineInv
<1> QED BY <1>1, <1>2

\* The statement after an error starts on a line behind it.
LEMMA Restart ==
  ASSUME LineInv, Read(<<>>), Recovered, pending' = pending,
         (errors \in Seq(ErrorRecord))', OneErrorPerLine',
         \A k \in DOMAIN errors' : ~errors'[k].warning => errors'[k].line < sent'[1]
  PROVE  LineInv'
<1>1. /\ Position' /\ buffer' = <<>> /\ input' = input /\ NextLine' = sent'[1]
      /\ NextLine <= sent'[1] /\ NextLine \in Nat /\ sent'[1] \in Nat
  BY Consumed
<1>2. stack' = <<"statement">> /\ outer' = None /\ phase' \in {"parse", "drain"}
  BY DEF Recovered
<1>3. ~InMacro' /\ NothingOpen' /\ BufferOK'
  BY <1>1, <1>2 DEF InMacro, NothingOpen, BufferOK
<1>4. ErrorsBehind'
  BY <1>1, <1>2, <1>3 DEF ErrorsBehind
<1>5. Len(input) \in Nat
  BY InputFacts DEF LineInv, Position
<1>6. pending'.line \in 0..Len(input') /\ pending'.line <= NextLine'
  BY <1>1, <1>5 DEF LineInv
<1> QED BY <1>1, <1>2, <1>3, <1>4, <1>6 DEF LineInv

\* The rest of a line with an error is skipped.
LEMMA ResyncStep ==
  ASSUME LineInv, Resync
  PROVE  LineInv'
<1>1. phase = "resync" /\ buffer = <<>> /\ Read(<<>>) /\ UNCHANGED <<pending, errors>>
  BY DEF Resync, LineInv
<1>2. /\ Position' /\ buffer' = <<>> /\ input' = input /\ NextLine' = sent'[1]
      /\ NextLine <= sent'[1] /\ NextLine \in Nat /\ sent'[1] \in Nat
      /\ AllSent => sent' = sent
  BY <1>1, Consumed
<1>3. Len(input) \in Nat /\ Position
  BY InputFacts DEF LineInv, Position
<1>4. (errors \in Seq(ErrorRecord))' /\ OneErrorPerLine'
  BY <1>1, <1>2 DEF LineInv, ErrorRecord, OneErrorPerLine
<1>5. NextLine = sent[1] /\ sent[1] \in Nat
  BY <1>1, <1>2 DEF NextLine
<1>6. \A k \in DOMAIN errors : errors[k].line \in 0..Len(input)
  <2>1. errors \in Seq(ErrorRecord)
    BY DEF LineInv
  <2>2. \A k \in DOMAIN errors : errors[k] \in ErrorRecord
    BY <2>1
  <2> QED BY <2>2 DEF ErrorRecord
<1>7. CASE Ends(Tok.typ)
  <2>1. Recovered
    BY <1>7 DEF Resync
  <2>2. ASSUME NEW k \in DOMAIN errors, ~errors[k].warning PROVE errors[k].line < sent'[1]
    <3>1. errors[k].line <= sent[1] /\ errors[k].line \in 0..Len(input)
      BY <1>1, <1>6, <2>2 DEF LineInv, ErrorsBehind
    <3>2. CASE AllSent
      BY <1>2, <1>3, <1>5, <3>1, <3>2 DEF AllSent
    <3>3. CASE ~AllSent
      <4>1. /\ Tok \in Tokens /\ Tok.line = NextLine
            /\ sent'[1] = IF Ends(Tok.typ) THEN Tok.line + 1 ELSE Tok.line
        BY <1>1, <3>3, ReadFacts DEF LineInv
      <4> QED BY <1>5, <1>7, <3>1, <4>1
    <3> QED BY <3>2, <3>3
  <2> QED BY <1>1, <1>4, <2>1, <2>2, Restart
<1>8. CASE ~Ends(Tok.typ)
  <2>1. phase' = phase
    BY <1>8 DEF Resync
  <2>2. ErrorsBehind'
    <3> SUFFICES ASSUME NEW k \in DOMAIN errors, ~errors[k].warning
                 PROVE  errors[k].line <= sent'[1]
      BY <1>1, <2>1 DEF ErrorsBehind
    <3>1. errors[k].line <= sent[1] /\ errors[k].line \in Nat
      BY <1>1, <1>3, <1>6 DEF LineInv, ErrorsBehind
    <3> QED BY <1>2, <1>5, <3>1
  <2>3. NothingOpen' /\ BufferOK'
    BY <1>1, <1>2, <2>1 DEF NothingOpen, BufferOK
  <2>4. pending'.line \in 0..Len(input') /\ pending'.line <= NextLine'
    BY <1>1, <1>2, <1>3 DEF LineInv
  <2> QED BY <1>1, <1>2, <1>4, <2>1, <2>2, <2>3, <2>4 DEF LineInv
<1> QED BY <1>7, <1>8

\* Each error is on a line behind the last one, also those reported at an earlier token.
LEMMA ErrorStep ==
  ASSUME LineInv, ThrowError
  PROVE  LineInv'
<1> DEFINE earlier == Head(stack) \in ReportsEarlier
           line == IF earlier THEN pending.line ELSE Tok.line
<1>1. /\ phase = "parse" /\ ~Accepts(Head(stack), Tok.typ) /\ Read(<<>>) /\ pending' = pending
      /\ errors' = Append(errors, [line |-> line, warning |-> FALSE])
  BY DEF ThrowError, Parsing
<1>2. ~(AllSent /\ buffer = <<>>)
  <2> SUFFICES ASSUME AllSent, buffer = <<>> PROVE FALSE
    OBVIOUS
  <2>1. Tok.typ = "eof" /\ Head(stack) = "statement" /\ ~InMacro
    BY <1>1, AtZero
  <2> QED BY <1>1, <2>1 DEF Accepts
<1>3. /\ Tok \in Tokens /\ Tok.line = NextLine /\ buffer' = <<>> /\ Position'
      /\ sent'[1] = IF Ends(Tok.typ) THEN Tok.line + 1 ELSE Tok.line
  BY <1>1, <1>2, ReadFacts DEF LineInv
<1>4. /\ input' = input /\ NextLine' = sent'[1] /\ NextLine <= sent'[1]
      /\ NextLine \in Nat /\ sent'[1] \in Nat
  BY <1>1, Consumed
<1>5. Len(input) \in Nat /\ Tok.line \in 1..Len(input)
  BY <1>3, InputFacts DEF LineInv, Position, Tokens
<1>6. earlier => stack # <<"statement">>
  BY DEF ReportsEarlier
<1>7. errors \in Seq(ErrorRecord) /\ ErrorsBehind /\ pending.line \in 0..Len(input)
      /\ pending.line <= NextLine
  BY DEF LineInv
<1>8. line \in 0..Len(input) /\ line <= Tok.line
  <2>1. CASE ~earlier
    BY <1>5, <2>1
  <2>2. CASE earlier
    BY <1>3, <1>5, <1>6, <1>7, <2>2
  <2> QED BY <2>1, <2>2
<1>9. \A k \in DOMAIN errors : ~errors[k].warning => errors[k].line < line
  <2>1. CASE ~earlier
    BY <1>1, <1>3, <1>7, <2>1 DEF ErrorsBehind
  <2>2. CASE earlier
    BY <1>1, <1>6, <1>7, <2>2 DEF ErrorsBehind
  <2> QED BY <2>1, <2>2
<1> HIDE DEF line, earlier
<1>10. /\ (errors \in Seq(ErrorRecord))' /\ OneErrorPerLine'
       /\ \A k \in DOMAIN errors' : ~errors'[k].warning =>
              \/ k \in DOMAIN errors /\ errors'[k] = errors[k]
              \/ errors'[k].line = line
  BY <1>1, <1>4, <1>8, <1>9, AnotherError
<1>11. \A k \in DOMAIN errors' : ~errors'[k].warning => errors'[k].line <= line
  <2>1. \A k \in DOMAIN errors : errors[k] \in ErrorRecord
    BY <1>7
  <2>2. \A k \in DOMAIN errors : errors[k].line \in Nat
    BY <1>5, <2>1 DEF ErrorRecord
  <2>3. line \in Nat
    BY <1>5, <1>8
  <2> QED BY <1>9, <1>10, <2>2, <2>3
<1>12. \A k \in DOMAIN errors' : errors'[k].line \in Nat
  <2>1. \A k \in DOMAIN errors' : errors'[k] \in ErrorRecord'
    BY <1>10
  <2> QED BY <1>4, <1>5, <2>1 DEF ErrorRecord
<1>13. CASE Ends(Tok.typ) /\ ~earlier
  <2>1. Recovered
    BY <1>13 DEF ThrowError, earlier
  <2>2. \A k \in DOMAIN errors' : ~errors'[k].warning => errors'[k].line < sent'[1]
    BY <1>3, <1>5, <1>8, <1>11, <1>12, <1>13
  <2> QED BY <1>1, <1>10, <2>1, <2>2, Restart
<1>14. CASE ~(Ends(Tok.typ) /\ ~earlier)
  <2>1. phase' = "resync"
    BY <1>14 DEF ThrowError, earlier
  <2>2. ErrorsBehind'
    <3> SUFFICES ASSUME NEW k \in DOMAIN errors', ~errors'[k].warning
                 PROVE  errors'[k].line <= sent'[1]
      BY <2>1 DEF ErrorsBehind
    <3>1. errors'[k].line <= line /\ errors'[k].line \in Nat
      BY <1>11, <1>12
    <3> QED BY <1>3, <1>4, <1>5, <1>8, <3>1
  <2>3. NothingOpen' /\ BufferOK'
    BY <1>3, <2>1 DEF NothingOpen, BufferOK
  <2>4. pending'.line \in 0..Len(input') /\ pending'.line <= NextLine'
    BY <1>1, <1>4, <1>5, <1>7
  <2> QED BY <1>3, <1>10, <2>1, <2>2, <2>3, <2>4 DEF LineInv
<1> QED BY <1>13, <1>14

\* LineInv holds.
LEMMA LineInvariant == Spec => []LineInv
<1>1. Init => LineInv
  <2> SUFFICES ASSUME Init PROVE LineInv
    OBVIOUS
  <2>1. input \in Inputs /\ sent = <<1, 0>> /\ closed = FALSE /\ buffer = <<>> /\ errors = <<>>
        /\ phase = "parse" /\ pending = None
    BY DEF Init
  <2>2. Len(input) \in Nat \ {0} /\ Len(input[1]) \in Nat
    BY <2>1, InputFacts
  <2>3. ~AllSent /\ Position
    BY <2>1, <2>2 DEF AllSent, Position
  <2>4. NextLine = 1 /\ pending.line = 0
    BY <2>1 DEF NextLine, None
  <2>5. NothingOpen /\ BufferOK /\ ErrorsBehind /\ OneErrorPerLine
    BY <2>1, <2>3 DEF NothingOpen, BufferOK, ErrorsBehind, OneErrorPerLine
  <2> QED BY <2>1, <2>2, <2>3, <2>4, <2>5 DEF LineInv
<1>2. LineInv /\ [Next]_vars => LineInv'
  <2> SUFFICES ASSUME LineInv, [Next]_vars PROVE LineInv'
    OBVIOUS
  <2>1. CASE Next
    BY <2>1, ReadingStep, LegacyStep, EndStep, ErrorStep, ResyncStep DEF Next, Parse
  <2>2. CASE UNCHANGED vars
    <3>1. UNCHANGED <<input, sent, closed, buffer, stack, phase, pending, outer, errors>>
      BY <2>2 DEF vars
    <3>2. Position' /\ BufferOK' /\ NextLine' = NextLine /\ AllSent' = AllSent
      BY <3>1 DEF LineInv, Position, AllSent, BufferOK, KeptOK, Tokens, NextLine
    <3>3. NothingOpen' /\ ErrorsBehind' /\ OneErrorPerLine'
      BY <3>1, <3>2 DEF NothingOpen, ErrorsBehind, OneErrorPerLine, LineInv, InMacro
    <3>4. (errors \in Seq(ErrorRecord))'
      BY <3>1 DEF LineInv, ErrorRecord
    <3> QED BY <3>1, <3>2, <3>3, <3>4 DEF LineInv
  <2> QED BY <2>1, <2>2
<1> QED BY <1>1, <1>2, PTL DEF Spec

\* Of any source, valid or not, a line has at most one error, and errors come in the order of
\* lines (parse.go:75-101).
THEOREM ParserOneErrorPerLine == Spec => []OneErrorPerLine
<1>1. LineInv => OneErrorPerLine
  BY DEF LineInv
<1> QED BY <1>1, LineInvariant, PTL
-----------------------------------------------------------------------------
(* Brackets *)

\* What closes the bracket that a parser function is inside of; a statement is inside of the
\* braces of a macro, unless it is the outermost function.
Owe(f) ==
  IF f \in {"paren", "parenEnd", "args", "argsEnd", "params", "paramsEnd"} THEN "closeParen"
  ELSE IF f \in {"imm", "immEnd", "lastImm", "lastImmEnd"} THEN "closeBracket"
  ELSE IF f \in {"macroStart", "statement"} THEN "closeBrace"
  ELSE "none"

Owed(f) == IF Owe(f) = "none" THEN <<>> ELSE <<Owe(f)>>

Closers == {"closeParen", "closeBracket", "closeBrace"}

\* The functions that read the head of an instruction macro, and those that read statements.
MacroFrames == {"define", "macro", "macroParams", "macroStart"}

Readers == MacroFrames \cup {"primary", "arith", "callopt", "operand", "paren", "parenEnd", "args",
  "argsEnd", "params", "paramsEnd", "imm", "immEnd", "lastImm", "lastImmEnd", "opcode", "opcodeArg",
  "call", "file", "pragma", "pragmaValue", "bytes", "namedBytes", "definition", "legacy", "body",
  "rest"}

\* The rule that skips a parenthesis.
SkipRule == Rule("macroParams", {"openParen"}, <<"macroParams">>)

\* The rules of these functions: they open a bracket and are inside of it then, or close the one
\* they have been in, or leave it at that.
Neutral(r) == r.back # "nothing" \/ r.on \cap (Closers \cup DOMAIN Closing) = {}

Fits(r) ==
  \/ Neutral(r) /\ r.then = <<>> /\ Owe(r.at) = "none"
  \/ Neutral(r) /\ r.then = Expr /\ Owe(r.at) = "none"
  \/ Neutral(r) /\ r.then = <<r.then[1]>> /\ r.then[1] \in Readers /\ Owe(r.then[1]) = Owe(r.at)
  \/ Neutral(r) /\ r.then = Expr \o <<r.then[3]>> /\ r.then[3] \in Readers
                /\ Owe(r.then[3]) = Owe(r.at)
  \/ r.on = {"openParen"} /\ r.back = "nothing" /\ Owe(r.at) = "none"
       /\ \/ r.then \in {<<"paren">>, <<"args">>}
          \/ r.then = <<"params", r.then[2]>> /\ r.then[2] \in {"body", "macroParams"}
  \/ r.on = {"openBracket"} /\ r.back = "nothing" /\ Owe(r.at) = "none"
       /\ r.then = <<"imm", "opcodeArg">>
  \/ r.on = {"openBrace"} /\ r.back = "nothing" /\ Owe(r.at) = "none" /\ r.then = <<"macroStart">>
  \/ r.on = {Owe(r.at)} /\ r.back = "nothing" /\ Owe(r.at) # "none" /\ r.then = <<>>

\* Each rule but one is one of these.
LEMMA RulesFit == \A r \in Rules : r.at \in Readers /\ r # SkipRule => Fits(r)
<1>0. DOMAIN Closing = {"openParen", "openBracket", "openBrace"}
  BY DEF Closing
<1>1. \A r \in PrimaryRules : Fits(r)
  BY <1>0 DEF PrimaryRules, Rule, Peek, Modulo, Values, Fits, Neutral, Owe, Readers, Closers
<1>2. \A r \in ArithRules : Fits(r)
  BY <1>0 DEF ArithRules, Rule, Peek, Modulo, Fits, Neutral, Owe, Readers, Closers
<1>3. \A r \in ParenRules : Fits(r)
  BY <1>0 DEF ParenRules, Rule, Peek, Modulo, Lines, Fits, Neutral, Owe, Readers, Closers, Expr
<1>4. \A r \in ListRules : Fits(r)
  BY <1>0 DEF ListRules, Rule, Peek, Modulo, Lines, Fits, Neutral, Owe, Readers, Closers, Expr
<1>5. \A r \in ImmediateRules \cup OpcodeRules \cup CallRules : Fits(r)
  BY <1>0 DEF ImmediateRules, OpcodeRules, CallRules, Rule, Peek, Modulo, Stops, Fits, Neutral,
         Owe, Readers, Closers
<1>6. \A r \in DirectiveRules \cup BytesRules : Fits(r)
  BY <1>0 DEF DirectiveRules, BytesRules, Rule, Peek, Modulo, Fits, Neutral, Owe, Readers, Closers
<1>7. \A r \in DefineRules : r # SkipRule => Fits(r)
  <2>1. \A r \in {Rule("define", {"identifier"}, <<"definition">>),
                  Rule("definition", {"openParen"}, <<"params", "body">>),
                  Rule("definition", {"equals"}, Expr), Rule("body", {"equals"}, Expr)} : Fits(r)
    BY <1>0 DEF Rule, Fits, Neutral, Owe, Readers, Closers
  <2>2. \A r \in {Peek("definition", Types \ (NoBody \cup {"openParen", "equals"}), <<"legacy">>),
                  Peek("body", Types \ (NoBody \cup {"equals"}), <<"legacy">>)} : Fits(r)
    BY DEF Peek, Modulo, Fits, Neutral, Owe, Readers
  <2>3. \A r \in {Rule("macro", {"openBrace"}, <<"macroStart">>),
                  Rule("macro", {"openParen"}, <<"params", "macroParams">>),
                  Rule("macroParams", {"openBrace"}, <<"macroStart">>),
                  Rule("macroStart", Lines, <<"macroStart">>)} : Fits(r)
    BY <1>0 DEF Rule, Lines, Fits, Neutral, Owe, Readers, MacroFrames, Closers
  <2> QED BY <2>1, <2>2, <2>3 DEF DefineRules, SkipRule
<1>8. \A r \in OnlyOpcodeRules : r.at \notin Readers
  BY DEF OnlyOpcodeRules, Rule, Peek, Modulo, Readers, MacroFrames
<1> QED BY <1>1, <1>2, <1>3, <1>4, <1>5, <1>6, <1>7, <1>8 DEF Rules

\* The frames of the stack owe what closes the open brackets, the first frames first, and the
\* last one nothing; they are of one statement, or of one in a macro body and of the document.
\* (The functions O are the rests of what is owed.)
IsRest(s, o, O) ==
  /\ O \in [1..Len(s) -> Seq(Closers)]
  /\ O[1] = o /\ O[Len(s)] = <<>>
  /\ \A k \in 1..Len(s) - 1 : O[k] = Owed(s[k]) \o O[k + 1]

Bottom(s, in, k) == k = Len(s) \/ (in /\ k = Len(s) - 1)

Owes(s, o, in) ==
  /\ s \in Seq(Readers \cup {"statement"}) /\ s # <<>> /\ (in => Len(s) > 1)
  /\ \A k \in 1..Len(s) : s[k] = "statement" <=> Bottom(s, in, k)
  /\ \E O : IsRest(s, o, O)

\* What one function owes.
LEMMA OwedType ==
  ASSUME NEW f
  PROVE  /\ Owed(f) \in Seq(Closers)
         /\ Owed(f) = <<>> \/ (Owed(f) = <<Owe(f)>> /\ Owe(f) \in Closers)
<1>1. Owe(f) \in Closers \cup {"none"} /\ "none" \notin Closers
  BY DEF Owe, Closers
<1>2. CASE Owe(f) = "none"
  BY <1>2 DEF Owed
<1>3. CASE Owe(f) # "none"
  <2>1. Owe(f) \in Closers /\ Owed(f) = <<Owe(f)>>
    BY <1>1, <1>3 DEF Owed
  <2> QED BY <2>1
<1> QED BY <1>2, <1>3

\* What is owed is a sequence of brackets.
LEMMA OwesType ==
  ASSUME NEW s, NEW o, NEW in, Owes(s, o, in)
  PROVE  o \in Seq(Closers) /\ Len(s) \in Nat \ {0} /\ DOMAIN s = 1..Len(s)
<1>1. PICK O : IsRest(s, o, O)
  BY DEF Owes
<1>2. Len(s) \in Nat \ {0} /\ DOMAIN s = 1..Len(s)
  BY DEF Owes
<1>3. O[1] \in Seq(Closers) /\ O[1] = o
  BY <1>1, <1>2 DEF IsRest
<1> QED BY <1>2, <1>3

\* Between statements nothing is open,
LEMMA OwesNothing == Owes(<<"statement">>, <<>>, FALSE)
<1> DEFINE s == <<"statement">>
           O == [k \in 1..1 |-> <<>>]
<1>1. Len(s) = 1 /\ s[1] = "statement" /\ s \in Seq(Readers \cup {"statement"})
  OBVIOUS
<1>2. IsRest(s, <<>>, O)
  <2>1. O \in [1..1 -> Seq(Closers)] /\ O[1] = <<>>
    OBVIOUS
  <2> HIDE DEF O, s
  <2> QED BY <1>1, <2>1 DEF IsRest
<1> HIDE DEF s, O
<1> QED BY <1>1, <1>2 DEF Owes, Bottom, s

\* in a macro body its brace.
LEMMA OwesBody == Owes(<<"statement", "statement">>, <<"closeBrace">>, TRUE)
<1> DEFINE s == <<"statement", "statement">>
           O == [k \in 1..2 |-> IF k = 1 THEN <<"closeBrace">> ELSE <<>>]
<1>1. Len(s) = 2 /\ s[1] = "statement" /\ s[2] = "statement"
      /\ s \in Seq(Readers \cup {"statement"})
  OBVIOUS
<1>2. Owed("statement") = <<"closeBrace">>
  BY DEF Owed, Owe
<1>3. IsRest(s, <<"closeBrace">>, O)
  <2>1. <<"closeBrace">> \in Seq(Closers) /\ <<>> \in Seq(Closers)
    BY DEF Closers
  <2>2. O \in [1..2 -> Seq(Closers)] /\ O[1] = <<"closeBrace">> /\ O[2] = <<>>
    BY <2>1
  <2> HIDE DEF O, s
  <2>3. \A k \in 1..2 - 1 : k = 1 /\ k + 1 = 2
    OBVIOUS
  <2>4. <<"closeBrace">> \o <<>> = <<"closeBrace">>
    OBVIOUS
  <2> QED BY <1>1, <1>2, <2>2, <2>3, <2>4 DEF IsRest
<1> HIDE DEF s, O
<1> QED BY <1>1, <1>3 DEF Owes, Bottom, s

\* A function called adds what it owes.
LEMMA OwesPush ==
  ASSUME NEW s, NEW o, NEW in, Owes(s, o, in), NEW f \in Readers
  PROVE  Owes(<<f>> \o s, Owed(f) \o o, in)
<1> DEFINE T == Readers \cup {"statement"}
           n == Len(s)
           t == <<f>> \o s
<1>1. s \in Seq(T) /\ n \in Nat \ {0} /\ (\A k \in 1..n : s[k] = "statement" <=> Bottom(s, in, k))
      /\ o \in Seq(Closers) /\ (in => n > 1)
  BY OwesType DEF Owes
<1>2. f \in T /\ f # "statement"
  BY DEF Readers, MacroFrames
<1>3. PICK O : IsRest(s, o, O)
  BY DEF Owes
<1> HIDE DEF T
<1>4. t \in Seq(T) /\ Len(t) = n + 1 /\ t[1] = f /\ (\A k \in 1..n : t[k + 1] = s[k])
  BY <1>1, <1>2
<1> HIDE DEF t
<1>5. t # <<>> /\ \A k \in 1..n + 1 : t[k] = "statement" <=> Bottom(t, in, k)
  <2>1. t # <<>>
    BY <1>1, <1>4
  <2>2. ASSUME NEW k \in 1..n + 1 PROVE t[k] = "statement" <=> Bottom(t, in, k)
    <3>1. CASE k = 1
      <4>1. k # n + 1 /\ (in => k # (n + 1) - 1)
        BY <1>1, <3>1
      <4> QED BY <1>2, <1>4, <3>1, <4>1 DEF Bottom
    <3>2. CASE k # 1
      <4>1. k - 1 \in 1..n /\ (k - 1) + 1 = k
        BY <1>1, <3>2
      <4>2. t[k] = s[k - 1]
        BY <1>4, <4>1
      <4>3. s[k - 1] = "statement" <=> k - 1 = n \/ (in /\ k - 1 = n - 1)
        BY <1>1, <4>1 DEF Bottom
      <4>4. (k - 1 = n <=> k = n + 1) /\ (k - 1 = n - 1 <=> k = (n + 1) - 1)
        BY <1>1
      <4> QED BY <1>4, <4>2, <4>3, <4>4 DEF Bottom
    <3> QED BY <3>1, <3>2
  <2> QED BY <2>1, <2>2
<1> DEFINE first == Owed(f) \o o
           P == [k \in 1..n + 1 |-> IF k = 1 THEN first ELSE O[k - 1]]
<1>6. first \in Seq(Closers)
  BY <1>1, OwedType
<1>7. O \in [1..n -> Seq(Closers)] /\ O[1] = o /\ O[n] = <<>>
      /\ \A k \in 1..n - 1 : O[k] = Owed(s[k]) \o O[k + 1]
  BY <1>3 DEF IsRest
<1>8. P \in [1..n + 1 -> Seq(Closers)]
  <2> HIDE DEF first
  <2>1. ASSUME NEW k \in 1..n + 1, k # 1 PROVE O[k - 1] \in Seq(Closers)
    <3>1. k - 1 \in 1..n
      BY <1>1, <2>1
    <3> QED BY <1>7, <3>1
  <2> QED BY <1>6, <2>1
<1>9. P[1] = first /\ (\A k \in 1..n : P[k + 1] = O[k])
  <2> HIDE DEF first
  <2>1. 1 \in 1..n + 1
    BY <1>1
  <2>2. ASSUME NEW k \in 1..n PROVE P[k + 1] = O[k]
    <3>1. k + 1 \in 1..n + 1 /\ k + 1 # 1 /\ (k + 1) - 1 = k
      BY <1>1
    <3> QED BY <3>1
  <2> QED BY <2>1, <2>2
<1> HIDE DEF P
<1>10. \A k \in 1..n : P[k] = Owed(t[k]) \o P[k + 1]
  <2> SUFFICES ASSUME NEW k \in 1..n PROVE P[k] = Owed(t[k]) \o P[k + 1]
    OBVIOUS
  <2>1. CASE k = 1
    <3>1. 1 \in 1..n
      BY <1>1
    <3>2. P[1 + 1] = o
      BY <1>7, <1>9, <3>1
    <3> QED BY <1>4, <1>9, <2>1, <3>2
  <2>2. CASE k # 1
    <3>1. k - 1 \in 1..n /\ k - 1 \in 1..n - 1 /\ (k - 1) + 1 = k
      BY <1>1, <2>2
    <3>2. P[k] = O[k - 1] /\ t[k] = s[k - 1] /\ P[k + 1] = O[k]
      BY <1>4, <1>9, <3>1
    <3>3. O[k - 1] = Owed(s[k - 1]) \o O[k]
      BY <1>7, <3>1
    <3> QED BY <3>2, <3>3
  <2> QED BY <2>1, <2>2
<1>11. P[n + 1] = <<>>
  <2>1. n \in 1..n
    BY <1>1
  <2> QED BY <1>7, <1>9, <2>1
<1>12. (n + 1) - 1 = n /\ (in => n + 1 > 1)
  BY <1>1
<1> HIDE DEF first
<1>13. IsRest(t, first, P)
  BY <1>4, <1>8, <1>9, <1>10, <1>11, <1>12 DEF IsRest
<1> QED BY <1>4, <1>5, <1>12, <1>13 DEF Owes, t, T, first

\* A function that is not a statement's adds what it owes to what the others owe.
LEMMA OwesPop ==
  ASSUME NEW s, NEW o, NEW in, Owes(s, o, in), Head(s) # "statement"
  PROVE  /\ Head(s) \in Readers
         /\ \E rest \in Seq(Closers) : o = Owed(Head(s)) \o rest /\ Owes(Tail(s), rest, in)
<1> DEFINE T == Readers \cup {"statement"}
           n == Len(s)
           t == Tail(s)
<1>1. s \in Seq(T) /\ n \in Nat \ {0} /\ (\A k \in 1..n : s[k] = "statement" <=> Bottom(s, in, k))
      /\ s # <<>> /\ (in => n > 1)
  BY OwesType DEF Owes
<1>2. PICK O : IsRest(s, o, O)
  BY DEF Owes
<1> HIDE DEF T
<1>3. Head(s) = s[1] /\ s[1] \in T
  BY <1>1
<1>4. n > 1 /\ Head(s) \in Readers /\ (in => n - 1 > 1)
  <2>1. 1 \in 1..n
    BY <1>1
  <2>2. ~Bottom(s, in, 1)
    BY <1>1, <1>3, <2>1
  <2>3. 1 # n /\ (in => 1 # n - 1)
    BY <2>2 DEF Bottom
  <2>4. n \in Nat /\ n # 0
    BY <1>1
  <2>5. n > 1
    BY <2>3, <2>4
  <2>6. ASSUME in PROVE n - 1 > 1
    <3>1. 1 # n - 1
      BY <2>2, <2>6, Zenon DEF Bottom
    <3>2. \A m \in Nat : m > 1 /\ 1 # m - 1 => m - 1 > 1
      OBVIOUS
    <3> QED BY <2>4, <2>5, <3>1, <3>2, Zenon
  <2> QED BY <1>3, <2>2, <2>5, <2>6 DEF T
<1>5. t \in Seq(T) /\ Len(t) = n - 1 /\ (\A k \in 1..n - 1 : t[k] = s[k + 1])
  BY <1>1
<1> HIDE DEF t
<1>6. n - 1 \in Nat \ {0} /\ (n - 1) + 1 = n /\ t # <<>>
  BY <1>1, <1>4, <1>5
<1>7. \A k \in 1..n - 1 : t[k] = "statement" <=> Bottom(t, in, k)
  <2> SUFFICES ASSUME NEW k \in 1..n - 1 PROVE t[k] = "statement" <=> Bottom(t, in, k)
    OBVIOUS
  <2>1. k + 1 \in 1..n /\ (k + 1 = n <=> k = n - 1) /\ (k + 1 = n - 1 <=> k = (n - 1) - 1)
    BY <1>1
  <2>2. s[k + 1] = "statement" <=> k + 1 = n \/ (in /\ k + 1 = n - 1)
    BY <1>1, <2>1 DEF Bottom
  <2> QED BY <1>5, <2>1, <2>2 DEF Bottom
<1>8. O \in [1..n -> Seq(Closers)] /\ O[1] = o /\ O[n] = <<>>
      /\ \A k \in 1..n - 1 : O[k] = Owed(s[k]) \o O[k + 1]
  BY <1>2 DEF IsRest
<1> DEFINE P == [k \in 1..n - 1 |-> O[k + 1]]
<1>9. P \in [1..n - 1 -> Seq(Closers)]
  <2>1. ASSUME NEW k \in 1..n - 1 PROVE O[k + 1] \in Seq(Closers)
    <3>1. k + 1 \in 1..n
      BY <1>1
    <3> QED BY <1>8, <3>1
  <2> QED BY <2>1
<1>10. \A k \in 1..n - 1 : P[k] = O[k + 1]
  OBVIOUS
<1> HIDE DEF P
<1>11. \A k \in 1..(n - 1) - 1 : P[k] = Owed(t[k]) \o P[k + 1]
  <2> SUFFICES ASSUME NEW k \in 1..(n - 1) - 1 PROVE P[k] = Owed(t[k]) \o P[k + 1]
    OBVIOUS
  <2>1. k \in 1..n - 1 /\ k + 1 \in 1..n - 1
    BY <1>1
  <2>2. O[k + 1] = Owed(s[k + 1]) \o O[(k + 1) + 1]
    BY <1>8, <2>1
  <2> QED BY <1>5, <1>10, <2>1, <2>2
<1>12. P[n - 1] = <<>> /\ 1 \in 1..n - 1 /\ P[1] = O[1 + 1]
  <2>1. n - 1 \in 1..n - 1 /\ 1 \in 1..n - 1
    BY <1>6
  <2> QED BY <1>6, <1>8, <1>10, <2>1
<1>13. o = Owed(Head(s)) \o P[1]
  BY <1>3, <1>8, <1>12
<1>14. IsRest(t, P[1], P)
  BY <1>5, <1>9, <1>11, <1>12 DEF IsRest
<1>15. Owes(t, P[1], in) /\ P[1] \in Seq(Closers)
  BY <1>4, <1>5, <1>6, <1>7, <1>9, <1>12, <1>14 DEF Owes, T
<1> QED BY <1>4, <1>13, <1>15 DEF t

\* The statement of the document owes nothing and is alone; the one of a macro body is above it.
LEMMA OwesEnd ==
  ASSUME NEW s, NEW o, NEW in \in BOOLEAN, Owes(s, o, in), Head(s) = "statement"
  PROVE  /\ ~in => s = <<"statement">> /\ o = <<>>
         /\ in => s = <<"statement", "statement">> /\ o = <<"closeBrace">>
<1> DEFINE T == Readers \cup {"statement"}
           n == Len(s)
<1>1. s \in Seq(T) /\ n \in Nat \ {0} /\ (\A k \in 1..n : s[k] = "statement" <=> Bottom(s, in, k))
      /\ s # <<>> /\ (in => n > 1)
  BY OwesType DEF Owes
<1>2. PICK O : IsRest(s, o, O)
  BY DEF Owes
<1> HIDE DEF T
<1>3. 1 \in 1..n /\ Head(s) = s[1] /\ (1 = n \/ (in /\ 1 = n - 1))
  <2>1. 1 \in 1..n /\ Head(s) = s[1]
    BY <1>1
  <2>2. Bottom(s, in, 1)
    BY <1>1, <2>1
  <2> QED BY <2>1, <2>2 DEF Bottom
<1>4. CASE ~in
  <2>1. n = 1 /\ s[1] = "statement"
    BY <1>3, <1>4
  <2>2. s = <<"statement">>
    BY <1>1, <2>1
  <2>3. O[1] = o /\ O[1] = <<>>
    BY <1>2, <2>1 DEF IsRest
  <2> QED BY <1>4, <2>2, <2>3
<1>5. CASE in
  <2>1. n = 2 /\ s[1] = "statement" /\ s[2] = "statement"
    BY <1>1, <1>3, <1>5 DEF Bottom
  <2>2. s = <<"statement", "statement">>
    BY <1>1, <2>1
  <2>3. O[1] = o /\ O[2] = <<>> /\ O[1] = Owed(s[1]) \o O[1 + 1]
    <3>1. 1 \in 1..2 - 1
      OBVIOUS
    <3> QED BY <1>2, <2>1, <3>1 DEF IsRest
  <2>4. Owed("statement") = <<"closeBrace">>
    BY DEF Owed, Owe
  <2>5. <<"closeBrace">> \o <<>> = <<"closeBrace">> /\ 1 + 1 = 2
    OBVIOUS
  <2> QED BY <1>5, <2>1, <2>2, <2>3, <2>4, <2>5
<1> QED BY <1>4, <1>5

-----------------------------------------------------------------------------
(* The brackets of the source *)

\* What is open behind each token of a line.
LEMMA LineEquation ==
  ASSUME NEW before, NEW line, Len(line) \in Nat
  PROVE  LET f == OpenInLine(before, line) IN
         f[0] = before /\ \A k \in 1..Len(line) : f[k] = Nested(f[k - 1], line[k])
<1> DEFINE n == Len(line)
           F(f, k) == IF k = 0 THEN before ELSE Nested(f[k - 1], line[k])
           Covered == {m \in Nat : \E f : f = [k \in 0..m |-> F(f, k)]}
<1>1. n \in Nat
  OBVIOUS
<1>2. 0 \in Covered
  <2> DEFINE f == [k \in 0..0 |-> before]
  <2>1. \A k \in 0..0 : F(f, k) = before
    OBVIOUS
  <2>2. f = [k \in 0..0 |-> F(f, k)]
    <3> HIDE DEF F
    <3> QED BY <2>1
  <2> HIDE DEF F, f
  <2> QED BY <2>2
<1>3. ASSUME NEW m \in Nat, m \in Covered PROVE m + 1 \in Covered
  <2>1. PICK f : f = [k \in 0..m |-> F(f, k)]
    BY <1>3
  <2> DEFINE g == [k \in 0..(m + 1) |-> F(f, k)]
  <2>2. \A k \in 0..m : k \in 0..(m + 1) /\ g[k] = f[k]
    <3>1. \A k \in 0..m : f[k] = F(f, k)
      <4> HIDE DEF F
      <4> QED BY <2>1
    <3>2. \A k \in 0..(m + 1) : g[k] = F(f, k)
      <4> HIDE DEF F
      <4> QED OBVIOUS
    <3>3. \A k \in 0..m : k \in 0..(m + 1)
      OBVIOUS
    <3> HIDE DEF F, g
    <3> QED BY <3>1, <3>2, <3>3
  <2>3. ASSUME NEW k \in 0..(m + 1) PROVE F(f, k) = F(g, k)
    <3>1. k = 0 \/ k - 1 \in 0..m
      OBVIOUS
    <3> HIDE DEF g
    <3> QED BY <2>2, <3>1
  <2>4. g = [k \in 0..(m + 1) |-> F(g, k)]
    <3> HIDE DEF F
    <3> QED BY <2>3
  <2> HIDE DEF F, g
  <2> QED BY <2>4
<1>4. n \in Covered
  <2> HIDE DEF Covered, n
  <2> QED BY <1>1, <1>2, <1>3, InductiveSet
<1>5. \E f : f = [k \in 0..n |-> F(f, k)]
  BY <1>4
<1> DEFINE w == OpenInLine(before, line)
<1>6. w = CHOOSE f : f = [k \in 0..n |-> F(f, k)]
  BY DEF OpenInLine
<1>7. w = [k \in 0..n |-> F(w, k)]
  <2> HIDE DEF F, n, w
  <2> QED BY <1>5, <1>6
<1>8. \A k \in 0..n : w[k] = F(w, k)
  <2> HIDE DEF F, w, n
  <2> QED BY <1>7
<1> HIDE DEF w, n
<1>9. 0 \in 0..n /\ \A k \in 1..n : k \in 0..n /\ k # 0
  BY <1>1
<1> QED BY <1>8, <1>9 DEF w, n

\* What is open behind each line of a source.
LEMMA SourceEquation ==
  ASSUME NEW src, Len(src) \in Nat
  PROVE  LET f == OpenIn(src) IN
         /\ f[0] = <<>>
         /\ \A k \in 1..Len(src) : f[k] = OpenInLine(f[k - 1], src[k])[Len(src[k])]
<1> DEFINE n == Len(src)
           F(f, k) == IF k = 0 THEN <<>> ELSE OpenInLine(f[k - 1], src[k])[Len(src[k])]
           Covered == {m \in Nat : \E f : f = [k \in 0..m |-> F(f, k)]}
<1>1. n \in Nat
  OBVIOUS
<1>2. 0 \in Covered
  <2> DEFINE f == [k \in 0..0 |-> <<>>]
  <2>1. \A k \in 0..0 : F(f, k) = <<>>
    OBVIOUS
  <2>2. f = [k \in 0..0 |-> F(f, k)]
    <3> HIDE DEF F
    <3> QED BY <2>1
  <2> HIDE DEF F, f
  <2> QED BY <2>2
<1>3. ASSUME NEW m \in Nat, m \in Covered PROVE m + 1 \in Covered
  <2>1. PICK f : f = [k \in 0..m |-> F(f, k)]
    BY <1>3
  <2> DEFINE g == [k \in 0..(m + 1) |-> F(f, k)]
  <2>2. \A k \in 0..m : k \in 0..(m + 1) /\ g[k] = f[k]
    <3>1. \A k \in 0..m : f[k] = F(f, k)
      <4> HIDE DEF F
      <4> QED BY <2>1
    <3>2. \A k \in 0..(m + 1) : g[k] = F(f, k)
      <4> HIDE DEF F
      <4> QED OBVIOUS
    <3>3. \A k \in 0..m : k \in 0..(m + 1)
      OBVIOUS
    <3> HIDE DEF F, g
    <3> QED BY <3>1, <3>2, <3>3
  <2>3. ASSUME NEW k \in 0..(m + 1) PROVE F(f, k) = F(g, k)
    <3>1. k = 0 \/ k - 1 \in 0..m
      OBVIOUS
    <3> HIDE DEF g
    <3> QED BY <2>2, <3>1
  <2>4. g = [k \in 0..(m + 1) |-> F(g, k)]
    <3> HIDE DEF F
    <3> QED BY <2>3
  <2> HIDE DEF F, g
  <2> QED BY <2>4
<1>4. n \in Covered
  <2> HIDE DEF Covered, n
  <2> QED BY <1>1, <1>2, <1>3, InductiveSet
<1>5. \E f : f = [k \in 0..n |-> F(f, k)]
  BY <1>4
<1> DEFINE w == OpenIn(src)
<1>6. w = CHOOSE f : f = [k \in 0..n |-> F(f, k)]
  BY DEF OpenIn
<1>7. w = [k \in 0..n |-> F(w, k)]
  <2> HIDE DEF F, n, w
  <2> QED BY <1>5, <1>6
<1>8. \A k \in 0..n : w[k] = F(w, k)
  <2> HIDE DEF F, w, n
  <2> QED BY <1>7
<1> HIDE DEF w, n
<1>9. 0 \in 0..n /\ \A k \in 1..n : k \in 0..n /\ k # 0
  BY <1>1
<1> QED BY <1>8, <1>9 DEF w, n

\* The brackets open where the lexer is.
OpenAt ==
  IF AllSent THEN OpenIn(input)[Len(input)]
  ELSE OpenInLine(OpenIn(input)[sent[1] - 1],
                  input[sent[1]])[IF sent[2] = 0 THEN 0 ELSE sent[2] - 1]

Brackets == Closers \cup DOMAIN Closing

\* Other tokens leave brackets as they are.
LEMMA NestedOther ==
  ASSUME NEW open, NEW typ, typ \notin Brackets
  PROVE  Nested(open, typ) = open
BY DEF Nested, Brackets, Closers

\* Brackets that open and close.
LEMMA NestedBracket ==
  ASSUME NEW open \in Seq(Closers)
  PROVE  /\ \A typ \in DOMAIN Closing : Nested(open, typ) = <<Closing[typ]>> \o open
         /\ \A typ \in Closers : Nested(<<typ>> \o open, typ) = open
<1>1. DOMAIN Closing \cap Closers = {} /\ "wrong" \notin Closers
      /\ DOMAIN Closing = {"openParen", "openBracket", "openBrace"}
  BY DEF Closing, Closers
<1>2. open # <<"wrong">>
  <2> SUFFICES ASSUME open = <<"wrong">> PROVE FALSE
    OBVIOUS
  <2>1. Len(open) = 1 /\ open[1] = "wrong"
    OBVIOUS
  <2>2. open[1] \in Closers
    BY <2>1
  <2> QED BY <1>1, <2>1, <2>2
<1>3. ASSUME NEW typ \in DOMAIN Closing PROVE Nested(open, typ) = <<Closing[typ]>> \o open
  BY <1>1, <1>2 DEF Nested, Closers
<1>4. ASSUME NEW typ \in Closers PROVE Nested(<<typ>> \o open, typ) = open
  <2> DEFINE more == <<typ>> \o open
  <2>1. more \in Seq(Closers) /\ more # <<>> /\ Head(more) = typ /\ Tail(more) = open
        /\ more[1] = typ
    OBVIOUS
  <2> HIDE DEF more
  <2>2. more # <<"wrong">>
    <3> SUFFICES ASSUME more = <<"wrong">> PROVE FALSE
      OBVIOUS
    <3>1. more[1] = "wrong"
      OBVIOUS
    <3> QED BY <1>1, <2>1, <3>1
  <2>3. typ \notin DOMAIN Closing /\ typ \in {"closeParen", "closeBracket", "closeBrace"}
    BY <1>1 DEF Closers
  <2>4. Nested(more, typ) = Tail(more)
    BY <2>1, <2>2, <2>3 DEF Nested
  <2> QED BY <2>1, <2>4 DEF more
<1> QED BY <1>3, <1>4

\* Sending a token opens or closes a bracket if it is one.
LEMMA OpenStep ==
  ASSUME Position, ~AllSent, sent' = After(sent), input' = input
  PROVE  OpenAt' = Nested(OpenAt, Lexed(sent).typ)
<1> DEFINE n == sent[1]
           k == sent[2]
           before == OpenIn(input)[n - 1]
           line == input[n]
<1>1. /\ input \in Inputs /\ Len(input) \in Nat \ {0} /\ n \in 1..Len(input) /\ k \in Nat
      /\ k <= Len(line) + 1
  BY InputFacts DEF Position, AllSent
<1>2. /\ Len(line) \in Nat /\ DOMAIN line = 1..Len(line)
  BY <1>1, InputFacts
<1>3. /\ OpenInLine(before, line)[0] = before
      /\ \A j \in 1..Len(line) :
           OpenInLine(before, line)[j] = Nested(OpenInLine(before, line)[j - 1], line[j])
  <2> HIDE DEF before, line
  <2> QED BY <1>2, LineEquation
<1>4. /\ \A j \in 1..Len(input) :
           OpenIn(input)[j] = OpenInLine(OpenIn(input)[j - 1], input[j])[Len(input[j])]
  BY <1>1, SourceEquation
<1>5. OpenAt = OpenInLine(before, line)[IF k = 0 THEN 0 ELSE k - 1]
  BY DEF OpenAt
<1>6. CASE k = 0
  <2>1. sent' = <<n, 1>>
    BY <1>2, <1>6 DEF After
  <2>2. Lexed(sent).typ = "lineStart"
    BY <1>2, <1>6 DEF Lexed, Token
  <2>3. ~AllSent' /\ sent'[1] = n /\ sent'[2] = 1
    BY <1>1, <2>1 DEF AllSent
  <2>4. OpenAt' = OpenInLine(before, line)[0]
    BY <2>3 DEF OpenAt
  <2>5. "lineStart" \notin Brackets
    BY DEF Brackets, Closers, Closing
  <2>6. OpenAt' = OpenAt
    BY <1>5, <1>6, <2>4
  <2> QED BY <2>2, <2>5, <2>6, NestedOther
<1>7. CASE k \in 1..Len(line)
  <2>1. sent' = <<n, k + 1>>
    BY <1>2, <1>7 DEF After
  <2>2. Lexed(sent).typ = line[k]
    BY <1>2, <1>7 DEF Lexed, Token
  <2>3. ~AllSent' /\ sent'[1] = n /\ sent'[2] = k + 1 /\ k + 1 # 0 /\ (k + 1) - 1 = k
    BY <1>1, <2>1 DEF AllSent
  <2>4. OpenAt' = OpenInLine(before, line)[k]
    BY <2>3 DEF OpenAt
  <2>5. OpenAt = OpenInLine(before, line)[k - 1]
    BY <1>5, <1>7
  <2> QED BY <1>3, <1>7, <2>2, <2>4, <2>5
<1>8. CASE k = Len(line) + 1
  <2>1. k # 0 /\ k \notin DOMAIN line /\ ~(k <= Len(line)) /\ k - 1 = Len(line)
    BY <1>2, <1>8
  <2>2. sent' = <<n + 1, 0>>
    BY <2>1 DEF After
  <2>3. Lexed(sent).typ \in {"eof", "lineEnd"}
    BY <2>1 DEF Lexed, Token
  <2>4. Lexed(sent).typ \notin Brackets
    BY <2>3 DEF Brackets, Closers, Closing
  <2>5. OpenAt = OpenInLine(before, line)[Len(line)]
    BY <1>5, <2>1
  <2>6. OpenAt = OpenIn(input)[n]
    BY <1>1, <1>4, <2>5
  <2>7. sent'[1] = n + 1 /\ sent'[2] = 0 /\ (n + 1) - 1 = n
    BY <1>1, <2>2
  <2>8. CASE n = Len(input)
    <3>1. AllSent'
      BY <1>1, <2>7, <2>8 DEF AllSent
    <3>2. OpenAt' = OpenIn(input)[Len(input)]
      BY <3>1 DEF OpenAt
    <3> QED BY <2>4, <2>6, <2>8, <3>2, NestedOther
  <2>9. CASE n # Len(input)
    <3>1. ~AllSent' /\ n + 1 \in 1..Len(input)
      BY <1>1, <2>7, <2>9 DEF AllSent
    <3>2. OpenAt' = OpenInLine(OpenIn(input)[n], input[n + 1])[0]
      BY <2>7, <3>1 DEF OpenAt
    <3>3. Len(input[n + 1]) \in Nat
      BY <1>1, <3>1, InputFacts
    <3>4. OpenInLine(OpenIn(input)[n], input[n + 1])[0] = OpenIn(input)[n]
      BY <3>3, LineEquation
    <3> QED BY <2>4, <2>6, <3>2, <3>4, NestedOther
  <2> QED BY <2>8, <2>9
<1> QED BY <1>1, <1>2, <1>6, <1>7, <1>8
-----------------------------------------------------------------------------
(* Brackets that are owed are those that are open *)

\* A function whose call owes nothing.
LEMMA PushNothing ==
  ASSUME NEW s, NEW o, NEW in, Owes(s, o, in), NEW f \in Readers, Owe(f) = "none"
  PROVE  Owes(<<f>> \o s, o, in)
<1>1. Owed(f) = <<>>
  BY DEF Owed
<1>2. o \in Seq(Closers)
  BY OwesType
<1>3. <<>> \o o = o
  BY <1>2
<1> QED BY <1>1, <1>3, OwesPush

\* An expression owes nothing.
LEMMA PushExpr ==
  ASSUME NEW s, NEW o, NEW in, Owes(s, o, in)
  PROVE  Owes(Expr \o s, o, in)
<1>1. "primary" \in Readers /\ Owe("primary") = "none" /\ "arith" \in Readers /\ Owe("arith") = "none"
  BY DEF Readers, Owe
<1>2. Owes(<<"arith">> \o s, o, in)
  BY <1>1, PushNothing
<1>3. Owes(<<"primary">> \o (<<"arith">> \o s), o, in)
  BY <1>1, <1>2, PushNothing
<1>4. s \in Seq(Readers \cup {"statement"})
  BY DEF Owes
<1>5. <<"primary">> \o (<<"arith">> \o s) = Expr \o s
  BY <1>4 DEF Expr
<1> QED BY <1>3, <1>5

\* A function called above another.
LEMMA CallPair ==
  ASSUME NEW T, NEW f \in T, NEW g \in T
  PROVE  <<f>> \o <<g>> = <<f, g>>
<1>1. <<f>> \in Seq(T) /\ <<g>> \in Seq(T) /\ Len(<<f>>) = 1 /\ Len(<<g>>) = 1
      /\ <<f>>[1] = f /\ <<g>>[1] = g
  OBVIOUS
<1>2. <<f, g>> \in Seq(T) /\ Len(<<f, g>>) = 2 /\ <<f, g>>[1] = f /\ <<f, g>>[2] = g
  OBVIOUS
<1>3. PICK c : c = <<f>> \o <<g>>
  OBVIOUS
<1>4. c \in Seq(T) /\ Len(c) = 2 /\ c[1] = f /\ c[2] = g
  <2>1. /\ c \in Seq(T) /\ Len(c) = 1 + 1
        /\ \A k \in 1..1 + 1 : c[k] = IF k <= 1 THEN <<f>>[k] ELSE <<g>>[k - 1]
    BY <1>1, <1>3, ConcatProperties
  <2>2. 1 \in 1..1 + 1 /\ 2 \in 1..1 + 1 /\ 1 + 1 = 2 /\ 2 - 1 = 1
    OBVIOUS
  <2> QED BY <1>1, <2>1, <2>2
<1>5. PICK d : d = <<f, g>>
  OBVIOUS
<1>6. d \in Seq(T) /\ Len(d) = 2 /\ d[1] = f /\ d[2] = g
  BY <1>2, <1>5
<1>7. c = d
  <2>1. \A k \in 1..2 : k = 1 \/ k = 2
    OBVIOUS
  <2> QED BY <1>4, <1>6, <2>1, SeqEqual
<1> QED BY <1>3, <1>5, <1>7

\* One more function to call.
LEMMA AppendOne ==
  ASSUME NEW T, NEW e \in Seq(T), Len(e) = 2, NEW w \in Seq(T), Len(w) = 1
  PROVE  Len(e \o w) = 3 /\ (e \o w)[1] = e[1]
<1>1. PICK c : c = e \o w
  OBVIOUS
<1>2. PICK m \in Nat, n \in Nat : m = Len(e) /\ n = Len(w) /\ m = 2 /\ n = 1
  OBVIOUS
<1>3. Len(c) = m + n /\ \A k \in 1..m + n : c[k] = IF k <= m THEN e[k] ELSE w[k - m]
  <2>1. e \in Seq(T) /\ w \in Seq(T)
    OBVIOUS
  <2>2. Len(c) = Len(e) + Len(w)
        /\ \A k \in 1..Len(e) + Len(w) : c[k] = IF k <= Len(e) THEN e[k] ELSE w[k - Len(e)]
    BY <1>1, <2>1, ConcatProperties
  <2> QED BY <1>2, <2>2, Zenon
<1>4. Len(c) = 3 /\ c[1] = e[1]
  <2>1. m + n = 3 /\ 1 \in 1..m + n /\ 1 <= m
    BY <1>2
  <2> QED BY <1>3, <2>1
<1> QED BY <1>1, <1>4

\* Two functions called, one after the other.
LEMMA CallTwo ==
  ASSUME NEW T, NEW s \in Seq(T), NEW f \in T, NEW g \in T
  PROVE  <<f>> \o (<<g>> \o s) = <<f, g>> \o s
<1>1. <<f>> \in Seq(T) /\ <<g>> \in Seq(T)
  OBVIOUS
<1>2. (<<f>> \o <<g>>) \o s = <<f>> \o (<<g>> \o s)
  BY <1>1, ConcatAssociative
<1>3. <<f>> \o <<g>> = <<f, g>>
  BY CallPair
<1> QED BY <1>2, <1>3

\* The operands of an expression are read before what comes after it.
LEMMA CallExpr ==
  ASSUME NEW T, NEW s \in Seq(T), NEW g \in T, "primary" \in T, "arith" \in T
  PROVE  <<"primary">> \o (<<"arith">> \o (<<g>> \o s)) = (Expr \o <<g>>) \o s
<1>1. <<g>> \in Seq(T) /\ Expr \in Seq(T) /\ <<g>> \o s \in Seq(T)
  BY DEF Expr
<1>2. (Expr \o <<g>>) \o s = Expr \o (<<g>> \o s)
  BY <1>1, ConcatAssociative
<1>3. <<"primary">> \o (<<"arith">> \o (<<g>> \o s)) = <<"primary", "arith">> \o (<<g>> \o s)
  BY <1>1, CallTwo
<1> QED BY <1>2, <1>3 DEF Expr

\* Two functions return.
LEMMA ReturnTwo ==
  ASSUME NEW T, NEW s \in Seq(T), Len(s) > 1
  PROVE  SubSeq(s, 3, Len(s)) = Tail(Tail(s))
<1>1. PICK t : t = Tail(s)
  OBVIOUS
<1>2. t \in Seq(T) /\ Len(t) = Len(s) - 1 /\ \A k \in 1..Len(s) - 1 : t[k] = s[k + 1]
  BY <1>1
<1>3. PICK u : u = Tail(t)
  OBVIOUS
<1>4. u \in Seq(T) /\ Len(u) = Len(t) - 1 /\ \A k \in 1..Len(t) - 1 : u[k] = t[k + 1]
  BY <1>2, <1>3
<1>5. PICK v : v = SubSeq(s, 3, Len(s))
  OBVIOUS
<1>6. v \in Seq(T) /\ Len(v) = Len(s) - 2 /\ \A k \in 1..Len(s) - 2 : v[k] = s[k + 2]
  <2>1. Len(s) \in Nat /\ 3 \in 1..Len(s) + 1 /\ Len(s) \in 3 - 1..Len(s)
    OBVIOUS
  <2>2. v \in Seq(T)
    BY <1>5
  <2>3. Len(v) = IF 3 <= Len(s) THEN Len(s) - 3 + 1 ELSE 0
    BY <1>5, <2>1, SubSeqProperties
  <2>4. Len(v) = Len(s) - 2
    <3>1. \A m \in Nat : m > 1 => (IF 3 <= m THEN m - 3 + 1 ELSE 0) = m - 2
      OBVIOUS
    <3> QED BY <2>1, <2>3, <3>1, Zenon
  <2>5. \A k \in 1..(Len(s) - 3 + 1) : v[k] = s[3 + k - 1]
    BY <1>5, <2>1, SubSeqProperties
  <2>6. ASSUME NEW k \in 1..Len(s) - 2 PROVE v[k] = s[k + 2]
    <3>1. k \in 1..(Len(s) - 3 + 1) /\ 3 + k - 1 = k + 2
      BY <2>1
    <3> QED BY <2>5, <3>1
  <2> QED BY <2>2, <2>4, <2>6
<1>7. Len(v) = Len(u) /\ \A k \in 1..Len(v) : v[k] = u[k]
  <2>1. Len(v) = Len(u)
    BY <1>2, <1>4, <1>6
  <2>2. ASSUME NEW k \in 1..Len(v) PROVE v[k] = u[k]
    <3>1. k \in 1..Len(s) - 2 /\ k \in 1..Len(t) - 1 /\ k + 1 \in 1..Len(s) - 1
          /\ (k + 1) + 1 = k + 2
      BY <1>2, <1>6
    <3> QED BY <1>2, <1>4, <1>6, <3>1
  <2> QED BY <2>1, <2>2
<1>8. v = u
  BY <1>4, <1>6, <1>7, SeqEqual
<1> QED BY <1>1, <1>3, <1>5, <1>8

\* A rule changes what is owed as its token changes what is open.
LEMMA RuleOwes ==
  ASSUME NEW r \in Rules, r.at \in Readers, r # SkipRule,
         NEW s, NEW rest, NEW in, Owes(s, rest, in), NEW typ \in r.on
  PROVE  Owes(r.then \o s, IF r.back = "nothing" THEN Nested(Owed(r.at) \o rest, typ)
                                                 ELSE Owed(r.at) \o rest, in)
<1> DEFINE o == Owed(r.at) \o rest
           p == IF r.back = "nothing" THEN Nested(o, typ) ELSE o
<1>1. Fits(r)
  BY RulesFit
<1>2. rest \in Seq(Closers) /\ s \in Seq(Readers \cup {"statement"})
  BY OwesType DEF Owes
<1>3. <<>> \o rest = rest /\ <<>> \o s = s
  BY <1>2
<1>4. ASSUME Neutral(r) PROVE p = o
  <2>1. CASE r.back # "nothing"
    BY <2>1
  <2>2. CASE r.back = "nothing"
    <3>1. typ \notin Brackets
      BY <1>4, <2>2 DEF Neutral, Brackets
    <3> HIDE DEF o
    <3> QED BY <2>2, <3>1, NestedOther
  <2> QED BY <2>1, <2>2
<1>5. ASSUME Owe(r.at) = "none" PROVE o = rest
  BY <1>3, <1>5 DEF Owed
<1> HIDE DEF o
<1>6. CASE Neutral(r) /\ r.then = <<>> /\ Owe(r.at) = "none"
  BY <1>3, <1>4, <1>5, <1>6 DEF o
<1>7. CASE Neutral(r) /\ r.then = Expr /\ Owe(r.at) = "none"
  BY <1>4, <1>5, <1>7, PushExpr DEF o
<1>8. CASE Neutral(r) /\ r.then = <<r.then[1]>> /\ r.then[1] \in Readers
             /\ Owe(r.then[1]) = Owe(r.at)
  <2>1. Owed(r.then[1]) = Owed(r.at)
    BY <1>8 DEF Owed
  <2>2. Owes(<<r.then[1]>> \o s, o, in)
    BY <1>8, <2>1, OwesPush DEF o
  <2> QED BY <1>4, <1>8, <2>2 DEF o
<1>9. CASE Neutral(r) /\ r.then = Expr \o <<r.then[3]>> /\ r.then[3] \in Readers
             /\ Owe(r.then[3]) = Owe(r.at)
  <2>1. PICK f : f = r.then[3]
    OBVIOUS
  <2>2. Owed(f) = Owed(r.at) /\ f \in Readers
    BY <1>9, <2>1 DEF Owed
  <2>3. Owes(<<f>> \o s, o, in)
    BY <2>2, OwesPush DEF o
  <2>4. Owes(Expr \o (<<f>> \o s), o, in)
    BY <2>3, PushExpr
  <2>5. Expr \o (<<f>> \o s) = (Expr \o <<f>>) \o s
    <3>1. Expr \in Seq({"primary", "arith"})
      BY DEF Expr
    <3> HIDE DEF Expr
    <3> QED BY <1>2, <2>2, <3>1
  <2> QED BY <1>4, <1>9, <2>1, <2>4, <2>5 DEF o
<1>10. DOMAIN Closing = {"openParen", "openBracket", "openBrace"}
       /\ Closing["openParen"] = "closeParen" /\ Closing["openBracket"] = "closeBracket"
       /\ Closing["openBrace"] = "closeBrace"
  BY DEF Closing
<1>11. CASE r.on = {"openParen"} /\ r.back = "nothing" /\ Owe(r.at) = "none"
              /\ r.then \in {<<"paren">>, <<"args">>}
  <2>1. p = <<"closeParen">> \o rest
    BY <1>2, <1>5, <1>10, <1>11, NestedBracket
  <2>2. /\ "paren" \in Readers /\ Owed("paren") = <<"closeParen">>
        /\ "args" \in Readers /\ Owed("args") = <<"closeParen">>
    BY DEF Readers, Owed, Owe
  <2>3. PICK f \in {"paren", "args"} : r.then = <<f>>
    BY <1>11
  <2>4. Owes(<<f>> \o s, Owed(f) \o rest, in)
    BY <2>2, <2>3, OwesPush
  <2> QED BY <2>1, <2>2, <2>3, <2>4 DEF o
<1>12. CASE r.on = {"openBracket"} /\ r.back = "nothing" /\ Owe(r.at) = "none"
              /\ r.then = <<"imm", "opcodeArg">>
  <2>1. p = <<"closeBracket">> \o rest
    BY <1>2, <1>5, <1>10, <1>12, NestedBracket
  <2>2. /\ "imm" \in Readers /\ Owed("imm") = <<"closeBracket">>
        /\ "opcodeArg" \in Readers /\ Owe("opcodeArg") = "none"
    BY DEF Readers, Owed, Owe
  <2>3. Owes(<<"opcodeArg">> \o s, rest, in)
    BY <2>2, PushNothing
  <2>4. Owes(<<"imm">> \o (<<"opcodeArg">> \o s), <<"closeBracket">> \o rest, in)
    BY <2>2, <2>3, OwesPush
  <2>5. <<"imm">> \o (<<"opcodeArg">> \o s) = <<"imm", "opcodeArg">> \o s
    BY <1>2
  <2> QED BY <1>12, <2>1, <2>4, <2>5 DEF o
<1>13. CASE r.on = {Owe(r.at)} /\ r.back = "nothing" /\ Owe(r.at) # "none" /\ r.then = <<>>
  <2>1. o = <<typ>> \o rest /\ typ = Owe(r.at)
    BY <1>13 DEF o, Owed
  <2>2. typ \in Closers
    BY <1>13, <2>1 DEF Owe, Closers
  <2>3. Nested(o, typ) = rest
    BY <1>2, <2>1, <2>2, NestedBracket
  <2> QED BY <1>3, <1>13, <2>3 DEF o
<1>14. CASE r.on = {"openParen"} /\ r.back = "nothing" /\ Owe(r.at) = "none"
              /\ r.then = <<"params", r.then[2]>> /\ r.then[2] \in {"body", "macroParams"}
  <2>1. p = <<"closeParen">> \o rest
    BY <1>2, <1>5, <1>10, <1>14, NestedBracket
  <2>2. PICK g \in {"body", "macroParams"} : r.then = <<"params", g>>
    BY <1>14
  <2>3. /\ "params" \in Readers /\ Owed("params") = <<"closeParen">>
        /\ g \in Readers /\ Owe(g) = "none"
    BY <2>2 DEF Readers, MacroFrames, Owed, Owe
  <2>4. Owes(<<g>> \o s, rest, in)
    BY <2>3, PushNothing
  <2>5. Owes(<<"params">> \o (<<g>> \o s), <<"closeParen">> \o rest, in)
    BY <2>3, <2>4, OwesPush
  <2>6. <<"params">> \o (<<g>> \o s) = <<"params", g>> \o s
    BY <1>2, <2>3
  <2> QED BY <2>1, <2>2, <2>5, <2>6 DEF o
<1>15. CASE r.on = {"openBrace"} /\ r.back = "nothing" /\ Owe(r.at) = "none"
              /\ r.then = <<"macroStart">>
  <2>1. p = <<"closeBrace">> \o rest
    BY <1>2, <1>5, <1>10, <1>15, NestedBracket
  <2>2. "macroStart" \in Readers /\ Owed("macroStart") = <<"closeBrace">>
    BY DEF Readers, MacroFrames, Owed, Owe
  <2>3. Owes(<<"macroStart">> \o s, <<"closeBrace">> \o rest, in)
    BY <2>2, OwesPush
  <2> QED BY <1>15, <2>1, <2>3 DEF o
<1> QED BY <1>1, <1>6, <1>7, <1>8, <1>9, <1>11, <1>12, <1>13, <1>14, <1>15 DEF Fits

\* The brackets o are open behind what the parser has read: the lexer is there, or one token
\* further.
Behind(o) ==
  IF buffer = <<>> THEN OpenAt = o
  ELSE /\ OpenAt = Nested(o, buffer[1].typ)
       /\ buffer[1].typ = "eof" => AllSent

\* A token that is read is behind the parser, unless it is put back.
LEMMA ReadBehind ==
  ASSUME LineInv, NEW o, Behind(o), ~(AllSent /\ buffer = <<>>),
         NEW how \in {"nothing", "token", "identifier"}, Read(Back(Tok, how)),
         how = "identifier" => Tok.typ = "instMacroIdent"
  PROVE  /\ Tok.typ = "eof" => AllSent'
         /\ OpenAt' = Nested(o, Tok.typ)
         /\ \A p : p = (IF how = "nothing" THEN Nested(o, Tok.typ) ELSE o) => Behind(p)'
<1> DEFINE b == Back(Tok, how)
<1>1. Position /\ BufferOK
  BY DEF LineInv
<1>2. /\ Tok \in Tokens /\ Tok.line = NextLine /\ buffer' = b /\ Position'
      /\ sent'[1] = IF Ends(Tok.typ) THEN Tok.line + 1 ELSE Tok.line
  BY <1>1, ReadFacts
<1>3. input' = input /\ Len(input) \in Nat /\ input \in Inputs
  BY <1>1, InputFacts DEF Read, lexer, Position
<1>4. (Tok.typ = "eof" => AllSent') /\ OpenAt' = Nested(o, Tok.typ)
  <2>1. CASE buffer = <<>>
    <3>1. ~AllSent /\ Tok = Lexed(sent) /\ sent' = After(sent) /\ OpenAt = o
      BY <2>1 DEF Tok, Read, Behind
    <3>2. OpenAt' = Nested(o, Tok.typ)
      BY <1>1, <1>3, <3>1, OpenStep
    <3>3. Tok.typ = "eof" => AllSent'
      <4> SUFFICES ASSUME Tok.typ = "eof" PROVE AllSent'
        OBVIOUS
      <4>1. sent[1] = Len(input) /\ sent'[1] = sent[1] + 1
        BY <1>1, <3>1, LexedFacts DEF Ends
      <4> QED BY <1>3, <4>1 DEF AllSent
    <3> QED BY <3>2, <3>3
  <2>2. CASE buffer # <<>>
    <3>1. PICK t : buffer = <<t>>
      BY <1>1, <2>2 DEF BufferOK
    <3>2. Len(buffer) = 1 /\ buffer[1] = t
      BY <3>1
    <3>3. Tok = t /\ sent' = sent
      BY <2>2, <3>2 DEF Tok, Read
    <3>4. OpenAt' = OpenAt /\ AllSent' = AllSent
      BY <1>3, <3>3 DEF OpenAt, AllSent
    <3> QED BY <2>2, <3>2, <3>3, <3>4 DEF Behind
  <2> QED BY <2>1, <2>2
<1>5. ASSUME NEW p, p = (IF how = "nothing" THEN Nested(o, Tok.typ) ELSE o) PROVE Behind(p)'
  <2>1. CASE how = "nothing"
    <3>1. buffer' = <<>>
      BY <1>2, <2>1 DEF Back
    <3> QED BY <1>4, <1>5, <2>1, <3>1 DEF Behind
  <2>2. CASE how # "nothing"
    <3>1. PICK y : y = IF how = "identifier" THEN "identifier" ELSE Tok.typ
      OBVIOUS
    <3>2. PICK t : t = [Tok EXCEPT !.typ = y]
      OBVIOUS
    <3>3. t.typ = y
      BY <1>2, <3>2 DEF Tokens
    <3>4. b = <<t>>
      BY <2>2, <3>1, <3>2 DEF Back
    <3> HIDE DEF b
    <3>5. buffer' # <<>> /\ buffer'[1] = t
      BY <1>2, <3>4
    <3>6. Nested(o, y) = Nested(o, Tok.typ)
      <4>1. CASE how = "identifier"
        <5>1. y = "identifier" /\ Tok.typ = "instMacroIdent"
          BY <3>1, <4>1
        <5>2. "identifier" \notin Brackets /\ "instMacroIdent" \notin Brackets
          BY DEF Brackets, Closers, Closing
        <5> QED BY <5>1, <5>2, NestedOther
      <4>2. CASE how # "identifier"
        BY <3>1, <4>2
      <4> QED BY <4>1, <4>2
    <3>7. y = "eof" => Tok.typ = "eof"
      BY <3>1
    <3> QED BY <1>4, <1>5, <2>2, <3>3, <3>5, <3>6, <3>7 DEF Behind
  <2> QED BY <2>1, <2>2
<1> QED BY <1>4, <1>5

-----------------------------------------------------------------------------
(* Which functions call which *)

\* What may be right below what on the stack.
Pair(f, g) ==
  /\ f = "define" => g = "rest"
  /\ f \in {"rest", "macro", "macroParams", "macroStart"} => g = "statement"
  /\ g = "macroParams" => f \in {"params", "paramsEnd"}
  /\ g \notin {"params", "paramsEnd"}

\* In a macro body no other macro is read.
Shape(s, in) ==
  /\ \A k \in 1..Len(s) - 1 : Pair(s[k], s[k + 1])
  /\ in => \A k \in 1..Len(s) : s[k] \notin MacroFrames

\* What may be below f may be below g.
Under(f, g) == (g \in MacroFrames => f \in MacroFrames) /\ \A x : Pair(f, x) => Pair(g, x)

\* Rules keep this so, and lists of parameters start and end behind a token that is not put back.
Sits(r) ==
  /\ \/ r.then = <<>> /\ (r.at \in {"params", "paramsEnd"} =>
                            r.on = {"closeParen"} /\ r.back = "nothing")
     \/ r.then = <<r.then[1]>> /\ Under(r.at, r.then[1])
     \/ r.then = <<r.then[1], r.then[2]>> /\ Under(r.at, r.then[2])
          /\ Pair(r.then[1], r.then[2]) /\ r.then[1] \notin MacroFrames
     \/ r.then = Expr \o <<r.then[3]>> /\ Under(r.at, r.then[3]) /\ Pair("arith", r.then[3])
  /\ r.then # <<>> =>
       /\ r.then[1] \in {"params", "paramsEnd"} => r.back = "nothing"
       /\ r.then[1] = "macroParams" => r = SkipRule

\* Each rule is one of these.
LEMMA RulesSit == \A r \in Rules : r.at \in Readers => Sits(r)
<1>1. \A r \in PrimaryRules : Sits(r)
  BY DEF PrimaryRules, Rule, Peek, Modulo, Values, Sits, Under, Pair, MacroFrames
<1>2. \A r \in ArithRules : Sits(r)
  BY DEF ArithRules, Rule, Peek, Modulo, Sits, Under, Pair, MacroFrames, Expr
<1>3. \A r \in ParenRules : Sits(r)
  BY DEF ParenRules, Rule, Peek, Modulo, Lines, Sits, Under, Pair, MacroFrames, Expr
<1>4. \A r \in ListRules : Sits(r)
  BY DEF ListRules, Rule, Peek, Modulo, Lines, Sits, Under, Pair, MacroFrames, Expr
<1>5. \A r \in ImmediateRules \cup OpcodeRules \cup CallRules : Sits(r)
  BY DEF ImmediateRules, OpcodeRules, CallRules, Rule, Peek, Modulo, Stops, Sits, Under, Pair,
         MacroFrames, Expr
<1>6. \A r \in DirectiveRules \cup BytesRules : Sits(r)
  BY DEF DirectiveRules, BytesRules, Rule, Peek, Modulo, Sits, Under, Pair, MacroFrames, Expr
<1>7. \A r \in DefineRules : Sits(r)
  BY DEF DefineRules, SkipRule, Rule, Peek, Modulo, Lines, Stops, NoBody, Sits, Under, Pair,
         MacroFrames, Expr
<1>8. \A r \in OnlyOpcodeRules : r.at \notin Readers
  BY DEF OnlyOpcodeRules, Rule, Peek, Modulo, Readers, MacroFrames
<1> QED BY <1>1, <1>2, <1>3, <1>4, <1>5, <1>6, <1>7, <1>8 DEF Rules

Frames == Readers \cup {"statement"}

\* A function called goes on top,
LEMMA ShapePush ==
  ASSUME NEW s \in Seq(Frames), s # <<>>, NEW in, Shape(s, in), NEW f \in Frames, Pair(f, s[1]),
         in => f \notin MacroFrames
  PROVE  /\ Shape(<<f>> \o s, in) /\ <<f>> \o s \in Seq(Frames) /\ <<f>> \o s # <<>>
         /\ (<<f>> \o s)[1] = f
<1> DEFINE n == Len(s)
           t == <<f>> \o s
<1>1. n \in Nat \ {0} /\ t \in Seq(Frames) /\ Len(t) = n + 1 /\ t[1] = f
      /\ \A k \in 1..n : t[k + 1] = s[k]
  OBVIOUS
<1> HIDE DEF t
<1>2. t # <<>>
  BY <1>1
<1>3. ASSUME NEW k \in 1..(n + 1) - 1 PROVE Pair(t[k], t[k + 1])
  <2>1. k \in 1..n /\ t[k + 1] = s[k]
    BY <1>1
  <2>2. CASE k = 1
    BY <1>1, <2>1, <2>2
  <2>3. CASE k # 1
    <3>1. k - 1 \in 1..n - 1 /\ k - 1 \in 1..n /\ (k - 1) + 1 = k
      BY <1>1, <2>1, <2>3
    <3>2. t[k] = s[k - 1] /\ Pair(s[k - 1], s[k])
      BY <1>1, <3>1 DEF Shape
    <3> QED BY <2>1, <3>2
  <2> QED BY <2>2, <2>3
<1>4. ASSUME in, NEW k \in 1..n + 1 PROVE t[k] \notin MacroFrames
  <2>1. CASE k = 1
    BY <1>1, <1>4, <2>1
  <2>2. CASE k # 1
    <3>1. k - 1 \in 1..n /\ (k - 1) + 1 = k
      BY <1>1, <2>2
    <3>2. t[k] = s[k - 1] /\ s[k - 1] \notin MacroFrames
      BY <1>1, <1>4, <3>1 DEF Shape
    <3> QED BY <3>2
  <2> QED BY <2>1, <2>2
<1>5. Shape(t, in)
  BY <1>1, <1>3, <1>4 DEF Shape
<1> QED BY <1>1, <1>2, <1>5 DEF t

\* and comes off again.
LEMMA ShapePop ==
  ASSUME NEW s \in Seq(Frames), Len(s) > 1, NEW in, Shape(s, in)
  PROVE  /\ Shape(Tail(s), in) /\ Pair(Head(s), Tail(s)[1]) /\ (in => Head(s) \notin MacroFrames)
         /\ Tail(s) \in Seq(Frames) /\ Tail(s) # <<>>
<1> DEFINE n == Len(s)
           t == Tail(s)
<1>1. /\ n \in Nat /\ t \in Seq(Frames) /\ Len(t) = n - 1 /\ s # <<>> /\ Head(s) = s[1]
      /\ \A k \in 1..n - 1 : t[k] = s[k + 1]
  OBVIOUS
<1> HIDE DEF t
<1>2. t # <<>> /\ t[1] = s[1 + 1] /\ 1 \in 1..n - 1
  BY <1>1
<1>3. Pair(Head(s), t[1]) /\ (in => Head(s) \notin MacroFrames)
  <2>1. 1 \in 1..n
    BY <1>1
  <2> QED BY <1>1, <1>2, <2>1 DEF Shape
<1>4. ASSUME NEW k \in 1..(n - 1) - 1 PROVE Pair(t[k], t[k + 1])
  <2>1. k \in 1..n - 1 /\ k + 1 \in 1..n - 1
    BY <1>1
  <2>2. Pair(s[k + 1], s[(k + 1) + 1])
    BY <2>1 DEF Shape
  <2> QED BY <1>1, <2>1, <2>2
<1>5. ASSUME in, NEW k \in 1..n - 1 PROVE t[k] \notin MacroFrames
  <2>1. k + 1 \in 1..n
    BY <1>1
  <2>2. s[k + 1] \notin MacroFrames
    BY <1>5, <2>1 DEF Shape
  <2> QED BY <1>1, <2>2
<1>6. Shape(t, in)
  BY <1>1, <1>4, <1>5 DEF Shape
<1> QED BY <1>1, <1>2, <1>3, <1>6 DEF t

\* A rule puts on the stack what may be there.
LEMMA RuleShape ==
  ASSUME NEW r \in Rules, r.at \in Readers, r # SkipRule, NEW s \in Seq(Frames), s # <<>>, NEW in,
         Shape(s, in), Pair(r.at, s[1]), in => r.at \notin MacroFrames
  PROVE  /\ Shape(r.then \o s, in)
         /\ r.then = <<>> => r.then \o s = s
         /\ r.then # <<>> => (r.then \o s)[1] = r.then[1]
<1>1. Sits(r) /\ Fits(r)
  BY RulesSit, RulesFit
<1>2. \A f \in Readers : f \in Frames
  BY DEF Frames
<1>3. /\ "primary" \in Frames /\ "primary" \notin MacroFrames
      /\ "arith" \in Frames /\ "arith" \notin MacroFrames /\ Pair("primary", "arith")
  BY DEF Frames, Readers, MacroFrames, Pair
<1>4. CASE r.then = <<>>
  BY <1>4
<1>5. CASE r.then = <<r.then[1]>> /\ Under(r.at, r.then[1])
  <2>1. PICK f : r.then = <<f>> /\ f = r.then[1]
    BY <1>5
  <2>2. Pair(f, s[1]) /\ (in => f \notin MacroFrames)
    BY <1>5, <2>1 DEF Under
  <2>3. f \in Frames
    BY <1>1, <1>2, <2>1 DEF Fits, Expr, Readers, MacroFrames
  <2>4. Shape(<<f>> \o s, in) /\ (<<f>> \o s)[1] = f
    BY <2>2, <2>3, ShapePush
  <2> QED BY <2>1, <2>4
<1>6. CASE r.then = <<r.then[1], r.then[2]>> /\ Under(r.at, r.then[2])
             /\ Pair(r.then[1], r.then[2]) /\ r.then[1] \notin MacroFrames
  <2>1. PICK f, g : r.then = <<f, g>> /\ f = r.then[1] /\ g = r.then[2]
    BY <1>6
  <2>2. Pair(g, s[1]) /\ (in => g \notin MacroFrames)
    BY <1>6, <2>1 DEF Under
  <2>3. f \in Frames /\ g \in Frames
    BY <1>1, <1>2, <2>1 DEF Fits, Expr, Readers, MacroFrames
  <2>4. Shape(<<g>> \o s, in) /\ (<<g>> \o s)[1] = g /\ <<g>> \o s \in Seq(Frames)
        /\ <<g>> \o s # <<>>
    BY <2>2, <2>3, ShapePush
  <2>5. Shape(<<f>> \o (<<g>> \o s), in) /\ (<<f>> \o (<<g>> \o s))[1] = f
    BY <1>6, <2>1, <2>3, <2>4, ShapePush
  <2>6. PICK t : t = <<f, g>> \o s
    OBVIOUS
  <2>7. <<f>> \o (<<g>> \o s) = t
    BY <2>3, <2>6, CallTwo
  <2>8. r.then \o s = t /\ r.then[1] = f
    BY <2>1, <2>6
  <2>9. Shape(t, in) /\ t[1] = f
    BY <2>5, <2>7
  <2> QED BY <2>8, <2>9
<1>7. CASE r.then = Expr \o <<r.then[3]>> /\ Under(r.at, r.then[3]) /\ Pair("arith", r.then[3])
  <2>1. PICK g : g = r.then[3] /\ r.then = Expr \o <<g>>
    BY <1>7
  <2>2. Pair(g, s[1]) /\ (in => g \notin MacroFrames)
    BY <1>7, <2>1 DEF Under
  <2>3. Len(r.then) = 3 /\ r.then[1] = "primary"
    <3>1. PICK T : T = {"primary", "arith", g}
      OBVIOUS
    <3>2. PICK e, w : e = Expr /\ w = <<g>>
      OBVIOUS
    <3>3. e \in Seq(T) /\ Len(e) = 2 /\ e[1] = "primary" /\ w \in Seq(T) /\ Len(w) = 1
      BY <3>1, <3>2 DEF Expr
    <3>4. Len(e \o w) = 3 /\ (e \o w)[1] = e[1]
      BY <3>3, AppendOne
    <3> QED BY <2>1, <3>2, <3>3, <3>4
  <2>4. g \in Frames
    <3>1. \A x, y : r.then # <<x, y>> /\ r.then # <<x>> /\ r.then # <<>>
      <4>1. \A x, y : Len(<<x, y>>) = 2 /\ Len(<<x>>) = 1 /\ Len(<<>>) = 0
        OBVIOUS
      <4>2. Len(r.then) # 0 /\ Len(r.then) # 1 /\ Len(r.then) # 2
        BY <2>3
      <4> QED BY <4>1, <4>2, Zenon
    <3>2. r.then = Expr \o <<r.then[3]>> /\ r.then[3] \in Readers
      BY <1>1, <3>1 DEF Fits, Expr
    <3> QED BY <1>2, <2>1, <3>2
  <2>5. Shape(<<g>> \o s, in) /\ (<<g>> \o s)[1] = g /\ <<g>> \o s \in Seq(Frames)
        /\ <<g>> \o s # <<>>
    BY <2>2, <2>4, ShapePush
  <2>6. PICK u : u = <<"arith">> \o (<<g>> \o s)
    OBVIOUS
  <2>7. Shape(u, in) /\ u[1] = "arith" /\ u \in Seq(Frames) /\ u # <<>>
    BY <1>3, <1>7, <2>1, <2>5, <2>6, ShapePush
  <2>8. Shape(<<"primary">> \o u, in) /\ (<<"primary">> \o u)[1] = "primary"
    BY <1>3, <2>7, ShapePush
  <2>9. PICK t : t = (Expr \o <<g>>) \o s
    OBVIOUS
  <2>10. <<"primary">> \o u = t
    <3>1. <<"primary">> \o (<<"arith">> \o (<<g>> \o s)) = (Expr \o <<g>>) \o s
      BY <1>3, <2>4, CallExpr
    <3> QED BY <2>6, <2>9, <3>1
  <2>11. Shape(t, in) /\ t[1] = "primary"
    BY <2>8, <2>10
  <2>12. r.then \o s = t
    BY <2>1, <2>9
  <2>13. r.then # <<>>
    BY <2>3
  <2> QED BY <2>3, <2>11, <2>12, <2>13
<1> QED BY <1>1, <1>4, <1>5, <1>6, <1>7 DEF Sits

\* The last token was a closing parenthesis.
JustClosed ==
  /\ buffer = <<>> /\ sent[1] <= Len(input)
  /\ sent[2] - 1 \in 1..Len(input[sent[1]]) /\ input[sent[1]][sent[2] - 1] = "closeParen"

\* It is, when one has been read from the lexer.
LEMMA ReadClosing ==
  ASSUME Position, buffer = <<>>, ~AllSent, Read(<<>>), Tok.typ = "closeParen"
  PROVE  JustClosed'
<1> DEFINE n == sent[1]
           k == sent[2]
<1>1. /\ input \in Inputs /\ Len(input) \in Nat /\ n \in 1..Len(input) /\ k \in Nat
      /\ Len(input[n]) \in Nat /\ DOMAIN input[n] = 1..Len(input[n])
  <2>1. input \in Inputs /\ n \in 1..Len(input) + 1 /\ ~(n > Len(input)) /\ k \in Nat
    BY DEF Position, AllSent
  <2>2. Len(input) \in Nat
    BY <2>1, InputFacts
  <2>3. n \in 1..Len(input)
    BY <2>1, <2>2
  <2> QED BY <2>1, <2>2, <2>3, InputFacts
<1>2. Lexed(sent).typ = "closeParen" /\ sent' = After(sent) /\ input' = input /\ buffer' = <<>>
  <2>1. <<>> \o <<>> = <<>>
    OBVIOUS
  <2> QED BY <2>1 DEF Tok, Read, lexer
<1>3. k \in 1..Len(input[n]) /\ input[n][k] = "closeParen"
  BY <1>1, <1>2 DEF Lexed, Token
<1>4. sent' = <<n, k + 1>>
  BY <1>2, <1>3 DEF After
<1>5. sent'[1] = n /\ sent'[2] - 1 = k
  BY <1>1, <1>4
<1> QED BY <1>1, <1>2, <1>3, <1>5 DEF JustClosed

\* Then no parenthesis is opened, in the sources that are looked at.
LEMMA NotReopened ==
  ASSUME Position, JustClosed, ~Reopens
  PROVE  Tok.typ # "openParen"
<1> DEFINE n == sent[1]
           k == sent[2]
<1>1. /\ input \in Inputs /\ Len(input) \in Nat /\ n \in 1..Len(input) /\ k \in Nat /\ ~AllSent
      /\ Len(input[n]) \in Nat /\ DOMAIN input[n] = 1..Len(input[n]) /\ DOMAIN input = 1..Len(input)
  <2>1. input \in Inputs /\ n \in 1..Len(input) + 1 /\ n <= Len(input) /\ k \in Nat
    BY DEF Position, JustClosed
  <2>2. Len(input) \in Nat /\ DOMAIN input = 1..Len(input)
    BY <2>1, InputFacts
  <2>3. n \in 1..Len(input) /\ ~(n > Len(input))
    BY <2>1, <2>2
  <2> QED BY <2>1, <2>2, <2>3, InputFacts DEF AllSent
<1>2. Tok = Lexed(sent) /\ k - 1 \in 1..Len(input[n]) /\ input[n][k - 1] = "closeParen"
  BY <1>1 DEF Tok, JustClosed
<1>3. k # 0
  BY <1>1, <1>2
<1>4. CASE k \in 1..Len(input[n])
  <2>1. Tok.typ = input[n][k]
    BY <1>1, <1>2, <1>3, <1>4 DEF Lexed, Token
  <2>2. k - 1 \in 1..Len(input[n]) - 1 /\ (k - 1) + 1 = k
    BY <1>1, <1>2, <1>4
  <2>3. input[n][(k - 1) + 1] # "openParen"
    BY <1>1, <1>2, <2>2 DEF Reopens
  <2> QED BY <2>1, <2>2, <2>3
<1>5. CASE k \notin 1..Len(input[n])
  BY <1>1, <1>2, <1>3, <1>5 DEF Lexed, Token
<1> QED BY <1>4, <1>5

-----------------------------------------------------------------------------
(* Sources read without an error *)

Clean == entry = "Parse" /\ ~Reopens /\ \A k \in DOMAIN errors : errors[k].warning

\* The functions are called as they may be, and a parameter list is read behind the last token.
Called ==
  /\ Shape(stack, InMacro)
  /\ Head(stack) \in {"params", "paramsEnd"} => buffer = <<>>
  /\ Head(stack) = "macroParams" => JustClosed
  /\ Head(stack) = "statement" \/ pending # None

\* The functions that the parser is in are those that close what is open.
BracketInv ==
  Clean =>
    /\ phase \in {"parse", "drain", "done"}
    /\ phase = "parse" => Called /\ \E o : Owes(stack, o, InMacro) /\ Behind(o)
    /\ phase # "parse" => OpenIn(input)[Len(input)] = <<>>

\* What is known before a step.
LEMMA StackFacts ==
  ASSUME BracketInv, phase = "parse", Clean, NEW o, Owes(stack, o, InMacro)
  PROVE  /\ ~Reopens /\ o \in Seq(Closers) /\ InMacro \in BOOLEAN
         /\ stack \in Seq(Frames) /\ stack # <<>> /\ Head(stack) = stack[1] /\ stack[1] \in Frames
         /\ Called
         /\ Head(stack) # "statement" =>
              /\ Len(stack) > 1 /\ Shape(Tail(stack), InMacro) /\ Pair(Head(stack), Tail(stack)[1])
              /\ InMacro => Head(stack) \notin MacroFrames
              /\ Tail(stack) \in Seq(Frames) /\ Tail(stack) # <<>>
<1>1. /\ ~Reopens /\ o \in Seq(Closers) /\ InMacro \in BOOLEAN /\ Called
      /\ stack \in Seq(Frames) /\ stack # <<>>
  BY OwesType DEF Clean, BracketInv, Owes, Frames, InMacro
<1>2. Len(stack) \in Nat \ {0} /\ Head(stack) = stack[1] /\ stack[1] \in Frames
  BY <1>1
<1>3. Head(stack) # "statement" => Len(stack) > 1
  <2> SUFFICES ASSUME Len(stack) = 1 PROVE Head(stack) = "statement"
    BY <1>2
  <2>1. 1 \in 1..Len(stack) /\ Bottom(stack, InMacro, 1)
    BY <1>2 DEF Bottom
  <2> QED BY <1>2, <2>1 DEF Owes
<1> QED BY <1>1, <1>2, <1>3, ShapePop DEF Called

\* A step by a rule.
LEMMA FollowBrackets ==
  ASSUME LineInv, BracketInv, phase = "parse", Clean, Follow
  PROVE  Called' /\ \E o : (Owes(stack, o, InMacro) /\ Behind(o))'
<1>1. PICK o : Owes(stack, o, InMacro) /\ Behind(o)
  BY DEF BracketInv
<1>2. PICK r \in RulesAt[Head(stack)] :
        /\ Tok.typ \in r.on /\ Read(Back(Tok, r.back)) /\ stack' = r.then \o Tail(stack)
  BY DEF Follow
<1>3. r \in Rules /\ r.at = Head(stack) /\ RuleOK(r)
  BY RuleFacts DEF Follow
<1>4. Head(stack) # "statement" /\ InMacro' = InMacro /\ pending' = pending
  BY <1>3 DEF RuleOK, Follow, InMacro
<1>5. ~(AllSent /\ buffer = <<>>)
  BY <1>4, AtZero
<1>6. /\ ~Reopens /\ Called /\ Shape(Tail(stack), InMacro) /\ Pair(r.at, Tail(stack)[1])
      /\ (InMacro => r.at \notin MacroFrames) /\ Tail(stack) \in Seq(Frames) /\ Tail(stack) # <<>>
  BY <1>1, <1>3, <1>4, StackFacts
<1>7. PICK rest \in Seq(Closers) : o = Owed(r.at) \o rest /\ Owes(Tail(stack), rest, InMacro)
  BY <1>1, <1>3, <1>4, OwesPop
<1>8. r.at \in Readers
  BY <1>1, <1>3, <1>4, OwesPop
<1>9. r # SkipRule
  <2> SUFFICES ASSUME r = SkipRule PROVE FALSE
    OBVIOUS
  <2>1. r.at = "macroParams" /\ r.on = {"openParen"}
    BY DEF SkipRule, Rule
  <2>2. JustClosed /\ Position
    BY <1>3, <1>6, <2>1 DEF Called, LineInv
  <2>3. Tok.typ # "openParen"
    BY <1>6, <2>2, NotReopened
  <2> QED BY <1>2, <2>1, <2>3
<1>10. PICK p : p = IF r.back = "nothing" THEN Nested(o, Tok.typ) ELSE o
  OBVIOUS
<1>11. Owes(stack', p, InMacro')
  BY <1>2, <1>3, <1>4, <1>7, <1>8, <1>9, <1>10, RuleOwes
<1>12. Behind(p)'
  BY <1>1, <1>2, <1>3, <1>5, <1>10, ReadBehind DEF RuleOK
<1>13. /\ Shape(stack', InMacro')
       /\ r.then = <<>> => stack' = Tail(stack)
       /\ r.then # <<>> => stack'[1] = r.then[1]
  BY <1>2, <1>3, <1>4, <1>6, <1>8, <1>9, RuleShape
<1>14. stack' # <<>> /\ Head(stack') = stack'[1]
  <2>1. stack' \in Seq(Readers \cup {"statement"}) /\ stack' # <<>>
    BY <1>11 DEF Owes
  <2> QED BY <2>1
<1>15. r.back = "nothing" => buffer' = <<>>
  <2>1. Position /\ BufferOK
    BY DEF LineInv
  <2>2. buffer' = Back(Tok, r.back)
    BY <1>2, <1>5, <2>1, ReadFacts
  <2> QED BY <2>2 DEF Back
<1>16. /\ Head(stack') \in {"params", "paramsEnd"} => buffer' = <<>>
       /\ Head(stack') = "macroParams" => JustClosed'
  <2>1. Sits(r)
    BY <1>3, <1>8, RulesSit
  <2>2. CASE r.then # <<>>
    <3>1. /\ Head(stack') \in {"params", "paramsEnd"} => r.back = "nothing"
          /\ Head(stack') # "macroParams"
      BY <1>9, <1>13, <1>14, <2>1, <2>2 DEF Sits
    <3> QED BY <1>15, <3>1
  <2>3. CASE r.then = <<>>
    <3>1. Head(stack') = Tail(stack)[1]
      BY <1>13, <1>14, <2>3
    <3>2. Head(stack') \notin {"params", "paramsEnd"}
      BY <1>6, <3>1 DEF Pair
    <3>3. ASSUME Head(stack') = "macroParams" PROVE JustClosed'
      <4>1. r.at \in {"params", "paramsEnd"}
        BY <1>6, <3>1, <3>3 DEF Pair
      <4>2. r.on = {"closeParen"} /\ r.back = "nothing"
        <5>1. \A x, y : <<x>> # <<>> /\ <<x, y>> # <<>> /\ Expr \o <<x>> # <<>>
          BY DEF Expr
        <5> QED BY <2>1, <2>3, <4>1, <5>1 DEF Sits
      <4>3. buffer = <<>> /\ Position
        BY <1>3, <1>6, <4>1 DEF Called, LineInv
      <4>4. Tok.typ = "closeParen" /\ Read(<<>>) /\ ~AllSent
        BY <1>2, <1>5, <4>2, <4>3 DEF Back
      <4> QED BY <4>3, <4>4, ReadClosing
    <3> QED BY <3>2, <3>3
  <2> QED BY <2>2, <2>3
<1>17. pending' # None
  BY <1>4, <1>6 DEF Called
<1>18. Called'
  BY <1>13, <1>16, <1>17 DEF Called, InMacro
<1>19. (Owes(stack, p, InMacro) /\ Behind(p))'
  BY <1>11, <1>12
<1> QED BY <1>18, <1>19

\* The functions at whose call the rest is clear.
LEMMA CalledSimply ==
  ASSUME Shape(stack', InMacro'), Head(stack') \notin {"params", "paramsEnd", "macroParams"},
         Head(stack') = "statement" \/ pending' # None
  PROVE  Called'
BY DEF Called, InMacro

\* The start and the end of a statement, and the lines between them.
LEMMA StatementBrackets ==
  ASSUME LineInv, BracketInv, phase = "parse", Clean, SkipLine \/ StartStatement \/ FinishStatement
  PROVE  Called' /\ \E o : (Owes(stack, o, InMacro) /\ Behind(o))'
<1>1. PICK o : Owes(stack, o, InMacro) /\ Behind(o)
  BY DEF BracketInv
<1>2. /\ o \in Seq(Closers) /\ Called /\ InMacro \in BOOLEAN /\ stack \in Seq(Frames)
      /\ stack # <<>> /\ Head(stack) = stack[1] /\ Shape(stack, InMacro)
  BY <1>1, StackFacts DEF Called
<1>3. InMacro' = InMacro
  BY DEF SkipLine, StartStatement, FinishStatement, InMacro
<1>4. Back(Tok, "nothing") = <<>>
  BY DEF Back
<1>5. CASE SkipLine
  <2>1. Head(stack) = "statement" /\ Tok.typ \in Lines /\ Read(<<>>) /\ stack' = stack
    BY <1>5 DEF SkipLine, At
  <2>2. Tok.typ # "eof" /\ Tok.typ \notin Brackets
    BY <2>1 DEF Lines, Brackets, Closers, Closing
  <2>3. ~(AllSent /\ buffer = <<>>)
    BY <2>2, AtZero
  <2>4. Nested(o, Tok.typ) = o
    BY <2>2, NestedOther
  <2>5. Behind(o)'
    BY <1>1, <1>4, <2>1, <2>3, <2>4, ReadBehind
  <2>6. Owes(stack', o, InMacro') /\ Called'
    BY <1>1, <1>2, <1>3, <2>1, CalledSimply
  <2> QED BY <2>5, <2>6
<1>6. CASE StartStatement
  <2>1. /\ Head(stack) = "statement" /\ Tok.typ \in DOMAIN Starts /\ Read(<<>>)
        /\ stack' = Starts[Tok.typ] \o stack /\ (InMacro => Tok.typ # "#define")
        /\ pending' = [is |-> Tok.typ, line |-> Tok.line]
    BY <1>6 DEF StartStatement, At
  <2>2. Tok.typ # "eof" /\ Tok.typ \notin Brackets /\ Tok.typ # "none"
    BY <2>1, StartsFacts DEF Brackets, Closers, Closing
  <2>3. ~(AllSent /\ buffer = <<>>)
    BY <2>2, AtZero
  <2>4. Nested(o, Tok.typ) = o
    BY <2>2, NestedOther
  <2>5. Behind(o)'
    BY <1>1, <1>4, <2>1, <2>3, <2>4, ReadBehind
  <2>6. pending' # None
    BY <2>1, <2>2 DEF None
  <2> DEFINE F == {"opcode", "call", "file", "pragma", "bytes", "define"}
  <2>7. /\ \/ Starts[Tok.typ] = <<"rest">>
           \/ \E f \in F : Starts[Tok.typ] = <<f, "rest">> /\ (f = "define" => Tok.typ = "#define")
    BY <2>1, StartsFacts
  <2>8. /\ "rest" \in Readers /\ "rest" \in Frames /\ Owe("rest") = "none"
        /\ "rest" \notin MacroFrames /\ Pair("rest", "statement")
        /\ \A f \in F : /\ f \in Readers /\ f \in Frames /\ Owe(f) = "none" /\ Pair(f, "rest")
                        /\ f \in MacroFrames => f = "define"
                        /\ f \notin {"params", "paramsEnd", "macroParams"}
    BY DEF Readers, MacroFrames, Owe, Frames, Pair
  <2>9. PICK s : s = <<"rest">> \o stack
    OBVIOUS
  <2>10. Owes(s, o, InMacro)
    BY <1>1, <2>8, <2>9, PushNothing
  <2>11. Shape(s, InMacro) /\ s \in Seq(Frames) /\ s # <<>> /\ s[1] = "rest"
    BY <1>2, <2>1, <2>8, <2>9, ShapePush
  <2>12. CASE Starts[Tok.typ] = <<"rest">>
    <3>1. stack' = s /\ Head(stack') = "rest"
      BY <2>1, <2>9, <2>11, <2>12
    <3>2. Called'
      BY <1>3, <2>6, <2>11, <3>1, CalledSimply
    <3> QED BY <1>3, <2>5, <2>10, <3>1, <3>2
  <2>13. ASSUME NEW f \in F, Starts[Tok.typ] = <<f, "rest">>, f = "define" => Tok.typ = "#define"
         PROVE  Called' /\ Owes(stack', o, InMacro')
    <3>1. Owes(<<f>> \o s, o, InMacro)
      BY <2>8, <2>10, PushNothing
    <3>2. Shape(<<f>> \o s, InMacro) /\ (<<f>> \o s)[1] = f /\ <<f>> \o s # <<>>
          /\ <<f>> \o s \in Seq(Frames)
      BY <2>1, <2>8, <2>11, <2>13, ShapePush
    <3>3. <<f>> \o s = <<f, "rest">> \o stack
      BY <1>2, <2>8, <2>9
    <3>4. stack' = <<f>> \o s /\ Head(stack') = f
      BY <2>1, <2>13, <3>2, <3>3
    <3>5. Called'
      BY <1>3, <2>6, <2>8, <3>2, <3>4, CalledSimply
    <3> QED BY <1>3, <3>1, <3>4, <3>5
  <2> QED BY <2>5, <2>7, <2>12, <2>13
<1>7. CASE FinishStatement
  <2> DEFINE how == IF Tok.typ \in {"lineEnd", "comment"} THEN "nothing" ELSE "token"
  <2>1. Head(stack) = "rest" /\ Read(Back(Tok, how)) /\ stack' = Tail(stack)
    BY <1>7 DEF FinishStatement, At
  <2>2. how \in {"nothing", "token", "identifier"} /\ how # "identifier"
        /\ (how = "nothing" => Tok.typ \in {"lineEnd", "comment"})
    OBVIOUS
  <2> HIDE DEF how
  <2>3. ~(AllSent /\ buffer = <<>>)
    BY <2>1, AtZero
  <2>4. how = "nothing" => Nested(o, Tok.typ) = o
    <3>1. Tok.typ \in {"lineEnd", "comment"} => Tok.typ \notin Brackets
      BY DEF Brackets, Closers, Closing
    <3> QED BY <2>2, <3>1, NestedOther
  <2>5. Behind(o)'
    BY <1>1, <2>1, <2>2, <2>3, <2>4, ReadBehind
  <2>6. PICK rest \in Seq(Closers) : o = Owed("rest") \o rest /\ Owes(Tail(stack), rest, InMacro)
    BY <1>1, <2>1, OwesPop
  <2>7. Owed("rest") = <<>>
    BY DEF Owed, Owe
  <2>8. o = rest
    BY <2>6, <2>7
  <2>9. /\ Shape(Tail(stack), InMacro) /\ Pair("rest", Tail(stack)[1])
        /\ Tail(stack) \in Seq(Frames) /\ Tail(stack) # <<>>
    BY <1>1, <2>1, StackFacts
  <2>10. Head(stack') = "statement"
    BY <2>1, <2>9 DEF Pair
  <2>11. Called'
    BY <1>3, <2>1, <2>9, <2>10, CalledSimply
  <2> QED BY <1>3, <2>1, <2>5, <2>6, <2>8, <2>11
<1> QED BY <1>5, <1>6, <1>7

\* The head and the body of an instruction macro, and a definition without =.
LEMMA MacroBrackets ==
  ASSUME LineInv, BracketInv, phase = "parse", Clean, DefineMacro \/ EnterBody \/ LeaveBody \/ Legacy
  PROVE  Called' /\ \E o : (Owes(stack, o, InMacro) /\ Behind(o))'
<1>1. PICK o : Owes(stack, o, InMacro) /\ Behind(o)
  BY DEF BracketInv
<1>2. /\ o \in Seq(Closers) /\ Called /\ InMacro \in BOOLEAN /\ stack \in Seq(Frames)
      /\ stack # <<>> /\ Head(stack) = stack[1] /\ Shape(stack, InMacro)
      /\ Head(stack) # "statement" =>
           /\ Len(stack) > 1 /\ Shape(Tail(stack), InMacro) /\ Pair(Head(stack), Tail(stack)[1])
           /\ InMacro => Head(stack) \notin MacroFrames
           /\ Tail(stack) \in Seq(Frames) /\ Tail(stack) # <<>>
  BY <1>1, StackFacts DEF Called
<1>3. Back(Tok, "nothing") = <<>>
  BY DEF Back
<1>4. ASSUME Head(stack) # "statement"
      PROVE  \E rest \in Seq(Closers) :
               o = Owed(Head(stack)) \o rest /\ Owes(Tail(stack), rest, InMacro)
  BY <1>1, <1>4, OwesPop
<1>5. CASE DefineMacro
  <2>1. /\ Head(stack) = "define" /\ Tok.typ = "instMacroIdent" /\ Read(<<>>)
        /\ stack' = <<"macro">> \o SubSeq(stack, 3, Len(stack))
        /\ pending' = pending /\ outer' = outer
    BY <1>5 DEF DefineMacro, At
  <2>2. ~(AllSent /\ buffer = <<>>)
    BY <2>1, AtZero
  <2>3. "instMacroIdent" \notin Brackets
    BY DEF Brackets, Closers, Closing
  <2>4. Behind(o)'
    BY <1>1, <1>3, <2>1, <2>2, <2>3, NestedOther, ReadBehind
  <2>5. ~InMacro /\ ~InMacro' /\ pending' # None
    BY <1>2, <2>1 DEF MacroFrames, Called, InMacro
  <2>6. PICK u : u = Tail(stack)
    OBVIOUS
  <2>7. /\ Owes(u, o, InMacro) /\ Shape(u, InMacro) /\ u[1] = "rest"
        /\ u \in Seq(Frames) /\ u # <<>>
    <3>1. PICK rest \in Seq(Closers) : o = Owed("define") \o rest /\ Owes(u, rest, InMacro)
      BY <1>4, <2>1, <2>6
    <3>2. Owed("define") = <<>> /\ <<>> \o rest = rest
      BY DEF Owed, Owe
    <3>3. Owes(u, o, InMacro)
      BY <3>1, <3>2
    <3>4. Shape(u, InMacro) /\ u \in Seq(Frames) /\ u # <<>> /\ Pair("define", u[1])
      BY <1>2, <2>1, <2>6
    <3> QED BY <3>3, <3>4 DEF Pair
  <2>8. Head(u) = "rest"
    BY <2>7
  <2>9. Owes(Tail(u), o, InMacro)
    <3>1. PICK rest \in Seq(Closers) : o = Owed("rest") \o rest /\ Owes(Tail(u), rest, InMacro)
      BY <2>7, <2>8, OwesPop
    <3>2. Owed("rest") = <<>> /\ <<>> \o rest = rest
      BY DEF Owed, Owe
    <3> QED BY <3>1, <3>2
  <2>10. Len(u) > 1
    <3>1. Tail(u) # <<>>
      BY <2>9 DEF Owes
    <3> QED BY <2>7, <3>1
  <2>11. Shape(Tail(u), InMacro) /\ Tail(u)[1] = "statement" /\ Tail(u) \in Seq(Frames)
         /\ Tail(u) # <<>>
    <3>1. /\ Shape(Tail(u), InMacro) /\ Pair("rest", Tail(u)[1])
          /\ Tail(u) \in Seq(Frames) /\ Tail(u) # <<>>
      BY <2>7, <2>8, <2>10, ShapePop
    <3> QED BY <3>1 DEF Pair
  <2>12. SubSeq(stack, 3, Len(stack)) = Tail(u)
    <3>1. stack \in Seq(Frames) /\ Len(stack) > 1
      BY <1>2, <2>1, <2>6, <2>7
    <3> QED BY <2>6, <3>1, ReturnTwo
  <2>13. "macro" \in Readers /\ "macro" \in Frames /\ Owe("macro") = "none"
         /\ Pair("macro", "statement")
    BY DEF Readers, MacroFrames, Frames, Owe, Pair
  <2>14. Owes(stack', o, InMacro)
    BY <2>1, <2>9, <2>12, <2>13, PushNothing
  <2>15. Shape(stack', InMacro) /\ Head(stack') = "macro"
    <3>1. PICK v : v = Tail(u)
      OBVIOUS
    <3>2. Shape(v, InMacro) /\ v \in Seq(Frames) /\ v # <<>> /\ Pair("macro", v[1])
      BY <2>11, <2>13, <3>1
    <3>3. Shape(<<"macro">> \o v, InMacro) /\ (<<"macro">> \o v)[1] = "macro"
          /\ <<"macro">> \o v # <<>> /\ <<"macro">> \o v \in Seq(Frames)
      BY <2>5, <2>13, <3>2, ShapePush
    <3>4. Head(<<"macro">> \o v) = "macro"
      BY <3>2
    <3>5. stack' = <<"macro">> \o v
      BY <2>1, <2>12, <3>1
    <3> QED BY <3>3, <3>4, <3>5
  <2>16. InMacro' = InMacro
    BY <2>1 DEF InMacro
  <2>17. Called'
    BY <2>5, <2>15, <2>16, CalledSimply
  <2> QED BY <2>4, <2>14, <2>16, <2>17
<1>6. CASE EnterBody
  <2> DEFINE how == IF Tok.typ = "comment" THEN "nothing" ELSE "token"
  <2>1. /\ Head(stack) = "macroStart" /\ Read(Back(Tok, how))
        /\ outer' = pending /\ stack' = <<"statement">> \o Tail(stack)
    BY <1>6 DEF EnterBody, At
  <2>2. how \in {"nothing", "token", "identifier"} /\ how # "identifier"
        /\ (how = "nothing" => Tok.typ = "comment")
    OBVIOUS
  <2> HIDE DEF how
  <2>3. ~(AllSent /\ buffer = <<>>)
    BY <2>1, AtZero
  <2>4. how = "nothing" => Nested(o, Tok.typ) = o
    <3>1. "comment" \notin Brackets
      BY DEF Brackets, Closers, Closing
    <3> QED BY <2>2, <3>1, NestedOther
  <2>5. Behind(o)'
    BY <1>1, <2>1, <2>2, <2>3, <2>4, ReadBehind
  <2>6. ~InMacro /\ InMacro' = TRUE
    BY <1>2, <2>1 DEF MacroFrames, Called, InMacro
  <2>7. PICK rest \in Seq(Closers) :
          o = Owed("macroStart") \o rest /\ Owes(Tail(stack), rest, InMacro)
    BY <1>4, <2>1
  <2>8. Head(Tail(stack)) = "statement"
    BY <1>2, <2>1 DEF Pair
  <2>9. Tail(stack) = <<"statement">> /\ rest = <<>>
    BY <1>2, <2>6, <2>7, <2>8, OwesEnd
  <2>10. stack' = <<"statement", "statement">> /\ o = <<"closeBrace">>
    <3>1. Owed("macroStart") = <<"closeBrace">>
      BY DEF Owed, Owe
    <3>2. <<"closeBrace">> \o <<>> = <<"closeBrace">>
      OBVIOUS
    <3>3. <<"statement">> \o <<"statement">> = <<"statement", "statement">>
      BY CallPair
    <3> QED BY <2>1, <2>7, <2>9, <3>1, <3>2, <3>3
  <2>11. Owes(stack', o, InMacro')
    BY <2>6, <2>10, OwesBody
  <2>12. Shape(<<"statement", "statement">>, TRUE)
    <3>1. Pair("statement", "statement") /\ "statement" \notin MacroFrames
      BY DEF Pair, MacroFrames
    <3>2. \A k \in 1..2 : <<"statement", "statement">>[k] = "statement"
      OBVIOUS
    <3>3. Len(<<"statement", "statement">>) = 2 /\ \A k \in 1..2 - 1 : k \in 1..2 /\ k + 1 \in 1..2
      OBVIOUS
    <3> QED BY <3>1, <3>2, <3>3 DEF Shape
  <2>13. Called'
    BY <2>6, <2>10, <2>12, CalledSimply
  <2> QED BY <2>5, <2>11, <2>13
<1>7. CASE LeaveBody
  <2>1. /\ Head(stack) = "statement" /\ Tok.typ = "closeBrace" /\ InMacro /\ Read(<<>>)
        /\ outer' = None /\ stack' = Tail(stack)
    BY <1>7 DEF LeaveBody, At
  <2>2. ~(AllSent /\ buffer = <<>>)
    BY <2>1, AtZero
  <2>3. stack = <<"statement", "statement">> /\ o = <<"closeBrace">>
    BY <1>1, <1>2, <2>1, OwesEnd
  <2>4. stack' = <<"statement">> /\ InMacro' = FALSE
    BY <2>1, <2>3 DEF InMacro
  <2>5. Nested(o, Tok.typ) = <<>>
    <3>1. <<>> \in Seq(Closers) /\ "closeBrace" \in Closers
      BY DEF Closers
    <3>2. Nested(<<"closeBrace">> \o <<>>, "closeBrace") = <<>>
      BY <3>1, NestedBracket
    <3>3. <<"closeBrace">> \o <<>> = <<"closeBrace">>
      OBVIOUS
    <3> QED BY <2>1, <2>3, <3>2, <3>3
  <2>6. Behind(<<>>)'
    BY <1>1, <1>3, <2>1, <2>2, <2>5, ReadBehind
  <2>7. Owes(stack', <<>>, InMacro')
    BY <2>4, OwesNothing
  <2>8. Shape(<<"statement">>, FALSE)
    BY DEF Shape
  <2>9. Called'
    <3>1. Head(stack') = "statement"
      BY <2>4
    <3> QED BY <2>4, <2>8, <3>1, CalledSimply
  <2> QED BY <2>6, <2>7, <2>9
<1>8. CASE Legacy
  <2>1. /\ Head(stack) = "legacy" /\ stack' = Expr \o Tail(stack)
        /\ UNCHANGED <<input, sent, buffer, pending, outer>>
    BY <1>8 DEF Legacy, lexer
  <2>2. Behind(o)'
    BY <1>1, <2>1 DEF Behind, OpenAt, AllSent
  <2>3. PICK rest \in Seq(Closers) : o = Owed("legacy") \o rest /\ Owes(Tail(stack), rest, InMacro)
    BY <1>4, <2>1
  <2>4. Owed("legacy") = <<>>
    BY DEF Owed, Owe
  <2>5. Owes(Tail(stack), o, InMacro)
    <3>1. <<>> \o rest = rest
      OBVIOUS
    <3> QED BY <2>3, <2>4, <3>1
  <2>6. Owes(stack', o, InMacro)
    BY <2>1, <2>5, PushExpr
  <2>7. PICK u : u = Tail(stack) /\ Shape(u, InMacro) /\ u \in Seq(Frames) /\ u # <<>>
               /\ Pair("legacy", u[1])
    BY <1>2, <2>1
  <2>8. /\ "primary" \in Frames /\ "primary" \notin MacroFrames
        /\ "arith" \in Frames /\ "arith" \notin MacroFrames
        /\ Pair("primary", "arith") /\ Pair("arith", u[1])
    BY <2>7 DEF Frames, Readers, MacroFrames, Pair
  <2>9. PICK v : v = <<"arith">> \o u
    OBVIOUS
  <2>10. Shape(v, InMacro) /\ v \in Seq(Frames) /\ v # <<>> /\ v[1] = "arith"
    BY <2>7, <2>8, <2>9, ShapePush
  <2>11. Shape(<<"primary">> \o v, InMacro) /\ (<<"primary">> \o v)[1] = "primary"
         /\ <<"primary">> \o v # <<>> /\ <<"primary">> \o v \in Seq(Frames)
    BY <2>8, <2>10, ShapePush
  <2>12. <<"primary">> \o v = Expr \o u
    BY <2>7, <2>8, <2>9 DEF Expr
  <2>13. Shape(stack', InMacro) /\ Head(stack') = "primary"
    <3>1. Head(<<"primary">> \o v) = "primary"
      BY <2>10
    <3> QED BY <2>1, <2>7, <2>11, <2>12, <3>1
  <2>14. InMacro' = InMacro /\ pending' # None
    BY <1>2, <2>1 DEF InMacro, Called
  <2>15. Called'
    BY <2>13, <2>14, CalledSimply
  <2> QED BY <2>2, <2>6, <2>14, <2>15
<1> QED BY <1>5, <1>6, <1>7, <1>8

\* At the end of the document nothing is open.
LEMMA BracketsAtEnd ==
  ASSUME LineInv, BracketInv, phase = "parse", Clean, EndDocument
  PROVE  OpenIn(input)[Len(input)] = <<>>
<1>1. PICK o : Owes(stack, o, InMacro) /\ Behind(o)
  BY DEF BracketInv
<1>2. Head(stack) \in Frames /\ InMacro \in BOOLEAN
  BY <1>1, StackFacts
<1>3. Head(stack) = "statement" /\ ~InMacro /\ Tok.typ = "eof" /\ Read(<<>>)
  <2>1. "end" \notin Frames
    BY DEF Frames, Readers, MacroFrames
  <2> QED BY <1>2, <2>1 DEF EndDocument, At
<1>4. o = <<>>
  BY <1>1, <1>2, <1>3, OwesEnd
<1>5. input' = input
  BY <1>3 DEF Read, lexer
<1>6. CASE AllSent /\ buffer = <<>>
  BY <1>1, <1>4, <1>6 DEF Behind, OpenAt
<1>7. CASE ~(AllSent /\ buffer = <<>>)
  <2>1. Back(Tok, "nothing") = <<>>
    BY DEF Back
  <2>2. AllSent' /\ OpenAt' = Nested(o, Tok.typ)
    BY <1>1, <1>3, <1>7, <2>1, ReadBehind
  <2>3. "eof" \notin Brackets
    BY DEF Brackets, Closers, Closing
  <2>4. OpenAt' = <<>>
    BY <1>3, <1>4, <2>2, <2>3, NestedOther
  <2> QED BY <1>5, <2>2, <2>4 DEF OpenAt
<1> QED BY <1>6, <1>7

\* Errors are not taken back.
LEMMA CleanBefore ==
  ASSUME LineInv, Next, Clean'
  PROVE  Clean /\ ~ThrowError /\ input' = input
<1>1. input' = input /\ entry' = entry
  BY DEF Next, Parse, Close, Rest, Follow, SkipLine, StartStatement, DefineMacro, EnterBody,
         LeaveBody, FinishStatement, Legacy, EndDocument, ThrowError, Resync, Drain, Read, lexer, vars
<1>2. errors \in Seq(ErrorRecord)
  BY DEF LineInv
<1>3. CASE ThrowError \/ Legacy
  <2>1. PICK e : errors' = Append(errors, e) /\ (ThrowError => ~e.warning)
    <3>1. CASE ThrowError
      <4>1. PICK n : errors' = Append(errors, [line |-> n, warning |-> FALSE])
        BY <3>1 DEF ThrowError
      <4> QED BY <4>1
    <3>2. CASE Legacy
      <4>1. ASSUME ThrowError PROVE FALSE
        <5>1. Head(stack) = "legacy" /\ ~Accepts(Head(stack), Tok.typ)
          BY <3>2, <4>1 DEF Legacy, ThrowError
        <5> QED BY <5>1 DEF Accepts
      <4> QED BY <3>2, <4>1 DEF Legacy
    <3> QED BY <1>3, <3>1, <3>2
  <2>2. Len(errors) \in Nat /\ DOMAIN errors = 1..Len(errors)
        /\ DOMAIN errors' = 1..(Len(errors) + 1) /\ errors'[Len(errors) + 1] = e
        /\ \A k \in 1..Len(errors) : errors'[k] = errors[k]
    BY <1>2, <2>1
  <2>3. e.warning /\ \A k \in DOMAIN errors : errors[k].warning
    BY <2>2 DEF Clean
  <2> QED BY <1>1, <2>1, <2>3 DEF Clean, Reopens
<1>4. CASE ~(ThrowError \/ Legacy)
  <2>1. errors' = errors
    BY <1>4 DEF Next, Parse, Close, Rest, Follow, SkipLine, StartStatement, DefineMacro, EnterBody,
         LeaveBody, FinishStatement, EndDocument, Resync, Drain, vars
  <2> QED BY <1>1, <1>4, <2>1 DEF Clean, Reopens
<1> QED BY <1>3, <1>4

\* Each step keeps what is owed and what is open the same.
LEMMA BracketStep ==
  ASSUME LineInv, BracketInv, Next
  PROVE  BracketInv'
<1> SUFFICES ASSUME Clean' PROVE BracketInv'
  BY DEF BracketInv
<1>1. Clean /\ ~ThrowError /\ input' = input
  BY CleanBefore
<1>2. /\ phase \in {"parse", "drain", "done"}
      /\ phase # "parse" => OpenIn(input)[Len(input)] = <<>>
  BY <1>1 DEF BracketInv
<1>3. ~Resync
  BY <1>2 DEF Resync
<1>4. CASE \/ Follow \/ SkipLine \/ StartStatement \/ FinishStatement
           \/ DefineMacro \/ EnterBody \/ LeaveBody \/ Legacy
  <2>1. phase = "parse" /\ phase' = phase
    BY <1>4 DEF Follow, SkipLine, StartStatement, FinishStatement, DefineMacro, EnterBody,
                LeaveBody, Legacy, At, Parsing
  <2>2. Called' /\ \E o : (Owes(stack, o, InMacro) /\ Behind(o))'
    BY <1>1, <1>4, <2>1, FollowBrackets, StatementBrackets, MacroBrackets
  <2> QED BY <1>2, <2>1, <2>2 DEF BracketInv
<1>5. CASE EndDocument
  <2>1. phase = "parse" /\ phase' = "drain"
    BY <1>5 DEF EndDocument, At, Parsing
  <2> QED BY <1>1, <1>5, <2>1, BracketsAtEnd DEF BracketInv
<1>6. CASE Drain
  <2>1. phase = "drain" /\ phase' \in {"drain", "done"}
    BY <1>6 DEF Drain
  <2> QED BY <1>1, <1>2, <2>1 DEF BracketInv
<1>7. CASE Close \/ Rest
  <2>1. UNCHANGED <<input, sent, buffer, stack, phase, pending, outer>>
    BY <1>7 DEF Close, Rest, vars
  <2>2. (\A o : Behind(o)' <=> Behind(o)) /\ InMacro' = InMacro /\ JustClosed' = JustClosed
    BY <2>1 DEF Behind, OpenAt, AllSent, InMacro, JustClosed
  <2>3. Called' <=> Called
    BY <2>1, <2>2 DEF Called
  <2> QED BY <1>1, <1>2, <2>1, <2>2, <2>3 DEF BracketInv
<1> QED BY <1>1, <1>3, <1>4, <1>5, <1>6, <1>7 DEF Next, Parse

\* Accepted sources have their parentheses, brackets and braces closed, in the order they were
\* opened, across lines, put-back tokens and macro bodies, unless a parenthesis is opened right
\* behind one that is closed (parse.go:365-370 skips it behind the parameters of a macro).
THEOREM ParserBracketsMatch == Spec => []BracketsMatch
<1>1. Init => BracketInv
  <2> SUFFICES ASSUME Init, Clean PROVE BracketInv
    BY DEF BracketInv
  <2>1. /\ input \in Inputs /\ sent = <<1, 0>> /\ buffer = <<>> /\ stack = <<"statement">>
        /\ phase = "parse" /\ outer = None
    BY DEF Init, Clean
  <2>2. Len(input) \in Nat \ {0} /\ Len(input[1]) \in Nat
    BY <2>1, InputFacts
  <2>3. OpenIn(input)[0] = <<>>
    BY <2>2, SourceEquation
  <2>4. OpenInLine(OpenIn(input)[0], input[1])[0] = OpenIn(input)[0]
    BY <2>2, LineEquation
  <2>5. OpenAt = <<>>
    BY <2>1, <2>2, <2>3, <2>4 DEF OpenAt, AllSent
  <2>6. Behind(<<>>)
    BY <2>1, <2>5 DEF Behind
  <2>7. InMacro = FALSE
    BY <2>1 DEF InMacro
  <2>8. Shape(<<"statement">>, FALSE) /\ Head(<<"statement">>) = "statement"
    BY DEF Shape
  <2>9. Called
    BY <2>1, <2>7, <2>8 DEF Called
  <2> QED BY <2>1, <2>6, <2>7, <2>9, OwesNothing DEF BracketInv
<1>2. LineInv /\ BracketInv /\ [Next]_vars => BracketInv'
  <2> SUFFICES ASSUME LineInv, BracketInv, [Next]_vars PROVE BracketInv'
    OBVIOUS
  <2>1. CASE Next
    BY <2>1, BracketStep
  <2>2. CASE UNCHANGED vars
    <3>1. UNCHANGED <<input, entry, sent, buffer, stack, phase, pending, outer, errors>>
      BY <2>2 DEF vars
    <3>2. (\A o : Behind(o)' <=> Behind(o)) /\ InMacro' = InMacro /\ JustClosed' = JustClosed
      BY <3>1 DEF Behind, OpenAt, AllSent, InMacro, JustClosed
    <3>3. (Called' <=> Called) /\ (Clean' <=> Clean)
      BY <3>1, <3>2 DEF Called, Clean, Reopens
    <3> QED BY <3>1, <3>2, <3>3 DEF BracketInv
  <2> QED BY <2>1, <2>2
<1>3. BracketInv => BracketsMatch
  BY DEF BracketInv, BracketsMatch, Clean
<1> QED BY <1>1, <1>2, <1>3, LineInvariant, PTL DEF Spec
==============================================================================
