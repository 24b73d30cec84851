----------------------------- MODULE Expressions -----------------------------
(****************************************************************************)
(* The grammar of expressions: the parser's part of it                      *)
(* (internal/ast/parse.go), the printer's (internal/printer/printer.go),    *)
(* and what both should agree on.  The parser reads the tokens s of a lexer. *)
(****************************************************************************)
EXTENDS Tokens

Precedence(op) == IF op \in {"*", "/", "%", "<<", ">>", "&"} THEN 2 ELSE 1

-----------------------------------------------------------------------------
(* From tokens to trees.                                                     *)

RECURSIVE Expr(_, _), Primary(_, _), Identifier(_, _), Arguments(_, _, _), Arith(_, _, _),
          ArithInner(_, _, _)

Expr(s, i) == Then(Primary(s, i), LAMBDA left : Arith(s, left, 0))

\* A name with or without arguments.
Identifier(s, i) ==
  IF s[i + 1].k = "("
  THEN Then(Arguments(s, <<>>, i + 2), LAMBDA args : Result(<<"name", s[i].v, args.e>>, args.n))
  ELSE Result(<<"name", s[i].v, <<>>>>, i + 1)

\* parseListEnd: behind an argument comes another one, or the end of the list.
ListEnd(s, args, i) ==
  CASE s[i].k = "," -> Arguments(s, args, i + 1)
    [] s[i].k = ")" -> Result(args, i + 1)
    [] OTHER        -> Failed(i)

\* parseCallArguments: the arguments before token i are known.
Arguments(s, before, i) ==
  IF s[i].k = ")" THEN Result(before, i + 1)
  ELSE Then(Expr(s, i), LAMBDA arg : ListEnd(s, Append(before, arg.e), SkipLines(s, arg.n)))

Closed(s, inner, i) == IF s[i].k = ")" THEN Result(<<"group", inner.e>>, i + 1) ELSE Failed(i)

Primary(s, i) ==
  CASE s[i].k = "id"                    -> Identifier(s, i)
    [] s[i].k = "num"                   -> Result(<<"num", s[i].v>>, i + 1)
    [] s[i].k = "arith" /\ s[i].v = "-" ->
         Then(Primary(s, i + 1), LAMBDA arg : Result(<<"minus", arg.e>>, arg.n))
    [] s[i].k = "("                     ->
         Then(Expr(s, i + 1), LAMBDA inner : Closed(s, inner, SkipLines(s, inner.n)))
    [] OTHER                            -> Failed(i)

\* Behind an operand, %name is the modulo operator and a name.
IsOperator(s, i) == s[i].k \in {"arith", "percent"}
Operator(s, i)   == IF s[i].k = "percent" THEN "%" ELSE s[i].v
Operand(s, i)    == IF s[i].k = "percent" THEN Identifier(s, i) ELSE Primary(s, i + 1)

\* The operators behind an operand that bind at least as strong as min.
Binds(s, i, min) == IsOperator(s, i) /\ Precedence(Operator(s, i)) >= min

Combined(s, left, right) == Result(<<"arith", Operator(s, left.n), left.e, right.e>>, right.n)

Arith(s, left, min) ==
  IF ~Binds(s, left.n, min) THEN left
  ELSE Then(Then(Operand(s, left.n),
                 LAMBDA first : ArithInner(s, first, Precedence(Operator(s, left.n)))),
            LAMBDA right : Arith(s, Combined(s, left, right), min))

\* mutant: an operator of the same precedence goes to the right operand.
ArithInnerGreedy(s, right, current) ==
  IF ~Binds(s, right.n, current) THEN right ELSE Arith(s, right, current)

ArithInner(s, right, current) ==
  IF ~Binds(s, right.n, current + 1) THEN right
  ELSE Then(Arith(s, right, current + 1), LAMBDA more : ArithInner(s, more, current))

-----------------------------------------------------------------------------
(* From trees to tokens.                                                     *)

RECURSIVE ExprTokens(_, _), ListTokens(_)

\* Where the parent binds weaker an operator is printed without blanks, so that
\* % and a name behind it become one token.
Operation(op, right, dense) ==
  IF op = "%" /\ dense /\ right[1].k = "id"
  THEN <<Tok("percent", right[1].v)>> \o Tail(right)
  ELSE <<Tok("arith", op)>> \o right

Parens(s) == <<Tok("(", "")>> \o s \o <<Tok(")", "")>>

ExprTokens(e, parent) ==
  CASE e[1] = "num"   -> <<Tok("num", e[2])>>
    [] e[1] = "name"  -> <<Tok("id", e[2])>> \o ListTokens(e[3])
    [] e[1] = "group" -> Parens(ExprTokens(e[2], e))
    [] e[1] = "minus" -> <<Tok("arith", "-")>> \o ExprTokens(e[2], e)
    [] e[1] = "arith" ->
         LET outer(cmp(_, _)) == parent[1] = "arith" /\ cmp(Precedence(parent[2]), Precedence(e[2]))
             dense == outer(LAMBDA p, q : p < q)
             paren == parent[1] = "minus" \/ outer(LAMBDA p, q : p > q)
             body  == ExprTokens(e[3], e) \o Operation(e[2], ExprTokens(e[4], e), dense)
         IN  IF paren THEN Parens(body) ELSE body

\* An empty list has no parentheses.
ListTokens(args) ==
  LET from[i \in 1..Len(args)] ==
        (IF i > 1 THEN <<Tok(",", "")>> ELSE <<>>) \o ExprTokens(args[i], <<"none">>)
          \o (IF i < Len(args) THEN from[i + 1] ELSE <<>>)
  IN  IF args = <<>> THEN <<>> ELSE Parens(from[1])

-----------------------------------------------------------------------------
(* A list and an expression that are part of no other.                       *)

ListFrom(s, i) == Arguments(s, <<>>, i)
WholeExpr(e)   == ExprTokens(e, <<"none">>)

\* A tree joins what its operators' precedence says: of equal operators the left one
\* first, and inside parentheses whatever is there.
RECURSIVE Grouped(_)
Grouped(e) ==
  LET rank(x) == IF x[1] = "arith" THEN Precedence(x[2]) ELSE 3
  IN  CASE e[1] = "num"   -> TRUE
        [] e[1] = "name"  -> \A i \in DOMAIN e[3] : Grouped(e[3][i])
        [] e[1] = "group" -> Grouped(e[2])
        [] e[1] = "minus" -> Grouped(e[2]) /\ rank(e[2]) = 3
        [] e[1] = "arith" -> /\ Grouped(e[3]) /\ rank(e[3]) >= rank(e)
                             /\ Grouped(e[4]) /\ rank(e[4]) > rank(e)
==============================================================================
