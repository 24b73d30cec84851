------------------------------- MODULE MCParser -------------------------------
(* Instances of Parser: sources made of lines with a known meaning, and all  *)
(* sources with few tokens.                                                  *)
EXTENDS Parser, TLC

Lists(S, n) == UNION {[1..k -> S] : k \in 0..n}

-----------------------------------------------------------------------------
(* Lines with a meaning *)

Opcodes == {
  <<"identifier">>,
  <<"identifier", "number", "op", "minus", "number", "comment">>,
  <<"identifier", "number", "instMacroIdent", "openParen", "closeParen">>,
  <<"identifier", "openBracket", "number", "comma", "number", "closeBracket">>,
  <<"identifier", "openParen", "labelRef", "op", "variable", "closeParen", "op", "string">> }

Definitions == {
  <<"#define", "identifier", "openParen", "identifier", "closeParen", "equals", "variable">>,
  <<"#define", "identifier", "openParen", "identifier", "comma", "identifier", "closeParen",
    "variable">>,
  <<"#define", "identifier", "number">> }

Calls == {<<"instMacroIdent", "comment">>,
          <<"instMacroIdent", "openParen", "number", "comma", "identifier", "closeParen">>}

Opening == {<<"#define", "instMacroIdent", "openBrace", "comment">>,
            <<"#define", "instMacroIdent", "openParen", "identifier", "closeParen", "openBrace">>,
            <<"#define", "instMacroIdent", "openParen", "closeParen", "openParen", "openBrace">>}

Faulty == {
  <<"identifier", "number", "op">>,
  <<"identifier", "openBracket", "number", "comma", "number", "comma", "number">>,
  <<"identifier", "openParen", "closeParen">>,
  <<"identifier", "minus", "invalid", "identifier">>,
  <<"instMacroIdent", "number">>,
  <<"#include">>, <<"#define", "identifier", "openBrace">>, <<"#define", "instMacroIdent">>,
  <<"#bytes", "label", "label", "number">>, <<"#pragma", "identifier", "equals">>,
  <<"#other", "label">> }

Known ==
  [l \in Opcodes |-> "identifier"] @@ [l \in Definitions |-> "#define"]
  @@ [l \in Calls |-> "instMacroIdent"] @@ [l \in Opening |-> "open"]
  @@ [l \in {<<"closeBrace">>} |-> "close"] @@ [l \in Faulty |-> "error"]
  @@ [l \in {<<>>} |-> "blank"] @@ [l \in {<<"comment">>} |-> "comment"]
  @@ [l \in {<<"label">>, <<"label", "comment">>} |-> "label"]
  @@ [l \in {<<"pcLabel">>} |-> "pcLabel"]
  @@ [l \in {<<"#include", "string">>} |-> "#include"]
  @@ [l \in {<<"#assemble", "string", "comment">>} |-> "#assemble"]
  @@ [l \in {<<"#pragma", "identifier", "number">>} |-> "#pragma"]
  @@ [l \in {<<"#bytes", "label", "string">>, <<"#bytes", "number">>} |-> "#bytes"]

Separate == (Lists(DOMAIN Known, 2) \ {<<>>})
  \cup {<<a, b, c>> : a \in Faulty, b \in DOMAIN Known, c \in Opcodes \cup Calls}
  \cup {a \o <<b>> \o c : a \in {<<o>> : o \in Opening}, b \in Definitions \cup Faulty \cup Opcodes,
                          c \in {<<d, <<"closeBrace">>, e>> : d \in Calls \cup Faulty,
                                                              e \in Opcodes \cup Faulty}}

-----------------------------------------------------------------------------
(* All sources with few tokens, in one line or in two *)

\* The sources prefix \o s, for s of at most n tokens of the given types.
Sources(prefix, types, n) ==
  LET lines == {prefix \o s : s \in Lists(types, n)}
  IN  {<<s>> : s \in lines}
      \cup UNION {{<<SubSeq(s, 1, k), SubSeq(s, k + 1, Len(s))>> : k \in 0..Len(s)} : s \in lines}

SomeTypes == {"identifier", "number", "label", "openParen", "closeParen", "comma", "op",
              "instMacroIdent", "#define", "equals", "openBrace", "closeBrace", "#bytes"}

Brackets == {"number", "openParen", "closeParen", "openBracket", "closeBracket"}

FewTokens == Sources(<<>>, SomeTypes, 3)
       \cup Sources(<<"#define", "instMacroIdent", "openBrace">>, SomeTypes, 2)
       \cup Sources(<<"identifier">>, Brackets \cup {"comma", "op", "instMacroIdent"}, 3)
       \cup Sources(<<"identifier">>, Brackets, 4)

-----------------------------------------------------------------------------
(* The runs' inputs *)

MCInputs == Separate \cup FewTokens
==============================================================================
