----------------------------- MODULE MCEvaluate -----------------------------
(* Programs for Evaluate: macros that call each other, themselves and builtins, *)
(* with names that mean different things in different places.                   *)
EXTENDS EvaluateMeaning, TLC

Lit(n)        == [t |-> "lit", n |-> n]
Var(x)        == [t |-> "var", name |-> x]
Lbl(l)        == [t |-> "label", name |-> l]
Bin(op, a, b) == [t |-> op, left |-> a, right |-> b]
Neg(a)        == [t |-> "neg", left |-> a]
CallOf(m, as) == [t |-> "call", name |-> m, args |-> as, dot |-> FALSE]
Dot(m, as)    == [CallOf(m, as) EXCEPT !.dot = TRUE]

\* The file main includes the file inc.  f is defined in both, abs in inc only, and G
\* in inc for all.  Label l is in both, L is never instantiated in some programs.
Macro(doc, params, body) == [doc |-> doc, params |-> params, body |-> body]

FBodies ==
  {Var("x"), Lit(7), Bin("sub", Var("x"), Lbl("l")), CallOf("f", <<Var("x")>>), CallOf("G", <<>>),
   Bin("div", Lit(8), Var("x"))}

GBodies ==
  {Lbl("l"), CallOf("f", <<CallOf("f", <<Lit(1)>>)>>), CallOf("abs", <<Lit(3)>>),
   Dot("abs", <<Neg(Lbl("l"))>>), Var("x")}

Exprs ==
  {Lbl("L"), Lbl("none"), Var("x"), Bin("add", CallOf("f", <<Var("x")>>), Var("x")),
   CallOf("f", <<CallOf("f", <<Lit(4)>>)>>), Bin("mul", CallOf("G", <<>>), CallOf("G", <<>>)),
   CallOf("f", <<Lbl("L")>>), CallOf("f", <<>>), CallOf("abs", <<Lit(0)>>), Dot("len", <<>>),
   CallOf("address", <<Var("x")>>), Dot("address", <<Lit(5)>>)}

\* Section 1 is the top level, 2 a call of an instruction macro with an argument, 3 a
\* call within it and 4 a file it includes.
Section(doc, arguments, callsite) == [doc |-> doc, arguments |-> arguments, callsite |-> callsite]

SectionsOf(arg) ==
  <<Section("main", NoVariables, NoSection), Section("macro", [x |-> arg], TopSection),
    Section("macro", [x |-> Bin("add", Var("x"), Lit(1))], 2), Section("inc", [x |-> arg], TopSection)>>

Arg(e, s)   == [expr |-> e, section |-> s, bytes |-> FALSE]
Bytes(e, s) == [Arg(e, s) EXCEPT !.bytes = TRUE]

Prog(f, g, arg, args, overrides, instantiated) ==
  [parent    |-> [main |-> NoDoc, inc |-> "main", macro |-> "main"],
   globals   |-> {"G", "L"},
   macros    |-> (<<"main", "f">> :> Macro("main", <<"x">>, f))
                 @@ (<<"inc", "f">> :> Macro("inc", <<"y">>, Neg(Var("y"))))
                 @@ (<<"inc", "abs">> :> Macro("inc", <<"x">>, Bin("sub", Var("x"), CallOf("f", <<Lit(1)>>))))
                 @@ (<<"global", "G">> :> Macro("inc", <<>>, g)),
   labels    |-> {<<"main", "l">>, <<"inc", "l">>, <<"global", "L">>},
   instantiated |-> instantiated,
   overrides |-> overrides,
   sections  |-> SectionsOf(arg),
   args      |-> args]

NoOverrides == [x \in {} |-> 0]
AllLabels == {<<"main", "l">>, <<"inc", "l">>, <<"global", "L">>}

\* An argument in some section, with another behind it.
ArgLists ==
  {<<Arg(e, s), Arg(CallOf("f", <<Lit(2)>>), 1)>> : e \in Exprs, s \in 1..4}
    \cup {<<Bytes(e, 3), Arg(Var("x"), 2)>> : e \in Exprs}

MCPrograms ==
  {Prog(f, g, arg, args, NoOverrides, AllLabels) :
     f \in FBodies, g \in GBodies, arg \in {Lit(0), CallOf("f", <<Lbl("l")>>)}, args \in ArgLists}
  \cup {Prog(f, g, Lit(2), args, overrides, AllLabels \ {<<"global", "L">>}) :
          f \in {Var("x"), CallOf("G", <<>>)}, g \in {Lbl("l"), Var("x")}, args \in ArgLists,
          overrides \in {NoOverrides, [G |-> 9]}}
=============================================================================
