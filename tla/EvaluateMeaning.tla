-------------------------- MODULE EvaluateMeaning --------------------------
(****************************************************************************)
(* What argument expressions mean, without an order of evaluation: macros   *)
(* are replaced by their bodies and variables by what they stand for, until *)
(* a tree of operators over numbers and labels is left.                     *)
(****************************************************************************)
EXTENDS Evaluate

Bad(what) == [t |-> "bad", what |-> what]

RECURSIVE Expand(_, _, _)

\* The tree of e, inside the bodies of the macros in within.  The variables of the
\* environment stand for trees.
Expand(e, env, within) ==
  CASE e.t \in {"lit", "bad"} -> e
    [] e.t = "label" -> [t |-> "label", def |-> Lookup(program.labels, e.name, env.doc)]
    [] e.t = "neg"   -> [e EXCEPT !.left = Expand(@, env, within)]
    [] e.t \in {"add", "sub", "mul", "div"} ->
         [e EXCEPT !.left = Expand(@, env, within), !.right = Expand(@, env, within)]
    [] e.t = "var" ->
         IF e.name \in DOMAIN env.variables THEN env.variables[e.name]
         ELSE IF env.sect = NoSection THEN Bad("undefined variable")
         ELSE LET s == program.sections[env.sect]
              IN  IF e.name \notin DOMAIN s.arguments THEN Bad("undefined variable")
                  ELSE Expand(s.arguments[e.name], SectionEnv(s.callsite), within)
    [] e.t = "call" ->
         LET def  == IF e.dot THEN NoDef ELSE LookupExprMacro(e.name, env.doc)
             args == [i \in DOMAIN e.args |-> Expand(e.args[i], env, within)]
         IN  IF def # NoDef
             THEN LET macro == MacroDef(def)
                  IN  IF Len(args) # Len(macro.params) THEN Bad("argument count")
                      ELSE [t |-> "body", args |-> args,
                            left |-> IF def \in within THEN Bad("recursive call")
                                     ELSE Expand(macro.body,
                                                 [doc |-> macro.doc, sect |-> NoSection,
                                                  variables |-> Bind(def, args)],
                                                 within \cup {def})]
             ELSE IF e.name \notin BuiltinMacros THEN Bad("undefined macro")
             ELSE IF Len(args) # 1 THEN Bad("argument count")
             ELSE IF e.name = "abs" THEN [t |-> "abs", left |-> args[1]]
             ELSE IF e.args[1].t = "lit" THEN e.args[1] ELSE Bad("wants literal")

Tree(i) == Expand(Args[i].expr, SectionEnv(Args[i].section), {})

\* The parts of a tree.  An argument that a macro does not use counts.
Below(tree) ==
  CASE tree.t \in {"lit", "label", "bad"}         -> {}
    [] tree.t \in {"neg", "abs"}                  -> {tree.left}
    [] tree.t \in {"add", "sub", "mul", "div"}    -> {tree.left, tree.right}
    [] tree.t = "body" -> {tree.left} \cup {tree.args[i] : i \in DOMAIN tree.args}

RECURSIVE Labels(_), Number(_), Faults(_)

Labels(tree) ==
  IF tree.t = "label" THEN {tree.def} ELSE UNION {Labels(x) : x \in Below(tree)}

\* The number of a tree without faults.
Number(tree) ==
  CASE tree.t = "lit"   -> tree.n
    [] tree.t = "label" -> addr[tree.def]
    [] tree.t = "body"  -> Number(tree.left)
    [] tree.t = "neg"   -> -Number(tree.left)
    [] tree.t = "abs"   -> Abs(Number(tree.left))
    [] OTHER            -> Arith(tree.t, Number(tree.left), Number(tree.right)).n

\* All that is wrong with a tree, with the addresses of this round.
Faults(tree) ==
  LET below == UNION {Faults(x) : x \in Below(tree)}
  IN  CASE tree.t = "bad"   -> {tree.what}
        [] tree.t = "label" ->
             IF stage = "pre" \/ (tree.def # NoDef /\ tree.def \notin DOMAIN addr) THEN {"unassigned"}
             ELSE IF tree.def = NoDef THEN {"undefined label"} ELSE {}
        [] tree.t = "div" /\ below = {} /\ Number(tree.right) = 0 -> {"division by zero"}
        [] OTHER            -> below

-----------------------------------------------------------------------------
(* Properties.                                                               *)

\* An evaluation returns the number of the tree with all macros replaced by their
\* bodies, where every variable means what it means at its place in the source; or it
\* returns an error that is in the tree.  Evaluations that failed, or found the labels
\* without addresses, leave nothing behind that could show here.
ValueIsSubstitution ==
  Returned =>
    LET tree == Tree(next)
        faults == Faults(tree)
    IN  IF control.k = "value" THEN faults = {} /\ control.n = Number(tree)
        ELSE control.what \in faults

Succeeded == stage = "done" /\ \A i \in DOMAIN Args : outcome[i].k = "value"

\* Of a compilation without errors, every argument has its value for the final
\* addresses: those computed before addresses were known, and those computed in
\* the last of many rounds.  The labels reported as unused are those that no argument
\* depends on or mentions.
OutputIsCurrent ==
  Succeeded =>
    /\ \A i \in DOMAIN Args : Faults(Tree(i)) = {} /\ outcome[i].n = Number(Tree(i))
    /\ UnusedLabels = program.instantiated \ UNION {Labels(Tree(i)) : i \in DOMAIN Args}
=============================================================================
