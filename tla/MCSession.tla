------------------------------ MODULE MCSession ------------------------------
(* Instances of Session: every small arrangement of two or three files.     *)
EXTENDS Session

Lists(S, n) == UNION {[1..k -> S] : k \in 0..n}

Fine    == Instr(<<>>)
Wrong   == Instr(<<"error">>)
Dubious == Instr(<<"warning">>)

-----------------------------------------------------------------------------
(* Loading: m and i include each other, themselves and the missing file x.  *)

MainBodies  == Lists({Include("m"), Include("i"), Include("x"), Target(TRUE),
                      Define("a", TRUE), Define("a", FALSE), Wrong}, 2)
OtherBodies == Lists({Include("i"), Target(FALSE), Define("a", TRUE),
                      Define("a", FALSE), Dubious}, 1)

Loading ==
  {[f \in {"m", "i"} |-> IF f = "m" THEN File(<<>>, b) ELSE File(p, c)] :
     b \in MainBodies, c \in OtherBodies, p \in {<<>>, <<"error", "error">>}}

-----------------------------------------------------------------------------
(* Nesting: m assembles i and j, and i assembles j.                         *)

Nesting ==
  {[f \in {"m", "i", "j"} |->
      CASE f = "m" -> File(<<>>, b) [] f = "i" -> File(<<>>, c) [] OTHER -> File(p, d)] :
     b \in Lists({Assemble("i"), Assemble("j"), Include("i"), Assemble("x"), Dubious}, 2),
     c \in Lists({Assemble("j"), Include("j")}, 1) \cup {<<Wrong>>, <<Wrong, Assemble("j")>>},
     d \in {<<>>, <<Dubious>>, <<Wrong, Wrong, Fine>>},
     p \in {<<"warning">>, <<"error", "error">>}}

-----------------------------------------------------------------------------
AllFiles == Loading \cup Nesting

-----------------------------------------------------------------------------
(* One file with a target that does not exist.                              *)

Unknown == {[f \in {"m"} |-> File(<<>>, <<Target(FALSE), Fine>>)]}
=============================================================================
