---------------------------- MODULE MCExpansion ----------------------------
(****************************************************************************)
(* Instances of Expansion.  A program calls two macros, `m' with a parameter *)
(* (document 2) and `k' (document 3), and may include a file (document 4).   *)
(* Local labels "l" and "d" (the latter always dotted) are found in several  *)
(* documents, the global "G" as well.                                        *)
(****************************************************************************)
EXTENDS Expansion

MCGlobals == {"G"}

L == Label("l", FALSE)
D == Label("d", TRUE)
G == Label("G", FALSE)

\* Statement lists of length at most n over S that repeat no local label and
\* no #include.
Lists(S, n) ==
  {b \in UNION {[1..k -> S] : k \in 0..n} :
     \A i, j \in DOMAIN b : b[i] = b[j] /\ b[i] \in {L, D, Include(4)} => i = j}

File(body)          == [parent |-> 0, params |-> 0, body |-> body]
Macro(params, body) == [parent |-> 1, params |-> params, body |-> body]

Programs(mains, ms, ks, files) ==
  {<<File(a), Macro(1, b), Macro(0, c), File(f)>> : a \in mains, b \in ms, c \in ks, f \in files}

\* Programs without a second expansion of the file.
MainStatements == {L, D, G, Push(Ref("d")), Jump("l"), Jump("G"), Include(4),
                   Call(2, <<Ref("l")>>), Call(2, <<Ref("d")>>), Call(3, <<>>), Call(2, <<>>)}
ScopeSources ==
  Programs(Lists(MainStatements, 3),
           {<<L, Push(Param), Jump("l")>>, <<G, Call(2, <<Param>>)>>,
            <<D, Call(3, <<>>), Push(Param), Jump("l")>>},
           {<<L, Push(Ref("d")), Call(2, <<Ref("l")>>)>>, <<G, Push(Ref("d")), D>>,
            <<D, Push(Ref("G"))>>},
           {<<L, Push(Ref("l"))>>, <<G, Call(3, <<>>)>>})

\* The macro with a parameter includes the file; the program makes one call.
IsCall(st) == st.is = "call"
OnceSources ==
  Programs({b \in Lists(MainStatements \ {Include(4)}, 3) :
              \A i, j \in DOMAIN b : IsCall(b[i]) /\ IsCall(b[j]) => i = j},
           {<<L, Include(4), Push(Param)>>, <<Include(4), Call(3, <<>>), D>>},
           {<<L, Jump("l")>>, <<Call(2, <<Ref("l")>>), L>>},
           {<<D, Push(Param), Push(Ref("d"))>>, <<Call(3, <<>>), L, Jump("l")>>})

OwnSources == ScopeSources \cup OnceSources

\* A macro that includes the file, called twice.
TwiceSources ==
  Programs({<<Call(3, <<>>), Call(3, <<>>)>>}, {<<Push(Param)>>}, {<<Include(4)>>},
           {<<L, Jump("l")>>})
=============================================================================
