---------------------------- MODULE ExpansionProofs ----------------------------
(****************************************************************************)
(* Proofs about Expansion, for every source the loader can have read and    *)
(* every choice of global names.                                            *)
(****************************************************************************)
EXTENDS Expansion, Basics

-----------------------------------------------------------------------------
(* Type correctness *)

IsLabel(l) ==
  /\ l = [name |-> l.name, doc |-> l.doc, def |-> l.def, instr |-> l.instr, sec |-> l.sec]
  /\ l.instr \in Nat

Frames == Seq([sec : Nat, at : Nat \ {0}])

TypeInv ==
  /\ docs \in Sources
  /\ phase \in {"expand", "eval", "done"}
  /\ IsSeq(sections)
  /\ \A s \in DOMAIN sections : sections[s].doc \in DOMAIN docs
  /\ frames \in Frames
  /\ \A f \in DOMAIN frames : frames[f].sec \in DOMAIN sections
  /\ frames = <<>> <=> phase # "expand"
  /\ IsSeq(elems)
  /\ IsSeq(labels)
  /\ \A i \in DOMAIN labels : IsLabel(labels[i])
  /\ cur \in Nat \ {0}

\* The expansion in progress is the last one.
LEMMA TopFrame ==
  ASSUME frames \in Frames, frames # <<>>
  PROVE  /\ Len(frames) \in Nat \ {0} /\ DOMAIN frames = 1..Len(frames)
         /\ Len(frames) \in DOMAIN frames
         /\ frames[Len(frames)] \in [sec : Nat, at : Nat \ {0}]
<1> DEFINE R == [sec : Nat, at : Nat \ {0}]
           n == Len(frames)
<1>1. frames \in Seq(R)
  BY DEF Frames
<1> HIDE DEF R
<1>2. n \in Nat /\ DOMAIN frames = 1..n /\ n > 0
  BY <1>1, SeqType DEF IsSeq
<1>3. frames[n] \in R
  BY <1>1, <1>2
<1> QED BY <1>2, <1>3 DEF R

\* Expansion is at a statement of the document of the current section.
LEMMA Where ==
  ASSUME TypeInv, NEW kind, AtStatement(kind)
  PROVE  /\ Len(frames) \in DOMAIN frames /\ Len(frames) \in Nat \ {0}
         /\ Sec \in DOMAIN sections /\ Doc \in DOMAIN docs
         /\ Frame.at \in Nat \ {0} /\ Frame.at \in DOMAIN docs[Doc].body
         /\ <<Doc, Frame.at>> \in Places(docs)
         /\ Statement = docs[Doc].body[Frame.at] /\ Statement.is = kind
         /\ IsSource(docs)
<1>1. frames \in Frames /\ frames # <<>> /\ Frame.at <= Len(docs[Doc].body)
  BY DEF TypeInv, AtStatement
<1>2. Len(frames) \in DOMAIN frames /\ Len(frames) \in Nat \ {0}
      /\ Frame \in [sec : Nat, at : Nat \ {0}]
  BY <1>1, TopFrame DEF Frame
<1>3. Sec \in DOMAIN sections /\ Doc \in DOMAIN docs
  BY <1>2 DEF TypeInv, Sec, Doc, Frame
<1>4. IsSource(docs)
  BY SourcesAssumption DEF TypeInv
<1>5. IsList(docs[Doc].body)
  BY <1>3, <1>4 DEF IsSource
<1>6. Frame.at \in Nat \ {0} /\ Frame.at \in DOMAIN docs[Doc].body
  BY <1>1, <1>2, <1>5 DEF IsList
<1>7. <<Doc, Frame.at>> \in Places(docs)
  BY <1>3, <1>6 DEF Places
<1> QED BY <1>2, <1>3, <1>4, <1>6, <1>7 DEF AtStatement, Statement

\* Going on to the next statement.
LEMMA AdvancedOK ==
  ASSUME TypeInv, phase = "expand"
  PROVE  /\ Advanced \in Frames /\ Len(Advanced) = Len(frames) /\ DOMAIN Advanced = DOMAIN frames
         /\ Len(frames) \in DOMAIN frames /\ Len(frames) \in Nat \ {0}
         /\ \A f \in DOMAIN frames :
              /\ Advanced[f].sec = frames[f].sec
              /\ Advanced[f].at = IF f = Len(frames) THEN Frame.at + 1 ELSE frames[f].at
<1> DEFINE R == [sec : Nat, at : Nat \ {0}]
           n == Len(frames)
<1>1. frames \in Seq(R) /\ frames # <<>>
  BY DEF TypeInv, Frames
<1>2. n \in DOMAIN frames /\ n \in Nat \ {0} /\ DOMAIN frames = 1..n /\ frames[n] \in R
  BY <1>1, TopFrame DEF Frames
<1>3. [frames[n] EXCEPT !.at = @ + 1] \in R
  BY <1>2
<1>4. Advanced = [frames EXCEPT ![n] = [frames[n] EXCEPT !.at = @ + 1]]
  BY DEF Advanced
<1>5. Advanced \in Seq(R) /\ Len(Advanced) = n
  BY <1>1, <1>2, <1>3, <1>4
<1>6. ASSUME NEW f \in DOMAIN frames
      PROVE  /\ Advanced[f].sec = frames[f].sec
             /\ Advanced[f].at = IF f = n THEN frames[n].at + 1 ELSE frames[f].at
  BY <1>1, <1>2, <1>4
<1> QED BY <1>2, <1>5, <1>6 DEF Frames, Frame

\* Attaching labels to an instruction changes nothing else of them.
LEMMA AttachOK ==
  ASSUME NEW ls, IsSeq(ls), \A i \in DOMAIN ls : IsLabel(ls[i]), IsSeq(elems)
  PROVE  /\ IsSeq(Attach(ls)) /\ Len(Attach(ls)) = Len(ls) /\ DOMAIN Attach(ls) = DOMAIN ls
         /\ \A i \in DOMAIN ls :
              /\ IsLabel(Attach(ls)[i])
              /\ Attach(ls)[i].name = ls[i].name /\ Attach(ls)[i].doc = ls[i].doc
              /\ Attach(ls)[i].def = ls[i].def /\ Attach(ls)[i].sec = ls[i].sec
              /\ Attach(ls)[i].instr = IF ls[i].instr = 0 THEN Len(elems) + 1 ELSE ls[i].instr
<1>1. Len(ls) \in Nat /\ DOMAIN ls = 1..Len(ls) /\ Len(elems) \in Nat
  BY SeqType
<1>2. ASSUME NEW i \in DOMAIN ls
      PROVE  /\ IsLabel(Attach(ls)[i])
             /\ Attach(ls)[i].name = ls[i].name /\ Attach(ls)[i].doc = ls[i].doc
             /\ Attach(ls)[i].def = ls[i].def /\ Attach(ls)[i].sec = ls[i].sec
             /\ Attach(ls)[i].instr = IF ls[i].instr = 0 THEN Len(elems) + 1 ELSE ls[i].instr
  <2>1. Attach(ls)[i] = IF ls[i].instr = 0 THEN [ls[i] EXCEPT !.instr = Len(elems) + 1] ELSE ls[i]
    BY DEF Attach
  <2>2. IsLabel(ls[i])
    OBVIOUS
  <2> QED BY <1>1, <2>1, <2>2 DEF IsLabel
<1>3. IsSeq(Attach(ls)) /\ Len(Attach(ls)) = Len(ls) /\ DOMAIN Attach(ls) = DOMAIN ls
  BY <1>1, MapSeq DEF Attach
<1> QED BY <1>2, <1>3

\* What a step leaves of the documents, sections, instructions and labels so far.
Growth ==
  /\ docs' = docs /\ errors \subseteq errors'
  /\ DOMAIN sections \subseteq DOMAIN sections'
  /\ \A s \in DOMAIN sections : sections'[s] = sections[s]
  /\ DOMAIN elems \subseteq DOMAIN elems'
  /\ \A c \in DOMAIN elems : elems'[c] = elems[c]
  /\ DOMAIN labels \subseteq DOMAIN labels'
  /\ \A i \in DOMAIN labels :
       /\ labels'[i].name = labels[i].name /\ labels'[i].doc = labels[i].doc
       /\ labels'[i].def = labels[i].def /\ labels'[i].sec = labels[i].sec
       /\ labels[i].instr # 0 => labels'[i].instr = labels[i].instr

\* Nothing is added or the labels are attached, and instructions may be appended.
LEMMA Attaching ==
  ASSUME TypeInv, UNCHANGED <<docs, sections>>, errors \subseteq errors',
         labels' = labels \/ labels' = Attach(labels),
         \/ elems' = elems
         \/ \E x : elems' = Append(elems, x)
         \/ \E x, y : elems' = elems \o <<x, y>>
  PROVE  /\ IsSeq(elems') /\ IsSeq(labels') /\ \A i \in DOMAIN labels' : IsLabel(labels'[i])
         /\ Growth
<1>1. IsSeq(elems) /\ IsSeq(labels) /\ \A i \in DOMAIN labels : IsLabel(labels[i])
  BY DEF TypeInv
<1>2. /\ IsSeq(elems') /\ DOMAIN elems \subseteq DOMAIN elems'
      /\ \A c \in DOMAIN elems : elems'[c] = elems[c]
  <2>0. Len(elems) \in Nat /\ DOMAIN elems = 1..Len(elems)
    BY <1>1, SeqType
  <2>1. ASSUME NEW x, NEW s, IsSeq(s)
        PROVE  /\ IsSeq(Append(s, x)) /\ DOMAIN s \subseteq DOMAIN Append(s, x)
               /\ \A c \in DOMAIN s : Append(s, x)[c] = s[c]
    <3>1. IsSeq(Append(s, x)) /\ Len(Append(s, x)) = Len(s) + 1
          /\ \A c \in 1..Len(s) : Append(s, x)[c] = s[c]
      BY <2>1, AppendSeq
    <3>2. Len(s) \in Nat /\ DOMAIN s = 1..Len(s) /\ DOMAIN Append(s, x) = 1..(Len(s) + 1)
      BY <2>1, <3>1, SeqType
    <3> QED BY <3>1, <3>2
  <2>2. CASE \E x : elems' = Append(elems, x)
    BY <1>1, <2>1, <2>2
  <2>3. CASE \E x, y : elems' = elems \o <<x, y>>
    <3>1. PICK x, y : elems' = elems \o <<x, y>>
      BY <2>3
    <3>2. elems' = Append(Append(elems, x), y)
      BY <1>1, <3>1, AppendTwo
    <3>3. /\ IsSeq(Append(elems, x)) /\ DOMAIN elems \subseteq DOMAIN Append(elems, x)
          /\ \A c \in DOMAIN elems : Append(elems, x)[c] = elems[c]
      BY <1>1, <2>1
    <3>4. /\ IsSeq(elems') /\ DOMAIN Append(elems, x) \subseteq DOMAIN elems'
          /\ \A c \in DOMAIN Append(elems, x) : elems'[c] = Append(elems, x)[c]
      BY <2>1, <3>2, <3>3
    <3> QED BY <3>3, <3>4
  <2> QED BY <1>1, <2>2, <2>3
<1>3. /\ IsSeq(labels') /\ DOMAIN labels' = DOMAIN labels
      /\ \A i \in DOMAIN labels :
           /\ IsLabel(labels'[i])
           /\ labels'[i].name = labels[i].name /\ labels'[i].doc = labels[i].doc
           /\ labels'[i].def = labels[i].def /\ labels'[i].sec = labels[i].sec
           /\ labels[i].instr # 0 => labels'[i].instr = labels[i].instr
  BY <1>1, AttachOK
<1> QED BY <1>2, <1>3 DEF Growth

\* The label that a definition adds.
NewLabel ==
  [name |-> Statement.name, doc |-> Pointer(Sec), def |-> <<Doc, Frame.at>>, instr |-> 0, sec |-> Sec]

\* What a definition makes of the labels and instructions.
LEMMA LabelAdded ==
  ASSUME TypeInv, ExpandLabel, ~Duplicate(Statement)
  PROVE  /\ IsSeq(labels') /\ Len(labels') = Len(labels) + 1
         /\ \A i \in DOMAIN labels' : IsLabel(labels'[i])
         /\ \A i \in 1..Len(labels) :
              /\ labels'[i].name = labels[i].name /\ labels'[i].doc = labels[i].doc
              /\ labels'[i].def = labels[i].def /\ labels'[i].sec = labels[i].sec
              /\ labels[i].instr # 0 => labels'[i].instr = labels[i].instr
         /\ LET l == labels'[Len(labels) + 1]
            IN  /\ l.name = Statement.name /\ l.doc = Pointer(Sec) /\ l.sec = Sec
                /\ l.def = <<Doc, Frame.at>>
                /\ ~Statement.dotted => l.instr = Len(elems) + 1
         /\ IF Statement.dotted THEN labels' = Append(labels, NewLabel) /\ elems' = elems
            ELSE /\ labels' = Attach(Append(labels, NewLabel))
                 /\ elems' = Append(elems, Instruction("jumpdest", Param))
<1> DEFINE n == Len(labels)
           added == Append(labels, NewLabel)
<1>1. IsSeq(labels) /\ n \in Nat /\ DOMAIN labels = 1..n /\ IsSeq(elems) /\ Len(elems) \in Nat
      /\ \A i \in DOMAIN labels : IsLabel(labels[i])
  BY SeqType DEF TypeInv
<1>2. IsSeq(added) /\ Len(added) = n + 1 /\ DOMAIN added = 1..(n + 1)
      /\ added[n + 1] = NewLabel /\ \A i \in 1..n : added[i] = labels[i]
  BY <1>1, AppendSeq, SeqType
<1>3. IsLabel(NewLabel) /\ NewLabel.instr = 0
  BY DEF NewLabel, IsLabel
<1>4. \A i \in DOMAIN added : IsLabel(added[i])
  <2>1. \A i \in 1..(n + 1) : i \in 1..n \/ i = n + 1
    BY <1>1
  <2> HIDE DEF added
  <2> QED BY <1>1, <1>2, <1>3, <2>1
<1>5. IF Statement.dotted THEN labels' = added /\ elems' = elems
      ELSE labels' = Attach(added) /\ elems' = Append(elems, Instruction("jumpdest", Param))
  BY DEF ExpandLabel, NewLabel
<1>6. /\ NewLabel.name = Statement.name /\ NewLabel.doc = Pointer(Sec) /\ NewLabel.sec = Sec
      /\ NewLabel.def = <<Doc, Frame.at>>
  BY DEF NewLabel
<1>7. 1..n \subseteq DOMAIN added /\ n + 1 \in DOMAIN added
  BY <1>1, <1>2
<1> HIDE DEF added, NewLabel
<1>8. CASE Statement.dotted
  BY <1>1, <1>2, <1>4, <1>5, <1>6, <1>7, <1>8 DEF added
<1>9. CASE ~Statement.dotted
  <2>1. labels' = Attach(added)
    BY <1>5, <1>9
  <2>2. /\ IsSeq(Attach(added)) /\ Len(Attach(added)) = n + 1
        /\ DOMAIN Attach(added) = DOMAIN added
        /\ \A i \in DOMAIN added :
             /\ IsLabel(Attach(added)[i])
             /\ Attach(added)[i].name = added[i].name /\ Attach(added)[i].doc = added[i].doc
             /\ Attach(added)[i].def = added[i].def /\ Attach(added)[i].sec = added[i].sec
             /\ Attach(added)[i].instr
                  = IF added[i].instr = 0 THEN Len(elems) + 1 ELSE added[i].instr
    BY <1>1, <1>2, <1>4, AttachOK
  <2> HIDE DEF Attach
  <2>3. \A i \in 1..n :
          /\ labels'[i].name = labels[i].name /\ labels'[i].doc = labels[i].doc
          /\ labels'[i].def = labels[i].def /\ labels'[i].sec = labels[i].sec
          /\ labels[i].instr # 0 => labels'[i].instr = labels[i].instr
    BY <1>2, <1>7, <2>1, <2>2
  <2>4. LET l == labels'[n + 1]
        IN  /\ l.name = Statement.name /\ l.doc = Pointer(Sec) /\ l.sec = Sec
            /\ l.def = <<Doc, Frame.at>> /\ l.instr = Len(elems) + 1
    BY <1>2, <1>3, <1>6, <1>7, <2>1, <2>2
  <2> QED BY <1>5, <1>9, <2>1, <2>2, <2>3, <2>4 DEF added
<1> QED BY <1>8, <1>9

\* Every step keeps the state well-formed, and what has been expanded as it is.
LEMMA TypeStep == TypeInv /\ [Next]_vars => TypeInv' /\ Growth
<1> SUFFICES ASSUME TypeInv, [Next]_vars PROVE TypeInv' /\ Growth
  OBVIOUS
<1>0. /\ IsSeq(sections) /\ IsSeq(elems) /\ IsSeq(labels) /\ frames \in Frames
      /\ \A i \in DOMAIN labels : IsLabel(labels[i])
      /\ Len(sections) \in Nat /\ DOMAIN sections = 1..Len(sections)
  BY SeqType DEF TypeInv
<1>1. CASE UNCHANGED vars \/ Done
  BY <1>1 DEF TypeInv, Growth, vars, Done
<1>2. CASE ExpandLabel \/ ExpandPush \/ ExpandJump \/ CallFails
  <2>1. /\ phase = "expand" /\ UNCHANGED <<docs, phase, sections, cur>> /\ frames' = Advanced
        /\ errors \subseteq errors'
    BY <1>2 DEF ExpandLabel, ExpandPush, ExpandJump, CallFails, AtStatement
  <2>2. /\ frames' \in Frames /\ frames' # <<>>
        /\ \A f \in DOMAIN frames' : frames'[f].sec \in DOMAIN sections
    <3>1. /\ Advanced \in Frames /\ Len(Advanced) = Len(frames)
          /\ DOMAIN Advanced = DOMAIN frames /\ Len(frames) \in Nat \ {0}
          /\ \A f \in DOMAIN frames : Advanced[f].sec = frames[f].sec
      BY <2>1, AdvancedOK
    <3>2. Advanced # <<>>
      BY <3>1
    <3> QED BY <2>1, <3>1, <3>2 DEF TypeInv
  <2>3. /\ IsSeq(elems') /\ IsSeq(labels') /\ \A i \in DOMAIN labels' : IsLabel(labels'[i])
        /\ Growth
    <3>1. CASE ExpandPush \/ ExpandJump \/ CallFails
      <4>1. labels' = labels \/ labels' = Attach(labels)
        BY <3>1 DEF ExpandPush, ExpandJump, CallFails
      <4>2. \/ elems' = elems
            \/ \E x : elems' = Append(elems, x)
            \/ \E x, y : elems' = elems \o <<x, y>>
        BY <3>1 DEF ExpandPush, ExpandJump, CallFails
      <4> QED BY <2>1, <4>1, <4>2, Attaching
    <3>2. CASE ExpandLabel /\ Duplicate(Statement)
      <4>1. labels' = labels /\ elems' = elems
        BY <3>2 DEF ExpandLabel
      <4> QED BY <2>1, <4>1, Attaching
    <3>3. CASE ExpandLabel /\ ~Duplicate(Statement)
      <4> DEFINE n == Len(labels)
      <4>1. /\ IsSeq(labels') /\ Len(labels') = n + 1
            /\ \A i \in DOMAIN labels' : IsLabel(labels'[i])
            /\ \A i \in 1..n :
                 /\ labels'[i].name = labels[i].name /\ labels'[i].doc = labels[i].doc
                 /\ labels'[i].def = labels[i].def /\ labels'[i].sec = labels[i].sec
                 /\ labels[i].instr # 0 => labels'[i].instr = labels[i].instr
            /\ elems' = elems \/ elems' = Append(elems, Instruction("jumpdest", Param))
        BY <3>3, LabelAdded
      <4>2. n \in Nat /\ DOMAIN labels = 1..n /\ DOMAIN labels' = 1..(n + 1)
        BY <1>0, <4>1, SeqType
      <4>3. /\ IsSeq(elems') /\ DOMAIN elems \subseteq DOMAIN elems'
            /\ \A c \in DOMAIN elems : elems'[c] = elems[c]
        <5>1. CASE elems' = elems
          BY <1>0, <5>1
        <5>2. CASE elems' = Append(elems, Instruction("jumpdest", Param))
          <6>1. /\ IsSeq(elems') /\ Len(elems') = Len(elems) + 1
                /\ \A c \in 1..Len(elems) : elems'[c] = elems[c]
            BY <1>0, <5>2, AppendSeq
          <6>2. /\ Len(elems) \in Nat /\ DOMAIN elems = 1..Len(elems)
                /\ DOMAIN elems' = 1..(Len(elems) + 1)
            BY <1>0, <6>1, SeqType
          <6> QED BY <6>1, <6>2
        <5> QED BY <4>1, <5>1, <5>2
      <4> HIDE DEF n
      <4>4. 1..n \subseteq 1..(n + 1)
        BY <4>2
      <4> QED BY <2>1, <4>1, <4>2, <4>3, <4>4 DEF Growth
    <3> QED BY <1>2, <3>1, <3>2, <3>3
  <2> QED BY <1>0, <2>1, <2>2, <2>3 DEF TypeInv
<1>3. CASE ExpandCall \/ ExpandInclude
  <2>1. /\ phase = "expand" /\ UNCHANGED <<docs, phase, elems, labels, errors, cur>>
        /\ \E cs, args : Enter(Statement.doc, cs, args)
    BY <1>3 DEF ExpandCall, ExpandInclude, AtStatement
  <2>2. PICK cs, args : Enter(Statement.doc, cs, args)
    BY <2>1
  <2> DEFINE n == Len(sections)
             sec == [doc |-> Statement.doc, parent |-> Sec, callsite |-> cs, args |-> args]
             top == [sec |-> n + 1, at |-> 1]
  <2>3. sections' = Append(sections, sec) /\ frames' = Append(Advanced, top)
    BY <2>2 DEF Enter
  <2>4. Statement.doc \in DOMAIN docs
    <3>1. \E kind \in {"call", "include"} : AtStatement(kind)
      BY <1>3 DEF ExpandCall, ExpandInclude
    <3>2. /\ <<Doc, Frame.at>> \in Places(docs) /\ IsSource(docs)
          /\ Statement = docs[Doc].body[Frame.at] /\ Statement.is \in {"call", "include"}
      BY <3>1, Where
    <3> QED BY <3>2 DEF IsSource
  <2>5. /\ IsSeq(sections') /\ DOMAIN sections' = 1..(n + 1) /\ n \in Nat
        /\ sections'[n + 1] = sec /\ \A s \in 1..n : sections'[s] = sections[s]
    BY <1>0, <2>3, AppendSeq, SeqType
  <2>6. \A s \in DOMAIN sections' : sections'[s].doc \in DOMAIN docs
    <3>1. \A s \in 1..(n + 1) : s \in 1..n \/ s = n + 1
      BY <2>5
    <3>2. \A s \in 1..n : sections[s].doc \in DOMAIN docs
      BY <1>0 DEF TypeInv
    <3>3. sec.doc \in DOMAIN docs
      BY <2>4
    <3> HIDE DEF sec, n
    <3> QED BY <2>5, <3>1, <3>2, <3>3
  <2>7. /\ frames' \in Frames /\ frames' # <<>>
        /\ \A f \in DOMAIN frames' : frames'[f].sec \in DOMAIN sections'
    <3>1. /\ Advanced \in Frames /\ Len(Advanced) = Len(frames)
          /\ DOMAIN Advanced = DOMAIN frames /\ Len(frames) \in Nat \ {0}
          /\ \A f \in DOMAIN frames : Advanced[f].sec = frames[f].sec
      BY <2>1, AdvancedOK
    <3>2. top \in [sec : Nat, at : Nat \ {0}] /\ top.sec = n + 1
      BY <2>5
    <3>3. \A f \in DOMAIN Advanced : Advanced[f].sec \in 1..(n + 1)
      BY <1>0, <2>5, <3>1 DEF TypeInv
    <3>4. IsSeq(Advanced)
      BY <3>1 DEF Frames, IsSeq
    <3>5. /\ DOMAIN Advanced = 1..Len(Advanced) /\ DOMAIN frames' = 1..(Len(Advanced) + 1)
          /\ frames'[Len(Advanced) + 1] = top /\ frames' # <<>>
          /\ \A f \in 1..Len(Advanced) : frames'[f] = Advanced[f]
      BY <2>3, <3>4, AppendSeq, SeqType
    <3>6. n + 1 \in 1..(n + 1) /\ Len(Advanced) \in Nat
      BY <2>5, <3>1
    <3> HIDE DEF top, n
    <3>7. frames' \in Frames
      BY <2>3, <3>1, <3>2 DEF Frames
    <3>8. \A f \in 1..(Len(Advanced) + 1) : f \in 1..Len(Advanced) \/ f = Len(Advanced) + 1
      BY <3>6
    <3> QED BY <2>5, <3>2, <3>3, <3>5, <3>6, <3>7, <3>8
  <2>8. Growth
    <3>1. 1..n \subseteq 1..(n + 1)
      BY <2>5
    <3> HIDE DEF n
    <3>2. DOMAIN sections = 1..n
      BY <1>0 DEF n
    <3> QED BY <2>1, <2>5, <3>1, <3>2 DEF Growth
  <2> QED BY <1>0, <2>1, <2>5, <2>6, <2>7, <2>8 DEF TypeInv
<1>4. CASE LeaveSection
  <2>1. /\ phase = "expand" /\ UNCHANGED <<docs, phase, sections, elems, labels, errors, cur>>
        /\ Len(frames) > 1 /\ frames' = SubSeq(frames, 1, Len(frames) - 1)
    BY <1>4 DEF LeaveSection
  <2>2. /\ Len(frames) \in Nat /\ DOMAIN frames = 1..Len(frames)
        /\ DOMAIN frames' = 1..(Len(frames) - 1) /\ Len(frames') = Len(frames) - 1
        /\ \A f \in 1..(Len(frames) - 1) : frames'[f] = frames[f]
    <3>1. IsSeq(frames)
      BY <1>0 DEF Frames, IsSeq
    <3>2. Len(frames) \in Nat /\ DOMAIN frames = 1..Len(frames)
      BY <3>1, SeqType
    <3>3. IsSeq(frames') /\ Len(frames') = Len(frames) - 1
          /\ \A f \in 1..(Len(frames) - 1) : frames'[f] = frames[f]
      BY <2>1, <3>1, <3>2, ButLast
    <3> QED BY <3>2, <3>3, SeqType
  <2>3. frames' \in Frames
    <3> DEFINE R == [sec : Nat, at : Nat \ {0}]
               n == Len(frames) - 1
    <3>1. frames \in Seq(R) /\ n \in Nat /\ n <= Len(frames)
      BY <1>0, <2>1, <2>2 DEF Frames
    <3> HIDE DEF R
    <3>2. SubSeq(frames, 1, n) \in Seq(R)
      BY <3>1
    <3> QED BY <2>1, <3>2 DEF Frames, R
  <2>4. frames' # <<>> /\ \A f \in DOMAIN frames' : frames'[f].sec \in DOMAIN sections
    <3>1. Len(frames') > 0
      BY <2>1, <2>2
    <3>2. DOMAIN frames' \subseteq DOMAIN frames
      BY <2>2
    <3> QED BY <2>2, <3>1, <3>2 DEF TypeInv
  <2> QED BY <1>0, <2>1, <2>3, <2>4 DEF TypeInv, Growth
<1>5. CASE FinishExpansion
  <2>1. /\ phase = "expand" /\ phase' = "eval" /\ frames' = <<>>
        /\ UNCHANGED <<docs, sections, errors, cur>> /\ labels' = Attach(labels)
        /\ elems' = elems \/ elems' = Append(elems, Instruction("empty", Param))
    BY <1>5 DEF FinishExpansion
  <2>2. /\ IsSeq(elems') /\ IsSeq(labels') /\ \A i \in DOMAIN labels' : IsLabel(labels'[i])
        /\ Growth
    <3>1. elems' = elems \/ \E x : elems' = Append(elems, x)
      BY <2>1
    <3> QED BY <2>1, <3>1, Attaching
  <2>3. frames' \in Frames /\ DOMAIN frames' = {}
    BY <2>1 DEF Frames
  <2> QED BY <1>0, <2>1, <2>2, <2>3 DEF TypeInv
<1>6. CASE StartArgument \/ SkipInstruction \/ EvalVariable \/ EvalLabelRef \/ EvalFails \/ EvalDone
  <2>1. /\ phase = "eval" /\ phase' \in {"eval", "done"} /\ errors \subseteq errors'
        /\ UNCHANGED <<docs, sections, frames, elems, labels>>
        /\ cur' = cur \/ cur' = cur + 1
    BY <1>6 DEF StartArgument, SkipInstruction, EvalVariable, EvalLabelRef, EvalFails, EvalDone,
                Evaluating
  <2> QED BY <1>0, <2>1 DEF TypeInv, Growth
<1> QED
  BY <1>1, <1>2, <1>3, <1>4, <1>5, <1>6 DEF Next

\* TypeInv holds in every reachable state.
THEOREM ExpansionTypeInv == Spec => []TypeInv
<1>1. Init => TypeInv
  <2> SUFFICES ASSUME Init PROVE TypeInv
    OBVIOUS
  <2>1. 1 \in DOMAIN docs
    BY SourcesAssumption DEF Init, IsSource
  <2>2. frames \in Frames /\ DOMAIN frames = {1} /\ frames[1].sec = 1 /\ frames # <<>>
    BY DEF Init, Frames
  <2>3. DOMAIN sections = {1} /\ sections[1].doc = 1 /\ IsSeq(sections)
    <3>1. sections \in Seq({[doc |-> 1, parent |-> 0, callsite |-> 0, args |-> <<>>]})
      BY DEF Init
    <3>2. DOMAIN sections = {1} /\ sections[1].doc = 1
      BY DEF Init
    <3> QED BY <3>1, <3>2 DEF IsSeq
  <2>4. IsSeq(elems) /\ IsSeq(labels) /\ DOMAIN labels = {}
    <3>1. elems \in Seq({}) /\ labels \in Seq({}) /\ DOMAIN labels = {}
      BY DEF Init
    <3> QED BY <3>1 DEF IsSeq
  <2> QED BY <2>1, <2>2, <2>3, <2>4 DEF Init, TypeInv
<1> QED
  BY <1>1, TypeStep, PTL DEF Spec

-----------------------------------------------------------------------------
(* Global labels *)

\* Labels are only added by definitions.
LEMMA SameLabels ==
  ASSUME TypeInv, [Next]_vars, ~(ExpandLabel /\ ~Duplicate(Statement))
  PROVE  DOMAIN labels' = DOMAIN labels
<1>1. labels' = labels \/ labels' = Attach(labels)
  BY DEF Next, vars, ExpandLabel, ExpandPush, ExpandJump, ExpandCall, CallFails, ExpandInclude,
         LeaveSection, FinishExpansion, StartArgument, SkipInstruction, EvalVariable,
         EvalLabelRef, EvalFails, EvalDone, Done
<1> QED BY <1>1, AttachOK DEF TypeInv

\* Every label instance is of a definition in the document its section expands.
InstanceOK(l) ==
  /\ l.sec \in DOMAIN sections
  /\ l.doc = Pointer(l.sec)
  /\ l.def \in DefinedIn(sections[l.sec].doc, l.name)

LabelInv == \A i \in DOMAIN labels : InstanceOK(labels[i])

\* Every step keeps label instances those of definitions that have been expanded.
LEMMA LabelStep == TypeInv /\ LabelInv /\ [Next]_vars => LabelInv'
<1> SUFFICES ASSUME TypeInv, LabelInv, [Next]_vars PROVE LabelInv'
  OBVIOUS
<1>1. Growth
  BY TypeStep
<1>2. \A s \in DOMAIN sections : s \in DOMAIN sections' /\ sections'[s] = sections[s]
  BY <1>1 DEF Growth
<1>3. \A s \in DOMAIN sections : Pointer(s)' = Pointer(s)
  BY <1>1, <1>2 DEF Pointer, IsMacro, Growth
<1>4. \A d, n : DefinedIn(d, n)' = DefinedIn(d, n)
  BY <1>1 DEF DefinedIn, Growth
<1>5. ASSUME NEW l, NEW m, InstanceOK(l),
             m.name = l.name, m.doc = l.doc, m.def = l.def, m.sec = l.sec
      PROVE  InstanceOK(m)'
  BY <1>2, <1>3, <1>4, <1>5 DEF InstanceOK
<1>8. ASSUME NEW i \in DOMAIN labels PROVE InstanceOK(labels[i])'
  <2>1. /\ labels'[i].name = labels[i].name /\ labels'[i].doc = labels[i].doc
        /\ labels'[i].def = labels[i].def /\ labels'[i].sec = labels[i].sec
    BY <1>1 DEF Growth
  <2>2. InstanceOK(labels[i])
    BY DEF LabelInv
  <2> QED BY <1>5, <2>1, <2>2
<1>6. CASE ~(ExpandLabel /\ ~Duplicate(Statement))
  <2>1. DOMAIN labels' = DOMAIN labels
    BY <1>6, SameLabels
  <2> QED BY <1>8, <2>1 DEF LabelInv
<1>7. CASE ExpandLabel /\ ~Duplicate(Statement)
  <2> DEFINE n == Len(labels)
             l == labels'[n + 1]
  <2>1. /\ IsSeq(labels') /\ Len(labels') = n + 1
        /\ l.name = Statement.name /\ l.doc = Pointer(Sec) /\ l.sec = Sec
        /\ l.def = <<Doc, Frame.at>>
    BY <1>7, LabelAdded
  <2>2. n \in Nat /\ DOMAIN labels = 1..n /\ DOMAIN labels' = 1..(n + 1)
    BY <2>1, SeqType DEF TypeInv
  <2>3. AtStatement("label")
    BY <1>7 DEF ExpandLabel
  <2>4. /\ Sec \in DOMAIN sections /\ Frame.at \in DOMAIN docs[Doc].body
        /\ Statement = docs[Doc].body[Frame.at] /\ Statement.is = "label"
    BY <2>3, Where
  <2>5. <<Doc, Frame.at>> \in DefinedIn(sections[Sec].doc, Statement.name)
    BY <2>4 DEF DefinedIn, Doc
  <2>6. ASSUME NEW i, i = n + 1 PROVE InstanceOK(labels[i])'
    <3>1. /\ labels'[i].name = Statement.name /\ labels'[i].doc = Pointer(Sec)
          /\ labels'[i].sec = Sec /\ labels'[i].def = <<Doc, Frame.at>>
      BY <2>1, <2>6
    <3> QED BY <1>2, <1>3, <1>4, <2>4, <2>5, <3>1 DEF InstanceOK
  <2>7. \A i \in 1..(n + 1) : i \in 1..n \/ i = n + 1
    BY <2>2
  <2> HIDE DEF n
  <2> QED BY <1>8, <2>2, <2>6, <2>7 DEF LabelInv
<1> QED BY <1>6, <1>7

\* LabelInv holds in every reachable state.
LEMMA LabelInvariant == Spec => []LabelInv
<1>1. Init => LabelInv
  BY DEF Init, LabelInv
<1> QED
  BY <1>1, LabelStep, ExpansionTypeInv, PTL DEF Spec

\* Every expansion in progress is of a section of its own.
DistinctFrames == \A f, g \in DOMAIN frames : frames[f].sec = frames[g].sec => f = g

\* A new section is entered once, and sections are left from the end.
LEMMA DistinctStep == TypeInv /\ DistinctFrames /\ [Next]_vars => DistinctFrames'
<1> SUFFICES ASSUME TypeInv, DistinctFrames, [Next]_vars PROVE DistinctFrames'
  OBVIOUS
<1>1. IsSeq(frames) /\ Len(frames) \in Nat /\ DOMAIN frames = 1..Len(frames)
      /\ Len(sections) \in Nat /\ DOMAIN sections = 1..Len(sections)
  <2>1. IsSeq(frames)
    BY DEF TypeInv, Frames, IsSeq
  <2> QED BY <2>1, SeqType DEF TypeInv
<1>2. CASE frames' = Advanced /\ phase = "expand"
  BY <1>2, AdvancedOK DEF DistinctFrames
<1>3. CASE ExpandCall \/ ExpandInclude
  <2> DEFINE n == Len(frames)
  <2>1. phase = "expand" /\ \E top : top.sec = Len(sections) + 1 /\ frames' = Append(Advanced, top)
    <3>1. [sec |-> Len(sections) + 1, at |-> 1].sec = Len(sections) + 1
      OBVIOUS
    <3> QED BY <1>3, <3>1 DEF ExpandCall, ExpandInclude, Enter, AtStatement
  <2>2. PICK top : top.sec = Len(sections) + 1 /\ frames' = Append(Advanced, top)
    BY <2>1
  <2>3. /\ Len(Advanced) = n /\ IsSeq(Advanced)
        /\ \A f \in 1..n : Advanced[f].sec = frames[f].sec
    BY <1>1, <2>1, AdvancedOK DEF Frames, IsSeq
  <2>4. /\ DOMAIN frames' = 1..(n + 1) /\ frames'[n + 1] = top
        /\ \A f \in 1..n : frames'[f].sec = frames[f].sec
    BY <2>2, <2>3, AppendSeq, SeqType
  <2>5. \A f \in 1..n : frames[f].sec \in DOMAIN sections
    BY <1>1 DEF TypeInv
  <2>6. top.sec \notin DOMAIN sections
    BY <1>1, <2>2
  <2>7. \A f \in 1..(n + 1) : f \in 1..n \/ f = n + 1
    BY <1>1
  <2>8. \A f, g \in 1..n : frames[f].sec = frames[g].sec => f = g
    BY <1>1 DEF DistinctFrames
  <2> HIDE DEF n
  <2> QED BY <2>4, <2>5, <2>6, <2>7, <2>8 DEF DistinctFrames
<1>4. CASE LeaveSection
  <2>1. /\ DOMAIN frames' \subseteq DOMAIN frames
        /\ \A f \in DOMAIN frames' : frames'[f] = frames[f]
    <3>1. Len(frames) > 0 /\ frames' = SubSeq(frames, 1, Len(frames) - 1)
      BY <1>1, <1>4 DEF LeaveSection
    <3>2. /\ DOMAIN frames' = 1..(Len(frames) - 1)
          /\ \A f \in 1..(Len(frames) - 1) : frames'[f] = frames[f]
      BY <1>1, <3>1, ButLast, SeqType
    <3> QED BY <1>1, <3>2
  <2> QED BY <2>1 DEF DistinctFrames
<1>5. CASE frames' = frames \/ frames' = <<>>
  BY <1>5 DEF DistinctFrames
<1> QED
  BY <1>2, <1>3, <1>4, <1>5
  DEF Next, vars, ExpandLabel, ExpandPush, ExpandJump, CallFails, FinishExpansion,
      StartArgument, SkipInstruction, EvalVariable, EvalLabelRef, EvalFails, EvalDone, Done,
      AtStatement

\* DistinctFrames holds in every reachable state.
LEMMA DistinctInvariant == Spec => []DistinctFrames
<1>1. Init => DistinctFrames
  BY DEF Init, DistinctFrames
<1> QED
  BY <1>1, DistinctStep, ExpansionTypeInv, PTL DEF Spec

\* Expansion is past statement k of section s.
Passed(s, k) == \A f \in DOMAIN frames : frames[f].sec = s => k < frames[f].at

\* Going on passes the current statement only.
LEMMA PassedOne ==
  ASSUME TypeInv, phase = "expand", NEW s, NEW k \in Nat,
         \A f \in DOMAIN frames : Advanced[f].sec = s => k < Advanced[f].at
  PROVE  Passed(s, k) \/ (s = Sec /\ k = Frame.at)
<1>1. SUFFICES ASSUME NEW f \in DOMAIN frames, frames[f].sec = s, ~(k < frames[f].at)
               PROVE  s = Sec /\ k = Frame.at
  BY DEF Passed
<1>2. /\ Advanced[f].sec = frames[f].sec
      /\ Advanced[f].at = IF f = Len(frames) THEN Frame.at + 1 ELSE frames[f].at
  BY AdvancedOK
<1>3. k < Advanced[f].at
  BY <1>1, <1>2
<1>4. f = Len(frames)
  BY <1>1, <1>2, <1>3
<1>5. Frame.at \in Nat
  <2>1. frames # <<>> /\ frames \in Frames
    BY DEF TypeInv
  <2> QED BY <2>1, TopFrame DEF Frame
<1>6. frames[f].at = Frame.at /\ Sec = s
  BY <1>1, <1>4 DEF Frame, Sec
<1> QED BY <1>1, <1>2, <1>3, <1>4, <1>5, <1>6

\* All of a document is passed when its end has been reached.
LEMMA PassedAll ==
  ASSUME TypeInv, phase = "expand", Frame.at > Len(docs[Doc].body),
         NEW s \in DOMAIN sections, NEW k \in DOMAIN docs[sections[s].doc].body,
         \A f \in DOMAIN frames : f # Len(frames) /\ frames[f].sec = s => k < frames[f].at
  PROVE  Passed(s, k)
<1>1. SUFFICES ASSUME NEW f \in DOMAIN frames, f = Len(frames), frames[f].sec = s
               PROVE  k < frames[f].at
  BY DEF Passed
<1>2. frames # <<>> /\ frames \in Frames
  BY DEF TypeInv
<1>3. Frame.at \in Nat /\ frames[f] = Frame /\ s = Sec
  BY <1>1, <1>2, TopFrame DEF Frame, Sec
<1>4. IsList(docs[Doc].body)
  BY <1>3, SourcesAssumption DEF TypeInv, IsSource, Doc
<1>5. k \in 1..Len(docs[Doc].body) /\ Len(docs[Doc].body) \in Nat
  BY <1>3, <1>4 DEF IsList, Doc
<1> QED BY <1>3, <1>5

\* What is passed after a step was passed before it, or is the current statement.  A section
\* that the step enters has nothing passed.
LEMMA PassedStep ==
  ASSUME TypeInv, [Next]_vars, NEW s \in DOMAIN sections',
         NEW k \in DOMAIN docs[sections'[s].doc].body, Passed(s, k)'
  PROVE  /\ s \in DOMAIN sections
         /\ Passed(s, k) \/ (phase = "expand" /\ frames' # frames /\ s = Sec /\ k = Frame.at
                             /\ AtStatement(Statement.is))
<1>1. TypeInv' /\ Growth
  BY TypeStep
<1>2. k \in Nat \ {0}
  <2>1. sections'[s].doc \in DOMAIN docs /\ IsSource(docs)
    BY <1>1, SourcesAssumption DEF TypeInv, Growth
  <2>2. IsList(docs[sections'[s].doc].body)
    BY <2>1 DEF IsSource
  <2> QED BY <2>2 DEF IsList
<1>3. IsSeq(frames) /\ Len(frames) \in Nat /\ DOMAIN frames = 1..Len(frames)
      /\ IsSeq(sections) /\ Len(sections) \in Nat /\ DOMAIN sections = 1..Len(sections)
  <2>1. IsSeq(frames)
    BY DEF TypeInv, Frames, IsSeq
  <2> QED BY <2>1, SeqType DEF TypeInv
<1>4. CASE ExpandLabel \/ ExpandPush \/ ExpandJump \/ CallFails
  <2>1. phase = "expand" /\ frames' = Advanced /\ sections' = sections /\ AtStatement(Statement.is)
    BY <1>4 DEF ExpandLabel, ExpandPush, ExpandJump, CallFails, AtStatement
  <2>2. DOMAIN frames' = DOMAIN frames
    BY <2>1, AdvancedOK
  <2>3. \A f \in DOMAIN frames : frames'[f].sec = s => k < frames'[f].at
    BY <2>2 DEF Passed
  <2>4. s \in DOMAIN sections /\ k \in Nat
    BY <1>2, <2>1
  <2>5. Passed(s, k) \/ (s = Sec /\ k = Frame.at)
    <3>1. \A f \in DOMAIN frames : Advanced[f].sec = s => k < Advanced[f].at
      BY <2>1, <2>3
    <3> QED BY <2>1, <2>4, <3>1, PassedOne
  <2>6. frames' # frames
    <3>1. /\ Len(frames) \in DOMAIN frames
          /\ Advanced[Len(frames)].at = Frame.at + 1 /\ frames[Len(frames)] = Frame
      BY <2>1, AdvancedOK DEF Frame
    <3>2. Frame.at \in Nat
      BY <2>1, Where
    <3> QED BY <2>1, <3>1, <3>2
  <2> QED BY <2>1, <2>4, <2>5, <2>6
<1>5. CASE ExpandCall \/ ExpandInclude
  <2> DEFINE n == Len(sections)
  <2>1. /\ phase = "expand" /\ AtStatement(Statement.is)
        /\ \E sec : sections' = Append(sections, sec)
        /\ frames' = Append(Advanced, [sec |-> n + 1, at |-> 1])
    BY <1>5 DEF ExpandCall, ExpandInclude, Enter, AtStatement
  <2>2. DOMAIN sections' = 1..(n + 1)
    BY <1>3, <2>1, AppendSeq, SeqType
  <2>3. /\ Len(Advanced) = Len(frames) /\ IsSeq(Advanced)
    BY <2>1, AdvancedOK DEF Frames, IsSeq
  <2>4. /\ DOMAIN frames' = 1..(Len(frames) + 1)
        /\ frames'[Len(frames) + 1] = [sec |-> n + 1, at |-> 1]
        /\ \A f \in 1..Len(frames) : frames'[f] = Advanced[f]
    BY <2>1, <2>3, AppendSeq, SeqType
  <2>5. s # n + 1
    <3>1. Len(frames) + 1 \in DOMAIN frames'
      BY <1>3, <2>4
    <3>2. s = n + 1 => k < 1
      BY <2>4, <3>1 DEF Passed
    <3> QED BY <1>2, <3>2
  <2>6. s \in DOMAIN sections
    BY <1>3, <2>2, <2>5
  <2>7. DOMAIN frames \subseteq DOMAIN frames'
    BY <1>3, <2>4
  <2>8. Passed(s, k) \/ (s = Sec /\ k = Frame.at)
    <3>1. \A f \in DOMAIN frames : frames'[f].sec = s => k < frames'[f].at
      BY <2>7 DEF Passed
    <3>2. \A f \in DOMAIN frames : frames'[f] = Advanced[f]
      BY <1>3, <2>4
    <3>3. \A f \in DOMAIN frames : Advanced[f].sec = s => k < Advanced[f].at
      BY <3>1, <3>2
    <3> QED BY <1>2, <2>1, <2>6, <3>3, PassedOne
  <2>9. frames' # frames
    BY <1>3, <2>4
  <2> QED BY <2>1, <2>6, <2>8, <2>9
<1>6. CASE LeaveSection \/ FinishExpansion
  <2>1. phase = "expand" /\ sections' = sections /\ Frame.at > Len(docs[Doc].body)
    BY <1>6 DEF LeaveSection, FinishExpansion
  <2>2. ASSUME NEW f \in DOMAIN frames, f # Len(frames), frames[f].sec = s PROVE k < frames[f].at
    <3>1. CASE LeaveSection
      <4>1. Len(frames) > 0 /\ frames' = SubSeq(frames, 1, Len(frames) - 1)
        BY <1>3, <3>1 DEF LeaveSection
      <4>2. /\ DOMAIN frames' = 1..(Len(frames) - 1)
            /\ \A g \in 1..(Len(frames) - 1) : frames'[g] = frames[g]
        BY <1>3, <4>1, ButLast, SeqType
      <4>3. f \in 1..(Len(frames) - 1)
        BY <1>3, <2>2
      <4> QED BY <2>2, <4>2, <4>3 DEF Passed
    <3>2. CASE FinishExpansion
      BY <1>3, <2>2, <3>2 DEF FinishExpansion
    <3> QED BY <1>6, <3>1, <3>2
  <2> QED BY <2>1, <2>2, PassedAll
<1>7. CASE frames' = frames /\ sections' = sections
  BY <1>7 DEF Passed
<1> QED
  BY <1>4, <1>5, <1>6, <1>7
  DEF Next, vars, StartArgument, SkipInstruction, EvalVariable, EvalLabelRef, EvalFails,
      EvalDone, Done

DefinesGlobal(s, k) ==
  LET st == docs[sections[s].doc].body[k] IN st.is = "label" /\ st.name \in Globals

HasInstance(s, k) ==
  \E i \in DOMAIN labels :
    labels[i].sec = s /\ labels[i].name = docs[sections[s].doc].body[k].name

\* Without an error every global definition passed has an instance, and no name has two.
GlobalInv ==
  /\ errors = {} =>
       \A s \in DOMAIN sections : \A k \in DOMAIN docs[sections[s].doc].body :
         Passed(s, k) /\ DefinesGlobal(s, k) => HasInstance(s, k)
  /\ \A i, j \in DOMAIN labels :
       labels[i].name \in Globals /\ labels[i].name = labels[j].name => i = j

\* Every step instantiates the definition it passes, or reports it.
LEMMA GlobalStep == TypeInv /\ GlobalInv /\ [Next]_vars => GlobalInv'
<1> SUFFICES ASSUME TypeInv, GlobalInv, [Next]_vars PROVE GlobalInv'
  OBVIOUS
<1>1. Growth
  BY TypeStep
<1>2. ASSUME NEW s \in DOMAIN sections
      PROVE  /\ sections'[s] = sections[s] /\ docs' = docs
             /\ \A k : DefinesGlobal(s, k)' = DefinesGlobal(s, k)
             /\ \A k : HasInstance(s, k) => HasInstance(s, k)'
  BY <1>1 DEF Growth, DefinesGlobal, HasInstance
<1>3. errors' = {} => errors = {}
  BY <1>1 DEF Growth
<1>5. IsSeq(labels) /\ Len(labels) \in Nat /\ DOMAIN labels = 1..Len(labels)
  BY SeqType DEF TypeInv
<1>6. ASSUME errors' = {}, NEW s \in DOMAIN sections',
             NEW k \in DOMAIN docs'[sections'[s].doc].body,
             Passed(s, k)', DefinesGlobal(s, k)'
      PROVE  HasInstance(s, k)'
  <2>1. /\ s \in DOMAIN sections
        /\ Passed(s, k) \/ (phase = "expand" /\ frames' # frames /\ s = Sec /\ k = Frame.at
                            /\ AtStatement(Statement.is))
    BY <1>1, <1>6, PassedStep DEF Growth
  <2>2. CASE Passed(s, k)
    BY <1>2, <1>3, <1>6, <2>1, <2>2 DEF GlobalInv
  <2>3. CASE phase = "expand" /\ frames' # frames /\ s = Sec /\ k = Frame.at
             /\ AtStatement(Statement.is)
    <3>1. Statement.is = "label" /\ Statement.name \in Globals
      <4>1. DefinesGlobal(Sec, Frame.at)
        BY <1>2, <1>6, <2>1, <2>3
      <4>2. Statement = docs[sections[Sec].doc].body[Frame.at]
        BY DEF Statement, Doc
      <4> QED BY <4>1, <4>2 DEF DefinesGlobal
    <3>2. Frame.at <= Len(docs[Doc].body) /\ frames # <<>>
      BY <2>3 DEF AtStatement
    <3>3. ExpandLabel
      <4>1. ~(Frame.at > Len(docs[Doc].body))
        <5>1. Frame.at \in DOMAIN docs[Doc].body /\ Doc \in DOMAIN docs /\ IsSource(docs)
          BY <2>3, Where
        <5>2. IsList(docs[Doc].body)
          BY <5>1 DEF IsSource
        <5> QED BY <5>1, <5>2 DEF IsList
      <4> QED
        BY <2>3, <3>1, <4>1
        DEF Next, vars, ExpandPush, ExpandJump, ExpandCall, CallFails, ExpandInclude,
            LeaveSection, FinishExpansion, StartArgument, SkipInstruction, EvalVariable,
            EvalLabelRef, EvalFails, EvalDone, Done, AtStatement, Evaluating
    <3>4. ~Duplicate(Statement)
      BY <1>6, <3>3 DEF ExpandLabel
    <3>5. /\ Len(labels) + 1 \in DOMAIN labels'
          /\ labels'[Len(labels) + 1].sec = Sec
          /\ labels'[Len(labels) + 1].name = Statement.name
      <4>1. /\ IsSeq(labels') /\ Len(labels') = Len(labels) + 1
            /\ labels'[Len(labels) + 1].sec = Sec
            /\ labels'[Len(labels) + 1].name = Statement.name
        BY <3>3, <3>4, LabelAdded
      <4> QED BY <1>5, <4>1, SeqType
    <3>6. Statement = docs'[sections'[s].doc].body[k]
      BY <1>2, <2>1, <2>3 DEF Statement, Doc
    <3> QED BY <2>3, <3>5, <3>6 DEF HasInstance
  <2> QED BY <2>1, <2>2, <2>3
<1>7. ASSUME NEW i \in DOMAIN labels', NEW j \in DOMAIN labels',
             labels'[i].name \in Globals, labels'[i].name = labels'[j].name
      PROVE  i = j
  <2>1. CASE ~(ExpandLabel /\ ~Duplicate(Statement))
    <3>1. DOMAIN labels' = DOMAIN labels
      BY <2>1, SameLabels
    <3> QED BY <1>1, <1>7, <3>1 DEF GlobalInv, Growth
  <2>2. CASE ExpandLabel /\ ~Duplicate(Statement)
    <3> DEFINE n == Len(labels)
    <3>1. /\ DOMAIN labels' = 1..(n + 1) /\ labels'[n + 1].name = Statement.name
          /\ \A x \in 1..n : labels'[x].name = labels[x].name
      <4>1. /\ IsSeq(labels') /\ Len(labels') = n + 1 /\ labels'[n + 1].name = Statement.name
            /\ \A x \in 1..n : labels'[x].name = labels[x].name
        BY <2>2, LabelAdded
      <4> QED BY <4>1, SeqType
    <3>2. \A x \in 1..n : labels[x].name # Statement.name \/ Statement.name \notin Globals
      BY <1>5, <2>2 DEF Duplicate, Instances
    <3>3. \A x \in 1..(n + 1) : x \in 1..n \/ x = n + 1
      BY <1>5
    <3>4. \A x, y \in 1..n : labels[x].name \in Globals /\ labels[x].name = labels[y].name => x = y
      BY <1>5 DEF GlobalInv
    <3> HIDE DEF n
    <3> QED BY <1>7, <3>1, <3>2, <3>3, <3>4
  <2> QED BY <2>1, <2>2
<1> QED BY <1>6, <1>7 DEF GlobalInv

\* GlobalInv holds in every reachable state.
LEMMA GlobalInvariant == Spec => []GlobalInv
<1>1. Init => GlobalInv
  <2> SUFFICES ASSUME Init PROVE GlobalInv
    OBVIOUS
  <2>1. ASSUME NEW s \in DOMAIN sections, NEW k \in DOMAIN docs[sections[s].doc].body
        PROVE  ~Passed(s, k)
    <3>1. s = 1 /\ DOMAIN frames = {1} /\ frames[1] = [sec |-> 1, at |-> 1]
      BY DEF Init
    <3>2. IsSource(docs) /\ sections[s].doc = 1
      BY SourcesAssumption, <3>1 DEF Init
    <3>3. IsList(docs[1].body)
      BY <3>2 DEF IsSource
    <3>4. k \in Nat \ {0}
      BY <3>2, <3>3 DEF IsList
    <3> QED BY <3>1, <3>4 DEF Passed
  <2>2. DOMAIN labels = {}
    BY DEF Init
  <2> QED BY <2>1, <2>2 DEF GlobalInv
<1> QED
  BY <1>1, GlobalStep, ExpansionTypeInv, PTL DEF Spec

\* A program without an error has every global name in one expanded section at most, through
\* whatever macros and included files the definitions have come.
THEOREM ExpansionNoSilentDuplicates == Spec => []NoSilentDuplicates
<1>1. TypeInv /\ GlobalInv => NoSilentDuplicates
  <2> SUFFICES ASSUME TypeInv, GlobalInv, phase # "expand", errors = {},
                      NEW s \in DOMAIN sections, NEW t \in DOMAIN sections, NEW n \in Globals,
                      DefinedIn(sections[s].doc, n) # {}, DefinedIn(sections[t].doc, n) # {}
               PROVE  s = t
    BY DEF NoSilentDuplicates
  <2>1. frames = <<>>
    BY DEF TypeInv
  <2>2. ASSUME NEW u \in DOMAIN sections, DefinedIn(sections[u].doc, n) # {}
        PROVE  \E i \in DOMAIN labels : labels[i].sec = u /\ labels[i].name = n
    <3>1. PICK k \in DOMAIN docs[sections[u].doc].body :
            /\ docs[sections[u].doc].body[k].is = "label"
            /\ docs[sections[u].doc].body[k].name = n
      BY <2>2 DEF DefinedIn
    <3>2. Passed(u, k) /\ DefinesGlobal(u, k)
      BY <2>1, <3>1 DEF Passed, DefinesGlobal
    <3> QED BY <3>1, <3>2 DEF GlobalInv, HasInstance
  <2>3. PICK i \in DOMAIN labels : labels[i].sec = s /\ labels[i].name = n
    BY <2>2
  <2>4. PICK j \in DOMAIN labels : labels[j].sec = t /\ labels[j].name = n
    BY <2>2
  <2> QED BY <2>3, <2>4 DEF GlobalInv
<1> QED
  BY <1>1, ExpansionTypeInv, GlobalInvariant, PTL

-----------------------------------------------------------------------------
(* Recursive calls *)

\* Document d is used, directly or not, by document a.
Reaches(a, d) ==
  \A S \in SUBSET DOMAIN docs :
    Uses(a) \subseteq S /\ (\A x \in S : Uses(x) \subseteq S) => d \in S

FrameDoc(f) == sections[frames[f].sec].doc

\* A document in expansion is reached from those in whose expansion it is, and a macro on the
\* stack is in expansion.
NestingInv ==
  /\ \A f, g \in DOMAIN frames : f < g => Reaches(FrameDoc(f), FrameDoc(g))
  /\ phase = "expand" => \A d \in macroStack : \E f \in DOMAIN frames : FrameDoc(f) = d

\* The document that a call or an #include names is used by the one it stands in.
LEMMA UsesStatement ==
  ASSUME TypeInv, AtStatement("call") \/ AtStatement("include")
  PROVE  /\ Statement.doc \in Uses(Doc) /\ Statement.doc \in DOMAIN docs
         /\ Statement.is = "call" => docs[Statement.doc].parent # 0
         /\ Statement.is = "include" => docs[Statement.doc].parent = 0
<1>1. /\ Frame.at \in DOMAIN docs[Doc].body /\ Statement = docs[Doc].body[Frame.at]
      /\ Statement.is \in {"call", "include"} /\ <<Doc, Frame.at>> \in Places(docs)
      /\ IsSource(docs) /\ Doc \in DOMAIN docs
  BY Where
<1>2. Statement.doc \in Uses(Doc)
  BY <1>1 DEF Uses
<1>3. /\ Statement.doc \in DOMAIN docs
      /\ Statement.is = "call" => docs[Statement.doc].parent # 0
      /\ Statement.is = "include" => docs[Statement.doc].parent = 0
  BY <1>1 DEF IsSource
<1> QED BY <1>2, <1>3

\* What a document uses, those that reach the document reach too.
LEMMA ReachesUsed ==
  /\ \A a : \A d \in Uses(a) : Reaches(a, d)
  /\ \A a : \A b : \A d \in Uses(b) : Reaches(a, b) => Reaches(a, d)
<1>1. ASSUME NEW a, NEW d \in Uses(a) PROVE Reaches(a, d)
  BY DEF Reaches
<1>2. ASSUME NEW a, NEW b, NEW d \in Uses(b), Reaches(a, b) PROVE Reaches(a, d)
  BY <1>2 DEF Reaches
<1> QED BY <1>1, <1>2

\* The documents do not change.
LEMMA SameReach == Growth => \A a, d : Reaches(a, d)' = Reaches(a, d)
BY DEF Reaches, Uses, Growth

\* Every step expands what the document in expansion uses.
LEMMA NestingStep == TypeInv /\ NestingInv /\ [Next]_vars => NestingInv'
<1> SUFFICES ASSUME TypeInv, NestingInv, [Next]_vars PROVE NestingInv'
  OBVIOUS
<1>1. Growth
  BY TypeStep
<1>2. \A a, d : Reaches(a, d)' = Reaches(a, d)
  BY <1>1, SameReach
<1>3. /\ IsSeq(frames) /\ Len(frames) \in Nat /\ DOMAIN frames = 1..Len(frames)
      /\ \A f \in DOMAIN frames : frames[f].sec \in DOMAIN sections
  <2>1. IsSeq(frames)
    BY DEF TypeInv, Frames, IsSeq
  <2> QED BY <2>1, SeqType DEF TypeInv
<1>4. ASSUME NEW f \in DOMAIN frames, frames'[f].sec = frames[f].sec
      PROVE  FrameDoc(f)' = FrameDoc(f)
  BY <1>1, <1>3, <1>4 DEF FrameDoc, Growth
<1>5. CASE frames' = Advanced /\ phase = "expand" /\ phase' = "expand" /\ macroStack' = macroStack
  <2>1. DOMAIN frames' = DOMAIN frames /\ \A f \in DOMAIN frames : frames'[f].sec = frames[f].sec
    BY <1>5, AdvancedOK
  <2>2. \A f \in DOMAIN frames : FrameDoc(f)' = FrameDoc(f)
    BY <1>4, <2>1
  <2> QED BY <1>2, <1>5, <2>1, <2>2 DEF NestingInv
<1>6. CASE ExpandCall \/ ExpandInclude
  <2> DEFINE n == Len(frames)
  <2>1. /\ phase = "expand" /\ (AtStatement("call") \/ AtStatement("include"))
        /\ \E cs, args : Enter(Statement.doc, cs, args)
        /\ macroStack' = macroStack \/ macroStack' = macroStack \cup {Statement.doc}
    BY <1>6 DEF ExpandCall, ExpandInclude, AtStatement
  <2>2. PICK cs, args : Enter(Statement.doc, cs, args)
    BY <2>1
  <2>3. /\ sections'[Len(sections) + 1].doc = Statement.doc
        /\ frames' = Append(Advanced, [sec |-> Len(sections) + 1, at |-> 1])
    <3>1. IsSeq(sections)
      BY DEF TypeInv
    <3> QED BY <2>2, <3>1, AppendSeq DEF Enter
  <2>4. /\ Len(Advanced) = n /\ IsSeq(Advanced) /\ n \in Nat \ {0} /\ Frame = frames[n]
        /\ DOMAIN frames = 1..n /\ \A f \in 1..n : Advanced[f].sec = frames[f].sec
    <3>1. /\ Len(Advanced) = Len(frames) /\ Advanced \in Frames /\ Len(frames) \in Nat \ {0}
          /\ \A f \in DOMAIN frames : Advanced[f].sec = frames[f].sec
      BY <2>1, AdvancedOK
    <3>2. IsSeq(Advanced)
      BY <3>1 DEF Frames, IsSeq
    <3> QED BY <1>3, <3>1, <3>2 DEF Frame
  <2>5. /\ DOMAIN frames' = 1..(n + 1) /\ frames'[n + 1].sec = Len(sections) + 1
        /\ \A f \in 1..n : frames'[f].sec = frames[f].sec
    BY <2>3, <2>4, AppendSeq, SeqType
  <2>6. \A f \in 1..n : FrameDoc(f)' = FrameDoc(f)
    BY <1>3, <1>4, <2>5
  <2>7. \A f : f = n + 1 => FrameDoc(f)' = Statement.doc
    BY <2>3, <2>5 DEF FrameDoc
  <2>8. /\ Statement.doc \in Uses(Doc) /\ FrameDoc(n) = Doc /\ n \in 1..n
    <3>1. Statement.doc \in Uses(Doc)
      BY <2>1, UsesStatement
    <3> QED BY <2>4, <3>1 DEF FrameDoc, Doc, Sec
  <2>9. \A f \in 1..n : Reaches(FrameDoc(f), Statement.doc)
    <3>1. \A f \in DOMAIN frames : f < n => Reaches(FrameDoc(f), FrameDoc(n))
      BY <2>4, <2>8 DEF NestingInv
    <3>2. \A f \in 1..n : f \in DOMAIN frames /\ (f = n \/ f < n)
      BY <2>4
    <3> QED BY <2>8, <3>1, <3>2, ReachesUsed
  <2>10. \A f \in 1..(n + 1) : f \in 1..n \/ f = n + 1
    BY <2>4
  <2>11. n \in 1..(n + 1) /\ n + 1 \in 1..(n + 1) /\ \A f \in 1..n : f \in 1..(n + 1)
    BY <2>4
  <2>12. \A f, g \in 1..n : f < g => Reaches(FrameDoc(f), FrameDoc(g))
    BY <1>3 DEF NestingInv
  <2>13. \A d \in macroStack : \E f \in 1..n : FrameDoc(f) = d
    <3>1. \A d \in macroStack : \E f \in DOMAIN frames : FrameDoc(f) = d
      BY <2>1 DEF NestingInv
    <3> QED BY <2>4, <3>1
  <2>14. ASSUME NEW f \in 1..(n + 1), NEW g \in 1..(n + 1), f < g
         PROVE  Reaches(FrameDoc(f), FrameDoc(g))'
    <3>1. f \in 1..n
      BY <2>4, <2>14
    <3>2. CASE g \in 1..n
      <4>1. Reaches(FrameDoc(f), FrameDoc(g))
        BY <2>12, <2>14, <3>1, <3>2
      <4> QED BY <1>1, <2>6, <3>1, <3>2, <4>1 DEF Reaches, Uses, Growth
    <3>3. CASE g = n + 1
      <4>1. Reaches(FrameDoc(f), Statement.doc)
        BY <2>9, <3>1
      <4> QED BY <1>1, <2>6, <2>7, <3>1, <3>3, <4>1 DEF Reaches, Uses, Growth
    <3> QED BY <2>10, <3>2, <3>3
  <2>15. ASSUME NEW d \in macroStack' PROVE \E f \in 1..(n + 1) : FrameDoc(f)' = d
    BY <2>1, <2>6, <2>7, <2>11, <2>13
  <2> HIDE DEF n
  <2> QED BY <2>5, <2>14, <2>15 DEF NestingInv
<1>7. CASE LeaveSection
  <2> DEFINE n == Len(frames)
  <2>1. /\ phase = "expand" /\ n > 1 /\ frames' = SubSeq(frames, 1, n - 1)
        /\ macroStack' = macroStack \ {Doc}
    BY <1>7 DEF LeaveSection
  <2>2. /\ DOMAIN frames' = 1..(n - 1) /\ \A f \in 1..(n - 1) : frames'[f] = frames[f]
    <3>1. n > 0
      BY <1>3, <2>1
    <3> QED BY <1>3, <2>1, <3>1, ButLast, SeqType
  <2>3. 1..(n - 1) \subseteq DOMAIN frames /\ \A f \in DOMAIN frames : f \in 1..(n - 1) \/ f = n
    BY <1>3
  <2>4. \A f \in 1..(n - 1) : FrameDoc(f)' = FrameDoc(f)
    BY <1>4, <2>2, <2>3
  <2>5. FrameDoc(n) = Doc
    BY DEF FrameDoc, Doc, Sec, Frame
  <2>6. ASSUME NEW d \in macroStack' PROVE \E f \in 1..(n - 1) : FrameDoc(f)' = d
    <3>1. d \in macroStack /\ d # Doc
      BY <2>1
    <3>2. PICK f \in DOMAIN frames : FrameDoc(f) = d
      BY <2>1, <3>1 DEF NestingInv
    <3> QED BY <2>3, <2>4, <2>5, <3>1, <3>2
  <2>7. ASSUME NEW f \in 1..(n - 1), NEW g \in 1..(n - 1), f < g
        PROVE  Reaches(FrameDoc(f), FrameDoc(g))'
    <3>1. Reaches(FrameDoc(f), FrameDoc(g))
      BY <2>3, <2>7 DEF NestingInv
    <3> QED BY <1>1, <2>4, <3>1 DEF Reaches, Uses, Growth
  <2> HIDE DEF n
  <2> QED BY <2>2, <2>6, <2>7 DEF NestingInv
<1>8. CASE frames' = <<>> /\ phase' # "expand"
  BY <1>8 DEF NestingInv
<1>9. CASE frames' = frames /\ macroStack' = macroStack /\ (phase' = "expand" => phase = "expand")
  <2>1. \A f \in DOMAIN frames : FrameDoc(f)' = FrameDoc(f)
    BY <1>4, <1>9
  <2> QED BY <1>2, <1>9, <2>1 DEF NestingInv
<1> QED
  BY <1>5, <1>6, <1>7, <1>8, <1>9
  DEF Next, vars, ExpandLabel, ExpandPush, ExpandJump, CallFails, FinishExpansion,
      StartArgument, SkipInstruction, EvalVariable, EvalLabelRef, EvalFails, EvalDone, Done,
      AtStatement, Evaluating

\* NestingInv holds in every reachable state.
LEMMA NestingInvariant == Spec => []NestingInv
<1>1. Init => NestingInv
  BY DEF Init, NestingInv
<1> QED
  BY <1>1, NestingStep, ExpansionTypeInv, PTL DEF Spec

\* A call that is rejected as recursive is of a macro that is in expansion: it reaches itself.
LEMMA RejectedCall ==
  TypeInv /\ NestingInv /\ RecursionJustified /\ [Next]_vars => RecursionJustified'
<1> SUFFICES ASSUME TypeInv, NestingInv, RecursionJustified, [Next]_vars
             PROVE  RecursionJustified'
  OBVIOUS
<1>1. Growth
  BY TypeStep
<1>2. \A a, e : Reaches(a, e)' = Reaches(a, e)
  BY <1>1, SameReach
<1>3. ASSUME NEW d \in DOMAIN docs, <<"recursive call", d>> \in errors PROVE Reaches(d, d)'
  <2>1. Reaches(d, d)
    BY <1>1, <1>3 DEF RecursionJustified, Reaches, Growth
  <2> QED BY <1>2, <2>1
<1>4. ASSUME NEW d, AtStatement("call"), Statement.doc \in macroStack, d = Statement.doc
      PROVE  Reaches(d, d)
  <2>1. phase = "expand"
    BY <1>4 DEF AtStatement
  <2>2. PICK f \in DOMAIN frames : FrameDoc(f) = d
    BY <1>4, <2>1 DEF NestingInv
  <2>3. d \in Uses(Doc)
    BY <1>4, UsesStatement
  <2>4. /\ Len(frames) \in DOMAIN frames /\ Len(frames) \in Nat /\ DOMAIN frames = 1..Len(frames)
        /\ FrameDoc(Len(frames)) = Doc
    <3>1. frames \in Frames /\ frames # <<>>
      BY <2>1 DEF TypeInv
    <3> QED BY <3>1, TopFrame DEF FrameDoc, Doc, Sec, Frame
  <2>5. CASE f = Len(frames)
    BY <2>2, <2>3, <2>4, <2>5, ReachesUsed
  <2>6. CASE f < Len(frames)
    <3>1. Reaches(d, Doc)
      BY <2>2, <2>4, <2>6 DEF NestingInv
    <3> QED BY <2>3, <3>1, ReachesUsed
  <2>7. f = Len(frames) \/ f < Len(frames)
    BY <2>4
  <2> QED BY <2>5, <2>6, <2>7
<1>5. ASSUME NEW d, <<"recursive call", d>> \in errors', <<"recursive call", d>> \notin errors
      PROVE  AtStatement("call") /\ Statement.doc \in macroStack /\ d = Statement.doc
  <2>1. CASE errors' = errors
    BY <1>5, <2>1
  <2>2. CASE ExpandLabel \/ ExpandJump \/ EvalFails
    <3>1. \E kind, x : kind # "recursive call" /\ errors' \subseteq errors \cup {<<kind, x>>}
      <4>1. "duplicate label" # "recursive call" /\ "jump" # "recursive call"
            /\ "eval" # "recursive call"
        OBVIOUS
      <4>2. CASE ExpandLabel
        <5>1. errors' \subseteq errors \cup {<<"duplicate label", Statement.name>>}
          BY <4>2 DEF ExpandLabel
        <5> QED BY <4>1, <5>1
      <4>3. CASE ExpandJump
        <5>1. errors' \subseteq errors \cup {<<"jump", Statement.name>>}
          BY <4>3 DEF ExpandJump
        <5> QED BY <4>1, <5>1
      <4>4. CASE EvalFails
        <5>1. errors' \subseteq errors \cup {<<"eval", cur>>}
          BY <4>4 DEF EvalFails
        <5> QED BY <4>1, <5>1
      <4> QED BY <2>2, <4>2, <4>3, <4>4
    <3> QED BY <1>5, <3>1
  <2>3. CASE CallFails
    <3>1. AtStatement("call")
      BY <2>3 DEF CallFails
    <3>2. \/ /\ Statement.doc \in macroStack
             /\ errors' = errors \cup {<<"recursive call", Statement.doc>>}
          \/ errors' = errors \cup {<<"argument count", Statement.doc>>}
      BY <2>3 DEF CallFails
    <3>3. CASE Statement.doc \in macroStack
               /\ errors' = errors \cup {<<"recursive call", Statement.doc>>}
      BY <1>5, <3>1, <3>3
    <3>4. CASE errors' = errors \cup {<<"argument count", Statement.doc>>}
      <4>1. "argument count" # "recursive call"
        OBVIOUS
      <4> QED BY <1>5, <3>4, <4>1
    <3> QED BY <3>2, <3>3, <3>4
  <2> QED
    BY <2>1, <2>2, <2>3
    DEF Next, vars, ExpandPush, ExpandCall, ExpandInclude, LeaveSection, FinishExpansion,
        StartArgument, SkipInstruction, EvalVariable, EvalLabelRef, EvalDone, Done
<1>6. ASSUME NEW d \in DOMAIN docs, <<"recursive call", d>> \in errors' PROVE Reaches(d, d)'
  BY <1>2, <1>3, <1>4, <1>5, <1>6
<1>7. docs' = docs
  BY <1>1 DEF Growth
<1> QED BY <1>6, <1>7 DEF RecursionJustified, Reaches

\* A call is rejected as recursive only if its macro reaches itself through calls and
\* #includes; a macro that has been left may be called again.
THEOREM ExpansionRecursionJustified == Spec => []RecursionJustified
<1>1. Init => RecursionJustified
  BY DEF Init, RecursionJustified
<1> QED
  BY <1>1, RejectedCall, NestingInvariant, ExpansionTypeInv, PTL DEF Spec

-----------------------------------------------------------------------------
(* Arguments of calls *)

\* A section in which the parameter has a meaning has an argument, from an earlier section in
\* which what the argument says has a meaning.
SectionOK(s) ==
  /\ HasParam(docs, sections[s].doc) => sections[s].args # <<>>
  /\ sections[s].args # <<>> =>
       /\ sections[s].callsite \in DOMAIN sections /\ sections[s].callsite < s
       /\ sections[s].args[1] = Param => HasParam(docs, sections[sections[s].callsite].doc)

ElemOK(e) ==
  /\ e.sec \in DOMAIN sections
  /\ e.op = "push" /\ e.arg = Param => HasParam(docs, sections[e.sec].doc)

ArgInv ==
  /\ \A s \in DOMAIN sections : SectionOK(s)
  /\ \A c \in DOMAIN elems : ElemOK(elems[c])

\* A call is of a macro, and passes an argument on only where there is one.
LEMMA SourceCall ==
  ASSUME NEW src, IsSource(src), NEW x \in Places(src), NEW st, st = src[x[1]].body[x[2]],
         st.is = "call"
  PROVE  /\ IsList(st.args) /\ src[st.doc].parent # 0
         /\ Param \in {st.args[k] : k \in DOMAIN st.args} => HasParam(src, x[1])
BY DEF IsSource

\* A file that a macro includes is included there only, so its section has the macro's arguments.
LEMMA IncludedParam ==
  ASSUME TypeInv, AtStatement("include"), HasParam(docs, Statement.doc)
  PROVE  HasParam(docs, Doc)
<1>1. /\ Frame.at \in DOMAIN docs[Doc].body /\ Statement = docs[Doc].body[Frame.at]
      /\ Statement.is = "include" /\ <<Doc, Frame.at>> \in Places(docs)
      /\ IsSource(docs) /\ Doc \in DOMAIN docs
  BY Where
<1> DEFINE x == <<Doc, Frame.at>>
<1>2. /\ Statement = Include(Statement.doc) /\ docs[Statement.doc].parent = 0
      /\ \A y \in Places(docs) \ {x} : docs[y[1]].body[y[2]] # Statement
  BY <1>1 DEF IsSource
<1>3. PICK m \in DOMAIN docs : /\ docs[m].params = 1
                               /\ \E k \in DOMAIN docs[m].body : docs[m].body[k] = Statement
  BY <1>2 DEF HasParam
<1>4. PICK k \in DOMAIN docs[m].body : docs[m].body[k] = Statement
  BY <1>3
<1>5. <<m, k>> \in Places(docs) /\ <<m, k>>[1] = m /\ <<m, k>>[2] = k
  BY DEF Places
<1>6. m = Doc
  BY <1>2, <1>4, <1>5
<1>7. docs[m].parent # 0
  <2>1. docs[m].params \in (IF docs[m].parent = 0 THEN {0} ELSE 0..1)
    BY <1>1 DEF IsSource
  <2>2. docs[m].params = 1
    BY <1>3
  <2> QED BY <2>1, <2>2
<1> QED BY <1>3, <1>6, <1>7 DEF HasParam

\* Every call gives a macro as many arguments as it has parameters, and an #include passes on
\* those of its macro.
LEMMA ArgStep == TypeInv /\ ArgInv /\ [Next]_vars => ArgInv'
<1> SUFFICES ASSUME TypeInv, ArgInv, [Next]_vars PROVE ArgInv'
  OBVIOUS
<1>1. Growth /\ TypeInv'
  BY TypeStep
<1>2. \A d : HasParam(docs, d)' = HasParam(docs, d)
  BY <1>1 DEF HasParam, Growth
<1>3. \A s \in DOMAIN sections : s \in DOMAIN sections' /\ sections'[s] = sections[s]
  BY <1>1 DEF Growth
<1>4. ASSUME NEW s \in DOMAIN sections PROVE SectionOK(s)'
  <2>1. SectionOK(s)
    BY DEF ArgInv
  <2> QED BY <1>2, <1>3, <2>1 DEF SectionOK
<1>5. ASSUME NEW e, NEW f, ElemOK(e), f = e PROVE ElemOK(f)'
  BY <1>2, <1>3, <1>5 DEF ElemOK
<1>6. \A c \in DOMAIN elems : ElemOK(elems[c])'
  <2> SUFFICES ASSUME NEW c \in DOMAIN elems PROVE ElemOK(elems[c])'
    OBVIOUS
  <2>1. elems'[c] = elems[c] /\ ElemOK(elems[c])
    BY <1>1 DEF Growth, ArgInv
  <2> QED BY <1>5, <2>1
<1>7. \A s \in DOMAIN sections' : SectionOK(s)'
  <2>1. CASE ExpandCall \/ ExpandInclude
    <3> DEFINE n == Len(sections)
    <3>1. /\ AtStatement("call") \/ AtStatement("include")
          /\ \E cs, args : Enter(Statement.doc, cs, args)
      BY <2>1 DEF ExpandCall, ExpandInclude
    <3>2. PICK cs, args : /\ Enter(Statement.doc, cs, args)
                          /\ ExpandCall => cs = Sec /\ args = Statement.args
                          /\ ~ExpandCall => /\ cs = sections[Sec].callsite
                                            /\ args = sections[Sec].args
      BY <2>1 DEF ExpandCall, ExpandInclude
    <3>3. /\ n \in Nat /\ DOMAIN sections = 1..n /\ DOMAIN sections' = 1..(n + 1)
          /\ sections'[n + 1]
               = [doc |-> Statement.doc, parent |-> Sec, callsite |-> cs, args |-> args]
      BY <3>2, AppendSeq, SeqType DEF TypeInv, Enter
    <3>4. /\ Sec \in 1..n /\ Frame.at \in DOMAIN docs[Doc].body /\ IsSource(docs)
          /\ Statement = docs[Doc].body[Frame.at] /\ <<Doc, Frame.at>> \in Places(docs)
          /\ Doc = sections[Sec].doc
      BY <3>1, <3>3, Where DEF Doc
    <3>5. /\ HasParam(docs, Statement.doc) => args # <<>>
          /\ args # <<>> => /\ cs \in 1..n
                            /\ args[1] = Param => HasParam(docs, sections[cs].doc)
      <4>1. CASE ExpandCall
        <5>1. /\ Statement.is = "call" /\ Len(Statement.args) = docs[Statement.doc].params
              /\ AtStatement("call")
          BY <4>1 DEF ExpandCall, AtStatement
        <5>2. /\ IsList(Statement.args) /\ docs[Statement.doc].parent # 0
              /\ Param \in {Statement.args[k] : k \in DOMAIN Statement.args} => HasParam(docs, Doc)
          <6> DEFINE x == <<Doc, Frame.at>>
          <6>1. x \in Places(docs) /\ x[1] = Doc /\ Statement = docs[x[1]].body[x[2]]
            BY <3>4
          <6> HIDE DEF x
          <6> QED BY <3>4, <5>1, <6>1, SourceCall
        <5>3. IsSeq(Statement.args)
          BY <5>2 DEF IsList, IsSeq
        <5>4. /\ HasParam(docs, Statement.doc) => Statement.args # <<>>
              /\ Statement.args # <<>> => 1 \in DOMAIN Statement.args
          BY <5>1, <5>2, <5>3, SeqType DEF HasParam
        <5> QED BY <3>2, <3>4, <4>1, <5>2, <5>4
      <4>2. CASE ~ExpandCall
        <5>1. AtStatement("include")
          BY <2>1, <4>2 DEF ExpandInclude
        <5>2. HasParam(docs, Statement.doc) => HasParam(docs, Doc)
          BY <5>1, IncludedParam
        <5>3. SectionOK(Sec)
          BY <3>3, <3>4 DEF ArgInv
        <5> QED BY <3>2, <3>3, <3>4, <4>2, <5>2, <5>3 DEF SectionOK
      <4> QED BY <4>1, <4>2
    <3>6. ASSUME NEW s, s = n + 1 PROVE SectionOK(s)'
      <4>1. /\ sections'[s].doc = Statement.doc /\ sections'[s].callsite = cs
            /\ sections'[s].args = args
        BY <3>3, <3>6
      <4>2. \A t \in 1..n : t < s /\ t \in DOMAIN sections' /\ sections'[t] = sections[t]
        BY <1>3, <3>3, <3>6
      <4> HIDE DEF n
      <4> QED BY <1>2, <3>5, <4>1, <4>2 DEF SectionOK
    <3>7. \A s \in 1..(n + 1) : s \in 1..n \/ s = n + 1
      BY <3>3
    <3> HIDE DEF n
    <3> QED BY <1>4, <3>3, <3>6, <3>7
  <2>2. CASE sections' = sections
    BY <1>4, <2>2
  <2> QED
    BY <2>1, <2>2
    DEF Next, vars, ExpandLabel, ExpandPush, ExpandJump, CallFails, LeaveSection,
        FinishExpansion, StartArgument, SkipInstruction, EvalVariable, EvalLabelRef, EvalFails,
        EvalDone, Done
<1>8. \A c \in DOMAIN elems' : ElemOK(elems[c])'
  <2>0. IsSeq(elems)
    BY DEF TypeInv
  <2>1. ASSUME NEW e, elems' = Append(elems, e), ElemOK(e)
        PROVE  \A c \in DOMAIN elems' : ElemOK(elems[c])'
    <3>1. /\ Len(elems) \in Nat /\ DOMAIN elems = 1..Len(elems)
          /\ DOMAIN elems' = 1..(Len(elems) + 1) /\ elems'[Len(elems) + 1] = e
      BY <2>0, <2>1, AppendSeq, SeqType
    <3>2. \A c \in 1..(Len(elems) + 1) : c \in 1..Len(elems) \/ c = Len(elems) + 1
      BY <3>1
    <3>3. ASSUME NEW c, c = Len(elems) + 1 PROVE ElemOK(elems[c])'
      <4>1. elems'[c] = e
        BY <3>1, <3>3
      <4> QED BY <1>5, <2>1, <4>1
    <3> QED BY <1>6, <3>1, <3>2, <3>3
  <2>2. ASSUME NEW e, NEW f, elems' = Append(Append(elems, e), f), ElemOK(e), ElemOK(f)
        PROVE  \A c \in DOMAIN elems' : ElemOK(elems[c])'
    <3>1. /\ Len(elems) \in Nat /\ DOMAIN elems = 1..Len(elems)
          /\ DOMAIN elems' = 1..(Len(elems) + 2)
          /\ elems'[Len(elems) + 1] = e /\ elems'[Len(elems) + 2] = f
      <4> DEFINE es == Append(elems, e)
      <4>1. /\ IsSeq(es) /\ Len(es) = Len(elems) + 1 /\ Len(elems) \in Nat
            /\ es[Len(elems) + 1] = e /\ DOMAIN elems = 1..Len(elems)
        BY <2>0, AppendSeq, SeqType
      <4> HIDE DEF es
      <4>2. /\ IsSeq(elems') /\ Len(elems') = Len(es) + 1 /\ elems'[Len(es) + 1] = f
            /\ \A c \in 1..Len(es) : elems'[c] = es[c]
        BY <2>2, <4>1, AppendSeq DEF es
      <4> QED BY <4>1, <4>2, SeqType
    <3>2. \A c \in 1..(Len(elems) + 2) :
            c \in 1..Len(elems) \/ c = Len(elems) + 1 \/ c = Len(elems) + 2
      BY <3>1
    <3>3. ASSUME NEW c, c = Len(elems) + 1 \/ c = Len(elems) + 2 PROVE ElemOK(elems[c])'
      <4>1. elems'[c] = e \/ elems'[c] = f
        BY <3>1, <3>3
      <4> QED BY <1>5, <2>2, <4>1
    <3> QED BY <1>6, <3>1, <3>2, <3>3
  <2>3. ASSUME NEW op, NEW e, op = "push" /\ e = Param => HasParam(docs, Doc), Sec \in DOMAIN sections
        PROVE  ElemOK(Instruction(op, e))
    BY <2>3 DEF ElemOK, Instruction, Doc
  <2>4. CASE ExpandLabel
    <3>1. Sec \in DOMAIN sections
      BY <2>4, Where DEF ExpandLabel
    <3>2. elems' = elems \/ elems' = Append(elems, Instruction("jumpdest", Param))
      BY <2>4 DEF ExpandLabel
    <3> QED BY <1>6, <2>1, <2>3, <3>1, <3>2
  <2>5. CASE ExpandPush
    <3>1. /\ Sec \in DOMAIN sections /\ <<Doc, Frame.at>> \in Places(docs) /\ IsSource(docs)
          /\ Statement = docs[Doc].body[Frame.at] /\ Statement.is = "push"
      BY <2>5, Where DEF ExpandPush
    <3>2. Statement.arg = Param => HasParam(docs, Doc)
      BY <3>1 DEF IsSource
    <3>3. elems' = Append(elems, Instruction("push", Statement.arg))
      BY <2>5 DEF ExpandPush
    <3> QED BY <2>1, <2>3, <3>1, <3>2, <3>3
  <2>6. CASE ExpandJump
    <3>1. Sec \in DOMAIN sections
      BY <2>6, Where DEF ExpandJump
    <3>2. CASE elems' = elems
      BY <1>6, <3>2
    <3>3. CASE elems' # elems
      <4>1. elems' = elems \o <<Instruction("push", Ref(Statement.name)), Instruction("jump", Param)>>
        BY <2>6, <3>3 DEF ExpandJump
      <4>2. elems' = Append(Append(elems, Instruction("push", Ref(Statement.name))),
                            Instruction("jump", Param))
        BY <2>0, <4>1, AppendTwo
      <4>3. Ref(Statement.name) # Param
        BY DEF Ref, Param
      <4>4. ElemOK(Instruction("push", Ref(Statement.name))) /\ ElemOK(Instruction("jump", Param))
        BY <2>3, <3>1, <4>3
      <4> QED BY <2>2, <4>2, <4>4
    <3> QED BY <3>2, <3>3
  <2>7. CASE FinishExpansion
    <3>1. Sec \in DOMAIN sections
      <4>1. frames # <<>> /\ frames \in Frames
        BY <2>7 DEF FinishExpansion, TypeInv
      <4> QED BY <4>1, TopFrame DEF TypeInv, Sec, Frame
    <3>2. elems' = elems \/ elems' = Append(elems, Instruction("empty", Param))
      BY <2>7 DEF FinishExpansion
    <3> QED BY <1>6, <2>1, <2>3, <3>1, <3>2
  <2>8. CASE elems' = elems
    BY <1>6, <2>8
  <2> QED
    BY <2>4, <2>5, <2>6, <2>7, <2>8
    DEF Next, vars, ExpandCall, CallFails, ExpandInclude, LeaveSection, StartArgument,
        SkipInstruction, EvalVariable, EvalLabelRef, EvalFails, EvalDone, Done
<1> QED BY <1>7, <1>8 DEF ArgInv

\* ArgInv holds in every reachable state.
LEMMA ArgInvariant == Spec => []ArgInv
<1>1. Init => ArgInv
  <2> SUFFICES ASSUME Init PROVE ArgInv
    OBVIOUS
  <2>1. DOMAIN sections = {1} /\ sections[1].doc = 1 /\ sections[1].args = <<>>
        /\ DOMAIN elems = {}
    BY DEF Init
  <2>2. ~HasParam(docs, 1)
    <3>1. IsSource(docs) /\ 1 \in DOMAIN docs /\ docs[1].parent = 0
      BY SourcesAssumption DEF Init, IsSource
    <3>2. SUFFICES ASSUME NEW m \in DOMAIN docs, NEW k \in DOMAIN docs[m].body,
                          docs[m].body[k] = Include(1)
                   PROVE  FALSE
      BY <3>1 DEF HasParam
    <3>3. <<m, k>> \in Places(docs) /\ <<m, k>>[1] = m /\ <<m, k>>[2] = k
      BY DEF Places
    <3>4. Include(1).is = "include" /\ Include(1).doc = 1
      BY DEF Include
    <3>5. 1 > m
      BY <3>1, <3>2, <3>3, <3>4 DEF IsSource
    <3>6. m \in Nat \ {0}
      <4>1. IsList(docs)
        BY <3>1 DEF IsSource
      <4> QED BY <4>1 DEF IsList
    <3> QED BY <3>5, <3>6
  <2> QED BY <2>1, <2>2 DEF ArgInv, SectionOK
<1> QED
  BY <1>1, ArgStep, ExpansionTypeInv, PTL DEF Spec

-----------------------------------------------------------------------------
(* References *)

\* What the calls have given for the parameter is found by going from callsite to callsite.
LEMMA GivenEquation ==
  ASSUME IsSeq(sections), \A s \in DOMAIN sections : SectionOK(s),
         NEW s \in DOMAIN sections
  PROVE  Given[s] = IF sections[s].args = <<>> THEN [expr |-> Param, sec |-> s]
                    ELSE IF sections[s].args[1] # Param
                         THEN [expr |-> sections[s].args[1], sec |-> sections[s].callsite]
                         ELSE Given[sections[s].callsite]
<1> DEFINE N == Len(sections)
           F(f, t) == IF sections[t].args = <<>> THEN [expr |-> Param, sec |-> t]
                      ELSE IF sections[t].args[1] # Param
                           THEN [expr |-> sections[t].args[1], sec |-> sections[t].callsite]
                           ELSE f[sections[t].callsite]
           Covered == {n \in Nat : n <= N =>
                         \E f : f = [t \in 1..n |-> F(f, t)]}
<1>1. N \in Nat /\ DOMAIN sections = 1..N
  BY SeqType
<1>2. 0 \in Covered
  <2>1. [t \in 1..0 |-> t] = [t \in 1..0 |-> F([u \in 1..0 |-> u], t)]
    OBVIOUS
  <2> QED BY <2>1
<1>3. ASSUME NEW n \in Nat, n \in Covered PROVE n + 1 \in Covered
  <2>1. SUFFICES ASSUME n + 1 <= N PROVE \E f : f = [t \in 1..(n + 1) |-> F(f, t)]
    OBVIOUS
  <2>2. PICK g : g = [t \in 1..n |-> F(g, t)]
    BY <1>1, <1>3, <2>1
  <2> DEFINE h == [t \in 1..(n + 1) |-> F(g, t)]
  <2>3. \A t \in 1..(n + 1) : t \in 1..n \/ t = n + 1
    OBVIOUS
  <2>4. \A t \in 1..n : t \in 1..(n + 1) /\ h[t] = g[t]
    <3> HIDE DEF F
    <3>1. \A t \in 1..n : g[t] = F(g, t)
      BY <2>2
    <3>2. \A t \in 1..(n + 1) : h[t] = F(g, t)
      OBVIOUS
    <3> HIDE DEF h
    <3> QED BY <3>1, <3>2
  <2>5. ASSUME NEW t \in 1..(n + 1) PROVE F(g, t) = F(h, t)
    <3>1. t \in DOMAIN sections
      BY <1>1, <2>1
    <3>2. sections[t].args # <<>> =>
            sections[t].callsite \in DOMAIN sections /\ sections[t].callsite < t
      BY <3>1 DEF SectionOK
    <3>3. sections[t].args # <<>> => sections[t].callsite \in 1..n
      BY <1>1, <2>1, <3>2
    <3> HIDE DEF h
    <3> QED BY <2>4, <3>3
  <2>6. h = [t \in 1..(n + 1) |-> F(h, t)]
    <3> HIDE DEF F
    <3> QED BY <2>5
  <2> QED BY <2>6
<1>4. N \in Covered
  <2> HIDE DEF Covered
  <2> QED BY <1>1, <1>2, <1>3, InductiveSet
<1>5. \E f : f = [t \in DOMAIN sections |-> F(f, t)]
  BY <1>1, <1>4
<1>6. Given = CHOOSE f : f = [t \in DOMAIN sections |-> F(f, t)]
  BY DEF Given
<1>7. Given = [t \in DOMAIN sections |-> F(Given, t)]
  <2> HIDE DEF F
  <2> QED BY <1>5, <1>6
<1>8. Given[s] = F(Given, s)
  <2> HIDE DEF F
  <2> QED BY <1>7
<1> QED BY <1>8

\* Each key is registered with an instance that has it.
LEMMA RegisteredOK ==
  ASSUME NEW ls, IsSeq(ls), NEW k \in DOMAIN Registered(ls)
  PROVE  Registered(ls)[k] \in DOMAIN ls /\ Key(ls[Registered(ls)[k]]) = k
<1> DEFINE T == {i \in DOMAIN ls : Key(ls[i]) = k}
           Last(i) == Key(ls[i]) = k /\ \A j \in DOMAIN ls : Key(ls[j]) = k => j <= i
<1>1. k \in {Key(ls[i]) : i \in DOMAIN ls} /\ Registered(ls)[k] = CHOOSE i \in DOMAIN ls : Last(i)
  BY DEF Registered
<1>2. Len(ls) \in Nat /\ DOMAIN ls = 1..Len(ls)
  BY SeqType
<1>3. T \in SUBSET (1..Len(ls)) /\ T # {}
  BY <1>1, <1>2
<1>4. \E i \in T : \A j \in T : j <= i
  BY <1>2, <1>3, GreatestElement
<1>5. \E i \in DOMAIN ls : Last(i)
  BY <1>4
<1> HIDE DEF Last
<1>6. Registered(ls)[k] \in DOMAIN ls /\ Last(Registered(ls)[k])
  BY <1>1, <1>5
<1> QED BY <1>6 DEF Last

\* What a name refers to is a definition of the name in one of the documents.
LEMMA DefinitionsOK ==
  ASSUME TypeInv, LabelInv, NEW n, NEW s \in DOMAIN sections, NEW x \in Definitions(n, s)
  PROVE  /\ \E d \in DOMAIN docs : x \in DefinedIn(d, n)
         /\ n \notin Globals =>
              \/ x \in DefinedIn(sections[s].doc, n)
              \/ /\ DefinedIn(sections[s].doc, n) = {} /\ IsMacro(sections[s].doc)
                 /\ x \in DefinedIn(docs[sections[s].doc].parent, n)
<1>1. sections[s].doc \in DOMAIN docs
  BY DEF TypeInv
<1>2. CASE n \in Globals
  <2>1. CASE Instances(n) # {}
    <3>1. PICK i \in DOMAIN labels : labels[i].name = n /\ x = labels[i].def
      BY <1>2, <2>1 DEF Definitions, Instances
    <3>2. InstanceOK(labels[i])
      BY DEF LabelInv
    <3> QED BY <1>2, <3>1, <3>2 DEF InstanceOK, TypeInv
  <2>2. CASE Instances(n) = {}
    <3>1. x \in FirstLoaded(n)
      BY <1>2, <2>2 DEF Definitions
    <3>2. x \in UNION {DefinedIn(d, n) : d \in DOMAIN docs}
      BY <3>1 DEF FirstLoaded
    <3> QED BY <1>2, <3>2
  <2> QED BY <2>1, <2>2
<1>3. CASE n \notin Globals
  <2>1. \/ x \in DefinedIn(sections[s].doc, n)
        \/ /\ DefinedIn(sections[s].doc, n) = {} /\ IsMacro(sections[s].doc)
           /\ x \in DefinedIn(docs[sections[s].doc].parent, n)
    BY <1>3 DEF Definitions
  <2>2. IsMacro(sections[s].doc) => docs[sections[s].doc].parent \in DOMAIN docs
    <3>1. IsSource(docs)
      BY SourcesAssumption DEF TypeInv
    <3>2. docs[sections[s].doc].parent \in {0} \cup {f \in DOMAIN docs : docs[f].parent = 0}
      BY <1>1, <3>1 DEF IsSource
    <3> QED BY <3>2 DEF IsMacro
  <2> QED BY <1>1, <2>1, <2>2
<1> QED BY <1>2, <1>3

\* The argument in evaluation still names the label that is written for it.
EnvOK(e) ==
  /\ cur \in DOMAIN elems /\ elems[cur].op = "push" /\ e.sec \in DOMAIN sections
  /\ e.expr = Param => HasParam(docs, sections[e.sec].doc)
  /\ Written(e.expr, e.sec) = Written(elems[cur].arg, elems[cur].sec)

\* Instance l is of a definition that the written name refers to, in an enclosing document.
ResolvedOK(w, l) ==
  /\ w.sec \in DOMAIN sections
  /\ l.def \in Definitions(w.expr.name, w.sec)
  /\ l.name = w.expr.name
  /\ l.name \notin Globals => \E j \in DOMAIN Enclosing(w.sec) : l.doc = Enclosing(w.sec)[j]

RefInv ==
  /\ phase = "expand" => labelInstr = <<>> /\ env = <<>> /\ resolved = <<>>
  /\ \A k \in DOMAIN labelInstr :
       labelInstr[k] \in DOMAIN labels /\ Key(labels[labelInstr[k]]) = k
  /\ env # <<>> => EnvOK(env[1])
  /\ \A c \in DOMAIN resolved :
       /\ c \in DOMAIN elems /\ resolved[c] \in DOMAIN labels
       /\ ResolvedOK(Written(elems[c].arg, elems[c].sec), labels[resolved[c]])

\* A registered instance that a reference finds is one of what it names.
LEMMA FoundOK ==
  ASSUME TypeInv, LabelInv, RefInv, NEW e, e.sec \in DOMAIN sections, NEW k \in LabelKeys(e)
  PROVE  labelInstr[k] \in DOMAIN labels /\ ResolvedOK(e, labels[labelInstr[k]])
<1> DEFINE l == labels[labelInstr[k]]
           n == e.expr.name
           s == e.sec
<1>1. /\ k \in DOMAIN labelInstr
      /\ \E def \in Definitions(n, s) :
           IF n \in Globals THEN k = <<<<0, 0>>, def>>
           ELSE \E j \in DOMAIN Enclosing(s) : k = <<Enclosing(s)[j], def>>
  BY DEF LabelKeys
<1>2. PICK def \in Definitions(n, s) :
        IF n \in Globals THEN k = <<<<0, 0>>, def>>
        ELSE \E j \in DOMAIN Enclosing(s) : k = <<Enclosing(s)[j], def>>
  BY <1>1
<1>3. labelInstr[k] \in DOMAIN labels /\ Key(l) = k
  BY <1>1 DEF RefInv
<1>4. Key(l) = <<IF l.name \in Globals THEN <<0, 0>> ELSE l.doc, l.def>>
  BY DEF Key
<1> HIDE DEF l, n, s
<1>5. l.def = def /\ (l.name \notin Globals /\ n \notin Globals =>
                        \E j \in DOMAIN Enclosing(s) : l.doc = Enclosing(s)[j])
  BY <1>2, <1>3, <1>4
<1>6. l.name = n
  <2>1. InstanceOK(l)
    BY <1>3 DEF LabelInv, l
  <2>2. \E d \in DOMAIN docs : def \in DefinedIn(d, n)
    BY DefinitionsOK DEF s
  <2>3. PICK d, j : def = <<d, j>> /\ docs[d].body[j].name = n
    BY <2>2 DEF DefinedIn
  <2>4. PICK f, i : l.def = <<f, i>> /\ docs[f].body[i].name = l.name
    BY <2>1 DEF InstanceOK, DefinedIn
  <2> QED BY <1>5, <2>3, <2>4
<1> QED BY <1>3, <1>5, <1>6 DEF ResolvedOK, l, n, s

\* Every step of the evaluation finds what is written.
LEMMA RefStep == TypeInv /\ LabelInv /\ ArgInv /\ RefInv /\ [Next]_vars => RefInv'
<1> SUFFICES ASSUME TypeInv, LabelInv, ArgInv, RefInv, [Next]_vars PROVE RefInv'
  OBVIOUS
<1>1. Growth
  BY TypeStep
<1>2. CASE phase = "expand" /\ phase' = "expand" /\ UNCHANGED <<labelInstr, env, resolved>>
  <2>1. labelInstr = <<>> /\ env = <<>> /\ resolved = <<>>
    BY <1>2 DEF RefInv
  <2>2. DOMAIN labelInstr' = {} /\ DOMAIN resolved' = {} /\ env' = <<>>
    BY <1>2, <2>1
  <2> QED BY <1>2, <2>1, <2>2 DEF RefInv
<1>3. CASE FinishExpansion
  <2>1. /\ phase = "expand" /\ phase' = "eval" /\ labels' = Attach(labels)
        /\ labelInstr' = Registered(labels) /\ UNCHANGED <<env, resolved>>
    BY <1>3 DEF FinishExpansion
  <2>2. env' = <<>> /\ DOMAIN resolved' = {}
    BY <2>1 DEF RefInv
  <2>3. ASSUME NEW k \in DOMAIN Registered(labels)
        PROVE  /\ Registered(labels)[k] \in DOMAIN Attach(labels)
               /\ Key(Attach(labels)[Registered(labels)[k]]) = k
    <3>1. /\ IsSeq(labels) /\ IsSeq(elems) /\ \A i \in DOMAIN labels : IsLabel(labels[i])
      BY DEF TypeInv
    <3>2. Registered(labels)[k] \in DOMAIN labels /\ Key(labels[Registered(labels)[k]]) = k
      BY <3>1, RegisteredOK
    <3>3. /\ DOMAIN Attach(labels) = DOMAIN labels
          /\ \A i \in DOMAIN labels :
               /\ Attach(labels)[i].name = labels[i].name /\ Attach(labels)[i].doc = labels[i].doc
               /\ Attach(labels)[i].def = labels[i].def
      BY <3>1, AttachOK
    <3> HIDE DEF Registered, Attach
    <3> QED BY <3>2, <3>3 DEF Key
  <2>4. \A l : Key(l)' = Key(l)
    BY DEF Key
  <2>5. ASSUME NEW k \in DOMAIN labelInstr'
        PROVE  (labelInstr[k] \in DOMAIN labels /\ Key(labels[labelInstr[k]]) = k)'
    BY <2>1, <2>3 DEF Key
  <2> QED BY <2>1, <2>2, <2>5 DEF RefInv
<1>4. CASE /\ UNCHANGED <<docs, sections, elems, labels, labelInstr>>
           /\ phase # "expand" /\ phase' # "expand"
  <2>1. /\ \A e, s : Written(e, s)' = Written(e, s)
        /\ \A l : Key(l)' = Key(l)
        /\ \A d : HasParam(docs, d)' = HasParam(docs, d)
    BY <1>4 DEF Written, Given, Key, HasParam
  <2>2. \A w, l : ResolvedOK(w, l)' = ResolvedOK(w, l)
    BY <1>4 DEF ResolvedOK, Definitions, Instances, FirstLoaded, DefinedIn, Enclosing, Pointer,
                IsMacro
  <2>3. \A k \in DOMAIN labelInstr' :
          (labelInstr[k] \in DOMAIN labels /\ Key(labels[labelInstr[k]]) = k)'
    BY <1>4, <2>1 DEF RefInv
  <2>4. ASSUME NEW c \in DOMAIN resolved, resolved'[c] = resolved[c]
        PROVE  (/\ c \in DOMAIN elems /\ resolved[c] \in DOMAIN labels
                /\ ResolvedOK(Written(elems[c].arg, elems[c].sec), labels[resolved[c]]))'
    <3>1. /\ c \in DOMAIN elems /\ resolved[c] \in DOMAIN labels
          /\ ResolvedOK(Written(elems[c].arg, elems[c].sec), labels[resolved[c]])
      BY DEF RefInv
    <3> QED BY <1>4, <2>1, <2>2, <2>4, <3>1
  <2>5. ASSUME NEW e, NEW f, EnvOK(e), f = e, cur' = cur PROVE EnvOK(f)'
    BY <1>4, <2>1, <2>5 DEF EnvOK
  <2>6. CASE UNCHANGED <<env, resolved>> /\ (env = <<>> \/ cur' = cur)
    <3>1. \A c \in DOMAIN resolved' :
            (/\ c \in DOMAIN elems /\ resolved[c] \in DOMAIN labels
             /\ ResolvedOK(Written(elems[c].arg, elems[c].sec), labels[resolved[c]]))'
      BY <2>4, <2>6
    <3>2. env' # <<>> => EnvOK(env[1])'
      <4>1. env # <<>> => EnvOK(env[1])
        BY DEF RefInv
      <4> QED BY <2>5, <2>6, <4>1
    <3> QED BY <1>4, <2>3, <3>1, <3>2 DEF RefInv
  <2>7. CASE StartArgument \/ EvalVariable
    <3>1. UNCHANGED <<resolved, cur>> /\ Evaluating
      BY <2>7 DEF StartArgument, EvalVariable
    <3>2. cur \in DOMAIN elems
      <4>1. IsSeq(elems) /\ cur \in Nat \ {0} /\ cur <= Len(elems)
        BY <3>1 DEF Evaluating, TypeInv
      <4> QED BY <4>1, SeqType
    <3>3. \A c \in DOMAIN resolved' :
            (/\ c \in DOMAIN elems /\ resolved[c] \in DOMAIN labels
             /\ ResolvedOK(Written(elems[c].arg, elems[c].sec), labels[resolved[c]]))'
      BY <2>4, <3>1
    <3>4. ASSUME NEW e, env' = <<e>>, EnvOK(e) PROVE EnvOK(env[1])'
      <4>1. env'[1] = e
        BY <3>4
      <4> QED BY <2>5, <3>1, <3>4, <4>1
    <3>5. CASE StartArgument
      <4> DEFINE e == [expr |-> elems[cur].arg, sec |-> elems[cur].sec]
      <4>1. env' = <<e>> /\ elems[cur].op = "push"
        BY <3>5 DEF StartArgument
      <4>2. ElemOK(elems[cur])
        BY <3>2 DEF ArgInv
      <4>3. EnvOK(e)
        BY <3>2, <4>1, <4>2 DEF EnvOK, ElemOK
      <4> HIDE DEF e
      <4>4. EnvOK(env[1])'
        BY <3>4, <4>1, <4>3
      <4> QED BY <1>4, <2>3, <3>3, <4>4 DEF RefInv
    <3>6. CASE EvalVariable
      <4> DEFINE s == env[1].sec
                 e == [expr |-> sections[s].args[1], sec |-> sections[s].callsite]
      <4>1. env' = <<e>> /\ env # <<>> /\ env[1].expr = Param
        BY <3>6 DEF EvalVariable, Args, Expr
      <4>2. EnvOK(env[1])
        BY <4>1 DEF RefInv
      <4>3. s \in DOMAIN sections /\ HasParam(docs, sections[s].doc)
            /\ Given[s] = Written(elems[cur].arg, elems[cur].sec)
        BY <4>1, <4>2 DEF EnvOK, Written
      <4>4. /\ sections[s].args # <<>> /\ sections[s].callsite \in DOMAIN sections
            /\ sections[s].args[1] = Param => HasParam(docs, sections[sections[s].callsite].doc)
        <5>1. SectionOK(s)
          BY <4>3 DEF ArgInv
        <5> QED BY <4>3, <5>1 DEF SectionOK
      <4>5. Given[s] = IF sections[s].args[1] # Param THEN e ELSE Given[sections[s].callsite]
        <5>1. IsSeq(sections) /\ \A t \in DOMAIN sections : SectionOK(t)
          BY DEF TypeInv, ArgInv
        <5> HIDE DEF s
        <5>2. Given[s] = IF sections[s].args = <<>> THEN [expr |-> Param, sec |-> s]
                         ELSE IF sections[s].args[1] # Param
                         THEN [expr |-> sections[s].args[1], sec |-> sections[s].callsite]
                         ELSE Given[sections[s].callsite]
          BY <4>3, <5>1, GivenEquation
        <5> QED BY <4>4, <5>2
      <4>6. Written(e.expr, e.sec) = Given[s]
        BY <4>5 DEF Written
      <4>7. EnvOK(e)
        BY <3>2, <4>2, <4>3, <4>4, <4>6 DEF EnvOK
      <4> HIDE DEF e
      <4>8. EnvOK(env[1])'
        BY <3>4, <4>1, <4>7
      <4> QED BY <1>4, <2>3, <3>3, <4>8 DEF RefInv
    <3> QED BY <2>7, <3>5, <3>6
  <2>8. CASE EvalLabelRef
    <3>1. /\ env # <<>> /\ Expr # Param /\ env' = <<>>
          /\ \E k \in LabelKeys(env[1]) :
               resolved' = [i \in DOMAIN resolved \cup {cur} |->
                              IF i = cur THEN labelInstr[k] ELSE resolved[i]]
      BY <2>8 DEF EvalLabelRef
    <3>2. PICK k \in LabelKeys(env[1]) :
            resolved' = [i \in DOMAIN resolved \cup {cur} |->
                           IF i = cur THEN labelInstr[k] ELSE resolved[i]]
      BY <3>1
    <3>3. EnvOK(env[1])
      BY <3>1 DEF RefInv
    <3>4. labelInstr[k] \in DOMAIN labels /\ ResolvedOK(env[1], labels[labelInstr[k]])
      BY <3>3, FoundOK DEF EnvOK
    <3>5. Written(elems[cur].arg, elems[cur].sec) = [expr |-> env[1].expr, sec |-> env[1].sec]
      BY <3>1, <3>3 DEF EnvOK, Written, Expr
    <3>6. ResolvedOK(Written(elems[cur].arg, elems[cur].sec), labels[labelInstr[k]])
      <4> DEFINE w == [expr |-> env[1].expr, sec |-> env[1].sec]
      <4>1. w.expr = env[1].expr /\ w.sec = env[1].sec
        OBVIOUS
      <4> HIDE DEF w
      <4>2. ResolvedOK(w, labels[labelInstr[k]])
        BY <3>4, <4>1 DEF ResolvedOK
      <4> QED BY <3>5, <4>2 DEF w
    <3>7. ASSUME NEW c \in DOMAIN resolved'
          PROVE  (/\ c \in DOMAIN elems /\ resolved[c] \in DOMAIN labels
                  /\ ResolvedOK(Written(elems[c].arg, elems[c].sec), labels[resolved[c]]))'
      <4>1. CASE c = cur
        <5>1. resolved'[c] = labelInstr[k] /\ c \in DOMAIN elems
          BY <3>2, <3>3, <4>1 DEF EnvOK
        <5> QED BY <1>4, <2>1, <2>2, <3>4, <3>6, <4>1, <5>1
      <4>2. CASE c # cur
        <5>1. c \in DOMAIN resolved /\ resolved'[c] = resolved[c]
          BY <3>2, <4>2
        <5> QED BY <2>4, <5>1
      <4> QED BY <4>1, <4>2
    <3> QED BY <1>4, <2>3, <3>1, <3>7 DEF RefInv
  <2> QED
    <3>1. StartArgument \/ SkipInstruction \/ EvalVariable \/ EvalLabelRef \/ EvalFails
          \/ EvalDone \/ UNCHANGED vars
      BY <1>4 DEF Next, ExpandLabel, ExpandPush, ExpandJump, ExpandCall, CallFails,
                  ExpandInclude, LeaveSection, FinishExpansion, Done, AtStatement
    <3>2. CASE SkipInstruction
      <4>1. UNCHANGED <<env, resolved>> /\ elems[cur].op # "push"
        BY <3>2 DEF SkipInstruction
      <4>2. env = <<>>
        BY <4>1 DEF RefInv, EnvOK
      <4> QED BY <2>6, <4>1, <4>2
    <3> QED BY <2>6, <2>7, <2>8, <3>1, <3>2 DEF EvalFails, EvalDone, vars
<1> QED
  BY <1>2, <1>3, <1>4
  DEF Next, vars, ExpandLabel, ExpandPush, ExpandJump, ExpandCall, CallFails, ExpandInclude,
      LeaveSection, StartArgument, SkipInstruction, EvalVariable, EvalLabelRef, EvalFails,
      EvalDone, Done, AtStatement, Evaluating

\* RefInv holds in every reachable state.
LEMMA RefInvariant == Spec => []RefInv
<1>1. Init => RefInv
  <2> SUFFICES ASSUME Init PROVE RefInv
    OBVIOUS
  <2>1. /\ labelInstr = <<>> /\ env = <<>> /\ resolved = <<>>
        /\ DOMAIN labelInstr = {} /\ DOMAIN resolved = {}
    BY DEF Init
  <2> QED BY <2>1 DEF RefInv
<1> QED
  BY <1>1, RefStep, ExpansionTypeInv, LabelInvariant, ArgInvariant, PTL DEF Spec

\* No file is expanded a second time, as one that a macro includes is when the macro is called
\* again.
FilesExpandedOnce ==
  \A s, t \in DOMAIN sections :
    sections[s].doc = sections[t].doc /\ ~IsMacro(sections[s].doc) => s = t

\* As long as no file is expanded twice, a local label found for an argument is an instance of
\* the section in which the argument is written or of the file around it.  The condition is
\* necessary: the instances of a file that is expanded twice have the same key.
THEOREM ExpansionOwnLabels == Spec => [](FilesExpandedOnce => OwnLabels)
<1>1. TypeInv /\ LabelInv /\ RefInv => (FilesExpandedOnce => OwnLabels)
  <2> SUFFICES ASSUME TypeInv, LabelInv, RefInv, FilesExpandedOnce, NEW c \in DOMAIN resolved
               PROVE  LET w == Written(elems[c].arg, elems[c].sec)
                          l == labels[resolved[c]]
                          d == sections[w.sec].doc
                      IN  /\ l.name = w.expr.name
                          /\ l.name \notin Globals =>
                               IF DefinedIn(d, l.name) # {} THEN l.sec = w.sec
                               ELSE IsMacro(d) /\ sections[l.sec].doc = docs[d].parent
    BY DEF OwnLabels
  <2> DEFINE w == Written(elems[c].arg, elems[c].sec)
             l == labels[resolved[c]]
             d == sections[w.sec].doc
  <2>1. resolved[c] \in DOMAIN labels /\ ResolvedOK(w, l)
    BY DEF RefInv
  <2>2. InstanceOK(l)
    BY <2>1 DEF LabelInv
  <2> HIDE DEF w, l
  <2>3. l.name = w.expr.name /\ w.sec \in DOMAIN sections
    BY <2>1 DEF ResolvedOK
  <2>4. ASSUME l.name \notin Globals
        PROVE  IF DefinedIn(d, l.name) # {} THEN l.sec = w.sec
               ELSE IsMacro(d) /\ sections[l.sec].doc = docs[d].parent
    <3>1. \/ l.def \in DefinedIn(d, l.name)
          \/ /\ DefinedIn(d, l.name) = {} /\ IsMacro(d)
             /\ l.def \in DefinedIn(docs[d].parent, l.name)
      BY <2>1, <2>3, <2>4, DefinitionsOK DEF ResolvedOK
    <3>2. /\ l.sec \in DOMAIN sections /\ l.doc = Pointer(l.sec)
          /\ l.def \in DefinedIn(sections[l.sec].doc, l.name)
      BY <2>2 DEF InstanceOK
    <3>3. \A e, f : l.def \in DefinedIn(e, l.name) /\ l.def \in DefinedIn(f, l.name) => e = f
      BY DEF DefinedIn
    <3>4. CASE l.def \in DefinedIn(d, l.name)
      <4>1. sections[l.sec].doc = d /\ DefinedIn(d, l.name) # {}
        BY <3>2, <3>3, <3>4
      <4>2. CASE ~IsMacro(d)
        <5>1. l.sec = w.sec
          BY <2>3, <3>2, <4>1, <4>2 DEF FilesExpandedOnce
        <5> QED BY <4>1, <5>1
      <4>3. CASE IsMacro(d)
        <5>1. l.doc = <<d, l.sec>> /\ l.sec # 0
          <6>1. l.sec \in Nat \ {0}
            BY <3>2, SeqType DEF TypeInv
          <6> QED BY <3>2, <4>1, <4>3, <6>1 DEF Pointer
        <5>2. PICK j \in DOMAIN Enclosing(w.sec) : l.doc = Enclosing(w.sec)[j]
          BY <2>1, <2>4 DEF ResolvedOK
        <5>3. Enclosing(w.sec) = <<<<d, w.sec>>, <<d, 0>>, <<docs[d].parent, 0>>>>
          BY <4>3 DEF Enclosing, Pointer
        <5>4. l.doc \in {<<d, w.sec>>, <<d, 0>>, <<docs[d].parent, 0>>}
          BY <5>2, <5>3
        <5>5. l.sec = w.sec
          BY <5>1, <5>4
        <5> QED BY <4>1, <5>5
      <4> QED BY <4>2, <4>3
    <3>5. CASE /\ DefinedIn(d, l.name) = {} /\ IsMacro(d)
               /\ l.def \in DefinedIn(docs[d].parent, l.name)
      BY <3>2, <3>3, <3>5
    <3> QED BY <3>1, <3>4, <3>5
  <2> QED BY <2>3, <2>4 DEF w, l
<1> QED
  BY <1>1, ExpansionTypeInv, LabelInvariant, RefInvariant, PTL

-----------------------------------------------------------------------------
(* Jumps *)

\* Name n has a definition that is no dotted label and, if it is local, no other.
Undotted(n, s) ==
  IF n \in Globals THEN \E d \in DOMAIN docs : \E x \in DefinedIn(d, n) : ~Dotted(x)
  ELSE \A x \in Definitions(n, s) : ~Dotted(x)

JumpOK(e) == e.arg = Ref(e.arg.name) /\ Undotted(e.arg.name, e.sec)

LandsOK(l) == ~Dotted(l.def) => l.instr \in DOMAIN elems /\ elems[l.instr].op = "jumpdest"

\* The instruction before a jump pushes a name that stood for a JUMPDEST, and a label that is
\* not dotted stands for one.
JumpInv ==
  /\ \A c \in DOMAIN elems :
       c + 1 \in DOMAIN elems /\ elems[c + 1].op = "jump" => JumpOK(elems[c])
  /\ \A i \in DOMAIN labels : LandsOK(labels[i])

\* A name that passes the check of a jump, now or later.
LEMMA CheckedJump ==
  ASSUME TypeInv, LabelInv, NEW n, NEW s \in DOMAIN sections, Definitions(n, s) # {},
         \A def \in Definitions(n, s) : ~Dotted(def)
  PROVE  Undotted(n, s)
<1>1. PICK x \in Definitions(n, s) : TRUE
  OBVIOUS
<1>2. \E d \in DOMAIN docs : x \in DefinedIn(d, n)
  BY DefinitionsOK
<1> QED BY <1>1, <1>2 DEF Undotted

\* Instructions are added at the end, with the push of a jump before it.
LEMMA JumpStep == TypeInv /\ LabelInv /\ ArgInv /\ JumpInv /\ [Next]_vars => JumpInv'
<1> SUFFICES ASSUME TypeInv, LabelInv, ArgInv, JumpInv, [Next]_vars PROVE JumpInv'
  OBVIOUS
<1> DEFINE n == Len(elems)
<1>1. Growth
  BY TypeStep
<1>2. IsSeq(elems) /\ n \in Nat /\ DOMAIN elems = 1..n
      /\ IsSeq(labels) /\ \A i \in DOMAIN labels : IsLabel(labels[i])
  BY SeqType DEF TypeInv
<1>3. ASSUME NEW e, NEW f, e.sec \in DOMAIN sections, JumpOK(e), f = e PROVE JumpOK(f)'
  <2>1. \A d, m : DefinedIn(d, m)' = DefinedIn(d, m)
    BY <1>1 DEF DefinedIn, Growth
  <2>2. \A x : Dotted(x)' = Dotted(x)
    BY <1>1 DEF Dotted, Growth
  <2>3. ASSUME NEW m, m \notin Globals, NEW s \in DOMAIN sections
        PROVE  Definitions(m, s)' = Definitions(m, s)
    <3>1. sections'[s] = sections[s] /\ docs' = docs
      BY <1>1 DEF Growth
    <3> QED BY <2>1, <2>3, <3>1 DEF Definitions, IsMacro
  <2>4. ASSUME NEW m, NEW s \in DOMAIN sections, Undotted(m, s) PROVE Undotted(m, s)'
    <3>1. docs' = docs
      BY <1>1 DEF Growth
    <3> QED BY <2>1, <2>2, <2>3, <2>4, <3>1 DEF Undotted
  <2> QED BY <1>3, <2>4 DEF JumpOK
<1>4. ASSUME NEW l, NEW m, LandsOK(l), m.def = l.def, l.instr # 0 => m.instr = l.instr
      PROVE  LandsOK(m)'
  <2>1. \A x : Dotted(x)' = Dotted(x)
    BY <1>1 DEF Dotted, Growth
  <2>2. l.instr \in DOMAIN elems =>
          l.instr # 0 /\ l.instr \in DOMAIN elems' /\ elems'[l.instr] = elems[l.instr]
    BY <1>1, <1>2 DEF Growth
  <2> HIDE DEF n
  <2> QED BY <1>4, <2>1, <2>2 DEF LandsOK
<1>5. ASSUME NEW i \in DOMAIN labels PROVE LandsOK(labels[i])'
  <2>1. labels'[i].def = labels[i].def /\ (labels[i].instr # 0 => labels'[i].instr = labels[i].instr)
    BY <1>1 DEF Growth
  <2>2. LandsOK(labels[i])
    BY DEF JumpInv
  <2> QED BY <1>4, <2>1, <2>2
<1>6. \A i \in DOMAIN labels' : LandsOK(labels[i])'
  <2>1. CASE ~(ExpandLabel /\ ~Duplicate(Statement))
    BY <1>5, <2>1, SameLabels
  <2>2. CASE ExpandLabel /\ ~Duplicate(Statement)
    <3> DEFINE p == Len(labels)
    <3>1. /\ p \in Nat /\ DOMAIN labels = 1..p /\ DOMAIN labels' = 1..(p + 1)
          /\ labels'[p + 1].def = <<Doc, Frame.at>>
          /\ ~Statement.dotted => /\ labels'[p + 1].instr = n + 1
                                  /\ elems' = Append(elems, Instruction("jumpdest", Param))
      <4>1. /\ IsSeq(labels') /\ Len(labels') = p + 1
            /\ labels'[p + 1].def = <<Doc, Frame.at>>
            /\ ~Statement.dotted => /\ labels'[p + 1].instr = n + 1
                                    /\ elems' = Append(elems, Instruction("jumpdest", Param))
        BY <2>2, LabelAdded
      <4> QED BY <1>2, <4>1, SeqType
    <3>2. docs' = docs /\ Dotted(<<Doc, Frame.at>>) = Statement.dotted
      BY <1>1 DEF Dotted, Growth, Statement
    <3>3. ASSUME ~Statement.dotted
          PROVE  n + 1 \in DOMAIN elems' /\ elems'[n + 1].op = "jumpdest"
      <4>1. elems' = Append(elems, Instruction("jumpdest", Param))
        BY <3>1, <3>3
      <4>2. /\ DOMAIN elems' = 1..(n + 1) /\ elems'[n + 1] = Instruction("jumpdest", Param)
        BY <1>2, <4>1, AppendSeq, SeqType
      <4> QED BY <1>2, <4>2 DEF Instruction
    <3>4. ASSUME NEW i, i = p + 1 PROVE LandsOK(labels[i])'
      <4>1. labels'[i].def = <<Doc, Frame.at>> /\ (~Statement.dotted => labels'[i].instr = n + 1)
        BY <3>1, <3>4
      <4> HIDE DEF n, p
      <4>2. Dotted(labels[i].def)' = Statement.dotted
        BY <3>2, <4>1 DEF Dotted
      <4> QED BY <3>3, <4>1, <4>2 DEF LandsOK
    <3>5. \A i \in 1..(p + 1) : i \in 1..p \/ i = p + 1
      BY <3>1
    <3> HIDE DEF p
    <3> QED BY <1>5, <3>1, <3>4, <3>5
  <2> QED BY <2>1, <2>2
<1>7. ASSUME NEW c \in DOMAIN elems, c + 1 \in DOMAIN elems, elems'[c + 1].op = "jump"
      PROVE  JumpOK(elems[c])'
  <2>1. elems'[c] = elems[c] /\ elems[c + 1].op = "jump"
    BY <1>1, <1>7 DEF Growth
  <2>2. JumpOK(elems[c]) /\ elems[c].sec \in DOMAIN sections
    BY <1>7, <2>1 DEF JumpInv, ArgInv, ElemOK
  <2> QED BY <1>3, <2>1, <2>2
<1>8. ASSUME NEW e, elems' = Append(elems, e), e.op # "jump"
      PROVE  \A c \in DOMAIN elems' :
               c + 1 \in DOMAIN elems' /\ elems'[c + 1].op = "jump" => JumpOK(elems[c])'
  <2>1. DOMAIN elems' = 1..(n + 1) /\ elems'[n + 1] = e
    BY <1>2, <1>8, AppendSeq, SeqType
  <2>2. \A c \in 1..(n + 1) : c + 1 \in 1..(n + 1) =>
          (c \in 1..n /\ c + 1 \in 1..n) \/ c + 1 = n + 1
    BY <1>2
  <2> HIDE DEF n
  <2> QED BY <1>2, <1>7, <1>8, <2>1, <2>2
<1>9. ASSUME NEW e, NEW f, elems' = elems \o <<e, f>>, JumpOK(e), e.op # "jump",
             e.sec \in DOMAIN sections
      PROVE  \A c \in DOMAIN elems' :
               c + 1 \in DOMAIN elems' /\ elems'[c + 1].op = "jump" => JumpOK(elems[c])'
  <2> DEFINE es == Append(elems, e)
  <2>1. /\ IsSeq(es) /\ Len(es) = n + 1 /\ es[n + 1] = e
    BY <1>2, AppendSeq
  <2>2. elems' = Append(es, f)
    BY <1>2, <1>9, AppendTwo
  <2> HIDE DEF es
  <2>3. /\ DOMAIN elems' = 1..(n + 2) /\ elems'[n + 1] = e
    <3>1. /\ IsSeq(elems') /\ Len(elems') = Len(es) + 1
          /\ \A c \in 1..Len(es) : elems'[c] = es[c]
      BY <2>1, <2>2, AppendSeq
    <3>2. DOMAIN elems' = 1..(n + 2)
      BY <1>2, <2>1, <3>1, SeqType
    <3> QED BY <1>2, <2>1, <3>1, <3>2
  <2>4. \A c \in 1..(n + 2) : c + 1 \in 1..(n + 2) =>
          (c \in 1..n /\ c + 1 \in 1..n) \/ c + 1 = n + 1 \/ c = n + 1
    BY <1>2
  <2>5. ASSUME NEW c, c = n + 1 PROVE JumpOK(elems[c])'
    <3>1. elems'[c] = e
      BY <2>3, <2>5
    <3> QED BY <1>3, <1>9, <3>1
  <2> HIDE DEF n
  <2> QED BY <1>2, <1>7, <1>9, <2>3, <2>4, <2>5
<1>10. CASE elems' = elems
  BY <1>6, <1>7, <1>10 DEF JumpInv
<1>11. CASE ExpandLabel \/ ExpandPush \/ FinishExpansion
  <2>1. elems' = elems \/ \E e : elems' = Append(elems, e) /\ e.op # "jump"
    <3>1. \A x, y : Instruction(x, y).op = x
      BY DEF Instruction
    <3>2. elems' = elems \/ \E x, y : x # "jump" /\ elems' = Append(elems, Instruction(x, y))
      <4>1. CASE ExpandLabel
        <5>1. elems' = elems \/ elems' = Append(elems, Instruction("jumpdest", Param))
          BY <4>1 DEF ExpandLabel
        <5> QED BY <5>1
      <4>2. CASE ExpandPush
        <5>1. elems' = Append(elems, Instruction("push", Statement.arg))
          BY <4>2 DEF ExpandPush
        <5> QED BY <5>1
      <4>3. CASE FinishExpansion
        <5>1. elems' = elems \/ elems' = Append(elems, Instruction("empty", Param))
          BY <4>3 DEF FinishExpansion
        <5> QED BY <5>1
      <4> QED BY <1>11, <4>1, <4>2, <4>3
    <3> QED BY <3>1, <3>2
  <2> QED BY <1>6, <1>8, <1>10, <2>1 DEF JumpInv
<1>12. CASE ExpandJump /\ elems' # elems
  <2> DEFINE e == Instruction("push", Ref(Statement.name))
             f == Instruction("jump", Param)
             defs == Definitions(Statement.name, Sec)
  <2>1. /\ AtStatement("jump") /\ elems' = elems \o <<e, f>>
        /\ defs # {} /\ \A def \in defs : ~Dotted(def)
    BY <1>12 DEF ExpandJump
  <2>2. Sec \in DOMAIN sections
    BY <2>1, Where
  <2>3. Undotted(Statement.name, Sec)
    BY <2>1, <2>2, CheckedJump
  <2>4. /\ e.op = "push" /\ e.arg = Ref(Statement.name) /\ e.sec = Sec
        /\ Ref(Statement.name).name = Statement.name
    BY DEF Instruction, Ref
  <2> HIDE DEF e, f, defs
  <2>5. JumpOK(e)
    BY <2>3, <2>4 DEF JumpOK
  <2> QED BY <1>6, <1>9, <2>1, <2>2, <2>4, <2>5 DEF JumpInv
<1> QED
  BY <1>10, <1>11, <1>12
  DEF Next, vars, ExpandCall, CallFails, ExpandInclude, LeaveSection, StartArgument,
      SkipInstruction, EvalVariable, EvalLabelRef, EvalFails, EvalDone, Done

\* JumpInv holds in every reachable state.
LEMMA JumpInvariant == Spec => []JumpInv
<1>1. Init => JumpInv
  BY DEF Init, JumpInv
<1> QED
  BY <1>1, JumpStep, ExpansionTypeInv, LabelInvariant, ArgInvariant, PTL DEF Spec

\* The definitions of a global name, the documents over, are all dotted or all not.
SameDots ==
  \A n \in Globals : \A d, e \in DOMAIN docs :
    \A x \in DefinedIn(d, n), y \in DefinedIn(e, n) : Dotted(x) = Dotted(y)

\* A `jump @label' that the compiler accepts lands on a JUMPDEST, provided that no global name
\* has both dotted and other definitions: the check of the jump may have seen one of them and
\* the evaluation another.
THEOREM ExpansionJumpsLand == Spec => [](SameDots => JumpsLand)
<1>1. TypeInv /\ LabelInv /\ RefInv /\ JumpInv => (SameDots => JumpsLand)
  <2> SUFFICES ASSUME TypeInv, LabelInv, RefInv, JumpInv, SameDots,
                      NEW c \in DOMAIN resolved, c < Len(elems), elems[c + 1].op = "jump"
               PROVE  LET i == labels[resolved[c]].instr
                      IN  i \in DOMAIN elems /\ elems[i].op = "jumpdest"
    BY DEF JumpsLand
  <2> DEFINE w == Written(elems[c].arg, elems[c].sec)
             l == labels[resolved[c]]
             n == elems[c].arg.name
             s == elems[c].sec
  <2>1. c \in DOMAIN elems /\ resolved[c] \in DOMAIN labels /\ ResolvedOK(w, l)
    BY DEF RefInv
  <2>2. c + 1 \in DOMAIN elems
    BY <2>1, SeqType DEF TypeInv
  <2>3. elems[c].arg = Ref(n) /\ Undotted(n, s)
    BY <2>1, <2>2 DEF JumpInv, JumpOK
  <2>4. w = [expr |-> Ref(n), sec |-> s] /\ Ref(n).name = n
    BY <2>3 DEF Written, Ref, Param
  <2> HIDE DEF w, l, n, s
  <2>5. l.def \in Definitions(n, s) /\ s \in DOMAIN sections
    BY <2>1, <2>4 DEF ResolvedOK
  <2>6. ~Dotted(l.def)
    <3>1. CASE n \in Globals
      <4>1. PICK d \in DOMAIN docs : l.def \in DefinedIn(d, n)
        BY <2>5, DefinitionsOK
      <4>2. PICK e \in DOMAIN docs : \E x \in DefinedIn(e, n) : ~Dotted(x)
        BY <2>3, <3>1 DEF Undotted
      <4> QED BY <3>1, <4>1, <4>2 DEF SameDots
    <3>2. CASE n \notin Globals
      BY <2>3, <2>5, <3>2 DEF Undotted
    <3> QED BY <3>1, <3>2
  <2>7. LandsOK(l)
    BY <2>1 DEF JumpInv, l
  <2> QED BY <2>6, <2>7 DEF LandsOK, l
<1> QED
  BY <1>1, ExpansionTypeInv, LabelInvariant, RefInvariant, JumpInvariant, PTL
================================================================================
