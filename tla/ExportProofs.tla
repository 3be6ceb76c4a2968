---------------------------- MODULE ExportProofs ----------------------------
(***************************************************************************)
(* The exporters and the loops over the bytes of a string.                 *)
(*                                                                         *)
(* Exporters: what is held for the frames of the recursion bounds the      *)
(* scratch memory, for every document and whichever step fails; what a     *)
(* JSON or YAML export has written is the beginning of a text of the       *)
(* format's grammar (TreesProofs), and all of it when the call succeeds.   *)
(*                                                                         *)
(* The verifier's UTF-8 check: the row lemmas say that the checks on the   *)
(* code point are the rows of the Unicode table; the induction is over the *)
(* turns of the loop.  What is accepted tiles the text, and the index      *)
(* stays on every possible cut of it.                                      *)
(***************************************************************************)
EXTENDS MCExport, MCText, TreesProofs, FiniteSetTheorems, SequenceTheorems

-----------------------------------------------------------------------------
(* Every document of an export is a tree *)

\* Every document of the JSON export is a tree.
LEMMA JsonTree == J!SomeDocument => DocTree(doc)
<1> SUFFICES ASSUME J!SomeDocument PROVE DocTree(doc)
  OBVIOUS
<1>1. PICK n \in 0 .. MaxNodes : \E f \in Forests(n) : doc.size = n /\ doc.children = ChildLists(f, n)
  <2>1. PICK n \in 0 .. MaxNodes : \E f \in J!Forests(n) : doc.size = n /\ doc.children = J!ChildLists(f, n)
    BY DEF J!SomeDocument
  <2>2. PICK f \in J!Forests(n) : doc.size = n /\ doc.children = J!ChildLists(f, n)
    BY <2>1
  <2>3. f \in Forests(n)
    BY <2>2 DEF J!Forests, Forests
  <2>4. doc.children = ChildLists(f, n)
    BY <2>2 DEF J!ChildLists, ChildLists
  <2> QED BY <2>2, <2>3, <2>4
<1>2. PICK f \in Forests(n) : doc.size = n /\ doc.children = ChildLists(f, n)
  BY <1>1
<1> QED BY <1>2, ListsAreTree

\* Every document of the YAML export is a tree.
LEMMA YamlTree == Y!SomeDocument => DocTree(doc)
<1> SUFFICES ASSUME Y!SomeDocument PROVE DocTree(doc)
  OBVIOUS
<1>1. PICK n \in 0 .. MaxNodes : \E f \in Forests(n) : doc.size = n /\ doc.children = ChildLists(f, n)
  <2>1. PICK n \in 0 .. MaxNodes : \E f \in Y!Forests(n) : doc.size = n /\ doc.children = Y!ChildLists(f, n)
    BY DEF Y!SomeDocument
  <2>2. PICK f \in Y!Forests(n) : doc.size = n /\ doc.children = Y!ChildLists(f, n)
    BY <2>1
  <2>3. f \in Forests(n)
    BY <2>2 DEF Y!Forests, Forests
  <2>4. doc.children = ChildLists(f, n)
    BY <2>2 DEF Y!ChildLists, ChildLists
  <2> QED BY <2>2, <2>3, <2>4
<1>2. PICK f \in Forests(n) : doc.size = n /\ doc.children = ChildLists(f, n)
  BY <1>1
<1> QED BY <1>2, ListsAreTree

\* Every document of the INI export is a tree.
LEMMA IniTree == I!SomeDocument => DocTree(doc)
<1> SUFFICES ASSUME I!SomeDocument PROVE DocTree(doc)
  OBVIOUS
<1>1. PICK n \in 0 .. MaxNodes : \E f \in Forests(n) : doc.size = n /\ doc.children = ChildLists(f, n)
  <2>1. PICK n \in 0 .. MaxNodes : \E f \in I!Forests(n) : doc.size = n /\ doc.children = I!ChildLists(f, n)
    BY DEF I!SomeDocument
  <2>2. PICK f \in I!Forests(n) : doc.size = n /\ doc.children = I!ChildLists(f, n)
    BY <2>1
  <2>3. f \in Forests(n)
    BY <2>2 DEF I!Forests, Forests
  <2>4. doc.children = ChildLists(f, n)
    BY <2>2 DEF I!ChildLists, ChildLists
  <2> QED BY <2>2, <2>3, <2>4
<1>2. PICK f \in Forests(n) : doc.size = n /\ doc.children = ChildLists(f, n)
  BY <1>1
<1> QED BY <1>2, ListsAreTree

-----------------------------------------------------------------------------
(* JSON: scratch memory is held for the frames of the recursion *)

JsonHolds ==
    /\ FrameList(stack)
    /\ pc \in {"entry", "value", "unwind"} => Len(stack) >= 1
    /\ pc \in {"start", "returned"} => stack = <<>>
    /\ scratch \subseteq HeldFor(stack)

(* Every way through a value or an entry leaves the frames or advances one. *)
LEMMA JsonHoldsStep == JsonHolds /\ J!Next => JsonHolds'
<1> SUFFICES ASSUME JsonHolds, J!Next PROVE JsonHolds'
  OBVIOUS
<1>0. /\ FrameList(stack) /\ scratch \subseteq HeldFor(stack)
      /\ pc \in {"entry", "value", "unwind"} => Len(stack) >= 1
      /\ pc \in {"start", "returned"} => stack = <<>>
  BY DEF JsonHolds
<1>1. ASSUME UNCHANGED <<scratch, stack>>,
             pc' = pc \/ (Len(stack) >= 1 /\ pc' \in {"entry", "value", "unwind"})
                      \/ (stack = <<>> /\ pc' = "returned")
      PROVE  JsonHolds'
  BY <1>0, <1>1 DEF JsonHolds
<1>2. ASSUME scratch' = scratch, Later(stack, stack'), Len(stack) >= 1,
             pc' \in {"entry", "value", "unwind"}
      PROVE  JsonHolds'
  <2>1. FrameList(stack') /\ Len(stack') = Len(stack) /\ HeldFor(stack') = HeldFor(stack)
    BY <1>0, <1>2, FramesLater
  <2> QED BY <1>0, <1>2, <2>1 DEF JsonHolds
<1>3. ASSUME pc \in {"entry", "unwind"}, scratch' = scratch \ {J!Entries(J!Top.node)},
             NEW t, t = J!Front(stack), stack' = t \/ stack' = J!Advanced(t),
             IF Len(stack) = 1 THEN pc' = "returned" ELSE pc' \in {"entry", "unwind"}
      PROVE  JsonHolds'
  <2>1. Len(stack) >= 1
    BY <1>0, <1>3
  <2>2. /\ FrameList(t) /\ Len(stack) \in Nat /\ Len(t) = Len(stack) - 1
        /\ HeldFor(stack) \ {<<"entries", NodeOf(stack, Len(stack))>>} \subseteq HeldFor(t)
    <3>1. t = SubSeq(stack, 1, Len(stack) - 1)
      BY <1>3 DEF J!Front
    <3> QED BY <1>0, <2>1, <3>1, FramesPop
  <2>3. scratch' \subseteq HeldFor(t)
    BY <1>0, <1>3, <2>2 DEF J!Entries, J!Top, J!Last, NodeOf
  <2>4. CASE Len(stack) = 1
    <3>1. t = <<>>
      <4>1. Len(t) = 0 /\ IsSeq(t)
        BY <2>2, <2>4 DEF FrameList
      <4> QED BY <4>1, SeqNone
    <3>2. stack' = <<>>
      BY <1>3, <3>1 DEF J!Advanced
    <3> QED BY <1>3, <2>3, <2>4, <3>1, <3>2, FramesEmpty DEF JsonHolds
  <2>5. CASE Len(stack) # 1
    <3>1. Len(t) >= 1 /\ t # <<>>
      BY <2>1, <2>2, <2>5, FramesEmpty
    <3>2. stack' = t \/ Later(t, stack')
      BY <1>3, <3>1 DEF J!Advanced, Later
    <3>3. FrameList(stack') /\ Len(stack') = Len(t) /\ HeldFor(stack') = HeldFor(t)
      BY <2>2, <3>1, <3>2, FramesLater
    <3> QED BY <1>3, <2>3, <2>5, <3>1, <3>3 DEF JsonHolds
  <2> QED BY <2>4, <2>5
<1>4. CASE J!StartEmpty
  <2>1. UNCHANGED <<scratch, stack>> /\ stack = <<>> /\ pc' = "returned"
    BY <1>0, <1>4 DEF J!StartEmpty, J!Return
  <2> QED BY <1>1, <2>1
<1>5. CASE J!Start
  <2>1. stack = <<>>
    BY <1>0, <1>5 DEF J!Start
  <2>2. CASE UNCHANGED <<scratch, stack>> /\ pc' = "returned"
    BY <1>1, <2>1, <2>2
  <2>3. CASE scratch' = scratch \cup {J!Entries(0)} /\ pc' = "entry"
             /\ (\E order \in J!Orders(0) : stack' = <<J!Frame(0, order)>>)
    <3>1. PICK f : stack' = <<f>> /\ FrameRec(f) /\ f.node = 0
      BY <2>3 DEF J!Frame, FrameRec
    <3>2. FrameList(stack') /\ Len(stack') = 1 /\ HeldFor(stack') = {<<"entries", 0>>}
      BY <3>1, FramesOne
    <3>3. scratch' \subseteq HeldFor(stack')
      BY <1>0, <2>1, <2>3, <3>2, FramesEmpty DEF J!Entries
    <3> QED BY <2>3, <3>2, <3>3 DEF JsonHolds
  <2> QED BY <1>5, <2>2, <2>3 DEF J!Start, J!Return
<1>6. CASE J!Entry
  <2>1. UNCHANGED <<scratch, stack>> /\ pc = "entry" /\ pc' \in {"value", "unwind"}
    BY <1>6 DEF J!Entry
  <2> QED BY <1>0, <1>1, <2>1
<1>7. CASE J!Scalar \/ J!EmptyContainer
  <2>1. scratch' = scratch /\ pc = "value" /\ pc' = "entry" /\ stack' = J!Advanced(stack)
    BY <1>7 DEF J!Scalar, J!EmptyContainer
  <2>2. Len(stack) >= 1
    BY <1>0, <2>1
  <2>3. Later(stack, stack')
    BY <2>1, <2>2, FramesEmpty DEF J!Advanced, Later
  <2> QED BY <1>2, <2>1, <2>2, <2>3
<1>8. CASE J!OpenContainer
  <2>1. PICK f : stack' = Append(stack, f) /\ FrameRec(f) /\ f.node = J!Current
    BY <1>8 DEF J!OpenContainer, J!Frame, FrameRec
  <2>2. pc' = "entry" /\ scratch' \subseteq scratch \cup {J!Entries(J!Current)}
    BY <1>8 DEF J!OpenContainer
  <2>3. /\ FrameList(stack') /\ Len(stack') = Len(stack) + 1 /\ Len(stack) \in Nat
        /\ HeldFor(stack') = HeldFor(stack) \cup {<<"entries", f.node>>}
    <3>1. FrameList(stack) /\ FrameRec(f) /\ Pushed(stack, f, stack')
      BY <1>0, <2>1 DEF Pushed
    <3> QED BY <3>1, FramesPush
  <2>4. scratch' \subseteq HeldFor(stack') /\ Len(stack') >= 1
    BY <1>0, <2>1, <2>2, <2>3 DEF J!Entries
  <2> QED BY <2>2, <2>3, <2>4 DEF JsonHolds
<1>9. CASE J!OpenBlockFails \/ J!ValueFails
  <2>1. UNCHANGED <<scratch, stack>> /\ pc = "value" /\ pc' = "unwind"
    BY <1>9 DEF J!OpenBlockFails, J!ValueFails
  <2> QED BY <1>0, <1>1, <2>1
<1>10. CASE J!Close
  <2>1. PICK t : t = J!Front(stack) /\ stack' = J!Advanced(t)
    BY <1>10 DEF J!Close
  <2>2. /\ pc = "entry" /\ scratch' = scratch \ {J!Entries(J!Top.node)}
        /\ IF Len(stack) = 1 THEN pc' = "returned" ELSE pc' \in {"entry", "unwind"}
    BY <1>10 DEF J!Close, J!Return
  <2> QED BY <1>3, <2>1, <2>2
<1>11. CASE J!Unwind
  <2>1. PICK t : t = J!Front(stack) /\ stack' = t
    BY <1>11 DEF J!Unwind
  <2>2. /\ pc = "unwind" /\ scratch' = scratch \ {J!Entries(J!Top.node)}
        /\ IF Len(stack) = 1 THEN pc' = "returned" ELSE pc' \in {"entry", "unwind"}
    BY <1>11 DEF J!Unwind, J!Return
  <2> QED BY <1>3, <2>1, <2>2
<1> QED BY <1>4, <1>5, <1>6, <1>7, <1>8, <1>9, <1>10, <1>11 DEF J!Next

-----------------------------------------------------------------------------
(* YAML: beside the frames' entries only the emitter is held *)

YamlHolds ==
    /\ FrameList(stack)
    /\ IF pc \in {"entry", "value", "unwind"} THEN Len(stack) >= 1 /\ NodeOf(stack, 1) = 0
                                              ELSE stack = <<>>
    /\ scratch \subseteq HeldFor(stack) \cup {Y!Emitter}
    /\ pc \in {"start", "returned"} => scratch = {}

(* The root's frame is the only one that is left by way of CloseRoot. *)
LEMMA YamlHoldsStep == YamlHolds /\ Y!Next => YamlHolds'
<1> SUFFICES ASSUME YamlHolds, Y!Next PROVE YamlHolds'
  OBVIOUS
<1> DEFINE Inside(p) == p \in {"entry", "value", "unwind"}
           Outside(p) == p \in {"root", "finish", "flush"}
<1>0. /\ FrameList(stack) /\ scratch \subseteq HeldFor(stack) \cup {Y!Emitter}
      /\ Inside(pc) => Len(stack) >= 1 /\ NodeOf(stack, 1) = 0
      /\ ~Inside(pc) => stack = <<>>
      /\ pc \in {"start", "returned"} => scratch = {}
  BY DEF YamlHolds
<1>1. ASSUME UNCHANGED <<scratch, stack>>, Inside(pc) /\ Inside(pc')
      PROVE  YamlHolds'
  BY <1>0, <1>1 DEF YamlHolds
<1>2. ASSUME Inside(pc), Inside(pc'), scratch' = scratch, Later(stack, stack')
      PROVE  YamlHolds'
  <2>1. /\ FrameList(stack') /\ Len(stack') = Len(stack) /\ HeldFor(stack') = HeldFor(stack)
        /\ Len(stack) \in Nat /\ SameBelow(stack, stack', Len(stack))
        /\ stack'[Len(stack)].node = stack[Len(stack)].node
    BY <1>0, <1>2, FramesLater
  <2>2. NodeOf(stack', 1) = 0
    BY <1>0, <1>2, <2>1 DEF SameBelow, NodeOf
  <2> QED BY <1>0, <1>2, <2>1, <2>2 DEF YamlHolds
<1>3. ASSUME Inside(pc), Inside(pc'), Y!Top.node # 0,
             scratch' = scratch \ {Y!Entries(Y!Top.node)},
             NEW t, t = Y!Front(stack), stack' = t \/ stack' = Y!Advanced(t)
      PROVE  YamlHolds'
  <2>1. Len(stack) >= 1 /\ NodeOf(stack, 1) = 0
    BY <1>0, <1>3
  <2>2. /\ FrameList(t) /\ Len(stack) \in Nat /\ Len(t) = Len(stack) - 1
        /\ \A k \in 1 .. Len(t) : t[k] = stack[k]
        /\ HeldFor(stack) \ {<<"entries", NodeOf(stack, Len(stack))>>} \subseteq HeldFor(t)
    <3>1. t = SubSeq(stack, 1, Len(stack) - 1)
      BY <1>3 DEF Y!Front
    <3> QED BY <1>0, <2>1, <3>1, FramesPop, ZenonT(40)
  <2>3. scratch' \subseteq HeldFor(t) \cup {Y!Emitter}
    BY <1>0, <1>3, <2>2 DEF Y!Entries, Y!Top, Y!Last, NodeOf
  <2>4. Len(stack) # 1
    BY <1>3, <2>1 DEF Y!Top, Y!Last, NodeOf
  <2>5. Len(t) >= 1 /\ t # <<>> /\ NodeOf(t, 1) = 0
    <3>1. Len(t) >= 1 /\ 1 \in 1 .. Len(t)
      BY <2>1, <2>2, <2>4
    <3> QED BY <2>1, <2>2, <3>1, FramesEmpty DEF NodeOf
  <2>6. stack' = t \/ Later(t, stack')
    BY <1>3, <2>5 DEF Y!Advanced, Later
  <2>7. FrameList(stack') /\ Len(stack') = Len(t) /\ HeldFor(stack') = HeldFor(t) /\ NodeOf(stack', 1) = 0
    <3>1. CASE stack' = t
      BY <2>2, <2>5, <3>1
    <3>2. CASE Later(t, stack')
      <4>1. /\ FrameList(stack') /\ Len(stack') = Len(t) /\ HeldFor(stack') = HeldFor(t)
            /\ Len(t) \in Nat /\ SameBelow(t, stack', Len(t)) /\ stack'[Len(t)].node = t[Len(t)].node
        BY <2>2, <2>5, <3>2, FramesLater
      <4>2. NodeOf(stack', 1) = 0
        BY <2>5, <4>1 DEF SameBelow, NodeOf
      <4> QED BY <4>1, <4>2
    <3> QED BY <2>6, <3>1, <3>2
  <2> QED BY <1>3, <2>3, <2>5, <2>7 DEF YamlHolds
<1>4. ASSUME stack' = <<>>, ~Inside(pc'), scratch' \subseteq {Y!Emitter},
             Outside(pc') \/ scratch' = {}
      PROVE  YamlHolds'
  BY <1>4, FramesEmpty DEF YamlHolds
<1>5. CASE Y!Start
  <2>1. stack' = <<>> /\ scratch' \in {{}, {Y!Emitter}} /\ pc' \in {"root", "returned"}
        /\ (pc' = "root" \/ scratch' = {})
    BY <1>0, <1>5 DEF Y!Start, Y!Return
  <2> QED BY <1>4, <2>1
<1>6. CASE Y!Root
  <2>1. stack = <<>> /\ scratch \subseteq {Y!Emitter}
    BY <1>0, <1>6, FramesEmpty DEF Y!Root
  <2>2. CASE pc' = "finish" /\ UNCHANGED <<scratch, stack>>
    BY <1>4, <2>1, <2>2
  <2>3. CASE scratch' = scratch \cup {Y!Entries(0)} /\ pc' = "entry"
             /\ (\E order \in Y!Orders(0) : stack' = <<Y!Frame(0, order)>>)
    <3>1. PICK f : stack' = <<f>> /\ FrameRec(f) /\ f.node = 0
      BY <2>3 DEF Y!Frame, FrameRec
    <3>2. FrameList(stack') /\ Len(stack') = 1 /\ stack'[1] = f /\ HeldFor(stack') = {<<"entries", 0>>}
      BY <3>1, FramesOne
    <3>3. scratch' \subseteq HeldFor(stack') \cup {Y!Emitter} /\ NodeOf(stack', 1) = 0
      BY <2>1, <2>3, <3>1, <3>2 DEF Y!Entries, NodeOf
    <3> QED BY <2>3, <3>2, <3>3 DEF YamlHolds
  <2> QED BY <1>6, <2>2, <2>3 DEF Y!Root
<1>7. CASE Y!RootFails
  <2>1. stack' = <<>> /\ scratch' = {} /\ pc' = "returned"
    BY <1>0, <1>7 DEF Y!RootFails, Y!Return
  <2> QED BY <1>4, <2>1
<1>8. CASE Y!EntryKey \/ Y!Element \/ Y!ValueFails
  <2>1. UNCHANGED <<scratch, stack>> /\ Inside(pc) /\ Inside(pc')
    BY <1>8 DEF Y!EntryKey, Y!Element, Y!ValueFails
  <2> QED BY <1>1, <2>1
<1>9. CASE Y!Scalar
  <2>1. scratch' = scratch /\ pc = "value" /\ pc' = "entry" /\ stack' = Y!Advanced(stack)
    BY <1>9 DEF Y!Scalar
  <2>2. Later(stack, stack')
    BY <1>0, <2>1, FramesEmpty DEF Y!Advanced, Later
  <2> QED BY <1>2, <2>1, <2>2
<1>10. CASE Y!Container
  <2>1. Inside(pc) /\ Inside(pc')
    BY <1>10 DEF Y!Container
  <2>2. CASE UNCHANGED <<scratch, stack>>
    BY <1>1, <2>1, <2>2
  <2>3. CASE \E order \in Y!Orders(Y!Current) : stack' = Append(stack, Y!Frame(Y!Current, order))
    <3>1. PICK f : stack' = Append(stack, f) /\ FrameRec(f) /\ f.node = Y!Current
      BY <2>3 DEF Y!Frame, FrameRec
    <3>2. FrameList(stack) /\ FrameRec(f) /\ Pushed(stack, f, stack')
      BY <1>0, <3>1 DEF Pushed
    <3>3. /\ FrameList(stack') /\ Len(stack') = Len(stack) + 1 /\ Len(stack) \in Nat
          /\ \A k \in 1 .. Len(stack) : stack'[k] = stack[k]
          /\ HeldFor(stack') = HeldFor(stack) \cup {<<"entries", f.node>>}
      BY <3>2, FramesPush
    <3>4. scratch' \subseteq HeldFor(stack') \cup {Y!Emitter}
      <4>1. scratch' = scratch \/ scratch' = scratch \cup {Y!Entries(Y!Current)}
        BY <1>10 DEF Y!Container
      <4> QED BY <1>0, <3>1, <3>3, <4>1 DEF Y!Entries
    <3>5. Len(stack') >= 1 /\ NodeOf(stack', 1) = 0
      BY <1>0, <2>1, <3>3 DEF NodeOf
    <3> QED BY <2>1, <3>3, <3>4, <3>5 DEF YamlHolds
  <2> QED BY <1>10, <2>2, <2>3 DEF Y!Container
<1>11. CASE Y!Close
  <2>1. PICK t : t = Y!Front(stack)
    OBVIOUS
  <2>2. /\ Inside(pc) /\ Inside(pc') /\ scratch' = scratch \ {Y!Entries(Y!Top.node)}
        /\ Y!Top.node # 0 /\ (stack' = t \/ stack' = Y!Advanced(t))
    BY <1>11, <2>1 DEF Y!Close
  <2> QED BY <1>3, <2>1, <2>2
<1>12. CASE Y!Unwind
  <2>1. PICK t : t = Y!Front(stack)
    OBVIOUS
  <2>2. /\ Inside(pc) /\ Inside(pc') /\ scratch' = scratch \ {Y!Entries(Y!Top.node)}
        /\ Y!Top.node # 0 /\ (stack' = t \/ stack' = Y!Advanced(t))
    BY <1>12, <2>1 DEF Y!Unwind
  <2> QED BY <1>3, <2>1, <2>2
<1>13. CASE Y!CloseRoot
  <2>1. Len(stack) = 1 /\ NodeOf(stack, 1) = 0 /\ stack' = <<>> /\ pc' = "finish"
        /\ scratch' = scratch \ {Y!Entries(0)}
    BY <1>0, <1>13 DEF Y!CloseRoot
  <2>2. HeldFor(stack) = {Y!Entries(0)}
    <3>1. \A k \in 1 .. Len(stack) : k = 1
      BY <2>1
    <3>2. 1 \in 1 .. Len(stack)
      BY <2>1
    <3> QED BY <2>1, <3>1, <3>2 DEF HeldFor, Y!Entries
  <2>3. scratch' \subseteq {Y!Emitter}
    BY <1>0, <2>1, <2>2
  <2> QED BY <1>4, <2>1, <2>3
<1>14. CASE Y!Finish \/ Y!Flush
  <2>1. ~Inside(pc) /\ UNCHANGED stack /\ ((pc' = "flush" /\ UNCHANGED scratch) \/ (pc' = "returned" /\ scratch' = scratch \ {Y!Emitter}))
    <3>1. CASE Y!Finish
      <4>1. pc = "finish" /\ stack' = stack /\ scratch' = scratch /\ pc' = "flush"
        BY <3>1, Zenon DEF Y!Finish
      <4> QED BY <4>1
    <3>2. CASE Y!Flush
      BY <1>0, <3>2 DEF Y!Flush, Y!Return
    <3> QED BY <1>14, <3>1, <3>2
  <2>2. scratch \subseteq {Y!Emitter} /\ stack' = <<>>
    BY <1>0, <2>1, FramesEmpty
  <2>3. scratch' \subseteq {Y!Emitter} /\ (pc' = "flush" \/ scratch' = {})
    BY <2>1, <2>2
  <2> QED BY <1>4, <2>1, <2>2, <2>3
<1> QED BY <1>5, <1>6, <1>7, <1>8, <1>9, <1>10, <1>11, <1>12, <1>13, <1>14 DEF Y!Next

-----------------------------------------------------------------------------
(* INI: names of sections, lists of blocks put aside, and the entries of   *)
(* the block that is scanned                                               *)

IniFrameOK(d, f) ==
    /\ f = [node |-> f.node, section |-> f.section, order |-> f.order, done |-> f.done,
            blocks |-> f.blocks]
    /\ f.order \in Seq(KidSet(d, f.node)) /\ f.done \in Nat /\ f.blocks \in Seq(1 .. d.size)
IniFrames(d, s) ==
    /\ IsSeq(s) /\ \A k \in 1 .. Len(s) : IniFrameOK(d, s[k])
    /\ \A k \in 1 .. Len(s) : NodeOf(s, k) \in IF k = 1 THEN {0} ELSE 1 .. d.size
IniHeld(s, scanning) ==
    {<<"section", NodeOf(s, k)>> : k \in 2 .. Len(s)}
    \cup {<<"blocks", NodeOf(s, k)>> : k \in {j \in 1 .. Len(s) : s[j].blocks # <<>>}}
    \cup IF scanning THEN {<<"entries", NodeOf(s, Len(s))>>} ELSE {}
\* The last frame gives way to f.
Replaced(s, f, t) == t = [s EXCEPT ![Len(s)] = f]

\* A block is entered: its section's name is held.
LEMMA IniPush ==
  ASSUME NEW d, NEW s, IniFrames(d, s), NEW f, IniFrameOK(d, f), NEW t, Pushed(s, f, t),
         f.node \in IF s = <<>> THEN {0} ELSE 1 .. d.size
  PROVE  /\ IniFrames(d, t) /\ Len(s) \in Nat /\ Len(t) = Len(s) + 1 /\ t[Len(t)] = f
         /\ IniHeld(s, FALSE) \subseteq IniHeld(t, FALSE)
         /\ s # <<>> => <<"section", f.node>> \in IniHeld(t, FALSE)
<1>1. /\ IsSeq(t) /\ Len(t) = Len(s) + 1 /\ Len(s) \in Nat
      /\ t[Len(s) + 1] = f /\ \A k \in 1 .. Len(s) : t[k] = s[k]
  BY SeqAppend, SeqFacts DEF IniFrames, Pushed
<1>2. PICK n \in Nat : n = Len(s)
  BY <1>1
<1>3. \A k \in 1 .. Len(t) : k = n + 1 \/ k \in 1 .. n
  BY <1>1, <1>2
<1>4. n + 1 \in 1 .. Len(t) /\ \A k \in 1 .. n : k \in 1 .. Len(t)
  BY <1>1, <1>2
<1>5. \A k \in 1 .. Len(t) : IniFrameOK(d, t[k])
  BY <1>1, <1>2, <1>3 DEF IniFrames
<1>6. s = <<>> <=> n = 0
  BY <1>2, SeqNone, SeqEmpty DEF IniFrames
<1>7. \A k \in 1 .. Len(t) : NodeOf(t, k) \in IF k = 1 THEN {0} ELSE 1 .. d.size
  <2> TAKE k \in 1 .. Len(t)
  <2>1. CASE k = n + 1
    BY <1>1, <1>2, <1>6, <2>1 DEF NodeOf
  <2>2. CASE k \in 1 .. n
    BY <1>1, <1>2, <2>2 DEF NodeOf, IniFrames
  <2> QED BY <1>3, <2>1, <2>2
<1>8. IniHeld(s, FALSE) \subseteq IniHeld(t, FALSE)
  <2>1. \A k \in 2 .. n : k \in 2 .. Len(t) /\ t[k] = s[k]
    BY <1>1, <1>2
  <2> QED BY <1>1, <1>2, <1>4, <2>1 DEF IniHeld, NodeOf
<1>9. s # <<>> => <<"section", f.node>> \in IniHeld(t, FALSE)
  <2>1. s # <<>> => n + 1 \in 2 .. Len(t)
    BY <1>1, <1>2, <1>6
  <2> QED BY <1>1, <1>2, <2>1 DEF IniHeld, NodeOf
<1> QED BY <1>1, <1>2, <1>5, <1>7, <1>8, <1>9 DEF IniFrames

\* A block is left: the others hold what they held.
LEMMA IniPop ==
  ASSUME NEW d, NEW s, IniFrames(d, s), Len(s) >= 2, NEW t, t = SubSeq(s, 1, Len(s) - 1)
  PROVE  /\ IniFrames(d, t) /\ Len(s) \in Nat /\ Len(t) = Len(s) - 1 /\ t # <<>>
         /\ \A scanning \in BOOLEAN :
                IniHeld(s, scanning) \ {<<"section", NodeOf(s, Len(s))>>, <<"blocks", NodeOf(s, Len(s))>>,
                                        <<"entries", NodeOf(s, Len(s))>>} \subseteq IniHeld(t, FALSE)
         /\ s[Len(s)].blocks = <<>> => \A scanning \in BOOLEAN :
                IniHeld(s, scanning) \ {<<"section", NodeOf(s, Len(s))>>, <<"entries", NodeOf(s, Len(s))>>}
                    \subseteq IniHeld(t, FALSE)
<1>1. Len(s) \in Nat
  BY SeqFacts DEF IniFrames
<1>2. PICK n \in Nat : n = Len(s) - 1 /\ n <= Len(s) /\ n + 1 = Len(s) /\ n >= 1
  BY <1>1
<1>3. IsSeq(t) /\ Len(t) = n /\ \A k \in 1 .. n : t[k] = s[k]
  BY <1>2, SeqPrefix DEF IniFrames
<1>4. \A k \in 1 .. Len(s) : k = n + 1 \/ k \in 1 .. n
  BY <1>2
<1>5. IniFrames(d, t)
  BY <1>2, <1>3 DEF IniFrames, NodeOf
<1>6. \A k \in 2 .. Len(s) : k = n + 1 \/ (k \in 2 .. n /\ k \in 1 .. n)
  BY <1>2
<1>7. \A k \in 2 .. n : k \in 2 .. Len(t) /\ k \in 1 .. Len(t)
  BY <1>3
<1>8. t # <<>>
  <2>1. Len(t) # 0
    BY <1>2, <1>3
  <2> QED BY <2>1, SeqEmpty, Zenon
<1>9. ASSUME NEW b \in BOOLEAN, NEW x \in IniHeld(s, b),
             x # <<"section", NodeOf(s, Len(s))>>, x # <<"entries", NodeOf(s, Len(s))>>,
             x # <<"blocks", NodeOf(s, Len(s))>> \/ s[Len(s)].blocks = <<>>
      PROVE  x \in IniHeld(t, FALSE)
  <2>1. CASE \E k \in 2 .. Len(s) : x = <<"section", NodeOf(s, k)>>
    <3>1. PICK k \in 2 .. Len(s) : x = <<"section", NodeOf(s, k)>>
      BY <2>1
    <3>2. k \in 2 .. Len(t) /\ t[k] = s[k]
      BY <1>2, <1>3, <1>6, <1>7, <1>9, <3>1
    <3> QED BY <3>1, <3>2 DEF IniHeld, NodeOf
  <2>2. CASE \E k \in 1 .. Len(s) : s[k].blocks # <<>> /\ x = <<"blocks", NodeOf(s, k)>>
    <3>1. PICK k \in 1 .. Len(s) : s[k].blocks # <<>> /\ x = <<"blocks", NodeOf(s, k)>>
      BY <2>2
    <3>2. k \in 1 .. Len(t) /\ t[k] = s[k]
      BY <1>2, <1>3, <1>4, <1>9, <3>1
    <3> QED BY <3>1, <3>2 DEF IniHeld, NodeOf
  <2> QED BY <1>9, <2>1, <2>2 DEF IniHeld
<1> QED BY <1>1, <1>2, <1>3, <1>5, <1>8, <1>9

\* The last frame gives way to one of the same block; a list put aside stays.
LEMMA IniReplace ==
  ASSUME NEW d, NEW s, IniFrames(d, s), Len(s) >= 1, NEW f, IniFrameOK(d, f),
         f.node = NodeOf(s, Len(s)), s[Len(s)].blocks # <<>> => f.blocks # <<>>,
         NEW t, Replaced(s, f, t)
  PROVE  /\ IniFrames(d, t) /\ Len(s) \in Nat /\ Len(t) = Len(s) /\ t[Len(s)] = f
         /\ \A scanning \in BOOLEAN : IniHeld(s, scanning) \subseteq IniHeld(t, scanning)
         /\ f.blocks # <<>> => <<"blocks", f.node>> \in IniHeld(t, TRUE)
<1>1. Len(s) \in Nat
  BY SeqFacts DEF IniFrames
<1>2. PICK n \in Nat : n = Len(s) /\ n \in 1 .. n
  BY <1>1
<1>3. IsSeq(t) /\ Len(t) = n /\ t[n] = f /\ \A k \in 1 .. n : k # n => t[k] = s[k]
  <2>1. IsSeq(t) /\ Len(t) = Len(s) /\ t[Len(s)] = f /\ SameBelow(s, t, Len(s))
    BY <1>1, SeqReplace DEF IniFrames, Replaced
  <2>2. \A k \in 1 .. n : k # n => k < n
    BY <1>2
  <2> QED BY <1>2, <2>1, <2>2 DEF SameBelow
<1>4. \A k \in 1 .. n : NodeOf(t, k) = NodeOf(s, k)
  BY <1>2, <1>3 DEF NodeOf
<1>5. \A k \in 1 .. n : s[k].blocks # <<>> => t[k].blocks # <<>>
  BY <1>2, <1>3
<1>6. IniFrames(d, t)
  BY <1>2, <1>3, <1>4 DEF IniFrames
<1>7. \A k \in 2 .. n : k \in 1 .. n
  OBVIOUS
<1>8. \A scanning \in BOOLEAN : IniHeld(s, scanning) \subseteq IniHeld(t, scanning)
  BY <1>2, <1>3, <1>4, <1>5, <1>7 DEF IniHeld
<1>9. f.blocks # <<>> => <<"blocks", f.node>> \in IniHeld(t, TRUE)
  BY <1>2, <1>3, <1>4 DEF IniHeld
<1> QED BY <1>2, <1>3, <1>6, <1>8, <1>9

\* A frame at another entry is a frame.
LEMMA IniDone ==
  ASSUME NEW d, NEW f, IniFrameOK(d, f), NEW n \in Nat, NEW g, g = [f EXCEPT !.done = n]
  PROVE  IniFrameOK(d, g) /\ g.node = f.node /\ g.order = f.order /\ g.done = n /\ g.blocks = f.blocks
<1>1. PICK a, b, c, e, h : f = [node |-> a, section |-> b, order |-> c, done |-> e, blocks |-> h]
  BY DEF IniFrameOK
<1>2. g = [node |-> a, section |-> b, order |-> c, done |-> n, blocks |-> h]
  BY <1>1
<1>3. f.order \in Seq(KidSet(d, f.node)) /\ f.blocks \in Seq(1 .. d.size)
  BY DEF IniFrameOK
<1> QED BY <1>1, <1>2, <1>3 DEF IniFrameOK

Aside(f, c, g) == g = [f EXCEPT !.blocks = Append(@, c)]

\* A frame with one more block put aside is a frame.
LEMMA IniAside ==
  ASSUME NEW d, NEW f, IniFrameOK(d, f), NEW c \in 1 .. d.size,
         NEW g, Aside(f, c, g)
  PROVE  /\ IniFrameOK(d, g) /\ g.node = f.node /\ g.order = f.order /\ g.done = f.done
         /\ g.blocks # <<>>
<1>1. PICK a, b, o, e, h : f = [node |-> a, section |-> b, order |-> o, done |-> e, blocks |-> h]
  BY DEF IniFrameOK
<1>2. g = [node |-> a, section |-> b, order |-> o, done |-> e, blocks |-> Append(h, c)]
  BY <1>1 DEF Aside
<1>3. f.order \in Seq(KidSet(d, f.node)) /\ f.blocks \in Seq(1 .. d.size) /\ f.done \in Nat
  BY DEF IniFrameOK
<1>4. Append(h, c) \in Seq(1 .. d.size) /\ Append(h, c) # <<>>
  <2>1. h \in Seq(1 .. d.size)
    BY <1>1, <1>3
  <2> QED BY <2>1, AppendProperties
<1> QED BY <1>1, <1>2, <1>3, <1>4 DEF IniFrameOK

\* The order of a block's entries is a sequence of them.
LEMMA IniOrders ==
  ASSUME DocTree(doc), NEW p \in 0 .. doc.size, NEW order \in I!Orders(p)
  PROVE  order \in Seq(KidSet(doc, p))
<1>1. order \in I!SetToSeqs(KidSet(doc, p))
  BY DEF I!Orders, I!ToSet, I!Children, KidSet
<1>2. PICK S : S = KidSet(doc, p) /\ IsFiniteSet(S)
  BY KidsFinite
<1>3. order \in [1 .. Cardinality(S) -> S] /\ \A i, j \in 1 .. Cardinality(S) : i # j => order[i] # order[j]
  <2>1. I!Cardinality(S) = Cardinality(S)
    BY DEF I!Cardinality, Cardinality
  <2> QED BY <1>1, <1>2, <2>1 DEF I!SetToSeqs
<1> QED BY <1>2, <1>3, OrderOfSet

\* What the one way out that keeps its list may leave behind.
Leak(d) == {<<"blocks", p>> : p \in {q \in 1 .. d.size : \E i \in KidSet(d, q) : i # 0 /\ d.kind[i] = "corrupt"}}
IniInside(s, p, top) ==
    /\ p \in {"scan", "open", "blocks", "unwind"} /\ s # <<>>
    /\ p = "scan" => top.done <= Len(top.order)
    /\ p = "open" => Len(s) >= 2 /\ top.done = 0 /\ top.blocks = <<>>
IniHolds ==
    /\ DocTree(doc) /\ IniFrames(doc, stack)
    /\ \/ stack = <<>> /\ pc \in {"start", "returned"}
       \/ IniInside(stack, pc, stack[Len(stack)])
    /\ scratch \subseteq Leak(doc) \cup IniHeld(stack, pc = "scan")

\* The block of a frame that is not the first.
LEMMA AtLeastTwo == \A v \in Nat : v >= 1 /\ (v > 1 \/ v # 1) => v >= 2 /\ v \in Nat
  OBVIOUS

(* One case per action of the block being written; a frame that is left    *)
(* has freed what it holds, but for the one list.                          *)
LEMMA IniHoldsStep == IniHolds /\ I!Next => IniHolds'
<1> SUFFICES ASSUME IniHolds, I!Next PROVE IniHolds'
  OBVIOUS
<1> DEFINE n == Len(stack)
           top == stack[n]
<1>0. /\ DocTree(doc) /\ IniFrames(doc, stack)
      /\ pc \notin {"start", "returned"} => IniInside(stack, pc, top)
      /\ pc \in {"start", "returned"} => stack = <<>>
      /\ scratch \subseteq Leak(doc) \cup IniHeld(stack, pc = "scan")
  BY DEF IniHolds, IniInside
<1>1. ASSUME pc \notin {"start", "returned"}
      PROVE  /\ n \in Nat /\ n >= 1 /\ IniFrameOK(doc, top) /\ I!Top = top
             /\ NodeOf(stack, n) = top.node
             /\ top.node = 0 <=> n = 1
             /\ top.node \in 0 .. doc.size
  <2>1. stack # <<>> /\ IsSeq(stack)
    BY <1>0, <1>1 DEF IniInside, IniFrames
  <2>2. n \in Nat
    BY <2>1, SeqFacts
  <2>3. n >= 1
    BY <2>1, <2>2, SeqNone
  <2>4. n \in 1 .. n
    BY <2>2, <2>3
  <2>5. IniFrameOK(doc, top) /\ NodeOf(stack, n) = top.node
        /\ NodeOf(stack, n) \in IF n = 1 THEN {0} ELSE 1 .. doc.size
    BY <1>0, <2>4 DEF IniFrames, NodeOf
  <2>6. doc.size \in Nat
    BY <1>0 DEF DocTree
  <2> QED BY <2>2, <2>3, <2>5, <2>6 DEF I!Top, I!Last
\* The frame of a nested block is left.
<1>2. ASSUME pc \notin {"start", "returned"}, top.node # 0 \/ n > 1, doc' = doc,
             stack' = I!Front(stack), pc' = "unwind",
             scratch' \subseteq scratch \ {I!Section(top.node)},
             pc = "scan" => I!Entries(top.node) \notin scratch',
             \/ I!Blocks(top.node) \notin scratch' \/ top.blocks = <<>>
             \/ I!Blocks(top.node) \in Leak(doc)
      PROVE  IniHolds'
  <2>1. n >= 2 /\ n \in Nat
    <3>1. n \in Nat /\ n >= 1 /\ (top.node = 0 <=> n = 1)
      BY <1>1, <1>2, Zenon
    <3>2. n > 1 \/ n # 1
      BY <1>2, <3>1, Zenon
    <3> QED BY <3>1, <3>2, AtLeastTwo, Zenon
  <2>2. PICK t : t = SubSeq(stack, 1, n - 1)
    OBVIOUS
  <2>3. /\ IniFrames(doc, t) /\ n \in Nat /\ Len(t) = n - 1 /\ t # <<>>
        /\ \A b \in BOOLEAN :
              IniHeld(stack, b) \ {<<"section", NodeOf(stack, n)>>, <<"blocks", NodeOf(stack, n)>>,
                                  <<"entries", NodeOf(stack, n)>>} \subseteq IniHeld(t, FALSE)
        /\ stack[n].blocks = <<>> => \A b \in BOOLEAN :
              IniHeld(stack, b) \ {<<"section", NodeOf(stack, n)>>, <<"entries", NodeOf(stack, n)>>}
                  \subseteq IniHeld(t, FALSE)
    BY <1>0, <2>1, <2>2, IniPop, ZenonT(40)
  <2>4. ASSUME NEW x \in scratch' PROVE x \in Leak(doc) \cup IniHeld(t, FALSE)
    <3>1. x \in Leak(doc) \/ x \in IniHeld(stack, pc = "scan")
      BY <1>0, <1>2
    <3>2. x # <<"section", NodeOf(stack, n)>>
      BY <1>1, <1>2 DEF I!Section
    <3>3. x \in IniHeld(stack, pc = "scan") => x # <<"entries", NodeOf(stack, n)>>
      <4>1. CASE pc = "scan"
        BY <1>1, <1>2, <4>1 DEF I!Entries
      <4>2. CASE pc # "scan"
        BY <4>2 DEF IniHeld
      <4> QED BY <4>1, <4>2
    <3>4. (pc = "scan") \in BOOLEAN
      OBVIOUS
    <3>5. x # <<"blocks", NodeOf(stack, n)>> \/ stack[n].blocks = <<>> \/ x \in Leak(doc)
      BY <1>1, <1>2 DEF I!Blocks
    <3> QED BY <2>3, <3>1, <3>2, <3>3, <3>4, <3>5
  <2>5. stack' = t
    BY <1>2, <2>2 DEF I!Front
  <2> QED BY <1>0, <1>2, <2>3, <2>4, <2>5 DEF IniHolds, IniInside
\* The frame stays, further on.
<1>3. ASSUME pc \notin {"start", "returned"}, doc' = doc, NEW f, IniFrameOK(doc, f), f.node = top.node,
             top.blocks # <<>> => f.blocks # <<>>, stack' = [stack EXCEPT ![Len(stack)] = f],
             \/ pc = "scan" /\ pc' = "scan" /\ f.done <= Len(f.order)
             \/ pc' \in {"blocks", "unwind"} /\ (pc = "scan" => I!Entries(top.node) \notin scratch'),
             \/ scratch' \subseteq scratch
             \/ scratch' \subseteq scratch \cup {I!Blocks(top.node)} /\ f.blocks # <<>> /\ pc' = "scan"
      PROVE  IniHolds'
  <2>1. Replaced(stack, f, stack') /\ n >= 1 /\ f.node = NodeOf(stack, n)
    BY <1>1, <1>3 DEF Replaced
  <2>2. /\ IniFrames(doc, stack') /\ n \in Nat /\ Len(stack') = n /\ stack'[n] = f
        /\ \A b \in BOOLEAN : IniHeld(stack, b) \subseteq IniHeld(stack', b)
        /\ f.blocks # <<>> => <<"blocks", f.node>> \in IniHeld(stack', TRUE)
    <3>1. IniFrames(doc, stack) /\ Len(stack) >= 1 /\ IniFrameOK(doc, f)
      BY <1>0, <1>3, <2>1
    <3>2. f.node = NodeOf(stack, Len(stack)) /\ Replaced(stack, f, stack')
      BY <2>1
    <3>3. stack[Len(stack)].blocks # <<>> => f.blocks # <<>>
      BY <1>3
    <3>4. PICK t : t = stack'
      OBVIOUS
    <3>5. Replaced(stack, f, t)
      BY <3>2, <3>4
    <3>6. /\ IniFrames(doc, t) /\ Len(stack) \in Nat /\ Len(t) = Len(stack) /\ t[Len(stack)] = f
          /\ \A b \in BOOLEAN : IniHeld(stack, b) \subseteq IniHeld(t, b)
          /\ f.blocks # <<>> => <<"blocks", f.node>> \in IniHeld(t, TRUE)
      BY <3>1, <3>2, <3>3, <3>5, IniReplace, Zenon
    <3> QED BY <3>4, <3>6
  <2>3. stack' # <<>>
    <3>1. Len(stack') # 0
      BY <2>1, <2>2
    <3> QED BY <3>1, SeqEmpty, Zenon
  <2>4. ASSUME NEW x \in scratch' PROVE x \in Leak(doc) \cup IniHeld(stack', pc' = "scan")
    <3>1. CASE pc' = "scan"
      <4>1. x \in scratch \/ (x = I!Blocks(top.node) /\ f.blocks # <<>>)
        BY <1>3
      <4>2. CASE x \in scratch
        <5>1. x \in Leak(doc) \/ x \in IniHeld(stack, TRUE)
          BY <1>0, <1>3, <3>1, <4>2
        <5> QED BY <2>2, <3>1, <5>1
      <4>3. CASE x = I!Blocks(top.node) /\ f.blocks # <<>>
        BY <1>3, <2>2, <3>1, <4>3 DEF I!Blocks
      <4> QED BY <4>1, <4>2, <4>3
    <3>2. CASE pc' # "scan"
      <4>1. x \in scratch /\ (pc = "scan" => x # <<"entries", NodeOf(stack, n)>>)
        BY <1>1, <1>3, <3>2 DEF I!Entries
      <4>2. x \in Leak(doc) \/ x \in IniHeld(stack, pc = "scan")
        BY <1>0, <4>1
      <4>3. x \in Leak(doc) \/ x \in IniHeld(stack, FALSE)
        BY <4>1, <4>2 DEF IniHeld
      <4>4. (pc' = "scan") = FALSE
        BY <3>2
      <4>5. IniHeld(stack, FALSE) \subseteq IniHeld(stack', FALSE)
        BY <2>2
      <4> QED BY <4>3, <4>4, <4>5
    <3> QED BY <3>1, <3>2
  <2>5. IniInside(stack', pc', stack'[Len(stack')])
    BY <1>3, <2>2, <2>3 DEF IniInside
  <2> QED BY <1>0, <1>3, <2>2, <2>4, <2>5 DEF IniHolds
\* Nothing changes but the place.
<1>4. ASSUME pc \notin {"start", "returned"}, doc' = doc, UNCHANGED stack, scratch' \subseteq scratch,
             pc' \in {"blocks", "unwind"}, pc = "scan" => I!Entries(top.node) \notin scratch'
      PROVE  IniHolds'
  <2>1. ASSUME NEW x \in scratch' PROVE x \in Leak(doc) \cup IniHeld(stack, FALSE)
    <3>1. x \in scratch /\ (pc = "scan" => x # <<"entries", NodeOf(stack, n)>>)
      BY <1>1, <1>4 DEF I!Entries
    <3> QED BY <1>0, <3>1 DEF IniHeld
  <2>2. (pc' = "scan") = FALSE /\ pc' # "scan" /\ pc' # "open"
    BY <1>4
  <2>3. IniInside(stack', pc', stack'[Len(stack')])
    BY <1>0, <1>4, <2>2 DEF IniInside
  <2>4. scratch' \subseteq Leak(doc') \cup IniHeld(stack', pc' = "scan")
    BY <1>4, <2>1, <2>2
  <2> QED BY <1>0, <1>4, <2>3, <2>4 DEF IniHolds
\* The scan ends early.
<1>5. ASSUME pc = "scan", NEW freed, I!StopScan(freed), I!Entries(top.node) \in freed,
             \/ I!Blocks(top.node) \in freed \/ top.blocks = <<>>
             \/ I!Blocks(top.node) \in Leak(doc)
      PROVE  IniHolds'
  <2>1. pc \notin {"start", "returned"}
    BY <1>5
  <2>2. CASE top.node = 0
    <3>1. /\ scratch' = scratch \ {I!Entries(0)} /\ stack' = [stack EXCEPT ![1].done = 0]
          /\ pc' = "blocks" /\ doc' = doc
      BY <1>1, <1>5, <2>1, <2>2 DEF I!StopScan, I!input
    <3>2. PICK f : f = [top EXCEPT !.done = 0]
      OBVIOUS
    <3>3. IniFrameOK(doc, f) /\ f.node = top.node /\ f.blocks = top.blocks
      BY <1>1, <2>1, <3>2, IniDone
    <3>4. stack' = [stack EXCEPT ![Len(stack)] = f]
      <4>1. Len(stack) = 1 /\ top = stack[1]
        BY <1>1, <2>1, <2>2
      <4> QED BY <3>1, <3>2, <4>1
    <3>5. I!Entries(top.node) \notin scratch' /\ scratch' \subseteq scratch
      BY <2>2, <3>1
    <3> QED BY <1>3, <2>1, <3>1, <3>3, <3>4, <3>5
  <2>3. CASE top.node # 0
    <3>1. /\ scratch' = scratch \ (freed \cup {I!Section(top.node)})
          /\ stack' = I!Front(stack) /\ pc' = "unwind" /\ doc' = doc
      BY <1>1, <1>5, <2>1, <2>3 DEF I!StopScan, I!Leave, I!input
    <3> QED BY <1>2, <1>5, <2>1, <2>3, <3>1
  <2> QED BY <2>2, <2>3
\* The entry that is scanned.
<1>6. ASSUME pc = "scan", ~I!Complete
      PROVE  /\ I!Current \in KidSet(doc, top.node) /\ I!Current \in 1 .. doc.size
             /\ top.done + 1 <= Len(top.order) /\ top.done \in Nat
  <2>1. /\ top.order \in Seq(KidSet(doc, top.node)) /\ top.done \in Nat /\ top.done <= Len(top.order)
        /\ top.node \in 0 .. doc.size /\ I!Top = top
    BY <1>0, <1>1, <1>6 DEF IniFrameOK, IniInside
  <2>2. Len(top.order) \in Nat /\ top.done # Len(top.order)
    BY <1>6, <2>1 DEF I!Complete
  <2>3. top.done + 1 \in 1 .. Len(top.order)
    BY <2>1, <2>2
  <2>4. I!Current = top.order[top.done + 1]
    BY <2>1 DEF I!Current
  <2>5. I!Current \in KidSet(doc, top.node)
    BY <2>1, <2>3, <2>4
  <2>6. KidSet(doc, top.node) \subseteq 1 .. doc.size
    <3>1. PICK p \in 0 .. doc.size : p = top.node
      BY <2>1
    <3>2. KidSet(doc, p) \subseteq p + 1 .. doc.size
      BY <1>0, KidsFinite
    <3> QED BY <1>0, <3>1, <3>2 DEF DocTree
  <2> QED BY <2>1, <2>3, <2>5, <2>6
<1>10. CASE I!Start
  <2>1. stack = <<>> /\ pc = "start" /\ doc' = doc
    BY <1>0, <1>10 DEF I!Start, I!input
  <2>2. CASE UNCHANGED <<scratch, stack>> /\ pc' = "returned"
    BY <1>0, <2>1, <2>2 DEF IniHolds, IniHeld
  <2>3. CASE scratch' = scratch \cup {I!Entries(0)} /\ pc' = "scan"
             /\ (\E order \in I!Orders(0) : stack' = <<I!IniFrame(0, <<>>, order)>>)
    <3>1. PICK order \in I!Orders(0) : stack' = <<I!IniFrame(0, <<>>, order)>>
      BY <2>3
    <3>2. PICK f : f = I!IniFrame(0, <<>>, order)
      OBVIOUS
    <3>3. order \in Seq(KidSet(doc, 0))
      <4>1. 0 \in 0 .. doc.size
        BY <1>0 DEF DocTree
      <4> QED BY <1>0, <4>1, IniOrders
    <3>4. IniFrameOK(doc, f) /\ f.node = 0 /\ f.done = 0 /\ f.order = order
      BY <3>2, <3>3 DEF IniFrameOK, I!IniFrame
    <3>5. IsSeq(stack') /\ Len(stack') = 1 /\ stack'[1] = f
      BY <3>1, <3>2, SeqOne
    <3>6. IniFrames(doc, stack')
      <4>1. \A k \in 1 .. 1 : k = 1
        OBVIOUS
      <4> QED BY <3>4, <3>5, <4>1 DEF IniFrames, NodeOf
    <3>7. <<"entries", 0>> \in IniHeld(stack', TRUE)
      BY <3>4, <3>5 DEF IniHeld, NodeOf
    <3>8. scratch \subseteq Leak(doc)
      <4>1. IniHeld(<<>>, FALSE) = {}
        BY SeqEmpty DEF IniHeld
      <4>2. (pc = "scan") = FALSE
        BY <2>1
      <4> QED BY <1>0, <2>1, <4>1, <4>2
    <3>9. scratch' \subseteq Leak(doc') \cup IniHeld(stack', pc' = "scan")
      <4>1. (pc' = "scan") = TRUE
        BY <2>3
      <4> QED BY <2>1, <2>3, <3>7, <3>8, <4>1 DEF I!Entries
    <3>10. IniInside(stack', pc', stack'[Len(stack')])
      <4>1. Len(order) >= 0
        BY <3>3
      <4> QED BY <2>3, <3>1, <3>4, <3>5, <4>1 DEF IniInside
    <3> QED BY <1>0, <2>1, <3>6, <3>9, <3>10 DEF IniHolds
  <2> QED BY <1>10, <2>2, <2>3 DEF I!Start, I!Return
<1>11. CASE I!EnterBlock
  <2>0. /\ pc = "blocks" /\ doc' = doc /\ top.done < Len(top.blocks)
        /\ pc \notin {"start", "returned"}
    BY <1>1, <1>11 DEF I!EnterBlock, I!input
  <2>1. CASE UNCHANGED <<scratch, stack>> /\ pc' = "unwind"
    BY <1>4, <2>0, <2>1
  <2>2. CASE \E block \in {top.blocks[top.done + 1]} :
                /\ scratch' = scratch \cup {I!Section(block)} /\ pc' = "open"
                /\ \E order \in IF I!Kind(block) = "torn" THEN {<<>>} ELSE I!Orders(block) :
                      stack' = Append(stack, I!IniFrame(block, I!NewSection(top.section, I!Key(block)), order))
    <3>1. PICK block : /\ block = top.blocks[top.done + 1]
                       /\ scratch' = scratch \cup {I!Section(block)} /\ pc' = "open"
                       /\ \E order \in IF I!Kind(block) = "torn" THEN {<<>>} ELSE I!Orders(block) :
                            stack' = Append(stack, I!IniFrame(block, I!NewSection(top.section, I!Key(block)), order))
      BY <2>2
    <3>2. block \in 1 .. doc.size
      <4>1. top.blocks \in Seq(1 .. doc.size) /\ top.done \in Nat
        BY <1>1, <2>0 DEF IniFrameOK
      <4>2. PICK v : v = top.done + 1
        OBVIOUS
      <4>3. v \in 1 .. Len(top.blocks)
        BY <2>0, <4>1, <4>2
      <4>4. PICK b : b = top.blocks
        OBVIOUS
      <4>5. block = b[v]
        BY <3>1, <4>2, <4>4
      <4>6. PICK S : S = 1 .. doc.size
        OBVIOUS
      <4>7. b \in Seq(S) /\ v \in 1 .. Len(b)
        BY <4>1, <4>3, <4>4, <4>6
      <4>8. b[v] \in S
        BY <4>7
      <4> QED BY <4>5, <4>6, <4>8
    <3>3. PICK order : /\ order = <<>> \/ order \in I!Orders(block)
                       /\ stack' = Append(stack, I!IniFrame(block, I!NewSection(top.section, I!Key(block)), order))
      BY <3>1
    <3>4. order \in Seq(KidSet(doc, block))
      <4>1. block \in 0 .. doc.size
        BY <1>0, <3>2 DEF DocTree
      <4>2. <<>> \in Seq(KidSet(doc, block))
        OBVIOUS
      <4> QED BY <1>0, <3>3, <4>1, <4>2, IniOrders
    <3>5. PICK f : f = I!IniFrame(block, I!NewSection(top.section, I!Key(block)), order)
      OBVIOUS
    <3>6. IniFrameOK(doc, f) /\ f.node = block /\ f.done = 0 /\ f.blocks = <<>>
      BY <3>4, <3>5 DEF IniFrameOK, I!IniFrame
    <3>7. Pushed(stack, f, stack') /\ stack # <<>>
      BY <1>0, <2>0, <3>3, <3>5 DEF Pushed, IniInside
    <3>8. /\ IniFrames(doc, stack') /\ n \in Nat /\ Len(stack') = n + 1 /\ stack'[Len(stack')] = f
          /\ IniHeld(stack, FALSE) \subseteq IniHeld(stack', FALSE)
          /\ stack # <<>> => <<"section", f.node>> \in IniHeld(stack', FALSE)
      <4>1. f.node \in IF stack = <<>> THEN {0} ELSE 1 .. doc.size
        BY <3>2, <3>6, <3>7
      <4> QED BY <1>0, <3>6, <3>7, <4>1, IniPush
    <3>9. scratch' \subseteq Leak(doc') \cup IniHeld(stack', pc' = "scan")
      <4>1. (pc' = "scan") = FALSE /\ (pc = "scan") = FALSE
        BY <2>0, <3>1
      <4>2. scratch \subseteq Leak(doc) \cup IniHeld(stack, FALSE)
        BY <1>0, <4>1
      <4> QED BY <2>0, <3>1, <3>6, <3>7, <3>8, <4>1, <4>2 DEF I!Section
    <3>10. IniInside(stack', pc', stack'[Len(stack')])
      <4>1. Len(stack') >= 2 /\ stack' # <<>>
        <5>1. Len(stack') >= 2
          BY <1>1, <2>0, <3>8
        <5> QED BY <5>1, SeqEmpty
      <4> QED BY <3>1, <3>6, <3>8, <4>1 DEF IniInside
    <3> QED BY <1>0, <2>0, <3>8, <3>9, <3>10 DEF IniHolds
  <2> QED BY <1>1, <1>11, <2>0, <2>1, <2>2 DEF I!EnterBlock
<1>12. CASE I!OpenBlock
  <2>1. /\ pc = "open" /\ pc' = "scan" /\ UNCHANGED <<doc, stack>> /\ pc \notin {"start", "returned"}
        /\ scratch' \subseteq scratch \cup {I!Entries(top.node)}
    <3>1. pc = "open" /\ pc' = "scan" /\ UNCHANGED <<doc, stack>> /\ scratch' = scratch \cup I!HasEntries
      BY <1>12 DEF I!OpenBlock, I!input
    <3>2. I!HasEntries \subseteq {I!Entries(top.node)}
      BY <1>1, <3>1 DEF I!HasEntries
    <3> QED BY <3>1, <3>2
  <2>2. scratch' \subseteq Leak(doc') \cup IniHeld(stack', pc' = "scan")
    <3>1. (pc' = "scan") = TRUE /\ (pc = "scan") = FALSE
      BY <2>1
    <3>2. IniHeld(stack, FALSE) \subseteq IniHeld(stack, TRUE) /\ <<"entries", NodeOf(stack, n)>> \in IniHeld(stack, TRUE)
      BY DEF IniHeld
    <3>3. scratch \subseteq Leak(doc) \cup IniHeld(stack, FALSE)
      BY <1>0, <3>1
    <3>4. I!Entries(top.node) \in IniHeld(stack, TRUE)
      BY <1>1, <3>2 DEF I!Entries, NodeOf
    <3>5. PICK h : h = IniHeld(stack, TRUE)
      OBVIOUS
    <3>6. scratch' \subseteq Leak(doc) \cup h
      BY <2>1, <3>2, <3>3, <3>4, <3>5, Zenon
    <3> QED BY <2>1, <3>1, <3>5, <3>6, Zenon
  <2>3. top.done <= Len(top.order)
    <3>1. top.done = 0 /\ Len(top.order) \in Nat
      BY <1>0, <1>1, <2>1 DEF IniInside, IniFrameOK
    <3> QED BY <3>1
  <2> QED BY <1>0, <2>1, <2>2, <2>3 DEF IniHolds, IniInside
<1>13. CASE I!OpenBlockFails
  <2>1. /\ pc = "open" /\ doc' = doc /\ stack' = I!Front(stack) /\ pc' = "unwind"
        /\ scratch' \subseteq scratch \ {I!Section(top.node)}
    BY <1>1, <1>13 DEF I!OpenBlockFails, I!Leave, I!input
  <2>2. top.blocks = <<>> /\ n > 1 /\ pc \notin {"start", "returned"}
    BY <1>0, <1>1, <2>1 DEF IniInside
  <2> QED BY <1>2, <2>1, <2>2
<1>14. CASE I!PutAside
  <2>1. /\ pc = "scan" /\ pc' = "scan" /\ ~I!Complete /\ doc' = doc
        /\ scratch' = scratch \cup {I!Blocks(top.node)}
        /\ stack' = [stack EXCEPT ![Len(stack)].blocks = Append(@, I!Current), ![Len(stack)].done = @ + 1]
    BY <1>1, <1>14 DEF I!PutAside, I!input
  <2>2. PICK c \in 1 .. doc.size : c = I!Current
    BY <1>6, <2>1
  <2>3. PICK m \in Nat : m = top.done + 1 /\ m <= Len(top.order)
    BY SMTT(30), <1>6, <2>1
  <2>4. PICK g : g = [top EXCEPT !.blocks = Append(@, c)]
    OBVIOUS
  <2>5. /\ IniFrameOK(doc, g) /\ g.node = top.node /\ g.order = top.order /\ g.done = top.done
        /\ g.blocks # <<>>
    <3>1. PICK h : h = top
      OBVIOUS
    <3>2. IniFrameOK(doc, h)
      BY <1>1, <2>1, <3>1
    <3>3. Aside(h, c, g)
      BY <2>4, <3>1 DEF Aside
    <3>4. /\ IniFrameOK(doc, g) /\ g.node = h.node /\ g.order = h.order /\ g.done = h.done
          /\ g.blocks # <<>>
      BY <3>2, <3>3, IniAside, Zenon
    <3> QED BY <3>1, <3>4
  <2>6. PICK f : f = [g EXCEPT !.done = m]
    OBVIOUS
  <2>7. IniFrameOK(doc, f) /\ f.node = g.node /\ f.order = g.order /\ f.done = m /\ f.blocks = g.blocks
    BY <2>5, <2>6, IniDone
  <2>8. stack' = [stack EXCEPT ![Len(stack)] = f]
    <3>1. n \in DOMAIN stack /\ stack = [k \in DOMAIN stack |-> stack[k]]
      <4>1. n \in 1 .. n /\ IsSeq(stack)
        BY <1>0, <1>1, <2>1 DEF IniFrames
      <4>2. PICK S : stack \in Seq(S)
        BY <4>1 DEF IsSeq
      <4> QED BY <4>1, <4>2
    <3>2. f = [[top EXCEPT !.blocks = Append(@, c)] EXCEPT !.done = top.done + 1]
      BY <2>3, <2>4, <2>6
    <3>3. stack' = [stack EXCEPT ![n] = [[top EXCEPT !.blocks = Append(@, c)] EXCEPT !.done = top.done + 1]]
      BY <2>1, <2>2, <2>4, <2>5, <3>1
    <3> QED BY <3>2, <3>3
  <2> QED BY <1>3, <2>1, <2>3, <2>5, <2>7, <2>8
<1>15. CASE I!Lines
  <2>1. /\ pc = "scan" /\ pc' = "scan" /\ ~I!Complete /\ doc' = doc /\ scratch' = scratch
        /\ stack' = I!Advanced(stack) /\ pc \notin {"start", "returned"}
    BY <1>15 DEF I!Lines, I!input
  <2>2. PICK m \in Nat : m = top.done + 1 /\ m <= Len(top.order)
    BY <1>6, <2>1
  <2>3. PICK f : f = [top EXCEPT !.done = m]
    OBVIOUS
  <2>4. IniFrameOK(doc, f) /\ f.node = top.node /\ f.order = top.order /\ f.done = m /\ f.blocks = top.blocks
    BY <1>1, <2>1, <2>3, IniDone
  <2>5. stack' = [stack EXCEPT ![Len(stack)] = f]
    <3>1. stack # <<>>
      BY <1>0, <2>1 DEF IniInside
    <3> QED BY <2>1, <2>2, <2>3, <3>1 DEF I!Advanced
  <2> QED BY <1>3, <2>1, <2>2, <2>4, <2>5
<1>16. CASE I!LinesFail
  <2>1. pc = "scan" /\ I!StopScan({I!Entries(top.node), I!Blocks(top.node)})
    <3>1. pc = "scan"
      BY <1>16 DEF I!LinesFail
    <3> QED BY <1>1, <1>16, <3>1 DEF I!LinesFail
  <2> QED BY <1>5, <2>1
<1>17. CASE I!KindFails
  <2>1. pc = "scan" /\ ~I!Complete /\ I!Kind(I!Current) = "corrupt"
    BY <1>17 DEF I!KindFails
  <2>2. I!StopScan({I!Entries(top.node)})
    BY <1>1, <1>17, <2>1 DEF I!KindFails
  <2>3. top.node # 0 => I!Blocks(top.node) \in Leak(doc)
    <3>1. /\ I!Current \in KidSet(doc, top.node) /\ I!Current \in 1 .. doc.size
          /\ top.node \in 0 .. doc.size
      BY <1>1, <1>6, <2>1
    <3>2. I!Current # 0 /\ doc.kind[I!Current] = "corrupt"
      BY <2>1, <3>1 DEF I!Kind
    <3>3. top.node # 0 => top.node \in 1 .. doc.size
      BY <1>0, <3>1 DEF DocTree
    <3> QED BY <3>1, <3>2, <3>3 DEF Leak, I!Blocks
  <2>4. CASE top.node # 0
    BY <1>5, <2>1, <2>2, <2>3, <2>4
  <2>5. CASE top.node = 0
    <3>1. I!StopScan({I!Entries(top.node), I!Blocks(top.node)})
      BY <1>1, <2>1, <2>2, <2>5 DEF I!StopScan
    <3> QED BY <1>5, <2>1, <3>1
  <2> QED BY <2>4, <2>5
<1>18. CASE I!PutAsideFails
  <2>1. pc = "scan"
    BY <1>18 DEF I!PutAsideFails
  <2>2. I!StopScan({I!Entries(top.node)}) /\ top.blocks = <<>>
    BY <1>1, <1>18, <2>1 DEF I!PutAsideFails
  <2> QED BY <1>5, <2>1, <2>2
<1>19. CASE I!ScanDone
  <2>1. pc = "scan" /\ pc \notin {"start", "returned"}
    BY <1>19 DEF I!ScanDone
  <2>2. CASE /\ scratch' = scratch \ {I!Entries(top.node)} /\ doc' = doc
             /\ stack' = [stack EXCEPT ![Len(stack)].done = 0] /\ pc' = "blocks"
    <3>1. PICK f : f = [top EXCEPT !.done = 0]
      OBVIOUS
    <3>2. IniFrameOK(doc, f) /\ f.node = top.node /\ f.blocks = top.blocks
      <4>1. IniFrameOK(doc, top)
        BY <1>1, <2>1
      <4>2. 0 \in Nat
        OBVIOUS
      <4> QED BY SMTT(40), <3>1, <4>1, <4>2, IniDone
    <3>3. stack' = [stack EXCEPT ![Len(stack)] = f]
      BY <2>2, <3>1
    <3> QED BY <1>3, <2>1, <2>2, <3>2, <3>3
  <2>3. CASE I!Leave({I!Entries(top.node), I!Blocks(top.node)})
             /\ (top.node # 0 \/ n > 1)
    <3>1. /\ stack' = I!Front(stack) /\ pc' = "unwind" /\ doc' = doc
          /\ scratch' = scratch \ {I!Entries(top.node), I!Blocks(top.node), I!Section(top.node)}
      BY <1>1, <2>1, <2>3 DEF I!Leave, I!input
    <3> QED BY <1>2, <2>1, <2>3, <3>1
  <2>4. top.node = 0 => ~I!WriteSome(<<>>)
    <3>1. ~\E k \in 0 .. Len(<<>>) - 1 : TRUE
      OBVIOUS
    <3> QED BY <3>1 DEF I!WriteSome
  <2>5. ASSUME NEW blank, top.node = 0 => blank = <<>>, I!WriteSome(blank) PROVE top.node # 0
    BY <2>4, <2>5
  <2>6. \/ /\ scratch' = scratch \ {I!Entries(top.node)} /\ doc' = doc
           /\ stack' = [stack EXCEPT ![Len(stack)].done = 0] /\ pc' = "blocks"
        \/ /\ I!Leave({I!Entries(top.node), I!Blocks(top.node)})
           /\ \E blank : (top.node = 0 => blank = <<>>) /\ I!WriteSome(blank)
    BY <1>1, <1>19, <2>1 DEF I!ScanDone, I!input
  <2> QED BY <2>2, <2>3, <2>5, <2>6
<1>20. CASE I!BlockDone
  <2>1. /\ pc = "blocks" /\ pc' = "blocks" /\ top.node # 0 /\ doc' = doc
        /\ scratch' = scratch \ {I!Blocks(top.node), I!Section(top.node)}
        /\ stack' = I!Advanced(I!Front(stack)) /\ pc \notin {"start", "returned"}
    BY <1>1, <1>20 DEF I!BlockDone, I!input
  <2>2. n >= 2 /\ n \in Nat
    <3>1. n \in Nat /\ n >= 1 /\ (top.node = 0 <=> n = 1)
      BY <1>1, <2>1, Zenon
    <3>2. n # 1
      BY <2>1, <3>1, Zenon
    <3> QED BY <3>1, <3>2, AtLeastTwo, Zenon
  <2>3. PICK t : t = SubSeq(stack, 1, n - 1)
    OBVIOUS
  <2>4. /\ IniFrames(doc, t) /\ Len(t) = n - 1 /\ t # <<>>
        /\ \A b \in BOOLEAN :
              IniHeld(stack, b) \ {<<"section", NodeOf(stack, n)>>, <<"blocks", NodeOf(stack, n)>>,
                                  <<"entries", NodeOf(stack, n)>>} \subseteq IniHeld(t, FALSE)
    BY <1>0, <2>2, <2>3, IniPop
  <2>5. PICK m \in Nat : m = Len(t) /\ m >= 1
    BY <2>2, <2>4
  <2>6. IniFrameOK(doc, t[m]) /\ NodeOf(t, m) = t[m].node
    BY <2>4, <2>5 DEF IniFrames, NodeOf
  <2>7. PICK k \in Nat : k = t[m].done + 1
    BY <2>6 DEF IniFrameOK
  <2>8. PICK f : f = [t[m] EXCEPT !.done = k]
    OBVIOUS
  <2>9. IniFrameOK(doc, f) /\ f.node = NodeOf(t, m) /\ f.blocks = t[m].blocks
    BY <2>6, <2>8, IniDone
  <2>10. PICK u : u = [t EXCEPT ![Len(t)] = f]
    OBVIOUS
  <2>11. stack' = u
    BY <2>1, <2>3, <2>4, <2>5, <2>7, <2>8, <2>10 DEF I!Advanced, I!Front
  <2>12. /\ IniFrames(doc, u) /\ Len(u) = m
         /\ \A b \in BOOLEAN : IniHeld(t, b) \subseteq IniHeld(u, b)
    <3>1. Replaced(t, f, u) /\ Len(t) >= 1 /\ (t[Len(t)].blocks # <<>> => f.blocks # <<>>)
      BY <2>5, <2>9, <2>10 DEF Replaced
    <3>2. f.node = NodeOf(t, Len(t))
      BY <2>5, <2>9
    <3>3. /\ IniFrames(doc, u) /\ Len(t) \in Nat /\ Len(u) = Len(t) /\ u[Len(t)] = f
          /\ \A b \in BOOLEAN : IniHeld(t, b) \subseteq IniHeld(u, b)
          /\ f.blocks # <<>> => <<"blocks", f.node>> \in IniHeld(u, TRUE)
      BY <2>4, <2>9, <3>1, <3>2, IniReplace, Zenon
    <3> QED BY <2>5, <3>3
  <2>13. ASSUME NEW x \in scratch' PROVE x \in Leak(doc) \cup IniHeld(u, FALSE)
    <3>1. x \in Leak(doc) \/ x \in IniHeld(stack, FALSE)
      BY <1>0, <2>1
    <3>2. x # <<"section", NodeOf(stack, n)>> /\ x # <<"blocks", NodeOf(stack, n)>>
      BY <1>1, <2>1 DEF I!Section, I!Blocks
    <3>3. x \in IniHeld(stack, FALSE) => x # <<"entries", NodeOf(stack, n)>>
      BY DEF IniHeld
    <3> QED BY <2>4, <2>12, <3>1, <3>2, <3>3
  <2>14. u # <<>>
    <3>1. Len(u) # 0
      BY <2>5, <2>12
    <3> QED BY <3>1, SeqEmpty, Zenon
  <2>15. IniInside(stack', pc', stack'[Len(stack')])
    BY <2>1, <2>11, <2>14 DEF IniInside
  <2>16. scratch' \subseteq Leak(doc') \cup IniHeld(stack', pc' = "scan")
    <3>1. (pc' = "scan") = FALSE
      BY <2>1
    <3> QED BY <2>1, <2>11, <2>13, <3>1
  <2> QED BY <1>0, <2>1, <2>11, <2>12, <2>15, <2>16 DEF IniHolds
<1>21. CASE I!RootDone
  <2>1. /\ Len(stack) = 1 /\ pc \in {"blocks", "unwind"} /\ doc' = doc /\ stack' = <<>>
        /\ scratch' = scratch \ {I!Blocks(0)} /\ pc' = "returned"
    BY <1>21 DEF I!RootDone, I!Return, I!input
  <2>2. NodeOf(stack, 1) = 0
    BY <1>1, <2>1
  <2>3. ASSUME NEW x \in IniHeld(stack, FALSE) PROVE x = I!Blocks(0)
    <3>1. PICK k \in 1 .. Len(stack) : x = <<"blocks", NodeOf(stack, k)>>
      BY <2>1, <2>3 DEF IniHeld
    <3>2. k = 1
      BY <2>1
    <3> QED BY <2>2, <3>1, <3>2 DEF I!Blocks
  <2>4. (pc = "scan") = FALSE
    BY <2>1
  <2>5. scratch' \subseteq Leak(doc')
    BY <1>0, <2>1, <2>3, <2>4
  <2>6. IniFrames(doc', stack')
    BY <2>1, SeqNone, SeqEmpty DEF IniFrames
  <2> QED BY <1>0, <2>1, <2>5, <2>6 DEF IniHolds
<1>22. CASE I!Unwind
  <2>1. /\ pc = "unwind" /\ n > 1 /\ stack' = I!Front(stack) /\ pc' = "unwind" /\ doc' = doc
        /\ scratch' = scratch \ {I!Blocks(top.node), I!Section(top.node)}
        /\ pc \notin {"start", "returned"}
    BY <1>1, <1>22 DEF I!Unwind, I!Leave, I!input
  <2>2. scratch' \subseteq scratch \ {I!Section(top.node)} /\ I!Blocks(top.node) \notin scratch'
    BY <2>1
  <2> QED BY <1>2, <2>1, <2>2
<1> QED BY <1>10, <1>11, <1>12, <1>13, <1>14, <1>15, <1>16, <1>17, <1>18, <1>19, <1>20, <1>21, <1>22 DEF I!Next

-----------------------------------------------------------------------------
(* Every call of an exporter                                               *)

CallHolds ==
    /\ format \in {"json", "yaml", "ini"}
    /\ format = "json" => JsonHolds
    /\ format = "yaml" => YamlHolds
    /\ format = "ini" => IniHolds

\* A call starts with nothing held.
LEMMA CallStarts == Init => CallHolds
<1> SUFFICES ASSUME Init PROVE CallHolds
  OBVIOUS
<1>1. CASE format = "json" /\ J!Init
  <2>1. scratch = {} /\ stack = <<>> /\ pc = "start"
    BY <1>1 DEF J!Init, J!ExportInit
  <2> QED BY <1>1, <2>1, FramesEmpty DEF CallHolds, JsonHolds
<1>2. CASE format = "yaml" /\ Y!Init
  <2>1. scratch = {} /\ stack = <<>> /\ pc = "start"
    BY <1>2 DEF Y!Init, Y!ExportInit
  <2> QED BY <1>2, <2>1, FramesEmpty DEF CallHolds, YamlHolds
<1>3. CASE format = "ini" /\ I!Init
  <2>1. scratch = {} /\ stack = <<>> /\ pc = "start" /\ DocTree(doc)
    BY <1>3, IniTree DEF I!Init, I!ExportInit
  <2>2. IniFrames(doc, stack)
    BY <2>1, SeqNone, SeqEmpty DEF IniFrames
  <2> QED BY <1>3, <2>1, <2>2 DEF CallHolds, IniHolds
<1> QED BY <1>1, <1>2, <1>3 DEF Init

\* Every step of whichever exporter was called keeps the bound.
LEMMA CallGoesOn == CallHolds /\ [Next]_vars => CallHolds'
<1> SUFFICES ASSUME CallHolds, [Next]_vars PROVE CallHolds'
  OBVIOUS
<1>1. CASE format = "json" /\ J!Next /\ UNCHANGED <<format, yaml>>
  BY <1>1, JsonHoldsStep DEF CallHolds
<1>2. CASE format = "yaml" /\ Y!Next /\ UNCHANGED format
  BY <1>2, YamlHoldsStep DEF CallHolds
<1>3. CASE format = "ini" /\ I!Next /\ UNCHANGED <<format, yaml>>
  BY <1>3, IniHoldsStep DEF CallHolds
<1>4. CASE UNCHANGED vars
  <2>1. UNCHANGED <<format, doc, scratch, stack, pc>>
    BY <1>4 DEF vars, input
  <2>2. JsonHolds => JsonHolds'
    BY <2>1 DEF JsonHolds
  <2>3. YamlHolds => YamlHolds'
    BY <2>1 DEF YamlHolds
  <2>4. IniHolds => IniHolds'
    BY <2>1 DEF IniHolds, IniInside
  <2> QED BY <2>1, <2>2, <2>3, <2>4 DEF CallHolds
<1> QED BY <1>1, <1>2, <1>3, <1>4 DEF Next

\* When the call returns there are no frames left to hold anything.
LEMMA CallReleases == CallHolds => ReleasesScratch
<1> SUFFICES ASSUME CallHolds, pc = "returned" PROVE ReleasesScratch
  BY DEF ReleasesScratch, I!IniScratch, ScratchReleased
<1>1. CASE format = "json"
  <2>1. scratch \subseteq HeldFor(stack) /\ stack = <<>>
    BY <1>1 DEF CallHolds, JsonHolds
  <2> QED BY <1>1, <2>1, FramesEmpty DEF ReleasesScratch, ScratchReleased
<1>2. CASE format = "yaml"
  <2>1. scratch = {}
    BY <1>2 DEF CallHolds, YamlHolds
  <2> QED BY <1>2, <2>1 DEF ReleasesScratch, ScratchReleased
<1>3. CASE format = "ini"
  <2>1. stack = <<>> /\ scratch \subseteq Leak(doc) \cup IniHeld(stack, pc = "scan") /\ DocTree(doc)
    BY <1>3 DEF CallHolds, IniHolds, IniInside
  <2>2. (pc = "scan") = FALSE /\ IniHeld(<<>>, FALSE) = {}
    BY SeqEmpty DEF IniHeld
  <2>3. ASSUME NEW x \in scratch
        PROVE  x \in {I!Blocks(p) : p \in {q \in 1 .. doc.size :
                          \E i \in I!ToSet(I!Children(q)) : I!Kind(i) = "corrupt"}}
    <3>1. x \in Leak(doc)
      BY <2>1, <2>2
    <3>2. PICK q \in 1 .. doc.size : \E i \in KidSet(doc, q) :
             x = <<"blocks", q>> /\ i # 0 /\ doc.kind[i] = "corrupt"
      BY <3>1 DEF Leak
    <3>0. PICK i \in KidSet(doc, q) : x = <<"blocks", q>> /\ i # 0 /\ doc.kind[i] = "corrupt"
      BY <3>2
    <3>3. i \in I!ToSet(I!Children(q)) /\ I!Kind(i) = "corrupt" /\ x = I!Blocks(q)
      BY <3>0 DEF KidSet, I!ToSet, I!Children, I!Kind, I!Blocks
    <3> QED BY <3>3
  <2> QED BY <1>3, <2>3 DEF ReleasesScratch, I!IniScratch
<1> QED BY <1>1, <1>2, <1>3 DEF CallHolds

\* Whichever exporter was called and whichever step of it failed, the scratch
\* memory of bc_hrbl_export_json_ex, bc_hrbl_export_yaml_ex and
\* bc_hrbl_export_ini_ex is released when the call returns; the one exception
\* is the list of blocks put aside by an INI block that then meets an entry
\* whose kind cannot be read.
THEOREM ReleasesScratchHolds == Spec => []ReleasesScratch
<1>1. Spec => []CallHolds
  BY CallStarts, CallGoesOn, PTL DEF Spec
<1> QED BY <1>1, CallReleases, PTL

-----------------------------------------------------------------------------
(* The orders and the texts of the two exporters                           *)

\* The orders an instance of the exporters may take are those of the document's own module.
LEMMA Same ==
  /\ \A p : J!Orders(p) = Orders(p) /\ Y!Orders(p) = Orders(p)
  /\ J!Orderings = Orderings /\ Y!Orderings = Orderings
<1>1. ASSUME NEW S PROVE J!SetToSeqs(S) = SetToSeqs(S) /\ Y!SetToSeqs(S) = SetToSeqs(S)
  BY DEF J!SetToSeqs, Y!SetToSeqs, SetToSeqs, J!Cardinality, Y!Cardinality, Cardinality
<1>2. ASSUME NEW p PROVE J!Orders(p) = Orders(p) /\ Y!Orders(p) = Orders(p)
  BY <1>1, Zenon DEF J!Orders, Y!Orders, Orders, J!ToSet, Y!ToSet, ToSet, J!Children, Y!Children, Children,
     J!InOrder, Y!InOrder, InOrder, J!Kind, Y!Kind, Kind, J!Key, Y!Key, Key
<1>3. J!Orderings = Orderings /\ Y!Orderings = Orderings
  BY DEF J!Orderings, Y!Orderings, Orderings, J!Orders, Y!Orders, Orders, J!ToSet, Y!ToSet, ToSet,
     J!Children, Y!Children, Children, J!InOrder, Y!InOrder, InOrder, J!Kind, Y!Kind, Kind, J!Key, Y!Key, Key,
     J!SetToSeqs, Y!SetToSeqs, SetToSeqs, J!Cardinality, Y!Cardinality, Cardinality
<1> QED BY <1>2, <1>3

\* So is the text a grammar makes.
LEMMA SameText ==
  ASSUME NEW o, NEW b, NEW l, NEW e
  PROVE  J!Rendered(o, b, l, e) = Rendered(o, b, l, e) /\ Y!Rendered(o, b, l, e) = Rendered(o, b, l, e)
  BY DEF J!Rendered, Y!Rendered, Rendered

\* The image's own order.
LEMMA ImageOrder ==
  ASSUME NEW d, DocTree(d), NEW p \in 0 .. d.size
  PROVE  /\ Cardinality(KidSet(d, p)) \in 0 .. d.size
         /\ d.children[p] \in SetToSeqs(KidSet(d, p))
<1>1. PICK N \in Nat : N = d.size
  BY DEF DocTree
<1>2. PICK x, S : x = d.children[p] /\ S = KidSet(d, p)
  OBVIOUS
<1>3. /\ x \in Seq(p + 1 .. N) /\ \A j, k \in DOMAIN x : x[j] = x[k] => j = k
      /\ S = {x[k] : k \in DOMAIN x}
  <2>1. d.children[p] \in Seq(p + 1 .. d.size)
    BY DEF DocTree
  <2>2. \A j, k \in DOMAIN d.children[p] : d.children[p][j] = d.children[p][k] => j = k
    BY DEF DocTree
  <2>3. KidSet(d, p) = {d.children[p][k] : k \in DOMAIN d.children[p]}
    BY DEF KidSet
  <2> QED BY <1>1, <1>2, <2>1, <2>2, <2>3
<1>4. IsFiniteSet(S) /\ S \subseteq p + 1 .. N
  BY <1>1, <1>2, KidsFinite
<1>5. PICK n \in Nat : n = Len(x) /\ DOMAIN x = 1 .. n
  BY <1>3
<1>6. x \in [1 .. n -> S]
  <2>1. x = [k \in 1 .. n |-> x[k]]
    BY <1>3, <1>5
  <2> QED BY <1>3, <1>5, <2>1
<1>7. x \in Surjection(1 .. n, S) /\ x \in Injection(1 .. n, S)
  BY <1>3, <1>5, <1>6 DEF Surjection, Injection, IsInjective
<1>8. IsFiniteSet(1 .. n) /\ Cardinality(1 .. n) = n
  BY FS_Interval
<1>9. Cardinality(S) = n
  BY <1>7, <1>8, FS_Surjection
<1>10. Cardinality(S) \in 0 .. N
  <2>1. S \subseteq 1 .. N
    BY <1>4
  <2>2. IsFiniteSet(1 .. N) /\ Cardinality(1 .. N) = N
    BY FS_Interval
  <2>3. Cardinality(S) <= N
    BY <2>1, <2>2, FS_Subset
  <2> QED BY <1>9, <2>3
<1>11. x \in SetToSeqs(S)
  BY <1>3, <1>5, <1>6, <1>9 DEF SetToSeqs
<1> QED BY <1>1, <1>2, <1>10, <1>11

\* The entries of a container have an order, and each order has each of them once.
LEMMA OrdersGood ==
  ASSUME DocTree(doc), DocKeys(doc), NEW p \in 0 .. doc.size
  PROVE  Orders(p) # {} /\ \A x \in Orders(p) : OrderOf(doc, p, x)
<1>1. PICK N \in Nat : N = doc.size
  BY DEF DocTree
<1>2. PICK S : S = KidSet(doc, p) /\ S = ToSet(Children(p))
  BY DEF KidSet, ToSet, Children
<1>3. PICK n \in 0 .. N : n = Cardinality(S)
  BY <1>1, <1>2, ImageOrder
<1>4. S \subseteq 1 .. N /\ IsFiniteSet(S)
  <2>1. S \subseteq p + 1 .. N /\ IsFiniteSet(S)
    BY <1>1, <1>2, KidsFinite
  <2> QED BY <1>1, <2>1
<1>5. ASSUME NEW x \in Orders(p) PROVE OrderOf(doc, p, x)
  <2>1. x \in [1 .. n -> S] /\ \A i, j \in 1 .. n : i # j => x[i] # x[j]
    BY <1>2, <1>3 DEF Orders, SetToSeqs
  <2>2. x \in Seq(S) /\ Len(x) = n
    BY <2>1
  <2>3. x \in Injection(1 .. n, S)
    BY <2>1 DEF Injection, IsInjective
  <2>4. IsFiniteSet(1 .. n) /\ Cardinality(1 .. n) = n
    BY FS_Interval
  <2>5. x \in Surjection(1 .. n, S)
    BY <1>3, <1>4, <2>3, <2>4, FS_Injection
  <2> QED BY <1>1, <1>2, <2>1, <2>2, <2>5 DEF OrderOf, Surjection
<1>6. Orders(p) # {}
  <2>1. CASE Kind(p) = "block" /\ sort_keys
    <3>1. \A i \in 1 .. N : doc.key[i] \in Nat
      BY <1>1 DEF DocKeys
    <3>2. PICK x : Sorts(S, doc.key, x)
      BY <1>4, <3>1, SortedOrder
    <3>3. /\ x \in [1 .. n -> S] /\ \A i, j \in 1 .. n : i # j => x[i] # x[j]
          /\ \A i, j \in 1 .. n : i < j => doc.key[x[i]] <= doc.key[x[j]]
      BY <1>3, <3>2 DEF Sorts
    <3>4. Len(x) = n
      BY <3>3
    <3>5. x \in SetToSeqs(S)
      BY <1>3, <3>3 DEF SetToSeqs
    <3> QED BY <1>2, <2>1, <3>3, <3>4, <3>5 DEF Orders, InOrder, Key
  <2>2. CASE ~(Kind(p) = "block" /\ sort_keys)
    <3>1. Children(p) \in SetToSeqs(S)
      BY <1>2, ImageOrder DEF Children
    <3> QED BY <1>2, <2>2, <3>1 DEF Orders, InOrder
  <2> QED BY <2>1, <2>2
<1> QED BY <1>5, <1>6

\* An order for each container makes an ordering.
LEMMA PlanIsOrdering ==
  ASSUME doc.size \in Nat, NEW o, o = [p \in 0 .. doc.size |-> o[p]],
         \A p \in 0 .. doc.size : o[p] \in Orders(p)
  PROVE  o \in Orderings
<1>1. PICK N \in Nat : N = doc.size
  OBVIOUS
<1> DEFINE Eq(c) == c = [p \in 0 .. doc.size |->
                           IF p = 0 THEN {[q \in {0} |-> order] : order \in Orders(0)}
                           ELSE {[q \in 0 .. p |-> IF q = p THEN more[2] ELSE more[1][q]] :
                              more \in c[p - 1] \X Orders(p)}]
           c == CHOOSE c : Eq(c)
           U == UNION {Orders(q) : q \in 0 .. N}
           Chosen(p) == {f \in [0 .. p -> U] : \A q \in 0 .. p : f[q] \in Orders(q)}
           whole == [p \in 0 .. N |-> Chosen(p)]
<1>2. Orderings = c[N]
  BY <1>1 DEF Orderings
<1>3. Chosen(0) = {[q \in {0} |-> order] : order \in Orders(0)}
  <2>1. 0 .. 0 = {0}
    OBVIOUS
  <2>2. ASSUME NEW f \in Chosen(0) PROVE f \in {[q \in {0} |-> order] : order \in Orders(0)}
    <3>1. f = [q \in {0} |-> f[0]] /\ f[0] \in Orders(0)
      BY <2>1
    <3> QED BY <3>1
  <2>3. ASSUME NEW order \in Orders(0) PROVE [q \in {0} |-> order] \in Chosen(0)
    <3>1. order \in U
      OBVIOUS
    <3> QED BY <2>1, <3>1
  <2> QED BY <2>2, <2>3
<1>4. ASSUME NEW p \in 1 .. N
      PROVE  Chosen(p) = {[q \in 0 .. p |-> IF q = p THEN more[2] ELSE more[1][q]] :
                              more \in Chosen(p - 1) \X Orders(p)}
  <2>1. p \in 0 .. N /\ \A q \in 0 .. p : q = p \/ q \in 0 .. p - 1
    OBVIOUS
  <2>2. ASSUME NEW h \in Chosen(p)
        PROVE  \E f \in Chosen(p - 1), order \in Orders(p) :
                  h = [q \in 0 .. p |-> IF q = p THEN order ELSE f[q]]
    <3> DEFINE f == [q \in 0 .. p - 1 |-> h[q]]
    <3>1. \A q \in 0 .. p - 1 : q \in 0 .. p
      OBVIOUS
    <3>2. h \in [0 .. p -> U] /\ \A q \in 0 .. p : h[q] \in Orders(q)
      OBVIOUS
    <3>3. f \in Chosen(p - 1)
      <4> HIDE DEF U
      <4> QED BY <3>1, <3>2
    <3>4. h[p] \in Orders(p)
      BY <3>2
    <3>5. h = [q \in 0 .. p |-> IF q = p THEN h[p] ELSE f[q]]
      <4>1. \A q \in 0 .. p : h[q] = IF q = p THEN h[p] ELSE f[q]
        BY <2>1
      <4> HIDE DEF f, U
      <4> QED BY <3>2, <4>1
    <3> QED BY <3>3, <3>4, <3>5
  <2>3. ASSUME NEW f \in Chosen(p - 1), NEW order \in Orders(p)
        PROVE  [q \in 0 .. p |-> IF q = p THEN order ELSE f[q]] \in Chosen(p)
    <3>1. order \in U
      BY <2>1
    <3> HIDE DEF U
    <3>2. ASSUME NEW q \in 0 .. p
          PROVE  (IF q = p THEN order ELSE f[q]) \in U /\ (IF q = p THEN order ELSE f[q]) \in Orders(q)
      BY <2>1, <3>1
    <3> QED BY <3>2
  <2> HIDE DEF Chosen
  <2>4. ASSUME NEW h \in Chosen(p)
        PROVE  \E more \in Chosen(p - 1) \X Orders(p) : h = [q \in 0 .. p |-> IF q = p THEN more[2] ELSE more[1][q]]
    <3>1. PICK f \in Chosen(p - 1), order \in Orders(p) : h = [q \in 0 .. p |-> IF q = p THEN order ELSE f[q]]
      BY <2>2
    <3>2. PICK more : more = <<f, order>>
      OBVIOUS
    <3>3. more \in Chosen(p - 1) \X Orders(p) /\ more[1] = f /\ more[2] = order
      BY <3>2
    <3> QED BY <3>1, <3>3
  <2>5. ASSUME NEW more \in Chosen(p - 1) \X Orders(p)
        PROVE  [q \in 0 .. p |-> IF q = p THEN more[2] ELSE more[1][q]] \in Chosen(p)
    <3>1. PICK f \in Chosen(p - 1), order \in Orders(p) : more = <<f, order>> /\ more[1] = f /\ more[2] = order
      OBVIOUS
    <3> QED BY <2>3, <3>1
  <2> QED BY <2>4, <2>5
<1>5. \E d : Eq(d)
  <2> DEFINE e(p) == IF p = 0 THEN {[q \in {0} |-> order] : order \in Orders(0)}
                     ELSE {[q \in 0 .. p |-> IF q = p THEN more[2] ELSE more[1][q]] :
                              more \in whole[p - 1] \X Orders(p)}
  <2>1. ASSUME NEW p \in 0 .. N PROVE whole[p] = e(p)
    <3>1. CASE p = 0
      BY <1>3, <3>1
    <3>2. CASE p # 0
      <4>1. p \in 1 .. N /\ p - 1 \in 0 .. N
        BY <3>2
      <4>2. whole[p] = Chosen(p) /\ whole[p - 1] = Chosen(p - 1)
        <5> HIDE DEF Chosen
        <5> QED BY <4>1
      <4> HIDE DEF Chosen, whole
      <4> QED BY <1>4, <3>2, <4>1, <4>2
    <3> HIDE DEF e, whole
    <3> QED BY <3>1, <3>2
  <2>2. whole = [p \in 0 .. N |-> whole[p]]
    <3> HIDE DEF Chosen
    <3> QED OBVIOUS
  <2> HIDE DEF e, whole
  <2>3. whole = [p \in 0 .. N |-> e(p)]
    BY <2>1, <2>2
  <2>5. whole = [p \in 0 .. doc.size |-> e(p)]
    BY <1>1, <2>3
  <2>4. Eq(whole)
    BY <2>5, Zenon DEF e
  <2> QED
    <3> HIDE DEF Eq
    <3> QED BY <2>4
<1>6. Eq(c)
  <2> HIDE DEF Eq
  <2> QED BY <1>5
<1>7. /\ c[0] = {[q \in {0} |-> order] : order \in Orders(0)}
      /\ \A p \in 1 .. N : c[p] = {[q \in 0 .. p |-> IF q = p THEN more[2] ELSE more[1][q]] :
                              more \in c[p - 1] \X Orders(p)}
  <2> HIDE DEF c
  <2> DEFINE e(p) == IF p = 0 THEN {[q \in {0} |-> order] : order \in Orders(0)}
                       ELSE {[q \in 0 .. p |-> IF q = p THEN more[2] ELSE more[1][q]] :
                              more \in c[p - 1] \X Orders(p)}
  <2>6. c = [p \in 0 .. doc.size |-> e(p)]
    BY <1>6, Zenon DEF Eq, e
  <2> HIDE DEF e
  <2>1. c = [p \in 0 .. N |-> e(p)]
    BY <1>1, <2>6
  <2>2. \A p \in 0 .. N : c[p] = e(p)
    BY <2>1
  <2>3. 0 \in 0 .. N /\ \A p \in 1 .. N : p \in 0 .. N /\ p # 0
    OBVIOUS
  <2>4. c[0] = e(0) /\ \A p \in 1 .. N : c[p] = e(p) /\ p # 0
    BY <2>2, <2>3
  <2>5. e(0) = {[q \in {0} |-> order] : order \in Orders(0)}
    BY Zenon DEF e
  <2>7. ASSUME NEW p \in 1 .. N
        PROVE  e(p) = {[q \in 0 .. p |-> IF q = p THEN more[2] ELSE more[1][q]] :
                              more \in c[p - 1] \X Orders(p)}
    BY <2>4, Zenon DEF e
  <2>8. ASSUME NEW p \in 1 .. N
        PROVE  c[p] = {[q \in 0 .. p |-> IF q = p THEN more[2] ELSE more[1][q]] :
                              more \in c[p - 1] \X Orders(p)}
    BY <2>4, <2>7, Zenon
  <2> QED BY <2>4, <2>5, <2>8, Zenon
<1> HIDE DEF c, Eq
<1> DEFINE first(p) == [q \in 0 .. p |-> o[q]]
           T == {p \in 0 .. N : first(p) \in c[p]}
<1>8. 0 \in T
  <2>1. first(0) = [q \in {0} |-> o[0]] /\ o[0] \in Orders(0)
    BY <1>1
  <2> QED BY <1>7, <2>1
<1>9. ASSUME NEW p \in 1 .. N, p - 1 \in T PROVE p \in T
  <2>1. o[p] \in Orders(p) /\ first(p - 1) \in c[p - 1]
    BY <1>1, <1>9
  <2>2. first(p) = [q \in 0 .. p |-> IF q = p THEN o[p] ELSE first(p - 1)[q]]
    <3>1. \A q \in 0 .. p : o[q] = IF q = p THEN o[p] ELSE first(p - 1)[q]
      OBVIOUS
    <3> QED BY <3>1
  <2>3. PICK h, x : h = first(p - 1) /\ x = o[p]
    OBVIOUS
  <2> HIDE DEF first
  <2>4. first(p) = [q \in 0 .. p |-> IF q = p THEN x ELSE h[q]] /\ h \in c[p - 1] /\ x \in Orders(p)
    BY <2>1, <2>2, <2>3
  <2>5. [q \in 0 .. p |-> IF q = p THEN x ELSE h[q]] \in c[p]
    <3>1. PICK more : more = <<h, x>>
      OBVIOUS
    <3>2. more \in c[p - 1] \X Orders(p) /\ more[1] = h /\ more[2] = x
      BY <2>4, <3>1
    <3>3. [q \in 0 .. p |-> IF q = p THEN more[2] ELSE more[1][q]] \in c[p]
      BY <1>7, <3>2
    <3> QED BY <3>2, <3>3
  <2>6. first(p) \in c[p] /\ p \in 0 .. N
    BY <2>4, <2>5
  <2> QED BY <2>6
<1> HIDE DEF T
<1>10. N \in T
  BY <1>8, <1>9, UpTo
<1> QED BY <1>1, <1>2, <1>10 DEF T

\* The reference text of an ordering.
LEMMA RenderedText ==
  ASSUME DocTree(doc), NEW g, Grammar(doc, g), NEW o, Plan(doc, g, o)
  PROVE  \E r : TextsOf(doc, g, o, r) /\ Rendered(o, g.begin, g.lead, g.end) = g.begin[0] \o r[<<0, 1>>]
<1> DEFINE Eq(r) == r = [at \in (0 .. doc.size) \X (1 .. doc.size + 1) |->
                           LET i == at[1]
                               k == at[2]
                               c == o[i][k]
                           IN  IF k > Len(o[i]) THEN g.end[i]
                               ELSE g.lead[i][k][c] \o (g.begin[c] \o (r[<<c, 1>>] \o r[<<i, k + 1>>]))]
           t == CHOOSE r : Eq(r)
<1>1. Rendered(o, g.begin, g.lead, g.end) = g.begin[0] \o t[<<0, 1>>]
  BY DEF Rendered
<1>2. PICK r \in [Grid(doc) -> Seq(Tok)] : TextsOf(doc, g, o, r)
  BY TextsExist
<1>3. Eq(r)
  <2> DEFINE e(at) == TextAt(g, o, r, at[1], at[2])
  <2>1. \A i \in 0 .. doc.size, k \in 1 .. doc.size + 1 : r[<<i, k>>] = TextAt(g, o, r, i, k)
    BY <1>2 DEF TextsOf, TextRow
  <2>2. \A at \in Grid(doc) : at[1] \in 0 .. doc.size /\ at[2] \in 1 .. doc.size + 1 /\ at = <<at[1], at[2]>>
    BY DEF Grid
  <2>3. \A at \in Grid(doc) : r[at] = e(at)
    BY <2>1, <2>2
  <2>4. r = [at \in Grid(doc) |-> r[at]]
    OBVIOUS
  <2> HIDE DEF e
  <2>5. r = [at \in Grid(doc) |-> e(at)]
    BY <2>3, <2>4
  <2> QED BY <2>5, Zenon DEF e, Grid, TextAt
<1>4. Eq(t)
  <2> HIDE DEF Eq
  <2> QED BY <1>3
<1>5. TextFunction(doc, g, o, t)
  <2> HIDE DEF t
  <2> DEFINE e(at) == TextAt(g, o, t, at[1], at[2])
  <2>1. t = [at \in Grid(doc) |-> e(at)]
    BY <1>4, Zenon DEF e, Grid, TextAt
  <2>2. \A i \in 0 .. doc.size, k \in 1 .. doc.size + 1 :
            <<i, k>> \in Grid(doc) /\ <<i, k>>[1] = i /\ <<i, k>>[2] = k
    BY DEF Grid
  <2>3. \A i \in 0 .. doc.size, k \in 1 .. doc.size + 1 : e(<<i, k>>) = TextAt(g, o, t, i, k)
    BY <2>2
  <2> HIDE DEF e
  <2>4. \A i \in 0 .. doc.size, k \in 1 .. doc.size + 1 : t[<<i, k>>] = e(<<i, k>>)
    BY <2>1, <2>2
  <2> QED BY <2>3, <2>4 DEF TextFunction
<1> HIDE DEF t
<1>6. TextsOf(doc, g, o, t)
  BY <1>2, <1>5, TextsUnique
<1> QED BY <1>1, <1>6

\* A document of the bounds is a tree, its nodes with keys, with entries in containers only.
LEMMA DocumentSound ==
  ASSUME NEW n \in Nat, NEW f \in Forests(n), NEW kind \in Labels(f, n, Kinds, {"block", "array"}),
         NEW key \in [KeyedNodes(f, n, kind) -> Keys],
         NEW d, d = [size |-> n, kind |-> kind, children |-> ChildLists(f, n),
                     key |-> [i \in 1 .. n |-> IF i \in DOMAIN key THEN key[i] ELSE 0]]
  PROVE  DocSound(d)
<1>1. d.size = n /\ d.children = ChildLists(f, n) /\ d.kind = kind
      /\ d.key = [i \in 1 .. n |-> IF i \in DOMAIN key THEN key[i] ELSE 0]
  OBVIOUS
<1>2. DocTree(d)
  BY <1>1, ListsAreTree
<1>3. DocKeys(d)
  <2>1. \A i \in DOMAIN key : key[i] \in Nat
    BY ExportAssumption
  <2>2. \A i \in 1 .. n : d.key[i] = IF i \in DOMAIN key THEN key[i] ELSE 0
    BY <1>1
  <2>3. \A i \in 1 .. n : d.key[i] \in Nat
    BY <2>1, <2>2
  <2> QED BY <1>1, <2>3 DEF DocKeys
<1>4. LeavesBare(d)
  <2> SUFFICES ASSUME NEW i \in 0 .. n, NEW m \in KidSet(d, i) PROVE Holder(d, i)
    BY <1>1 DEF LeavesBare
  <2>1. Parents(f, n)
    BY DEF Forests, Parents
  <2>2. Listed(f, n, n, d.children)
    BY <1>1, <2>1, ChildrenListed
  <2>3. PICK j \in DOMAIN d.children[i] : m = d.children[i][j]
    BY DEF KidSet
  <2>4. m \in 1 .. n /\ f[m] = i
    <3>1. j \in 1 .. Len(d.children[i])
      BY <2>2, <2>3 DEF Listed, Ascends
    <3> QED BY <2>2, <2>3, <3>1 DEF Listed
  <2>5. i # 0 => kind[i] \in {"block", "array"}
    BY <2>4 DEF Labels
  <2> QED BY <1>1, <2>5 DEF Holder, KindIn
<1> QED BY <1>2, <1>3, <1>4 DEF DocSound

\* The documents a JSON export starts with.
LEMMA JsonSound == J!SomeDocument => DocSound(doc)
<1> SUFFICES ASSUME J!SomeDocument PROVE DocSound(doc)
  OBVIOUS
<1>0. \A n \in 0 .. MaxNodes : n \in Nat
  BY ExportAssumption
<1>1. PICK n \in 0 .. MaxNodes : \E f \in J!Forests(n) : \E kind \in J!Labels(f, n, Kinds, {"block", "array"}) :
            \E key \in [J!KeyedNodes(f, n, kind) -> Keys] :
                doc = [size |-> n, kind |-> kind, children |-> J!ChildLists(f, n),
                       key |-> [i \in 1 .. n |-> IF i \in DOMAIN key THEN key[i] ELSE 0]]
  BY DEF J!SomeDocument
<1>2. PICK f \in J!Forests(n) : \E kind \in J!Labels(f, n, Kinds, {"block", "array"}) :
            \E key \in [J!KeyedNodes(f, n, kind) -> Keys] :
                doc = [size |-> n, kind |-> kind, children |-> J!ChildLists(f, n),
                       key |-> [i \in 1 .. n |-> IF i \in DOMAIN key THEN key[i] ELSE 0]]
  BY <1>1
<1>3. PICK kind \in J!Labels(f, n, Kinds, {"block", "array"}) :
            \E key \in [J!KeyedNodes(f, n, kind) -> Keys] :
                doc = [size |-> n, kind |-> kind, children |-> J!ChildLists(f, n),
                       key |-> [i \in 1 .. n |-> IF i \in DOMAIN key THEN key[i] ELSE 0]]
  BY <1>2
<1>4. PICK key \in [J!KeyedNodes(f, n, kind) -> Keys] :
                doc = [size |-> n, kind |-> kind, children |-> J!ChildLists(f, n),
                       key |-> [i \in 1 .. n |-> IF i \in DOMAIN key THEN key[i] ELSE 0]]
  BY <1>3
<1>5. f \in Forests(n) /\ kind \in Labels(f, n, Kinds, {"block", "array"})
  BY DEF J!Forests, Forests, J!Labels, Labels
<1>6. key \in [KeyedNodes(f, n, kind) -> Keys]
  BY DEF J!KeyedNodes, KeyedNodes
<1>7. J!ChildLists(f, n) = ChildLists(f, n)
  BY DEF J!ChildLists, ChildLists
<1>8. doc = [size |-> n, kind |-> kind, children |-> ChildLists(f, n),
             key |-> [i \in 1 .. n |-> IF i \in DOMAIN key THEN key[i] ELSE 0]]
  BY <1>4, <1>7
<1> QED BY <1>0, <1>5, <1>6, <1>8, DocumentSound

\* The documents a YAML export starts with.
LEMMA YamlSound == Y!SomeDocument => DocSound(doc)
<1> SUFFICES ASSUME Y!SomeDocument PROVE DocSound(doc)
  OBVIOUS
<1>0. \A n \in 0 .. MaxNodes : n \in Nat
  BY ExportAssumption
<1>1. PICK n \in 0 .. MaxNodes : \E f \in Y!Forests(n) : \E kind \in Y!Labels(f, n, Kinds, {"block", "array"}) :
            \E key \in [Y!KeyedNodes(f, n, kind) -> Keys] :
                doc = [size |-> n, kind |-> kind, children |-> Y!ChildLists(f, n),
                       key |-> [i \in 1 .. n |-> IF i \in DOMAIN key THEN key[i] ELSE 0]]
  BY DEF Y!SomeDocument
<1>2. PICK f \in Y!Forests(n) : \E kind \in Y!Labels(f, n, Kinds, {"block", "array"}) :
            \E key \in [Y!KeyedNodes(f, n, kind) -> Keys] :
                doc = [size |-> n, kind |-> kind, children |-> Y!ChildLists(f, n),
                       key |-> [i \in 1 .. n |-> IF i \in DOMAIN key THEN key[i] ELSE 0]]
  BY <1>1
<1>3. PICK kind \in Y!Labels(f, n, Kinds, {"block", "array"}) :
            \E key \in [Y!KeyedNodes(f, n, kind) -> Keys] :
                doc = [size |-> n, kind |-> kind, children |-> Y!ChildLists(f, n),
                       key |-> [i \in 1 .. n |-> IF i \in DOMAIN key THEN key[i] ELSE 0]]
  BY <1>2
<1>4. PICK key \in [Y!KeyedNodes(f, n, kind) -> Keys] :
                doc = [size |-> n, kind |-> kind, children |-> Y!ChildLists(f, n),
                       key |-> [i \in 1 .. n |-> IF i \in DOMAIN key THEN key[i] ELSE 0]]
  BY <1>3
<1>5. f \in Forests(n) /\ kind \in Labels(f, n, Kinds, {"block", "array"})
  BY DEF Y!Forests, Forests, Y!Labels, Labels
<1>6. key \in [KeyedNodes(f, n, kind) -> Keys]
  BY DEF Y!KeyedNodes, KeyedNodes
<1>7. Y!ChildLists(f, n) = ChildLists(f, n)
  BY DEF Y!ChildLists, ChildLists
<1>8. doc = [size |-> n, kind |-> kind, children |-> ChildLists(f, n),
             key |-> [i \in 1 .. n |-> IF i \in DOMAIN key THEN key[i] ELSE 0]]
  BY <1>4, <1>7
<1> QED BY <1>0, <1>5, <1>6, <1>8, DocumentSound

-----------------------------------------------------------------------------
(* What the JSON export may write *)

OrdersIn(d, sorted, p) ==
    {x \in SetToSeqs(KidSet(d, p)) :
        IF KindIn(d, p) = "block" /\ sorted
        THEN \A i, j \in 1 .. Len(x) : i < j => d.key[x[i]] <= d.key[x[j]]
        ELSE x = d.children[p]}

Opening(d, i) == IF KindIn(d, i) = "array" THEN <<"[", 0>> ELSE <<"{", 0>>

Closing(d, i) == IF KindIn(d, i) = "array" THEN <<"]", 0>> ELSE <<"}", 0>>

JsonBegin(d, i) == IF Holder(d, i) THEN <<Opening(d, i)>>
                   ELSE IF KindIn(d, i) \in {"null", "nan"} THEN <<<<"null", 0>>>> ELSE <<<<"value", i>>>>

JsonLead(d, i, k, c) ==
    (IF k = 1 THEN <<>> ELSE <<<<",", 0>>>>)
    \o (IF KindIn(d, i) = "block" THEN <<<<"key", d.key[c]>>, <<":", 0>>>> ELSE <<>>)

JsonEnd(d, i) == IF Holder(d, i) THEN <<Closing(d, i)>> ELSE <<>>

JsonGrammar(d, sorted) ==
    [orders |-> [p \in 0 .. d.size |-> OrdersIn(d, sorted, p)],
     begin |-> [i \in 0 .. d.size |-> JsonBegin(d, i)],
     lead |-> [i \in 0 .. d.size |-> [k \in 1 .. d.size |-> [c \in 1 .. d.size |-> JsonLead(d, i, k, c)]]],
     end |-> [i \in 0 .. d.size |-> JsonEnd(d, i)]]

\* Where a container's order is chosen, and the sets of kinds, are those of the model.
LEMMA OrdersMeant ==
  ASSUME NEW p
  PROVE  Orders(p) = OrdersIn(doc, sort_keys, p)
<1>1. ToSet(Children(p)) = KidSet(doc, p) /\ Kind(p) = KindIn(doc, p)
  BY DEF ToSet, Children, KidSet, Kind, KindIn
<1>2. ASSUME NEW x
      PROVE  InOrder(p, x) <=> IF KindIn(doc, p) = "block" /\ sort_keys
                               THEN \A i, j \in 1 .. Len(x) : i < j => doc.key[x[i]] <= doc.key[x[j]]
                               ELSE x = doc.children[p]
  BY <1>1 DEF InOrder, Key, Children
<1> QED BY <1>1, <1>2 DEF Orders, OrdersIn

FieldsOf(d, sorted, g) ==
    /\ \A p \in 0 .. d.size : g.orders[p] = OrdersIn(d, sorted, p)
    /\ \A i \in 0 .. d.size : g.begin[i] = JsonBegin(d, i) /\ g.end[i] = JsonEnd(d, i)
    /\ \A i \in 0 .. d.size : \A k, c \in 1 .. d.size : g.lead[i][k][c] = JsonLead(d, i, k, c)

\* The fields of the record, one by one.
LEMMA JsonFields ==
  ASSUME NEW d, NEW sorted, NEW g, g = JsonGrammar(d, sorted)
  PROVE  FieldsOf(d, sorted, g)
<1>1. /\ g.orders = [p \in 0 .. d.size |-> OrdersIn(d, sorted, p)]
      /\ g.begin = [i \in 0 .. d.size |-> JsonBegin(d, i)]
      /\ g.lead = [i \in 0 .. d.size |-> [k \in 1 .. d.size |-> [c \in 1 .. d.size |-> JsonLead(d, i, k, c)]]]
      /\ g.end = [i \in 0 .. d.size |-> JsonEnd(d, i)]
  BY DEF JsonGrammar
<1> QED BY <1>1 DEF FieldsOf

\* Its orders are those of the entries, its pieces are tokens.
LEMMA JsonGood ==
  ASSUME DocSound(doc), NEW g, g = JsonGrammar(doc, sort_keys)
  PROVE  Grammar(doc, g)
<1>1. FieldsOf(doc, sort_keys, g) /\ DocTree(doc) /\ DocKeys(doc)
  BY JsonFields DEF DocSound
<1>2. ASSUME NEW p \in 0 .. doc.size
      PROVE  g.orders[p] # {} /\ \A x \in g.orders[p] : OrderOf(doc, p, x)
  <2>1. Orders(p) # {} /\ \A x \in Orders(p) : OrderOf(doc, p, x)
    BY <1>1, OrdersGood
  <2>2. g.orders[p] = Orders(p)
    BY <1>1, OrdersMeant DEF FieldsOf
  <2> QED BY <2>1, <2>2
<1>3. \A i \in 0 .. doc.size : i \in Nat
  OBVIOUS
<1>4. ASSUME NEW i \in 0 .. doc.size PROVE g.begin[i] \in Seq(Tok) /\ g.end[i] \in Seq(Tok)
  <2>1. Opening(doc, i) \in Tok /\ Closing(doc, i) \in Tok /\ <<"null", 0>> \in Tok /\ <<"value", i>> \in Tok
    BY <1>3, Tokens DEF Opening, Closing
  <2>2. JsonBegin(doc, i) \in Seq(Tok) /\ JsonEnd(doc, i) \in Seq(Tok)
    BY <2>1, Tokens DEF JsonBegin, JsonEnd
  <2> QED BY <1>1, <2>2 DEF FieldsOf
<1>5. ASSUME NEW i \in 0 .. doc.size, NEW k \in 1 .. doc.size, NEW c \in 1 .. doc.size
      PROVE  g.lead[i][k][c] \in Seq(Tok)
  <2>1. doc.key[c] \in Nat
    BY <1>1 DEF DocKeys
  <2>2. <<"key", doc.key[c]>> \in Tok /\ <<":", 0>> \in Tok /\ <<",", 0>> \in Tok
    BY <2>1, Tokens
  <2>3. PICK a : a = (IF k = 1 THEN <<>> ELSE <<<<",", 0>>>>)
    OBVIOUS
  <2>4. PICK b : b = (IF KindIn(doc, i) = "block" THEN <<<<"key", doc.key[c]>>, <<":", 0>>>> ELSE <<>>)
    OBVIOUS
  <2>5. a \in Seq(Tok) /\ b \in Seq(Tok)
    BY <2>2, <2>3, <2>4, Tokens
  <2>6. JsonLead(doc, i, k, c) = a \o b
    BY <2>3, <2>4 DEF JsonLead
  <2>7. JsonLead(doc, i, k, c) \in Seq(Tok)
    BY <2>5, <2>6, ConcatProperties
  <2> QED BY <1>1, <2>7 DEF FieldsOf
<1> QED BY <1>2, <1>4, <1>5 DEF Grammar

-----------------------------------------------------------------------------
(* JSON: what the sink holds                                               *)

Malformed(d, i) == \E p \in 0 .. d.size : i \in KidSet(d, p) /\ KindIn(d, p) = "block" /\ d.key[i] \in MalformedKeys

\* Nodes whose key, and whose value, JSON can represent.
KeysFine(d) == {i \in 0 .. d.size : ~Malformed(d, i)}

AllFine(d) == {i \in KeysFine(d) : KindIn(d, i) \notin {"malformed", "corrupt", "torn"}}

Telling(d, g, G, K, at, r, s, w) ==
    /\ at = "start" => s = <<>> /\ w = <<>>
    /\ at = "entry" => Under(d, g, G, K, s, w, FALSE)
    /\ at = "value" => Under(d, g, G, K, s, w, TRUE)
    /\ at \in {"unwind", "returned"} => MayBegin(d, g, w)
    /\ at = "returned" /\ r => 0 .. d.size \subseteq G /\ MayBeAll(d, g, w)

JsonTells ==
    /\ DocSound(doc)
    /\ Telling(doc, JsonGrammar(doc, sort_keys), AllFine(doc), KeysFine(doc), pc, result, stack, output)

\* The key of an entry of a block is judged where the entry is.
LEMMA KeyFine ==
  ASSUME NEW d, DocTree(d), NEW p \in 0 .. d.size, NEW c \in KidSet(d, p), c \in 1 .. d.size
  PROVE  c \in KeysFine(d) <=> (KindIn(d, p) = "block" => d.key[c] \notin MalformedKeys)
<1>1. c \in 0 .. d.size
  BY DEF DocTree
<1>2. \A q \in 0 .. d.size : c \in KidSet(d, q) => p = q
  BY DEF DocTree
<1> QED BY <1>1, <1>2 DEF KeysFine, Malformed

\* The root has no key and is a block.
LEMMA RootFine ==
  ASSUME NEW d, DocTree(d)
  PROVE  0 \in AllFine(d)
<1>1. 0 \in 0 .. d.size
  BY DEF DocTree
<1>2. \A p \in 0 .. d.size : KidSet(d, p) \subseteq p + 1 .. d.size
  BY KidsFinite
<1>3. \A p \in 0 .. d.size : 0 \notin p + 1 .. d.size
  OBVIOUS
<1> QED BY <1>1, <1>2, <1>3 DEF AllFine, KeysFine, Malformed, KindIn

LeadSays(d, i, k, c, x) ==
    /\ StartOf(x, JsonLead(d, i, k, c))
    /\ (KindIn(d, i) = "block" => d.key[c] \notin MalformedKeys) => x = JsonLead(d, i, k, c)

\* What is written before a value: all of it, or without the colon.
LEMMA LeadPart ==
  ASSUME DocSound(doc), NEW i \in 0 .. doc.size, NEW k, NEW c \in 1 .. doc.size,
         NEW a, a = (IF k = 1 THEN <<>> ELSE <<<<",", 0>>>>),
         NEW b, b = (IF KindIn(doc, i) # "block" THEN <<>>
                     ELSE IF doc.key[c] \in MalformedKeys THEN <<<<"key", doc.key[c]>>>>
                     ELSE <<<<"key", doc.key[c]>>, <<":", 0>>>>)
  PROVE  LeadSays(doc, i, k, c, a \o b)
<1>1. doc.key[c] \in Nat
  BY DEF DocSound, DocKeys
<1>2. <<"key", doc.key[c]>> \in Tok /\ <<":", 0>> \in Tok /\ <<",", 0>> \in Tok
  BY <1>1, Tokens
<1>3. a \in Seq(Tok) /\ b \in Seq(Tok)
  BY <1>2, Tokens
<1>4. a \o b \in Seq(Tok)
  BY <1>3, ConcatProperties
<1>5. CASE KindIn(doc, i) = "block" => doc.key[c] \notin MalformedKeys
  <2>1. a \o b = JsonLead(doc, i, k, c)
    BY <1>5 DEF JsonLead
  <2> QED BY <1>4, <2>1, PartEnds DEF LeadSays
<1>6. CASE KindIn(doc, i) = "block" /\ doc.key[c] \in MalformedKeys
  <2>1. PICK t, u : t = <<"key", doc.key[c]>> /\ u = <<":", 0>>
    OBVIOUS
  <2>2. b = <<t>> /\ JsonLead(doc, i, k, c) = a \o <<t, u>> /\ t \in Tok /\ u \in Tok
    BY <1>2, <1>6, <2>1 DEF JsonLead
  <2>3. <<t, u>> = <<t>> \o <<u>> /\ <<u>> \in Seq(Tok) /\ <<t>> \in Seq(Tok)
    BY <2>2, TwoTokens
  <2>4. a \o (<<t>> \o <<u>>) = (a \o <<t>>) \o <<u>>
    <3>1. PICK x \in Seq(Tok), y \in Seq(Tok) : x = <<t>> /\ y = <<u>>
      BY <2>3
    <3>2. Regroups(a, a, x, y)
      BY <1>3, Regroup
    <3>3. a \o (x \o y) = (a \o x) \o y
      BY <3>2 DEF Regroups
    <3> QED BY <3>1, <3>3
  <2>5. StartOf(a \o b, JsonLead(doc, i, k, c))
    BY <1>4, <2>2, <2>3, <2>4 DEF StartOf
  <2> QED BY <1>6, <2>5 DEF LeadSays
<1> QED BY <1>5, <1>6

\* The model's own words for the state of the recursion.
JsonWords ==
    /\ J!Current = EntryOf(stack) /\ J!Top.node = NodeAt(stack) /\ J!Top.done = DoneAt(stack)
    /\ J!Complete <=> DoneAt(stack) = Len(OrderAt(stack))
    /\ \A i : /\ J!Kind(i) = KindIn(doc, i) /\ J!Children(i) = doc.children[i] /\ J!Key(i) = doc.key[i]
              /\ J!Bracket(i) = <<Opening(doc, i), Closing(doc, i)>>
              /\ J!KeyToken(i) = <<"key", doc.key[i]>> /\ J!ValueToken(i) = <<"value", i>>

\* They mean the last frame and its entry.
LEMMA JsonSays == JsonWords
<1>1. J!Top.node = NodeAt(stack) /\ J!Top.done = DoneAt(stack) /\ J!Top.order = OrderAt(stack)
  BY DEF J!Top, J!Last, NodeAt, DoneAt, OrderAt
<1>2. J!Current = EntryOf(stack) /\ (J!Complete <=> DoneAt(stack) = Len(OrderAt(stack)))
  BY <1>1 DEF J!Current, J!Complete, EntryOf
<1>3. ASSUME NEW i
      PROVE  /\ J!Kind(i) = KindIn(doc, i) /\ J!Children(i) = doc.children[i] /\ J!Key(i) = doc.key[i]
             /\ J!Bracket(i) = <<Opening(doc, i), Closing(doc, i)>>
             /\ J!KeyToken(i) = <<"key", doc.key[i]>> /\ J!ValueToken(i) = <<"value", i>>
  BY DEF J!Kind, KindIn, J!Children, J!Key, J!Bracket, J!Sign, Opening, Closing, J!KeyToken, J!ValueToken
<1> QED BY <1>1, <1>2, <1>3 DEF JsonWords

\* What one of the pieces of the JSON text is.
LEMMA JsonPieces ==
  ASSUME DocSound(doc), NEW g, g = JsonGrammar(doc, sort_keys), NEW c \in 0 .. doc.size
  PROVE  /\ Opening(doc, c) \in Tok /\ Closing(doc, c) \in Tok
         /\ Holder(doc, c) => /\ g.begin[c] = <<Opening(doc, c)>> /\ g.end[c] = <<Closing(doc, c)>>
                              /\ g.begin[c] \o g.end[c] = <<Opening(doc, c), Closing(doc, c)>>
         /\ ~Holder(doc, c) => g.begin[c] \o g.end[c] = JsonBegin(doc, c)
         /\ g.orders[c] = Orders(c) /\ g.orders[c] = J!Orders(c)
         /\ doc.children[c] = <<>> => KidSet(doc, c) = {}
<1>1. FieldsOf(doc, sort_keys, g) /\ Grammar(doc, g)
  BY JsonFields, JsonGood
<1>2. g.begin[c] = JsonBegin(doc, c) /\ g.end[c] = JsonEnd(doc, c) /\ g.orders[c] = OrdersIn(doc, sort_keys, c)
  BY <1>1 DEF FieldsOf
<1>3. Opening(doc, c) \in Tok /\ Closing(doc, c) \in Tok
  BY Tokens DEF Opening, Closing
<1>4. ASSUME Holder(doc, c)
      PROVE  /\ g.begin[c] = <<Opening(doc, c)>> /\ g.end[c] = <<Closing(doc, c)>>
             /\ g.begin[c] \o g.end[c] = <<Opening(doc, c), Closing(doc, c)>>
  <2>1. g.begin[c] = <<Opening(doc, c)>> /\ g.end[c] = <<Closing(doc, c)>>
    BY <1>2, <1>4 DEF JsonBegin, JsonEnd
  <2> QED BY <1>3, <2>1, TwoTokens
<1>5. ASSUME ~Holder(doc, c) PROVE g.begin[c] \o g.end[c] = JsonBegin(doc, c)
  <2>1. g.begin[c] \in Seq(Tok)
    BY <1>1 DEF Grammar
  <2>2. g.end[c] = <<>>
    BY <1>2, <1>5 DEF JsonEnd
  <2> QED BY <1>2, <2>1, <2>2, ConcatEmptySeq
<1>6. Orders(c) = OrdersIn(doc, sort_keys, c) /\ J!Orders(c) = Orders(c)
  BY OrdersMeant, Same
<1>7. doc.children[c] = <<>> => KidSet(doc, c) = {}
  BY DEF KidSet
<1> QED BY <1>2, <1>3, <1>4, <1>5, <1>6, <1>7

\* Every step of the JSON export goes on with the text.
LEMMA JsonTellsStep == JsonTells /\ J!Next => JsonTells'
<1> SUFFICES ASSUME JsonTells, J!Next PROVE JsonTells'
  OBVIOUS
<1>1. PICK g, G, K : g = JsonGrammar(doc, sort_keys) /\ G = AllFine(doc) /\ K = KeysFine(doc)
  OBVIOUS
<1>2. DocSound(doc) /\ DocTree(doc) /\ Telling(doc, g, G, K, pc, result, stack, output)
  BY <1>1 DEF JsonTells, DocSound
<1>3. Grammar(doc, g) /\ FieldsOf(doc, sort_keys, g) /\ 0 \in G
  BY <1>1, <1>2, JsonGood, JsonFields, RootFine
<1>4. /\ pc = "start" => stack = <<>> /\ output = <<>>
      /\ pc = "entry" => Under(doc, g, G, K, stack, output, FALSE)
      /\ pc = "value" => Under(doc, g, G, K, stack, output, TRUE)
      /\ pc = "unwind" => MayBegin(doc, g, output)
  BY <1>2 DEF Telling
<1>5. doc' = doc /\ sort_keys' = sort_keys
  BY DEF J!Next, J!StartEmpty, J!Start, J!Entry, J!Scalar, J!EmptyContainer, J!OpenContainer,
         J!OpenBlockFails, J!ValueFails, J!Close, J!Unwind, J!input
<1>6. ASSUME Telling(doc, g, G, K, pc', result', stack', output') PROVE JsonTells'
  BY <1>1, <1>2, <1>5, <1>6 DEF JsonTells
<1>7. ASSUME pc' \in {"unwind", "returned"}, pc' = "returned" => ~result', MayBegin(doc, g, output')
      PROVE  JsonTells'
  BY <1>6, <1>7 DEF Telling
<1>8. ASSUME pc' = "entry", Under(doc, g, G, K, stack', output', FALSE) PROVE JsonTells'
  BY <1>6, <1>8 DEF Telling
<1>9. ASSUME pc' = "returned", 0 .. doc.size \subseteq G, MayBeAll(doc, g, output'), output' \in Seq(Tok)
      PROVE  JsonTells'
  <2>1. MayBegin(doc, g, output')
    BY <1>9, PartEnds, AllCut
  <2> QED BY <1>6, <1>9, <2>1 DEF Telling
<1>10. JsonWords
  BY JsonSays
<1>11. 0 \in 0 .. doc.size /\ doc.size \in Nat
  BY <1>2 DEF DocTree
<1>12. CASE J!StartEmpty
  <2>1. PICK x : x = <<Opening(doc, 0), Closing(doc, 0)>>
    OBVIOUS
  <2>2. stack = <<>> /\ output = <<>> /\ KidSet(doc, 0) = {} /\ J!Bracket(0) = x
    <3>1. pc = "start" /\ J!Children(0) = <<>>
      BY <1>12 DEF J!StartEmpty
    <3>2. doc.children[0] = <<>> /\ J!Bracket(0) = x
      BY <1>10, <2>1, <3>1 DEF JsonWords
    <3> QED BY <1>1, <1>2, <1>4, <1>11, <3>1, <3>2, JsonPieces
  <2>3. Holder(doc, 0)
    BY DEF Holder, KindIn
  <2>4. /\ Opening(doc, 0) \in Tok /\ Closing(doc, 0) \in Tok /\ g.end[0] = <<Closing(doc, 0)>>
        /\ g.begin[0] \o g.end[0] = x /\ g.orders[0] # {} /\ g.begin[0] = <<Opening(doc, 0)>>
    <3>1. g.orders[0] # {}
      BY <1>3, <1>11 DEF Grammar
    <3> QED BY <1>1, <1>2, <1>11, <2>1, <2>3, <3>1, JsonPieces
  <2>5. x \in Seq(Tok)
    BY <2>1, <2>4, Tokens
  <2>6. PICK order, s : order \in g.orders[0] /\ s = <<[node |-> 0, order |-> order, done |-> 0]>>
    BY <2>4
  <2>7. Under(doc, g, G, K, s, g.begin[0], FALSE)
    BY <1>2, <1>3, <2>6, UnderStart
  <2>8. Len(order) = 0
    <3>1. OrderOf(doc, 0, order)
      BY <1>3, <1>11, <2>6 DEF Grammar
    <3>2. order \in Seq({})
      BY <2>2, <3>1 DEF OrderOf
    <3> QED BY <3>2
  <2>9. NodeAt(s) = 0 /\ OrderAt(s) = order /\ DoneAt(s) = 0 /\ Len(s) = 1
    BY <2>6 DEF NodeAt, OrderAt, DoneAt
  <2>10. 0 .. doc.size \subseteq G /\ MayBeAll(doc, g, x)
    <3>1. DoneAt(s) = Len(OrderAt(s)) /\ g.end[NodeAt(s)] = g.end[0]
      BY <2>8, <2>9
    <3>2. 0 .. doc.size \subseteq G /\ MayBeAll(doc, g, g.begin[0] \o g.end[NodeAt(s)])
      BY <1>2, <1>3, <2>7, <2>9, <3>1, UnderClose
    <3> QED BY <2>4, <3>1, <3>2
  <2>11. CASE J!Write(J!Bracket(0)) /\ J!Return(TRUE)
    <3>1. output' = <<>> \o x /\ pc' = "returned"
      BY <2>2, <2>11 DEF J!Write, J!Return
    <3>2. output' = x
      BY <2>5, <3>1, ConcatEmptySeq
    <3> QED BY <1>9, <2>5, <2>10, <3>1, <3>2
  <2>12. CASE J!WriteSome(J!Bracket(0)) /\ J!Return(FALSE)
    <3>1. PICK m \in 0 .. Len(x) - 1 : output' = <<>> \o SubSeq(x, 1, m)
      BY <2>2, <2>12 DEF J!WriteSome
    <3>2. m \in Nat /\ m <= Len(x)
      BY <2>5
    <3>3. StartOf(SubSeq(x, 1, m), x)
      BY <2>5, <3>2, PartCut
    <3>4. output' = SubSeq(x, 1, m)
      <4>1. SubSeq(x, 1, m) \in Seq(Tok)
        BY <3>3 DEF StartOf
      <4> QED BY <3>1, <4>1, ConcatEmptySeq
    <3>5. MayBegin(doc, g, output')
      BY <2>10, <3>3, <3>4, AllCut
    <3> QED BY <1>7, <2>12, <3>5 DEF J!Return
  <2> QED BY <1>12, <2>11, <2>12 DEF J!StartEmpty
<1>13. CASE J!Start
  <2>1. stack = <<>> /\ output = <<>> /\ <<J!Sign("{")>> = g.begin[0] /\ g.begin[0] \in Seq(Tok)
    <3>1. pc = "start"
      BY <1>13 DEF J!Start
    <3>2. Holder(doc, 0) /\ Opening(doc, 0) = J!Sign("{")
      BY DEF Holder, KindIn, Opening, J!Sign
    <3>3. g.begin[0] = <<Opening(doc, 0)>>
      BY <1>1, <1>2, <1>11, <3>2, JsonPieces
    <3> QED BY <1>3, <1>4, <1>11, <3>1, <3>2, <3>3 DEF Grammar
  <2>2. StartOf(<<>>, g.begin[0]) /\ StartOf(g.begin[0], g.begin[0])
    BY <2>1, PartEnds
  <2>3. ASSUME J!Write(<<J!Sign("{")>>) PROVE output' = g.begin[0]
    <3>1. output' = <<>> \o g.begin[0]
      BY <2>1, <2>3 DEF J!Write
    <3> QED BY <2>1, <3>1, ConcatEmptySeq
  <2>4. CASE J!Write(<<J!Sign("{")>>) /\ pc' = "entry" /\ \E order \in J!Orders(0) : stack' = <<J!Frame(0, order)>>
    <3>1. PICK order \in J!Orders(0) : stack' = <<[node |-> 0, order |-> order, done |-> 0]>>
      BY <2>4 DEF J!Frame
    <3>2. order \in g.orders[0]
      BY <1>1, <1>2, <1>11, <3>1, JsonPieces
    <3>3. Under(doc, g, G, K, stack', g.begin[0], FALSE)
      BY <1>2, <1>3, <3>1, <3>2, UnderStart
    <3> QED BY <1>8, <2>3, <2>4, <3>3
  <2>5. CASE J!Write(<<J!Sign("{")>>) /\ J!Return(FALSE)
    <3>1. MayBegin(doc, g, output')
      BY <1>2, <1>3, <2>2, <2>3, <2>5, RootBegins
    <3> QED BY <1>7, <2>5, <3>1 DEF J!Return
  <2>6. CASE J!WriteSome(<<J!Sign("{")>>) /\ J!Return(FALSE)
    <3>1. PICK m \in 0 .. Len(<<J!Sign("{")>>) - 1 : output' = <<>> \o SubSeq(<<J!Sign("{")>>, 1, m)
      BY <2>1, <2>6 DEF J!WriteSome
    <3>2. MayBegin(doc, g, <<>>) /\ <<>> \in Seq(Tok)
      BY <1>2, <1>3, <2>2, RootBegins, Tokens
    <3>3. MayBegin(doc, g, output')
      BY <3>1, <3>2, NothingWritten
    <3> QED BY <1>7, <2>6, <3>3 DEF J!Return
  <2> QED BY <1>13, <2>4, <2>5, <2>6 DEF J!Start
<1>14. ASSUME pc = "entry"
       PROVE  /\ Under(doc, g, G, K, stack, output, FALSE)
              /\ FrameList(stack) /\ Len(stack) \in Nat /\ Len(stack) >= 1 /\ stack # <<>> /\ output \in Seq(Tok)
  <2>1. Under(doc, g, G, K, stack, output, FALSE)
    BY <1>4, <1>14
  <2> QED BY <2>1, UnderFrames
<1>15. PICK c : c = EntryOf(stack) /\ J!Current = c
  BY <1>10 DEF JsonWords
<1>16. ASSUME pc = "value"
       PROVE  /\ Under(doc, g, G, K, stack, output, TRUE)
              /\ FrameList(stack) /\ stack # <<>> /\ output \in Seq(Tok) /\ MayBegin(doc, g, output)
              /\ c \in K /\ c \in 1 .. doc.size /\ c \in 0 .. doc.size
  <2>1. Under(doc, g, G, K, stack, output, TRUE)
    BY <1>4, <1>16
  <2>2. ValueIn(doc, K, stack, c)
    BY <1>2, <1>3, <1>15, <2>1, UnderValue
  <2>3. c \in K /\ c \in 1 .. doc.size /\ c \in 0 .. doc.size
    BY <1>11, <2>2 DEF ValueIn
  <2>4. MayBegin(doc, g, output)
    BY <1>2, <1>3, <2>1, UnderBegins
  <2>5. FrameList(stack) /\ stack # <<>> /\ output \in Seq(Tok)
    BY <2>1, UnderFrames
  <2> QED BY <2>1, <2>3, <2>4, <2>5
<1>17. CASE J!Entry
  <2>1. PICK i, k : i = NodeAt(stack) /\ k = DoneAt(stack) + 1
    OBVIOUS
  <2>2. PICK l : l = g.lead[i][k][c]
    OBVIOUS
  <2>3. pc = "entry" /\ DoneAt(stack) # Len(OrderAt(stack))
    BY <1>10, <1>17 DEF J!Entry, JsonWords
  <2>4. EntryOK(doc, g, G, K, stack, output, c, l)
    BY <1>2, <1>3, <1>14, <1>15, <2>1, <2>2, <2>3, UnderEntry
  <2>5. /\ MayFollow(doc, g, output, l) /\ l \in Seq(Tok) /\ i \in 0 .. doc.size
        /\ c \in KidSet(doc, i) /\ c \in 1 .. doc.size /\ k \in 1 .. doc.size
        /\ DoneAt(stack) \in Nat /\ (c \in K => Under(doc, g, G, K, stack, output \o l, TRUE))
    BY <2>1, <2>4 DEF EntryOK
  <2>6. l = JsonLead(doc, i, k, c)
    BY <1>3, <2>2, <2>5 DEF FieldsOf
  <2>7. PICK a : a = (IF k = 1 THEN <<>> ELSE <<<<",", 0>>>>)
    OBVIOUS
  <2>8. PICK b : b = (IF KindIn(doc, i) # "block" THEN <<>>
                      ELSE IF doc.key[c] \in MalformedKeys THEN <<<<"key", doc.key[c]>>>>
                      ELSE <<<<"key", doc.key[c]>>, <<":", 0>>>>)
    OBVIOUS
  <2>9. J!Prefix(c) = a \o b
    <3>1. J!Top.done = 0 <=> k = 1
      BY <1>10, <2>1, <2>5 DEF JsonWords
    <3>2. J!KeyText(c) = b
      BY <1>10, <2>1, <2>8 DEF J!KeyText, JsonWords, J!Sign
    <3>3. (IF J!Top.done = 0 THEN <<>> ELSE <<J!Sign(",")>>) = a
      BY <2>7, <3>1 DEF J!Sign
    <3> QED BY <3>2, <3>3 DEF J!Prefix
  <2>10. /\ StartOf(a \o b, l)
         /\ (KindIn(doc, i) = "block" => doc.key[c] \notin MalformedKeys) => a \o b = l
    <3>1. LeadSays(doc, i, k, c, a \o b)
      BY <1>2, <2>5, <2>7, <2>8, LeadPart
    <3> QED BY <2>6, <3>1 DEF LeadSays
  <2>11. CASE (J!Kind(J!Top.node) = "block" => J!Key(c) \notin MalformedKeys)
              /\ J!Write(J!Prefix(c)) /\ pc' = "value"
    <3>1. KindIn(doc, i) = "block" => doc.key[c] \notin MalformedKeys
      BY <1>10, <2>1, <2>11 DEF JsonWords
    <3>2. output' = output \o l
      BY <2>9, <2>10, <2>11, <3>1 DEF J!Write
    <3>3. c \in K
      BY <1>1, <1>2, <2>5, <3>1, KeyFine
    <3>4. Under(doc, g, G, K, stack', output', TRUE)
      <4>1. stack' = stack
        BY <1>17 DEF J!Entry
      <4> QED BY <2>5, <3>2, <3>3, <4>1
    <3> QED BY <1>6, <2>11, <3>4 DEF Telling
  <2>12. CASE J!WriteSome(J!Prefix(c)) /\ pc' = "unwind"
    <3>1. PICK m \in 0 .. Len(a \o b) - 1 : output' = output \o SubSeq(a \o b, 1, m)
      BY <2>9, <2>12 DEF J!WriteSome
    <3>2. MayBegin(doc, g, output')
      BY <1>2, <1>3, <2>5, <2>10, <3>1, SomeWritten
    <3> QED BY <1>7, <2>12, <3>2
  <2> QED BY <1>15, <1>17, <2>11, <2>12 DEF J!Entry
<1>18. ASSUME pc = "value", stack' = J!Advanced(stack) PROVE Later(stack, stack')
  BY <1>16, <1>18 DEF J!Advanced, Later
<1>19. CASE J!Scalar
  <2>1. /\ pc = "value" /\ KindIn(doc, c) \in {"null", "number", "float", "nan", "string"}
        /\ output' = output \o J!Text(c) /\ Later(stack, stack') /\ pc' = "entry"
    BY <1>10, <1>15, <1>18, <1>19 DEF J!Scalar, JsonWords, J!Write
  <2>2. ~Holder(doc, c) /\ c \in G
    BY <1>1, <1>16, <2>1 DEF Holder, AllFine
  <2>3. KidSet(doc, c) = {}
    BY <1>2, <1>16, <2>1, <2>2 DEF DocSound, LeavesBare
  <2>4. PICK x : x = g.begin[c] \o g.end[c]
    OBVIOUS
  <2>5. J!Text(c) = x
    <3>1. x = JsonBegin(doc, c)
      BY <1>1, <1>2, <1>16, <2>1, <2>2, <2>4, JsonPieces
    <3> QED BY <1>10, <2>2, <3>1 DEF J!Text, JsonBegin, JsonWords, J!Sign
  <2>6. \A t : Later(stack, t) /\ c \in G => Under(doc, g, G, K, t, output \o x, FALSE)
    BY <1>2, <1>3, <1>15, <1>16, <2>1, <2>3, <2>4, UnderLeaf
  <2>7. Under(doc, g, G, K, stack', output', FALSE)
    BY <2>1, <2>2, <2>5, <2>6
  <2> QED BY <1>8, <2>1, <2>7
<1>20. ASSUME pc = "value", Holder(doc, c), doc.children[c] = <<>>
       PROVE  /\ MayFollow(doc, g, output, <<Opening(doc, c), Closing(doc, c)>>)
              /\ <<Opening(doc, c), Closing(doc, c)>> \in Seq(Tok)
              /\ \A t : Later(stack, t) /\ c \in G
                           => Under(doc, g, G, K, t, output \o <<Opening(doc, c), Closing(doc, c)>>, FALSE)
  <2>1. PICK x : x = g.begin[c] \o g.end[c]
    OBVIOUS
  <2>2. KidSet(doc, c) = {} /\ x = <<Opening(doc, c), Closing(doc, c)>>
    BY <1>1, <1>2, <1>16, <1>20, <2>1, JsonPieces
  <2>3. /\ MayFollow(doc, g, output, x) /\ x \in Seq(Tok)
        /\ \A t : Later(stack, t) /\ c \in G => Under(doc, g, G, K, t, output \o x, FALSE)
    BY <1>2, <1>3, <1>15, <1>16, <1>20, <2>1, <2>2, UnderLeaf
  <2> QED BY <2>2, <2>3
<1>21. CASE J!EmptyContainer
  <2>1. /\ pc = "value" /\ KindIn(doc, c) \in {"block", "array"} /\ doc.children[c] = <<>>
        /\ output' = output \o <<Opening(doc, c), Closing(doc, c)>> /\ Later(stack, stack') /\ pc' = "entry"
    BY <1>10, <1>15, <1>18, <1>21 DEF J!EmptyContainer, JsonWords, J!Write
  <2>2. Holder(doc, c) /\ c \in G
    BY <1>1, <1>16, <2>1 DEF Holder, AllFine
  <2>3. Under(doc, g, G, K, stack', output', FALSE)
    BY <1>20, <2>1, <2>2
  <2> QED BY <1>8, <2>1, <2>3
<1>22. ASSUME pc = "value", Holder(doc, c), NEW x \in g.orders[c]
       PROVE  /\ MayFollow(doc, g, output, <<Opening(doc, c)>>) /\ <<Opening(doc, c)>> \in Seq(Tok)
              /\ \A f, t : f = [node |-> c, order |-> x, done |-> 0] /\ Pushed(stack, f, t)
                              => Under(doc, g, G, K, t, output \o <<Opening(doc, c)>>, FALSE)
  <2>1. g.begin[c] = <<Opening(doc, c)>>
    BY <1>1, <1>2, <1>16, <1>22, JsonPieces
  <2>2. c \in G
    BY <1>1, <1>16, <1>22 DEF Holder, AllFine
  <2>3. /\ MayFollow(doc, g, output, g.begin[c]) /\ g.begin[c] \in Seq(Tok)
        /\ \A f, t : f = [node |-> c, order |-> x, done |-> 0] /\ Pushed(stack, f, t) /\ c \in G /\ Holder(doc, c)
                         => Under(doc, g, G, K, t, output \o g.begin[c], FALSE)
    BY <1>2, <1>3, <1>15, <1>16, <1>22, UnderOpen
  <2> QED BY <1>22, <2>1, <2>2, <2>3
<1>23. CASE J!OpenContainer
  <2>1. /\ pc = "value" /\ KindIn(doc, c) \in {"block", "array"} /\ pc' = "entry"
        /\ output' = output \o <<Opening(doc, c)>>
        /\ \E order \in J!Orders(c) : stack' = Append(stack, J!Frame(c, order))
    BY <1>10, <1>15, <1>23 DEF J!OpenContainer, JsonWords, J!Write
  <2>2. Holder(doc, c) /\ g.orders[c] = J!Orders(c)
    <3>1. Holder(doc, c)
      BY <2>1 DEF Holder
    <3> QED BY <1>1, <1>2, <1>16, <2>1, <3>1, JsonPieces
  <2>3. PICK order \in g.orders[c] : stack' = Append(stack, J!Frame(c, order))
    BY <2>1, <2>2
  <2>4. PICK f : f = [node |-> c, order |-> order, done |-> 0] /\ Pushed(stack, f, stack')
    BY <2>3 DEF J!Frame, Pushed
  <2>5. Under(doc, g, G, K, stack', output', FALSE)
    BY <1>22, <2>1, <2>2, <2>4
  <2> QED BY <1>8, <2>1, <2>5
<1>24. ASSUME pc = "value" PROVE \E x : x \in g.orders[c]
  BY <1>3, <1>16, <1>24 DEF Grammar
<1>25. CASE J!OpenBlockFails
  <2>1. pc = "value" /\ KindIn(doc, c) = "block" /\ pc' = "unwind" /\ output' = output \o <<J!Sign("{")>>
    BY <1>10, <1>15, <1>25 DEF J!OpenBlockFails, JsonWords, J!Write
  <2>2. Holder(doc, c) /\ Opening(doc, c) = J!Sign("{")
    BY <2>1 DEF Holder, Opening, J!Sign
  <2>3. MayFollow(doc, g, output, <<Opening(doc, c)>>) /\ <<Opening(doc, c)>> \in Seq(Tok)
    BY <1>22, <1>24, <2>1, <2>2
  <2>4. MayBegin(doc, g, output')
    BY <1>2, <1>3, <2>1, <2>2, <2>3, PartEnds, FollowedBy
  <2> QED BY <1>7, <2>1, <2>4
<1>26. CASE J!ValueFails
  <2>1. /\ pc = "value" /\ pc' = "unwind"
        /\ \/ /\ KindIn(doc, c) \in {"block", "array"} /\ doc.children[c] = <<>>
              /\ J!WriteSome(<<Opening(doc, c), Closing(doc, c)>>)
           \/ J!WriteSome(<<Opening(doc, c)>>)
           \/ J!WriteSome(<<J!ValueToken(c)>>)
    BY <1>10, <1>15, <1>26 DEF J!ValueFails, JsonWords
  <2>2. ASSUME NEW t, J!WriteSome(<<t>>) PROVE MayBegin(doc, g, output')
    <3>1. PICK m \in 0 .. Len(<<t>>) - 1 : output' = output \o SubSeq(<<t>>, 1, m)
      BY <2>2 DEF J!WriteSome
    <3> QED BY <1>16, <2>1, <3>1, NothingWritten
  <2>3. ASSUME KindIn(doc, c) \in {"block", "array"}, doc.children[c] = <<>>,
               J!WriteSome(<<Opening(doc, c), Closing(doc, c)>>)
        PROVE  MayBegin(doc, g, output')
    <3>1. PICK x : x = <<Opening(doc, c), Closing(doc, c)>>
      OBVIOUS
    <3>2. MayFollow(doc, g, output, x) /\ x \in Seq(Tok)
      BY <1>20, <2>1, <2>3, <3>1 DEF Holder
    <3>3. PICK m \in 0 .. Len(x) - 1 : output' = output \o SubSeq(x, 1, m)
      BY <2>3, <3>1 DEF J!WriteSome
    <3> QED BY <1>2, <1>3, <3>2, <3>3, PartEnds, SomeWritten
  <2> QED BY <1>7, <2>1, <2>2, <2>3
<1>27. CASE J!Close
  <2>1. pc = "entry" /\ DoneAt(stack) = Len(OrderAt(stack)) /\ stack' = J!Advanced(J!Front(stack))
    BY <1>10, <1>27 DEF J!Close, JsonWords
  <2>2. PICK e : e = g.end[NodeAt(stack)]
    OBVIOUS
  <2>3. /\ MayFollow(doc, g, output, e) /\ e \in Seq(Tok) /\ Holder(doc, NodeAt(stack)) /\ NodeAt(stack) \in 0 .. doc.size
        /\ Len(stack) = 1 => NodeAt(stack) = 0 /\ 0 .. doc.size \subseteq G /\ MayBeAll(doc, g, output \o e)
        /\ Len(stack) # 1 => \A t, u : t = SubSeq(stack, 1, Len(stack) - 1) /\ Later(t, u)
                                         => Under(doc, g, G, K, u, output \o e, FALSE)
    BY <1>2, <1>3, <1>14, <2>1, <2>2, UnderClose
  <2>4. <<J!Bracket(J!Top.node)[2]>> = e
    <3>1. e = <<Closing(doc, NodeAt(stack))>>
      BY <1>1, <1>2, <2>2, <2>3, JsonPieces
    <3> QED BY <1>10, <3>1 DEF JsonWords
  <2>5. CASE J!Write(e) /\ IF Len(stack) = 1 THEN J!Return(TRUE) ELSE UNCHANGED <<pc, result>>
    <3>1. output' = output \o e
      BY <2>5 DEF J!Write
    <3>2. CASE Len(stack) = 1
      <4>1. output' \in Seq(Tok)
        BY <1>14, <2>1, <2>3, <3>1, ConcatProperties
      <4> QED BY <1>9, <2>3, <2>5, <3>1, <3>2, <4>1 DEF J!Return
    <3>3. CASE Len(stack) # 1
      <4>1. PICK t : t = SubSeq(stack, 1, Len(stack) - 1) /\ t = J!Front(stack)
        BY DEF J!Front
      <4>2. FrameList(t) /\ Len(t) = Len(stack) - 1
        BY <1>14, <2>1, <4>1, FramesPop
      <4>3. Len(t) # 0
        BY <1>14, <2>1, <3>3, <4>2
      <4>4. t # <<>>
        BY <4>3, SeqEmpty, Zenon
      <4>5. Later(t, stack')
        BY <2>1, <4>1, <4>4 DEF J!Advanced, Later
      <4>6. Under(doc, g, G, K, stack', output', FALSE)
        BY <2>3, <3>1, <3>3, <4>1, <4>5
      <4>7. pc' = "entry"
        BY <2>1, <2>5, <3>3
      <4> QED BY <1>8, <4>6, <4>7
    <3> QED BY <3>2, <3>3
  <2>6. CASE J!WriteSome(e) /\ IF Len(stack) = 1 THEN J!Return(FALSE) ELSE pc' = "unwind" /\ UNCHANGED result
    <3>1. PICK m \in 0 .. Len(e) - 1 : output' = output \o SubSeq(e, 1, m)
      BY <2>6 DEF J!WriteSome
    <3>2. MayBegin(doc, g, output')
      BY <1>2, <1>3, <2>3, <3>1, PartEnds, SomeWritten
    <3>3. pc' \in {"unwind", "returned"} /\ (pc' = "returned" => ~result')
      BY <2>6 DEF J!Return
    <3> QED BY <1>7, <3>2, <3>3
  <2> QED BY <1>27, <2>4, <2>5, <2>6 DEF J!Close
<1>28. CASE J!Unwind
  <2>1. pc = "unwind" /\ output' = output /\ pc' \in {"unwind", "returned"} /\ (pc' = "returned" => ~result')
    BY <1>28 DEF J!Unwind, J!Return
  <2> QED BY <1>4, <1>7, <2>1
<1> QED BY <1>12, <1>13, <1>17, <1>19, <1>21, <1>23, <1>25, <1>26, <1>27, <1>28 DEF J!Next

OrdersMatch(g) == \A p \in 0 .. doc.size : g.orders[p] = Orders(p)

\* A plan of the recursion is one of the orderings the properties speak of.
LEMMA PlanCut ==
  ASSUME DocTree(doc), NEW g, Grammar(doc, g), OrdersMatch(g), NEW o, Plan(doc, g, o)
  PROVE  \E q \in Orderings : \E r : TextsOf(doc, g, o, r) /\ Rendered(q, g.begin, g.lead, g.end) = Whole(g, r)
<1>1. PICK q : q = [p \in 0 .. doc.size |-> o[p]]
  OBVIOUS
<1>2. \A p \in 0 .. doc.size : q[p] = o[p]
  BY <1>1
<1>3. Plan(doc, g, q)
  BY <1>2 DEF Plan
<1>4. q \in Orderings
  <2>1. q = [p \in 0 .. doc.size |-> q[p]]
    BY <1>1
  <2>2. \A p \in 0 .. doc.size : q[p] \in Orders(p)
    BY <1>3 DEF Plan, OrdersMatch
  <2> QED BY <2>1, <2>2, PlanIsOrdering DEF DocTree
<1>5. PICK r : TextsOf(doc, g, q, r) /\ Rendered(q, g.begin, g.lead, g.end) = g.begin[0] \o r[<<0, 1>>]
  BY <1>3, RenderedText
<1>6. TextsOf(doc, g, o, r)
  <2>1. \A i \in 0 .. doc.size : \A k : TextAt(g, q, r, i, k) = TextAt(g, o, r, i, k)
    BY <1>2 DEF TextAt
  <2> QED BY <1>5, <2>1 DEF TextsOf, TextRow
<1> QED BY <1>4, <1>5, <1>6 DEF Whole

\* All of a text, and the beginning of one, in the words of the properties.
LEMMA AllRendered ==
  ASSUME DocTree(doc), NEW g, Grammar(doc, g), OrdersMatch(g), NEW w, MayBeAll(doc, g, w)
  PROVE  \E q \in Orderings : w = Rendered(q, g.begin, g.lead, g.end)
<1>1. PICK o : Full(doc, g, o, w)
  BY DEF MayBeAll
<1>2. PICK q \in Orderings : \E r : TextsOf(doc, g, o, r) /\ Rendered(q, g.begin, g.lead, g.end) = Whole(g, r)
  BY <1>1, PlanCut DEF Full
<1>3. PICK r : TextsOf(doc, g, o, r) /\ Rendered(q, g.begin, g.lead, g.end) = Whole(g, r)
  BY <1>2
<1> QED BY <1>1, <1>3 DEF Full

\* The beginning of a text in the words of the properties.
LEMMA BeginRendered ==
  ASSUME DocTree(doc), NEW g, Grammar(doc, g), OrdersMatch(g), NEW w, MayBegin(doc, g, w)
  PROVE  \E q \in Orderings : StartOf(w, Rendered(q, g.begin, g.lead, g.end))
<1>1. PICK o : Begins(doc, g, o, w)
  BY DEF MayBegin
<1>2. PICK q \in Orderings : \E r : TextsOf(doc, g, o, r) /\ Rendered(q, g.begin, g.lead, g.end) = Whole(g, r)
  BY <1>1, PlanCut DEF Begins
<1>3. PICK r : TextsOf(doc, g, o, r) /\ Rendered(q, g.begin, g.lead, g.end) = Whole(g, r)
  BY <1>2
<1> QED BY <1>1, <1>3 DEF Begins

\* A part at the beginning is a prefix.
LEMMA PartPrefix ==
  ASSUME NEW w, NEW x, StartOf(w, x)
  PROVE  J!IsPrefix(w, x)
<1>1. PICK b \in Seq(Tok) : w \in Seq(Tok) /\ x = w \o b
  BY DEF StartOf
<1>2. x \in Seq(Tok) /\ Len(x) = Len(w) + Len(b) /\ Len(w) \in Nat /\ Len(b) \in Nat
      /\ \A i \in 1 .. Len(w) : x[i] = w[i]
  BY <1>1, ConcatProperties
<1>3. SubSeq(w, 1, Len(w)) = w
  BY <1>1, SubSeqFull
<1>4. PICK y : y = SubSeq(x, 1, Len(w))
  OBVIOUS
<1>5. Len(w) <= Len(x)
  BY <1>2
<1>6. y = w
  <2>1. y \in Seq(Tok)
    BY <1>2, <1>4, <1>5, PartCut DEF StartOf
  <2>2. Len(y) = Len(w) /\ \A i \in 1 .. Len(w) : y[i] = w[i]
    <3>1. IsSeq(x)
      BY <1>2 DEF IsSeq
    <3>2. Len(y) = Len(w) /\ \A i \in 1 .. Len(w) : y[i] = x[i]
      BY <1>2, <1>4, <1>5, <3>1, SeqPrefix
    <3> QED BY <1>2, <3>2
  <2> QED BY <1>1, <2>1, <2>2, SeqEqual
<1> QED BY <1>3, <1>4, <1>5, <1>6 DEF J!IsPrefix

\* The grammar is the properties' own.
LEMMA JsonRendering ==
  ASSUME DocSound(doc), NEW g, g = JsonGrammar(doc, sort_keys)
  PROVE  OrdersMatch(g) /\ \A q : J!Rendering(q) = Rendered(q, g.begin, g.lead, g.end)
<1>1. JsonWords
  BY JsonSays
<1>2. \A i : J!Kind(i) = KindIn(doc, i)
  BY <1>1 DEF JsonWords
<1>3. ASSUME NEW i \in 0 .. doc.size
      PROVE  (IF J!Container(i) THEN <<J!Bracket(i)[1]>> ELSE J!Text(i)) = JsonBegin(doc, i)
  <2>1. J!Bracket(i)[1] = Opening(doc, i) /\ J!Sign("null") = <<"null", 0>>
    BY <1>1 DEF JsonWords, J!Sign
  <2>2. J!ValueToken(i) = <<"value", i>>
    BY <1>1 DEF JsonWords
  <2> QED BY <1>2, <2>1, <2>2 DEF J!Container, J!Text, JsonBegin, Holder
<1>4. ASSUME NEW i \in 0 .. doc.size
      PROVE  (IF J!Container(i) THEN <<J!Bracket(i)[2]>> ELSE <<>>) = JsonEnd(doc, i)
  <2>1. J!Bracket(i)[2] = Closing(doc, i)
    BY <1>1 DEF JsonWords
  <2> QED BY <1>2, <2>1 DEF J!Container, JsonEnd, Holder
<1>5. ASSUME NEW i \in 0 .. doc.size, NEW k \in 1 .. doc.size, NEW c \in 1 .. doc.size
      PROVE  (IF k = 1 THEN <<>> ELSE <<J!Sign(",")>>)
             \o (IF J!Kind(i) = "block" THEN <<J!KeyToken(c), J!Sign(":")>> ELSE <<>>) = JsonLead(doc, i, k, c)
  <2>1. J!KeyToken(c) = <<"key", doc.key[c]>> /\ J!Sign(",") = <<",", 0>> /\ J!Sign(":") = <<":", 0>>
    BY <1>1 DEF JsonWords, J!Sign
  <2> QED BY <1>2, <2>1 DEF JsonLead
<1>6. g.begin = [i \in 0 .. doc.size |-> JsonBegin(doc, i)] /\ g.end = [i \in 0 .. doc.size |-> JsonEnd(doc, i)]
      /\ g.lead = [i \in 0 .. doc.size |-> [k \in 1 .. doc.size |-> [c \in 1 .. doc.size |-> JsonLead(doc, i, k, c)]]]
  BY DEF JsonGrammar
<1>7. J!Begin = g.begin
  BY <1>3, <1>6 DEF J!Begin
<1>8. J!End = g.end
  BY <1>4, <1>6 DEF J!End
<1>9. J!Lead = g.lead
  <2> DEFINE e(i, k, c) == (IF k = 1 THEN <<>> ELSE <<J!Sign(",")>>)
                 \o (IF J!Kind(i) = "block" THEN <<J!KeyToken(c), J!Sign(":")>> ELSE <<>>)
             row(i, k) == [c \in 1 .. doc.size |-> e(i, k, c)]
             own(i, k) == [c \in 1 .. doc.size |-> JsonLead(doc, i, k, c)]
             rows(i) == [k \in 1 .. doc.size |-> row(i, k)]
             owns(i) == [k \in 1 .. doc.size |-> own(i, k)]
  <2>1. J!Lead = [i \in 0 .. doc.size |-> rows(i)]
    BY DEF J!Lead
  <2>2. \A i \in 0 .. doc.size : \A k, c \in 1 .. doc.size : e(i, k, c) = JsonLead(doc, i, k, c)
    BY <1>5
  <2> HIDE DEF e
  <2>3. \A i \in 0 .. doc.size : \A k \in 1 .. doc.size : row(i, k) = own(i, k)
    BY <2>2
  <2>4. g.lead = [i \in 0 .. doc.size |-> owns(i)]
    BY <1>6
  <2> HIDE DEF row, own
  <2>5. \A i \in 0 .. doc.size : rows(i) = owns(i)
    BY <2>3
  <2> HIDE DEF rows, owns
  <2> QED BY <2>1, <2>4, <2>5
<1>10. \A q : J!Rendering(q) = Rendered(q, g.begin, g.lead, g.end)
  BY <1>7, <1>8, <1>9, SameText DEF J!Rendering
<1>11. OrdersMatch(g)
  BY JsonPieces DEF OrdersMatch
<1> QED BY <1>10, <1>11

\* What is known of the text is what the properties ask.
LEMMA JsonTellsWhole == JsonTells => J!JsonWhole /\ J!JsonPrefix
<1> SUFFICES ASSUME JsonTells PROVE J!JsonWhole /\ J!JsonPrefix
  OBVIOUS
<1>1. PICK g, G, K : g = JsonGrammar(doc, sort_keys) /\ G = AllFine(doc) /\ K = KeysFine(doc)
  OBVIOUS
<1>2. DocSound(doc) /\ DocTree(doc) /\ Telling(doc, g, G, K, pc, result, stack, output)
  BY <1>1 DEF JsonTells, DocSound
<1>3. Grammar(doc, g) /\ OrdersMatch(g) /\ \A q : J!Rendering(q) = Rendered(q, g.begin, g.lead, g.end)
  BY <1>1, <1>2, JsonGood, JsonRendering
<1>4. ASSUME pc = "returned", result
      PROVE  J!Representable /\ \E order \in J!Orderings : output = J!Rendering(order)
  <2>1. 0 .. doc.size \subseteq G /\ MayBeAll(doc, g, output)
    BY <1>2, <1>4 DEF Telling
  <2>2. PICK q \in Orderings : output = Rendered(q, g.begin, g.lead, g.end)
    BY <1>2, <1>3, <2>1, AllRendered
  <2>3. q \in J!Orderings /\ output = J!Rendering(q)
    BY <1>3, <2>2, Same
  <2>4. J!Representable
    <3> SUFFICES ASSUME NEW p \in 0 .. doc.size
                 PROVE  /\ J!Kind(p) \notin {"malformed", "corrupt", "torn"}
                        /\ J!Kind(p) = "block" => \A i \in J!ToSet(J!Children(p)) : J!Key(i) \notin MalformedKeys
      BY DEF J!Representable
    <3>1. J!Kind(p) = KindIn(doc, p) /\ J!ToSet(J!Children(p)) = KidSet(doc, p) /\ \A i : J!Key(i) = doc.key[i]
      BY DEF J!Kind, KindIn, J!ToSet, J!Children, KidSet, J!Key
    <3>2. \A i \in KidSet(doc, p) : i \in 1 .. doc.size /\ i \in G
      <4>1. KidSet(doc, p) \subseteq p + 1 .. doc.size
        BY <1>2, KidsFinite
      <4>2. \A i \in p + 1 .. doc.size : i \in 1 .. doc.size /\ i \in 0 .. doc.size
        BY <1>2 DEF DocTree
      <4> QED BY <2>1, <4>1, <4>2
    <3>3. p \in G
      BY <2>1
    <3>4. J!Kind(p) \notin {"malformed", "corrupt", "torn"}
      BY <1>1, <3>1, <3>3 DEF AllFine
    <3>5. ASSUME J!Kind(p) = "block", NEW i \in J!ToSet(J!Children(p)) PROVE J!Key(i) \notin MalformedKeys
      <4>1. i \in KidSet(doc, p) /\ i \in 1 .. doc.size /\ i \in AllFine(doc)
        BY <1>1, <3>1, <3>2, <3>5
      <4>2. i \in KeysFine(doc)
        BY <4>1 DEF AllFine
      <4> QED BY <1>2, <3>1, <3>5, <4>1, <4>2, KeyFine
    <3> QED BY <3>4, <3>5
  <2> QED BY <2>3, <2>4
<1>5. ASSUME pc \in {"unwind", "returned"}
      PROVE  \E order \in J!Orderings : J!IsPrefix(output, J!Rendering(order))
  <2>1. MayBegin(doc, g, output)
    BY <1>2, <1>5 DEF Telling
  <2>2. PICK q \in Orderings : StartOf(output, Rendered(q, g.begin, g.lead, g.end))
    BY <1>2, <1>3, <2>1, BeginRendered
  <2>3. q \in J!Orderings /\ J!IsPrefix(output, J!Rendering(q))
    BY <1>3, <2>2, PartPrefix, Same
  <2> QED BY <2>3
<1> QED BY <1>4, <1>5 DEF J!JsonWhole, J!JsonPrefix

\* Each call of the JSON export, from its start on.
JsonInv == format = "json" => JsonTells

\* It holds when the call starts.
LEMMA JsonInvStarts == Init => JsonInv
<1> SUFFICES ASSUME Init, format = "json" PROVE JsonTells
  BY DEF JsonInv
<1>1. J!Init
  BY DEF Init
<1>2. J!SomeDocument /\ output = <<>> /\ stack = <<>> /\ pc = "start" /\ result = FALSE
  BY <1>1 DEF J!Init, J!ExportInit
<1>3. DocSound(doc)
  BY <1>2, JsonSound
<1> QED BY <1>2, <1>3 DEF JsonTells, Telling

\* Every step keeps it.
LEMMA JsonInvGoesOn == JsonInv /\ [Next]_vars => JsonInv'
<1> SUFFICES ASSUME JsonInv, [Next]_vars, format' = "json" PROVE JsonTells'
  BY DEF JsonInv
<1>1. CASE J!Next /\ UNCHANGED <<format, yaml>>
  BY <1>1, JsonTellsStep DEF JsonInv
<1>2. CASE UNCHANGED vars
  <2>1. JsonTells /\ UNCHANGED <<doc, sort_keys, output, stack, pc, result>>
    BY <1>2 DEF JsonInv, vars, input
  <2> QED BY <2>1 DEF JsonTells
<1>3. (format = "yaml" => UNCHANGED format) /\ (format = "ini" => UNCHANGED format) => format = "json"
      \/ format \notin {"json", "yaml", "ini"}
  OBVIOUS
<1> QED BY <1>1, <1>2, <1>3 DEF Next

\* bc_hrbl_export_json_ex: a call that returns true has written the whole
\* document, each value below its key and each block's keys in order if they
\* are sorted; whatever failed, what the sink has received is the beginning of
\* that text.
THEOREM WritesJson == Spec => []JsonWhole
<1>1. Spec => []JsonInv
  BY JsonInvStarts, JsonInvGoesOn, PTL DEF Spec
<1>2. JsonInv => JsonWhole
  BY JsonTellsWhole DEF JsonInv, JsonWhole
<1> QED BY <1>1, <1>2, PTL

-----------------------------------------------------------------------------
(* What the YAML export may write                                          *)

YamlBegin(d, i) == IF Holder(d, i) THEN <<Opening(d, i)>> ELSE <<<<"value", i>>>>

YamlLead(d, i, c) == IF KindIn(d, i) = "block" THEN <<<<"key", d.key[c]>>>> ELSE <<>>

YamlEnd(d, i) == IF Holder(d, i) THEN <<Closing(d, i)>> ELSE <<>>

YamlGrammar(d, sorted) ==
    [orders |-> [p \in 0 .. d.size |-> OrdersIn(d, sorted, p)],
     begin |-> [i \in 0 .. d.size |-> YamlBegin(d, i)],
     lead |-> [i \in 0 .. d.size |-> [k \in 1 .. d.size |-> [c \in 1 .. d.size |-> YamlLead(d, i, c)]]],
     end |-> [i \in 0 .. d.size |-> YamlEnd(d, i)]]

YamlFieldsOf(d, sorted, g) ==
    /\ \A p \in 0 .. d.size : g.orders[p] = OrdersIn(d, sorted, p)
    /\ \A i \in 0 .. d.size : g.begin[i] = YamlBegin(d, i) /\ g.end[i] = YamlEnd(d, i)
    /\ \A i \in 0 .. d.size : \A k, c \in 1 .. d.size : g.lead[i][k][c] = YamlLead(d, i, c)

\* The fields of the record, one by one.
LEMMA YamlFields ==
  ASSUME NEW d, NEW sorted, NEW g, g = YamlGrammar(d, sorted)
  PROVE  YamlFieldsOf(d, sorted, g)
<1>1. /\ g.orders = [p \in 0 .. d.size |-> OrdersIn(d, sorted, p)]
      /\ g.begin = [i \in 0 .. d.size |-> YamlBegin(d, i)]
      /\ g.lead = [i \in 0 .. d.size |-> [k \in 1 .. d.size |-> [c \in 1 .. d.size |-> YamlLead(d, i, c)]]]
      /\ g.end = [i \in 0 .. d.size |-> YamlEnd(d, i)]
  BY DEF YamlGrammar
<1> QED BY <1>1 DEF YamlFieldsOf

\* Its orders are those of the entries, its pieces are tokens.
LEMMA YamlGood ==
  ASSUME DocSound(doc), NEW g, g = YamlGrammar(doc, sort_keys)
  PROVE  Grammar(doc, g)
<1>1. YamlFieldsOf(doc, sort_keys, g) /\ DocTree(doc) /\ DocKeys(doc)
  BY YamlFields DEF DocSound
<1>2. ASSUME NEW p \in 0 .. doc.size
      PROVE  g.orders[p] # {} /\ \A x \in g.orders[p] : OrderOf(doc, p, x)
  <2>1. Orders(p) # {} /\ \A x \in Orders(p) : OrderOf(doc, p, x)
    BY <1>1, OrdersGood
  <2>2. g.orders[p] = Orders(p)
    BY <1>1, OrdersMeant DEF YamlFieldsOf
  <2> QED BY <2>1, <2>2
<1>3. \A i \in 0 .. doc.size : i \in Nat
  OBVIOUS
<1>4. ASSUME NEW i \in 0 .. doc.size PROVE g.begin[i] \in Seq(Tok) /\ g.end[i] \in Seq(Tok)
  <2>1. Opening(doc, i) \in Tok /\ Closing(doc, i) \in Tok /\ <<"value", i>> \in Tok
    BY <1>3, Tokens DEF Opening, Closing
  <2>2. YamlBegin(doc, i) \in Seq(Tok) /\ YamlEnd(doc, i) \in Seq(Tok)
    BY <2>1, Tokens DEF YamlBegin, YamlEnd
  <2> QED BY <1>1, <2>2 DEF YamlFieldsOf
<1>5. ASSUME NEW i \in 0 .. doc.size, NEW k \in 1 .. doc.size, NEW c \in 1 .. doc.size
      PROVE  g.lead[i][k][c] \in Seq(Tok)
  <2>1. doc.key[c] \in Nat
    BY <1>1 DEF DocKeys
  <2>2. <<"key", doc.key[c]>> \in Tok
    BY <2>1, Tokens
  <2>3. YamlLead(doc, i, c) \in Seq(Tok)
    BY <2>2, Tokens DEF YamlLead
  <2> QED BY <1>1, <2>3 DEF YamlFieldsOf
<1> QED BY <1>2, <1>4, <1>5 DEF Grammar

\* The model's own words for the state of the recursion.
YamlWords ==
    /\ Y!Current = EntryOf(stack) /\ Y!Top.node = NodeAt(stack) /\ Y!Top.done = DoneAt(stack)
    /\ Y!Complete <=> DoneAt(stack) = Len(OrderAt(stack))
    /\ \A i : /\ Y!Kind(i) = KindIn(doc, i) /\ Y!Children(i) = doc.children[i] /\ Y!Key(i) = doc.key[i]
              /\ Y!Bracket(i) = <<Opening(doc, i), Closing(doc, i)>>
              /\ Y!KeyToken(i) = <<"key", doc.key[i]>> /\ Y!ValueToken(i) = <<"value", i>>

\* They mean the last frame and its entry.
LEMMA YamlSays == YamlWords
<1>1. Y!Top.node = NodeAt(stack) /\ Y!Top.done = DoneAt(stack) /\ Y!Top.order = OrderAt(stack)
  BY DEF Y!Top, Y!Last, NodeAt, DoneAt, OrderAt
<1>2. Y!Current = EntryOf(stack) /\ (Y!Complete <=> DoneAt(stack) = Len(OrderAt(stack)))
  BY <1>1 DEF Y!Current, Y!Complete, EntryOf
<1>3. ASSUME NEW i
      PROVE  /\ Y!Kind(i) = KindIn(doc, i) /\ Y!Children(i) = doc.children[i] /\ Y!Key(i) = doc.key[i]
             /\ Y!Bracket(i) = <<Opening(doc, i), Closing(doc, i)>>
             /\ Y!KeyToken(i) = <<"key", doc.key[i]>> /\ Y!ValueToken(i) = <<"value", i>>
  BY DEF Y!Kind, KindIn, Y!Children, Y!Key, Y!Bracket, Y!Sign, Opening, Closing, Y!KeyToken, Y!ValueToken
<1> QED BY <1>1, <1>2, <1>3 DEF YamlWords

\* What one of the events is.
LEMMA YamlPieces ==
  ASSUME DocSound(doc), NEW g, g = YamlGrammar(doc, sort_keys), NEW c \in 0 .. doc.size
  PROVE  /\ Opening(doc, c) \in Tok /\ Closing(doc, c) \in Tok
         /\ Holder(doc, c) => g.begin[c] = <<Opening(doc, c)>> /\ g.end[c] = <<Closing(doc, c)>>
         /\ ~Holder(doc, c) => g.begin[c] \o g.end[c] = <<<<"value", c>>>>
         /\ g.orders[c] = Orders(c) /\ g.orders[c] = Y!Orders(c)
         /\ doc.children[c] = <<>> => KidSet(doc, c) = {}
<1>1. YamlFieldsOf(doc, sort_keys, g) /\ Grammar(doc, g)
  BY YamlFields, YamlGood
<1>2. g.begin[c] = YamlBegin(doc, c) /\ g.end[c] = YamlEnd(doc, c) /\ g.orders[c] = OrdersIn(doc, sort_keys, c)
  BY <1>1 DEF YamlFieldsOf
<1>3. Opening(doc, c) \in Tok /\ Closing(doc, c) \in Tok
  BY Tokens DEF Opening, Closing
<1>4. Holder(doc, c) => g.begin[c] = <<Opening(doc, c)>> /\ g.end[c] = <<Closing(doc, c)>>
  BY <1>2 DEF YamlBegin, YamlEnd
<1>5. ASSUME ~Holder(doc, c) PROVE g.begin[c] \o g.end[c] = <<<<"value", c>>>>
  <2>1. g.begin[c] \in Seq(Tok)
    BY <1>1 DEF Grammar
  <2>2. g.end[c] = <<>> /\ g.begin[c] = <<<<"value", c>>>>
    BY <1>2, <1>5 DEF YamlBegin, YamlEnd
  <2> QED BY <2>1, <2>2, ConcatEmptySeq
<1>6. Orders(c) = OrdersIn(doc, sort_keys, c) /\ Y!Orders(c) = Orders(c)
  BY OrdersMeant, Same
<1>7. doc.children[c] = <<>> => KidSet(doc, c) = {}
  BY DEF KidSet
<1> QED BY <1>2, <1>3, <1>4, <1>5, <1>6, <1>7

\* Until the root is closed only the handler's latch tells of a failure.
Calm(at, k, f, o, q) ==
    /\ at \in {"start", "root", "entry", "value", "unwind"} => k
    /\ at = "unwind" => f
    /\ IsSeq(o) /\ IsSeq(q)

\* The call cannot return true any more, or the sink has an event nobody filled in.
Void(at, r, k, f, o) == IF at = "returned" THEN ~r \/ Marked(o) ELSE f \/ ~k \/ Marked(o)

\* What happens to the events in one step.
Passes == \E ev : IsSeq(ev) /\ EventsTaken(output, queue, ev, output', queue')

Spoils == queue' = <<>> /\ output' = <<<<"indeterminate", 0>>>>

Loses == queue' = <<>> /\ output' = <<>>

Waits == output' = output /\ queue' = queue

\* Sequences stay sequences, and the sink keeps what it received until a failure.
LEMMA EventsStay ==
  ASSUME IsSeq(output), IsSeq(queue), Passes \/ Spoils \/ Loses \/ Waits
  PROVE  /\ IsSeq(output') /\ IsSeq(queue')
         /\ Passes \/ Waits => (Marked(output) => Marked(output'))
         /\ Spoils => Marked(output')
<1>1. ASSUME Passes PROVE IsSeq(output') /\ IsSeq(queue') /\ (Marked(output) => Marked(output'))
  <2>1. PICK ev : IsSeq(ev) /\ EventsTaken(output, queue, ev, output', queue')
    BY <1>1 DEF Passes
  <2> QED BY <2>1, EmittedKeeps
<1>2. ASSUME Spoils PROVE IsSeq(output') /\ IsSeq(queue') /\ Marked(output')
  <2>1. PICK t : t = <<"indeterminate", 0>>
    OBVIOUS
  <2>2. output' = <<t>> /\ queue' = <<>>
    BY <1>2, <2>1 DEF Spoils
  <2>3. IsSeq(<<t>>) /\ Len(<<t>>) = 1 /\ <<t>>[1] = t
    BY SeqOne
  <2>4. 1 \in 1 .. Len(output') /\ output'[1] = t
    BY <2>2, <2>3
  <2> QED BY <2>1, <2>2, <2>3, <2>4, SeqEmpty DEF Marked
<1>3. ASSUME Loses PROVE IsSeq(output') /\ IsSeq(queue')
  BY <1>3, SeqEmpty DEF Loses
<1>4. ASSUME Waits PROVE IsSeq(output') /\ IsSeq(queue') /\ (Marked(output) => Marked(output'))
  BY <1>4 DEF Waits
<1> QED BY <1>1, <1>2, <1>3, <1>4

\* Each action in these words.
LEMMA YamlEvents ==
  /\ \A ev : IsSeq(ev) /\ Y!Emit(ev) => Passes
  /\ Y!EmitFails => Loses
  /\ \A e, m : Y!EmitScalar(e, m) => Passes \/ Spoils
<1>1. ASSUME NEW ev, IsSeq(ev), Y!Emit(ev) PROVE Passes
  <2>1. EventsTaken(output, queue, ev, output', queue')
    BY <1>1 DEF Y!Emit, Y!Write, EventsTaken
  <2> QED BY <1>1, <2>1 DEF Passes
<1>2. ASSUME NEW e, NEW m, Y!EmitScalar(e, m) PROVE Passes \/ Spoils
  <2>1. CASE Y!Emit(<<e>>)
    BY <1>1, <2>1, SeqOne
  <2>2. CASE queue' = <<>> /\ output' = <<Y!Indeterminate>>
    BY <2>2 DEF Spoils, Y!Indeterminate, Y!Sign
  <2> QED BY <1>2, <2>1, <2>2 DEF Y!EmitScalar
<1>3. Y!EmitFails => Loses
  BY DEF Y!EmitFails, Loses
<1> QED BY <1>1, <1>2, <1>3

\* Literal sequences.
LEMMA ShortSeqs ==
  ASSUME NEW a, NEW b
  PROVE  IsSeq(<<a>>) /\ IsSeq(<<a, b>>)
<1>1. <<a, b>> \in Seq({a, b})
  OBVIOUS
<1> QED BY <1>1, SeqOne DEF IsSeq

\* A step keeps the call calm; and once it cannot return true it never will.
LEMMA YamlCalmStep ==
  ASSUME Calm(pc, ok, failed, output, queue), Y!Next
  PROVE  /\ Calm(pc', ok', failed', output', queue')
         /\ Void(pc, result, ok, failed, output) => Void(pc', result', ok', failed', output')
<1>1. /\ pc \in {"start", "root", "entry", "value", "unwind"} => ok
      /\ pc = "unwind" => failed
      /\ IsSeq(output) /\ IsSeq(queue)
  BY DEF Calm
<1>2. /\ Passes \/ Spoils \/ Loses \/ Waits => IsSeq(output') /\ IsSeq(queue')
      /\ Passes \/ Waits => (Marked(output) => Marked(output'))
      /\ Spoils => Marked(output')
  BY <1>1, EventsStay
<1>3. ASSUME pc # "returned", Passes \/ Waits, pc' # "returned", failed => failed', ok' = ok,
             pc' \in {"start", "root", "entry", "value", "unwind"} => ok,
             pc' = "unwind" => failed'
      PROVE  /\ Calm(pc', ok', failed', output', queue')
             /\ Void(pc, result, ok, failed, output) => Void(pc', result', ok', failed', output')
  BY <1>2, <1>3 DEF Calm, Void
<1>4. ASSUME pc' # "returned", pc' = "unwind" => failed', Passes \/ Spoils \/ Loses \/ Waits,
             failed' \/ ~ok' \/ Spoils, pc' \in {"start", "root", "entry", "value", "unwind"} => ok'
      PROVE  /\ Calm(pc', ok', failed', output', queue')
             /\ Void(pc, result, ok, failed, output) => Void(pc', result', ok', failed', output')
  BY <1>2, <1>4 DEF Calm, Void
<1>5. ASSUME pc' = "returned", ~result', Passes \/ Spoils \/ Loses \/ Waits
      PROVE  /\ Calm(pc', ok', failed', output', queue')
             /\ Void(pc, result, ok, failed, output) => Void(pc', result', ok', failed', output')
  BY <1>2, <1>5 DEF Calm, Void
<1>6. CASE Y!Start
  <2>1. pc = "start" /\ Waits /\ failed' = failed /\ ok' = ok /\ (pc' = "root" \/ (pc' = "returned" /\ ~result'))
    BY <1>6 DEF Y!Start, Y!Return, Waits
  <2> QED BY <1>1, <1>3, <1>5, <2>1
<1>7. CASE Y!Root
  <2>1. pc = "root" /\ failed' = failed /\ ok' = ok /\ pc' \in {"finish", "entry"} /\ Y!Emit(Y!RootOpening)
    BY <1>7 DEF Y!Root
  <2>2. IsSeq(Y!RootOpening)
    <3>1. PICK a, b, c : /\ a = Y!Prologue /\ b = <<Y!Sign("{")>>
                         /\ c = (IF Y!Children(0) = <<>> THEN <<Y!Sign("}")>> ELSE <<>>)
      OBVIOUS
    <3>2. IsSeq(a) /\ IsSeq(b) /\ IsSeq(c)
      BY <3>1, ShortSeqs, SeqEmpty DEF Y!Prologue
    <3>3. IsSeq(a \o b)
      BY <3>2, SeqJoin
    <3>4. IsSeq((a \o b) \o c)
      BY <3>2, <3>3, SeqJoin
    <3> QED BY <3>1, <3>4 DEF Y!RootOpening
  <2>3. Passes
    BY <2>1, <2>2, YamlEvents
  <2> QED BY <1>1, <1>3, <2>1, <2>3
<1>8. CASE Y!RootFails
  <2>1. Loses /\ pc' = "returned" /\ ~result'
    BY <1>8, YamlEvents DEF Y!RootFails, Y!Return
  <2> QED BY <1>5, <2>1
<1>9. CASE Y!EntryKey
  <2>1. pc = "entry" /\ ok' = ok
    BY <1>9 DEF Y!EntryKey
  <2>2. \/ (Passes \/ Spoils) /\ pc' = "value" /\ failed' = failed
        \/ Loses /\ failed' /\ pc' = "unwind"
    BY <1>9, YamlEvents DEF Y!EntryKey
  <2> QED BY <1>1, <1>3, <1>4, <2>1, <2>2
<1>10. CASE Y!Element
  <2>1. pc = "entry" /\ ok' = ok /\ Waits /\ failed' = failed /\ pc' = "value"
    BY <1>10 DEF Y!Element, Waits
  <2> QED BY <1>1, <1>3, <2>1
<1>11. CASE Y!Scalar
  <2>1. pc = "value" /\ ok' = ok /\ failed' = failed /\ pc' = "entry" /\ (Passes \/ Spoils)
    BY <1>11, YamlEvents DEF Y!Scalar
  <2> QED BY <1>1, <1>3, <1>4, <2>1
<1>12. CASE Y!Container
  <2>1. pc = "value" /\ ok' = ok /\ Y!Emit(<<Y!Bracket(Y!Current)[1]>>)
        /\ ((pc' = "entry" /\ failed' = failed) \/ (pc' = "unwind" /\ failed'))
    BY <1>12 DEF Y!Container
  <2>2. Passes
    BY <2>1, ShortSeqs, YamlEvents
  <2>3. CASE pc' = "entry" /\ failed' = failed
    BY <1>1, <1>3, <2>1, <2>2, <2>3
  <2>4. CASE pc' = "unwind" /\ failed'
    BY <1>1, <1>4, <2>1, <2>2, <2>4
  <2> QED BY <2>1, <2>3, <2>4
<1>13. CASE Y!ValueFails
  <2>1. pc = "value" /\ ok' = ok /\ Loses /\ failed' /\ pc' = "unwind"
    BY <1>13, YamlEvents DEF Y!ValueFails
  <2> QED BY <1>1, <1>4, <2>1
<1>14. CASE Y!Close
  <2>1. pc = "entry" /\ ok' = ok
        /\ \/ Y!Emit(<<Y!Bracket(Y!Top.node)[2]>>) /\ failed' = failed /\ pc' = pc
           \/ Loses /\ failed' /\ pc' = "unwind"
    BY <1>14, YamlEvents DEF Y!Close
  <2>2. (Passes /\ failed' = failed /\ pc' = pc) \/ (Loses /\ failed' /\ pc' = "unwind")
    BY <2>1, ShortSeqs, YamlEvents
  <2>3. CASE Passes /\ failed' = failed /\ pc' = pc
    BY <1>1, <1>3, <2>1, <2>3
  <2>4. CASE Loses /\ failed' /\ pc' = "unwind"
    BY <1>1, <1>4, <2>1, <2>4
  <2> QED BY <2>2, <2>3, <2>4
<1>15. CASE Y!Unwind
  <2>1. pc = "unwind" /\ pc' = pc /\ Waits /\ failed' = failed /\ ok' = ok
    BY <1>15 DEF Y!Unwind, Waits
  <2> QED BY <1>1, <1>3, <2>1
<1>16. CASE Y!CloseRoot
  <2>1. pc' = "finish" /\ pc \in {"entry", "unwind"}
        /\ \/ Y!Emit(<<Y!Sign("}")>>) /\ ok' = (pc = "entry") /\ failed' = failed
           \/ Loses /\ ~ok'
    BY <1>16, YamlEvents DEF Y!CloseRoot
  <2>2. CASE Loses /\ ~ok'
    BY <1>4, <2>1, <2>2
  <2>3. CASE Y!Emit(<<Y!Sign("}")>>) /\ ok' = (pc = "entry") /\ failed' = failed
    <3>1. Passes
      BY <2>3, ShortSeqs, YamlEvents
    <3>2. CASE pc = "unwind"
      <4>1. failed' /\ ~ok'
        BY <1>1, <2>3, <3>2
      <4> QED BY <1>4, <2>1, <3>1, <4>1
    <3>3. CASE pc = "entry"
      BY <1>1, <1>2, <2>1, <2>3, <3>1, <3>3 DEF Calm, Void
    <3> QED BY <2>1, <3>2, <3>3
  <2> QED BY <2>1, <2>2, <2>3
<1>17. CASE Y!Finish
  <2>1. pc = "finish" /\ pc' = "flush"
        /\ \/ Y!Emit(Y!Epilogue) /\ ok' = ok /\ failed' = failed
           \/ Loses /\ ~ok'
    BY <1>17, YamlEvents DEF Y!Finish
  <2>2. IsSeq(Y!Epilogue)
    BY ShortSeqs DEF Y!Epilogue
  <2>3. (Passes /\ ok' = ok /\ failed' = failed) \/ (Loses /\ ~ok')
    BY <2>1, <2>2, YamlEvents
  <2> QED BY <1>3, <1>4, <2>1, <2>3
<1>18. CASE Y!Flush
  <2>1. pc = "flush" /\ pc' = "returned"
        /\ \/ output' = output \o queue /\ queue' = <<>> /\ result' = (ok /\ ~failed)
           \/ Loses /\ ~result'
    BY <1>18, YamlEvents DEF Y!Flush, Y!Write, Y!Return
  <2>2. CASE Loses /\ ~result'
    BY <1>5, <2>1, <2>2
  <2>3. CASE output' = output \o queue /\ queue' = <<>> /\ result' = (ok /\ ~failed)
    <3>1. IsSeq(output') /\ IsSeq(queue') /\ (Marked(output) => Marked(output'))
      BY <1>1, <2>3, SeqJoin, SeqEmpty
    <3> QED BY <2>1, <2>3, <3>1 DEF Calm, Void
  <2> QED BY <2>1, <2>2, <2>3
<1> QED BY <1>6, <1>7, <1>8, <1>9, <1>10, <1>11, <1>12, <1>13, <1>14, <1>15, <1>16, <1>17, <1>18 DEF Y!Next

Heading == <<<<"stream", 0>>, <<"document", 0>>>>

Ending == <<<<"end of document", 0>>, <<"end of stream", 0>>>>

\* Nodes that YAML can represent.
Fine(d) == {i \in 0 .. d.size : KindIn(d, i) \notin {"corrupt", "torn", "malformed"}}

\* The emitter has had the heading and then w.
Sent(w, o, q) ==
    w \in Seq(Tok) /\ o \in Seq(Tok) /\ q \in Seq(Tok) /\ o \o q = Heading \o w

\* It has had everything.
SentAll(w, o, q) ==
    w \in Seq(Tok) /\ o \in Seq(Tok) /\ q \in Seq(Tok) /\ o \o q = (Heading \o w) \o Ending

Going(d, g, G, K, at, s, o, q) ==
    /\ at \in {"start", "root"} => o = <<>> /\ q = <<>>
    /\ at = "entry" => \E w : Sent(w, o, q) /\ Under(d, g, G, K, s, w, FALSE)
    /\ at = "value" => \E w : Sent(w, o, q) /\ Under(d, g, G, K, s, w, TRUE)
    /\ at = "finish" => 0 .. d.size \subseteq G /\ \E w : Sent(w, o, q) /\ MayBeAll(d, g, w)
    /\ at = "flush" => 0 .. d.size \subseteq G /\ \E w : SentAll(w, o, q) /\ MayBeAll(d, g, w)
    /\ at = "returned" => 0 .. d.size \subseteq G
                          /\ \E w : o = (Heading \o w) \o Ending /\ MayBeAll(d, g, w)

\* The heading and the ending are events.
LEMMA HeadAndEnd == Heading \in Seq(Tok) /\ Ending \in Seq(Tok)
<1>1. /\ <<"stream", 0>> \in Tok /\ <<"document", 0>> \in Tok
      /\ <<"end of document", 0>> \in Tok /\ <<"end of stream", 0>> \in Tok
  BY DEF Tok
<1> QED BY <1>1, Tokens DEF Heading, Ending

\* Further events go on with what was sent.
LEMMA SentMore ==
  ASSUME NEW w, NEW o, NEW q, Sent(w, o, q), NEW ev \in Seq(Tok), NEW o2, NEW q2, EventsTaken(o, q, ev, o2, q2)
  PROVE  Sent(w \o ev, o2, q2)
<1>1. PICK h \in Seq(Tok) : h = Heading
  BY HeadAndEnd
<1>2. w \in Seq(Tok) /\ o \in Seq(Tok) /\ q \in Seq(Tok) /\ o \o q = h \o w
  BY <1>1 DEF Sent
<1>3. EmittedOn(o, q, ev, o2, q2)
  BY <1>2, EmittedAll
<1>4. Regroups(h, h, w, ev)
  BY <1>2, Regroup
<1>5. (h \o w) \o ev = h \o (w \o ev)
  BY <1>4 DEF Regroups
<1>6. w \o ev \in Seq(Tok)
  BY <1>2, ConcatProperties
<1> QED BY <1>1, <1>2, <1>3, <1>5, <1>6 DEF Sent, EmittedOn

\* The ending after all of the document.
LEMMA SentEnding ==
  ASSUME NEW w, NEW o, NEW q, Sent(w, o, q), NEW o2, NEW q2, EventsTaken(o, q, Ending, o2, q2)
  PROVE  SentAll(w, o2, q2)
<1>1. w \in Seq(Tok) /\ o \in Seq(Tok) /\ q \in Seq(Tok) /\ o \o q = Heading \o w
  BY DEF Sent
<1>2. PICK e \in Seq(Tok) : e = Ending
  BY HeadAndEnd
<1>3. EmittedOn(o, q, e, o2, q2)
  <2>1. EventsTaken(o, q, e, o2, q2)
    BY <1>2
  <2> QED BY <1>1, <2>1, EmittedAll
<1> QED BY <1>1, <1>2, <1>3 DEF SentAll, EmittedOn

\* The first events, with the heading before them.
LEMMA SentFirst ==
  ASSUME NEW w \in Seq(Tok), NEW ev, ev = Heading \o w, NEW o2, NEW q2, EventsTaken(<<>>, <<>>, ev, o2, q2)
  PROVE  Sent(w, o2, q2)
<1>1. PICK z \in Seq(Tok) : z = <<>>
  BY Tokens
<1>2. ev \in Seq(Tok)
  BY HeadAndEnd, ConcatProperties
<1>3. EmittedOn(z, z, ev, o2, q2)
  <2>1. EventsTaken(z, z, ev, o2, q2)
    BY <1>1
  <2> QED BY <1>2, <2>1, EmittedAll
<1>4. z \o z = z /\ z \o ev = ev
  BY <1>1, <1>2, ConcatEmptySeq
<1> QED BY <1>3, <1>4 DEF Sent, EmittedOn

\* What the root's events are.
LEMMA RootEvents ==
  ASSUME DocSound(doc), NEW g, g = YamlGrammar(doc, sort_keys)
  PROVE  /\ doc.children[0] # <<>> => Y!RootOpening = Heading \o g.begin[0]
         /\ doc.children[0] = <<>> => Y!RootOpening = Heading \o (g.begin[0] \o g.end[0])
         /\ g.begin[0] \in Seq(Tok) /\ g.end[0] \in Seq(Tok)
<1>1. 0 \in 0 .. doc.size /\ Grammar(doc, g)
  <2>1. 0 \in 0 .. doc.size
    BY DEF DocSound, DocTree
  <2> QED BY <2>1, YamlGood
<1>2. g.begin[0] \in Seq(Tok) /\ g.end[0] \in Seq(Tok)
  BY <1>1 DEF Grammar
<1>3. Holder(doc, 0) /\ Opening(doc, 0) = Y!Sign("{") /\ Closing(doc, 0) = Y!Sign("}")
  BY DEF Holder, KindIn, Opening, Closing, Y!Sign
<1>4. g.begin[0] = <<Y!Sign("{")>> /\ g.end[0] = <<Y!Sign("}")>>
  BY <1>1, <1>3, YamlPieces
<1>5. PICK h \in Seq(Tok), b \in Seq(Tok), e \in Seq(Tok) : h = Heading /\ b = g.begin[0] /\ e = g.end[0]
  BY <1>2, HeadAndEnd
<1>6. Y!Prologue = h /\ Y!Children(0) = doc.children[0]
  BY <1>5 DEF Y!Prologue, Y!Sign, Heading, Y!Children
<1>7. Y!RootOpening = (h \o b) \o (IF doc.children[0] = <<>> THEN e ELSE <<>>)
  BY <1>4, <1>5, <1>6 DEF Y!RootOpening
<1>8. h \o b \in Seq(Tok)
  BY ConcatProperties
<1>9. (h \o b) \o <<>> = h \o b
  BY <1>8, ConcatEmptySeq
<1>10. Regroups(h, h, b, e)
  BY Regroup
<1>11. (h \o b) \o e = h \o (b \o e)
  BY <1>10 DEF Regroups
<1> QED BY <1>2, <1>5, <1>7, <1>9, <1>11

\* A step of the YAML export: the call is void, or the events go on with the document.
LEMMA YamlGoesOn ==
  ASSUME DocSound(doc), Calm(pc, ok, failed, output, queue), Y!Next,
         NEW g, g = YamlGrammar(doc, sort_keys), NEW G, G = Fine(doc), NEW K, K = 0 .. doc.size,
         Going(doc, g, G, K, pc, stack, output, queue)
  PROVE  Void(pc', result', ok', failed', output') \/ Going(doc, g, G, K, pc', stack', output', queue')
<1>1. DocTree(doc) /\ Grammar(doc, g) /\ 0 \in 0 .. doc.size /\ doc.size \in Nat
  <2>1. DocTree(doc) /\ 0 \in 0 .. doc.size /\ doc.size \in Nat
    BY DEF DocSound, DocTree
  <2> QED BY <2>1, YamlGood
<1>2. YamlWords
  BY YamlSays
<1>3. PICK c : c = EntryOf(stack) /\ Y!Current = c
  BY <1>2 DEF YamlWords
<1>4. 0 \in G
  BY <1>1 DEF Fine, KindIn
<1>5. ASSUME pc = "entry"
      PROVE  \E w : /\ Sent(w, output, queue) /\ Under(doc, g, G, K, stack, w, FALSE)
                    /\ FrameList(stack) /\ Len(stack) \in Nat /\ Len(stack) >= 1 /\ stack # <<>>
  <2>1. PICK w : Sent(w, output, queue) /\ Under(doc, g, G, K, stack, w, FALSE)
    BY <1>5 DEF Going
  <2>2. FrameList(stack) /\ Len(stack) \in Nat /\ Len(stack) >= 1 /\ stack # <<>>
    BY <2>1, UnderFrames
  <2> QED BY <2>1, <2>2
<1>6. ASSUME pc = "value"
      PROVE  \E w : /\ Sent(w, output, queue) /\ Under(doc, g, G, K, stack, w, TRUE)
                    /\ FrameList(stack) /\ stack # <<>> /\ c \in 0 .. doc.size
  <2>1. PICK w : Sent(w, output, queue) /\ Under(doc, g, G, K, stack, w, TRUE)
    BY <1>6 DEF Going
  <2>2. FrameList(stack) /\ stack # <<>>
    BY <2>1, UnderFrames
  <2>3. ValueIn(doc, K, stack, c)
    BY <1>1, <1>3, <2>1, UnderValue
  <2> QED BY <2>1, <2>2, <2>3 DEF ValueIn
<1>7. ASSUME pc' = "entry", NEW w, Sent(w, output', queue'), Under(doc, g, G, K, stack', w, FALSE)
      PROVE  Going(doc, g, G, K, pc', stack', output', queue')
  BY <1>7 DEF Going
<1>8. ASSUME pc' = "value", NEW w, Sent(w, output', queue'), Under(doc, g, G, K, stack', w, TRUE)
      PROVE  Going(doc, g, G, K, pc', stack', output', queue')
  BY <1>8 DEF Going
<1>9. ASSUME pc' = "finish", NEW w, Sent(w, output', queue'), MayBeAll(doc, g, w), 0 .. doc.size \subseteq G
      PROVE  Going(doc, g, G, K, pc', stack', output', queue')
  BY <1>9 DEF Going
<1>10. ASSUME pc' # "returned", failed' \/ ~ok' \/ Spoils
       PROVE  Void(pc', result', ok', failed', output')
  <2>1. Spoils => Marked(output')
    <3>1. IsSeq(output) /\ IsSeq(queue)
      BY DEF Calm
    <3> QED BY <3>1, EventsStay
  <2> QED BY <1>10, <2>1 DEF Void
<1>11. ASSUME pc' = "returned", ~result' PROVE Void(pc', result', ok', failed', output')
  BY <1>11 DEF Void
<1>12. ASSUME NEW ev, Y!Emit(ev) PROVE EventsTaken(output, queue, ev, output', queue')
  BY <1>12 DEF Y!Emit, Y!Write, EventsTaken
<1>13. ASSUME NEW e, NEW m, Y!EmitScalar(e, m)
       PROVE  (~m /\ EventsTaken(output, queue, <<e>>, output', queue')) \/ Spoils
  <2>1. CASE ~m /\ Y!Emit(<<e>>)
    BY <1>12, <2>1
  <2>2. CASE queue' = <<>> /\ output' = <<Y!Indeterminate>>
    BY <2>2 DEF Spoils, Y!Indeterminate, Y!Sign
  <2> QED BY <1>13, <2>1, <2>2 DEF Y!EmitScalar
<1>14. CASE Y!Start
  <2>1. /\ pc = "start" /\ output' = output /\ queue' = queue
        /\ pc' = "root" \/ (pc' = "returned" /\ ~result')
    BY <1>14 DEF Y!Start, Y!Return
  <2>2. pc' = "root" => Going(doc, g, G, K, pc', stack', output', queue')
    BY <2>1 DEF Going
  <2> QED BY <1>11, <2>1, <2>2
<1>15. CASE Y!Root
  <2>1. pc = "root" /\ Y!Emit(Y!RootOpening)
    BY <1>15 DEF Y!Root
  <2>2. EventsTaken(<<>>, <<>>, Y!RootOpening, output', queue')
    <3>1. output = <<>> /\ queue = <<>>
      BY <2>1 DEF Going
    <3> QED BY <1>12, <2>1, <3>1
  <2>3. /\ doc.children[0] # <<>> => Y!RootOpening = Heading \o g.begin[0]
        /\ doc.children[0] = <<>> => Y!RootOpening = Heading \o (g.begin[0] \o g.end[0])
        /\ g.begin[0] \in Seq(Tok) /\ g.end[0] \in Seq(Tok)
    BY RootEvents
  <2>4. Y!Children(0) = doc.children[0]
    BY <1>2 DEF YamlWords
  <2>5. CASE doc.children[0] = <<>>
    <3>1. KidSet(doc, 0) = {}
      BY <1>1, <2>5, YamlPieces
    <3>2. 0 .. doc.size \subseteq G /\ MayBeAll(doc, g, g.begin[0] \o g.end[0])
      BY <1>1, <1>4, <3>1, EmptyRoot
    <3>3. g.begin[0] \o g.end[0] \in Seq(Tok)
      BY <2>3, ConcatProperties
    <3>4. Sent(g.begin[0] \o g.end[0], output', queue')
      BY <2>2, <2>3, <2>5, <3>3, SentFirst
    <3>5. pc' = "finish"
      BY <1>15, <2>4, <2>5 DEF Y!Root
    <3> QED BY <1>9, <3>2, <3>4, <3>5
  <2>6. CASE doc.children[0] # <<>>
    <3>1. pc' = "entry" /\ \E order \in Y!Orders(0) : stack' = <<Y!Frame(0, order)>>
      BY <1>15, <2>4, <2>6 DEF Y!Root
    <3>2. PICK order \in Y!Orders(0) : stack' = <<[node |-> 0, order |-> order, done |-> 0]>>
      BY <3>1 DEF Y!Frame
    <3>3. order \in g.orders[0]
      BY <1>1, <3>2, YamlPieces
    <3>4. Under(doc, g, G, K, stack', g.begin[0], FALSE)
      BY <1>1, <1>4, <3>2, <3>3, UnderStart
    <3>5. Sent(g.begin[0], output', queue')
      BY <2>2, <2>3, <2>6, SentFirst
    <3> QED BY <1>7, <3>1, <3>4, <3>5
  <2> QED BY <2>5, <2>6
<1>16. CASE Y!RootFails
  BY <1>11, <1>16 DEF Y!RootFails, Y!Return
<1>17. ASSUME pc = "entry", DoneAt(stack) # Len(OrderAt(stack))
       PROVE  \E w, i, l : /\ Sent(w, output, queue) /\ i = NodeAt(stack) /\ c \in 1 .. doc.size
                           /\ l = YamlLead(doc, i, c) /\ l \in Seq(Tok)
                           /\ Under(doc, g, G, K, stack, w \o l, TRUE)
  <2>1. PICK w : Sent(w, output, queue) /\ Under(doc, g, G, K, stack, w, FALSE)
    BY <1>5, <1>17
  <2>2. PICK i, k : i = NodeAt(stack) /\ k = DoneAt(stack) + 1
    OBVIOUS
  <2>3. PICK l : l = g.lead[i][k][c]
    OBVIOUS
  <2>4. EntryOK(doc, g, G, K, stack, w, c, l)
    BY <1>1, <1>3, <1>17, <2>1, <2>2, <2>3, UnderEntry
  <2>5. /\ l \in Seq(Tok) /\ i \in 0 .. doc.size /\ c \in 1 .. doc.size /\ k \in 1 .. doc.size
        /\ c \in K => Under(doc, g, G, K, stack, w \o l, TRUE)
    BY <2>2, <2>4 DEF EntryOK
  <2>6. l = YamlLead(doc, i, c)
    BY <2>3, <2>5, YamlFields DEF YamlFieldsOf
  <2>7. c \in K
    BY <2>5
  <2> QED BY <2>1, <2>2, <2>5, <2>6, <2>7
<1>18. CASE Y!EntryKey
  <2>1. /\ pc = "entry" /\ DoneAt(stack) # Len(OrderAt(stack)) /\ KindIn(doc, NodeAt(stack)) = "block"
        /\ stack' = stack
        /\ \/ pc' = "value" /\ \E m : Y!EmitScalar(<<"key", doc.key[c]>>, m)
           \/ failed' /\ pc' = "unwind"
    BY <1>2, <1>3, <1>18 DEF Y!EntryKey, YamlWords
  <2>2. CASE failed' /\ pc' = "unwind"
    BY <1>10, <2>2
  <2>3. CASE pc' = "value" /\ \E m : Y!EmitScalar(<<"key", doc.key[c]>>, m)
    <3>1. EventsTaken(output, queue, <<<<"key", doc.key[c]>>>>, output', queue') \/ Spoils
      BY <1>13, <2>3
    <3>2. CASE Spoils
      BY <1>10, <2>3, <3>2
    <3>3. CASE EventsTaken(output, queue, <<<<"key", doc.key[c]>>>>, output', queue')
      <4>1. PICK w, i, l : /\ Sent(w, output, queue) /\ i = NodeAt(stack) /\ c \in 1 .. doc.size
                           /\ l = YamlLead(doc, i, c) /\ l \in Seq(Tok)
                           /\ Under(doc, g, G, K, stack, w \o l, TRUE)
        BY <1>17, <2>1
      <4>2. l = <<<<"key", doc.key[c]>>>>
        BY <2>1, <4>1 DEF YamlLead
      <4>3. EventsTaken(output, queue, l, output', queue')
        BY <3>3, <4>2
      <4>4. Sent(w \o l, output', queue')
        BY <4>1, <4>3, SentMore
      <4>5. Under(doc, g, G, K, stack', w \o l, TRUE)
        BY <2>1, <4>1
      <4> QED BY <1>8, <2>3, <4>4, <4>5
    <3> QED BY <3>1, <3>2, <3>3
  <2> QED BY <2>1, <2>2, <2>3
<1>19. CASE Y!Element
  <2>1. /\ pc = "entry" /\ DoneAt(stack) # Len(OrderAt(stack)) /\ KindIn(doc, NodeAt(stack)) = "array"
        /\ stack' = stack /\ output' = output /\ queue' = queue /\ pc' = "value"
    BY <1>2, <1>19 DEF Y!Element, YamlWords
  <2>2. PICK w, i, l : /\ Sent(w, output, queue) /\ i = NodeAt(stack) /\ c \in 1 .. doc.size
                       /\ l = YamlLead(doc, i, c) /\ l \in Seq(Tok)
                       /\ Under(doc, g, G, K, stack, w \o l, TRUE)
    BY <1>17, <2>1
  <2>3. l = <<>> /\ w \in Seq(Tok)
    BY <2>1, <2>2 DEF YamlLead, Sent
  <2>4. w \o l = w
    BY <2>3, ConcatEmptySeq
  <2>5. Sent(w, output', queue') /\ Under(doc, g, G, K, stack', w, TRUE)
    BY <2>1, <2>2, <2>4
  <2> QED BY <1>8, <2>1, <2>5
<1>20. ASSUME pc = "value", stack' = Y!Advanced(stack) PROVE Later(stack, stack')
  BY <1>6, <1>20 DEF Y!Advanced, Later
<1>21. CASE Y!Scalar
  <2>1. /\ pc = "value" /\ KindIn(doc, c) \notin {"block", "array", "corrupt", "torn", "unformattable"}
        /\ Y!EmitScalar(<<"value", c>>, KindIn(doc, c) = "malformed") /\ Later(stack, stack') /\ pc' = "entry"
    BY <1>2, <1>3, <1>20, <1>21 DEF Y!Scalar, YamlWords
  <2>2. \/ KindIn(doc, c) # "malformed" /\ EventsTaken(output, queue, <<<<"value", c>>>>, output', queue')
        \/ Spoils
    BY <1>13, <2>1
  <2>3. CASE Spoils
    BY <1>10, <2>1, <2>3
  <2>4. CASE KindIn(doc, c) # "malformed" /\ EventsTaken(output, queue, <<<<"value", c>>>>, output', queue')
    <3>1. PICK w : /\ Sent(w, output, queue) /\ Under(doc, g, G, K, stack, w, TRUE)
                   /\ c \in 0 .. doc.size
      BY <1>6, <2>1
    <3>2. ~Holder(doc, c) /\ c \in G
      BY <2>1, <2>4, <3>1 DEF Holder, Fine
    <3>3. KidSet(doc, c) = {}
      BY <3>1, <3>2 DEF DocSound, LeavesBare
    <3>4. PICK x : x = g.begin[c] \o g.end[c]
      OBVIOUS
    <3>5. x = <<<<"value", c>>>>
      BY <3>1, <3>2, <3>4, YamlPieces
    <3>6. x \in Seq(Tok) /\ \A t : Later(stack, t) /\ c \in G => Under(doc, g, G, K, t, w \o x, FALSE)
      BY <1>1, <1>3, <3>1, <3>3, <3>4, UnderLeaf
    <3>7. EventsTaken(output, queue, x, output', queue')
      BY <2>4, <3>5
    <3>8. Sent(w \o x, output', queue')
      BY <3>1, <3>6, <3>7, SentMore
    <3>9. Under(doc, g, G, K, stack', w \o x, FALSE)
      BY <2>1, <3>2, <3>6
    <3> QED BY <1>7, <2>1, <3>8, <3>9
  <2> QED BY <2>2, <2>3, <2>4
<1>22. CASE Y!Container
  <2>1. /\ pc = "value" /\ KindIn(doc, c) \in {"block", "array"} /\ Y!Emit(<<Opening(doc, c)>>)
        /\ \/ (\E order \in Y!Orders(c) : stack' = Append(stack, Y!Frame(c, order))) /\ pc' = "entry"
           \/ failed' /\ pc' = "unwind"
    BY <1>2, <1>3, <1>22 DEF Y!Container, YamlWords
  <2>2. CASE failed' /\ pc' = "unwind"
    BY <1>10, <2>2
  <2>3. CASE (\E order \in Y!Orders(c) : stack' = Append(stack, Y!Frame(c, order))) /\ pc' = "entry"
    <3>1. PICK w : /\ Sent(w, output, queue) /\ Under(doc, g, G, K, stack, w, TRUE)
                   /\ c \in 0 .. doc.size
      BY <1>6, <2>1
    <3>2. Holder(doc, c) /\ c \in G
      BY <2>1, <3>1 DEF Holder, Fine
    <3>3. g.orders[c] = Y!Orders(c) /\ g.begin[c] = <<Opening(doc, c)>>
      BY <3>1, <3>2, YamlPieces
    <3>4. PICK order \in g.orders[c] : stack' = Append(stack, Y!Frame(c, order))
      BY <2>3, <3>3
    <3>5. PICK f : f = [node |-> c, order |-> order, done |-> 0] /\ Pushed(stack, f, stack')
      BY <3>4 DEF Y!Frame, Pushed
    <3>6. /\ g.begin[c] \in Seq(Tok)
          /\ \A h, t : h = [node |-> c, order |-> order, done |-> 0] /\ Pushed(stack, h, t) /\ c \in G /\ Holder(doc, c)
                           => Under(doc, g, G, K, t, w \o g.begin[c], FALSE)
      BY <1>1, <1>3, <3>1, <3>4, UnderOpen
    <3>7. Under(doc, g, G, K, stack', w \o g.begin[c], FALSE)
      BY <3>2, <3>5, <3>6
    <3>8. EventsTaken(output, queue, g.begin[c], output', queue')
      BY <1>12, <2>1, <3>3
    <3>9. Sent(w \o g.begin[c], output', queue')
      BY <3>1, <3>6, <3>8, SentMore
    <3> QED BY <1>7, <2>3, <3>7, <3>9
  <2> QED BY <2>1, <2>2, <2>3
<1>23. CASE Y!ValueFails
  BY <1>10, <1>23 DEF Y!ValueFails
<1>24. ASSUME pc = "entry", DoneAt(stack) = Len(OrderAt(stack))
       PROVE  \E w, e : /\ Sent(w, output, queue) /\ e = <<Closing(doc, NodeAt(stack))>> /\ e \in Seq(Tok)
                        /\ Len(stack) = 1 => 0 .. doc.size \subseteq G /\ MayBeAll(doc, g, w \o e) /\ NodeAt(stack) = 0
                        /\ Len(stack) # 1 => \A t, u : t = SubSeq(stack, 1, Len(stack) - 1) /\ Later(t, u)
                                                         => Under(doc, g, G, K, u, w \o e, FALSE)
  <2>1. PICK w : Sent(w, output, queue) /\ Under(doc, g, G, K, stack, w, FALSE)
    BY <1>5, <1>24
  <2>2. PICK e : e = g.end[NodeAt(stack)]
    OBVIOUS
  <2>3. /\ MayFollow(doc, g, w, e) /\ e \in Seq(Tok) /\ Holder(doc, NodeAt(stack)) /\ NodeAt(stack) \in 0 .. doc.size
        /\ Len(stack) = 1 => NodeAt(stack) = 0 /\ 0 .. doc.size \subseteq G /\ MayBeAll(doc, g, w \o e)
        /\ Len(stack) # 1 => \A t, u : t = SubSeq(stack, 1, Len(stack) - 1) /\ Later(t, u)
                                         => Under(doc, g, G, K, u, w \o e, FALSE)
    BY <1>1, <1>24, <2>1, <2>2, UnderClose
  <2>4. e = <<Closing(doc, NodeAt(stack))>>
    BY <2>2, <2>3, YamlPieces
  <2> QED BY <2>1, <2>3, <2>4
<1>25. CASE Y!Close
  <2>1. /\ pc = "entry" /\ DoneAt(stack) = Len(OrderAt(stack)) /\ NodeAt(stack) # 0
        /\ \/ Y!Emit(<<Closing(doc, NodeAt(stack))>>) /\ stack' = Y!Advanced(Y!Front(stack)) /\ pc' = pc
           \/ failed' /\ pc' = "unwind"
    BY <1>2, <1>25 DEF Y!Close, YamlWords
  <2>2. CASE failed' /\ pc' = "unwind"
    BY <1>10, <2>2
  <2>3. CASE Y!Emit(<<Closing(doc, NodeAt(stack))>>) /\ stack' = Y!Advanced(Y!Front(stack)) /\ pc' = pc
    <3>1. PICK w, e : /\ Sent(w, output, queue) /\ e = <<Closing(doc, NodeAt(stack))>> /\ e \in Seq(Tok)
                      /\ Len(stack) = 1 => 0 .. doc.size \subseteq G /\ MayBeAll(doc, g, w \o e) /\ NodeAt(stack) = 0
                      /\ Len(stack) # 1 => \A t, u : t = SubSeq(stack, 1, Len(stack) - 1) /\ Later(t, u)
                                                       => Under(doc, g, G, K, u, w \o e, FALSE)
      BY <1>24, <2>1
    <3>2. FrameList(stack) /\ Len(stack) \in Nat /\ Len(stack) >= 1 /\ stack # <<>> /\ Len(stack) # 1
      BY <1>5, <2>1, <3>1
    <3>3. Sent(w \o e, output', queue')
      <4>1. EventsTaken(output, queue, e, output', queue')
        BY <1>12, <2>3, <3>1
      <4> QED BY <3>1, <4>1, SentMore
    <3>4. PICK t : t = SubSeq(stack, 1, Len(stack) - 1) /\ t = Y!Front(stack)
      BY DEF Y!Front
    <3>5. FrameList(t) /\ Len(t) = Len(stack) - 1
      BY <3>2, <3>4, FramesPop
    <3>6. Len(t) # 0
      BY <3>2, <3>5
    <3>7. t # <<>>
      BY <3>6, SeqEmpty, Zenon
    <3>8. Later(t, stack')
      BY <2>3, <3>4, <3>7 DEF Y!Advanced, Later
    <3>9. Under(doc, g, G, K, stack', w \o e, FALSE)
      BY <3>1, <3>2, <3>4, <3>8
    <3> QED BY <1>7, <2>1, <2>3, <3>3, <3>9
  <2> QED BY <2>1, <2>2, <2>3
<1>26. CASE pc = "unwind"
  <2>1. Void(pc, result, ok, failed, output)
    BY <1>26 DEF Calm, Void
  <2> QED BY <2>1, YamlCalmStep
<1>27. CASE Y!CloseRoot /\ pc # "unwind"
  <2>1. /\ pc = "entry" /\ DoneAt(stack) = Len(OrderAt(stack)) /\ Len(stack) = 1 /\ pc' = "finish"
        /\ Y!Emit(<<Y!Sign("}")>>) \/ ok' = FALSE
    BY <1>2, <1>27 DEF Y!CloseRoot, YamlWords
  <2>2. CASE ok' = FALSE
    BY <1>10, <2>1, <2>2
  <2>3. CASE Y!Emit(<<Y!Sign("}")>>)
    <3>1. PICK w, e : /\ Sent(w, output, queue) /\ e = <<Closing(doc, NodeAt(stack))>> /\ e \in Seq(Tok)
                      /\ Len(stack) = 1 => 0 .. doc.size \subseteq G /\ MayBeAll(doc, g, w \o e) /\ NodeAt(stack) = 0
      BY <1>24, <2>1
    <3>2. e = <<Y!Sign("}")>>
      BY <2>1, <3>1 DEF Closing, KindIn, Y!Sign
    <3>3. EventsTaken(output, queue, e, output', queue')
      BY <1>12, <2>3, <3>2
    <3>4. Sent(w \o e, output', queue')
      BY <3>1, <3>3, SentMore
    <3> QED BY <1>9, <2>1, <3>1, <3>4
  <2> QED BY <2>1, <2>2, <2>3
<1>28. CASE Y!Finish
  <2>1. pc = "finish" /\ pc' = "flush" /\ (Y!Emit(Y!Epilogue) \/ ok' = FALSE)
    BY <1>28 DEF Y!Finish
  <2>2. CASE ok' = FALSE
    BY <1>10, <2>1, <2>2
  <2>3. CASE Y!Emit(Y!Epilogue)
    <3>1. PICK w : Sent(w, output, queue) /\ MayBeAll(doc, g, w) /\ 0 .. doc.size \subseteq G
      BY <2>1 DEF Going
    <3>2. EventsTaken(output, queue, Ending, output', queue')
      <4>1. Y!Epilogue = Ending
        BY DEF Y!Epilogue, Ending, Y!Sign
      <4> QED BY <1>12, <2>3, <4>1
    <3>3. SentAll(w, output', queue')
      BY <3>1, <3>2, SentEnding
    <3> QED BY <2>1, <3>1, <3>3 DEF Going
  <2> QED BY <2>1, <2>2, <2>3
<1>29. CASE Y!Flush
  <2>1. /\ pc = "flush" /\ pc' = "returned"
        /\ output' = output \o queue \/ ~result'
    BY <1>29 DEF Y!Flush, Y!Write, Y!Return
  <2>2. CASE ~result'
    BY <1>11, <2>1, <2>2
  <2>3. CASE output' = output \o queue
    <3>1. PICK w : SentAll(w, output, queue) /\ MayBeAll(doc, g, w) /\ 0 .. doc.size \subseteq G
      BY <2>1 DEF Going
    <3>2. output' = (Heading \o w) \o Ending
      BY <2>3, <3>1 DEF SentAll
    <3> QED BY <2>1, <3>1, <3>2 DEF Going
  <2> QED BY <2>1, <2>2, <2>3
<1>30. Y!Unwind => pc = "unwind"
  BY DEF Y!Unwind
<1> QED BY <1>14, <1>15, <1>16, <1>18, <1>19, <1>21, <1>22, <1>23, <1>25, <1>26, <1>27, <1>28, <1>29, <1>30 DEF Y!Next

\* The grammar of the events is the property's own.
LEMMA YamlRendering ==
  ASSUME DocSound(doc), NEW g, g = YamlGrammar(doc, sort_keys)
  PROVE  /\ OrdersMatch(g)
         /\ \A q : Y!Events(q) = (Heading \o Rendered(q, g.begin, g.lead, g.end)) \o Ending
<1>1. YamlWords
  BY YamlSays
<1>2. \A i : Y!Kind(i) = KindIn(doc, i)
  BY <1>1 DEF YamlWords
<1>3. ASSUME NEW i \in 0 .. doc.size
      PROVE  <<IF Y!Kind(i) \in {"block", "array"} THEN Y!Bracket(i)[1] ELSE Y!ValueToken(i)>> = YamlBegin(doc, i)
  <2>1. Y!Bracket(i)[1] = Opening(doc, i) /\ Y!ValueToken(i) = <<"value", i>>
    BY <1>1 DEF YamlWords
  <2> QED BY <1>2, <2>1 DEF YamlBegin, Holder
<1>4. ASSUME NEW i \in 0 .. doc.size
      PROVE  (IF Y!Kind(i) \in {"block", "array"} THEN <<Y!Bracket(i)[2]>> ELSE <<>>) = YamlEnd(doc, i)
  <2>1. Y!Bracket(i)[2] = Closing(doc, i)
    BY <1>1 DEF YamlWords
  <2> QED BY <1>2, <2>1 DEF YamlEnd, Holder
<1>5. ASSUME NEW i \in 0 .. doc.size, NEW k \in 1 .. doc.size, NEW c \in 1 .. doc.size
      PROVE  (IF Y!Kind(i) = "block" THEN <<Y!KeyToken(c)>> ELSE <<>>) = YamlLead(doc, i, c)
  <2>1. Y!KeyToken(c) = <<"key", doc.key[c]>>
    BY <1>1 DEF YamlWords
  <2> QED BY <1>2, <2>1 DEF YamlLead
<1>6. g.begin = [i \in 0 .. doc.size |-> YamlBegin(doc, i)] /\ g.end = [i \in 0 .. doc.size |-> YamlEnd(doc, i)]
      /\ g.lead = [i \in 0 .. doc.size |-> [k \in 1 .. doc.size |-> [c \in 1 .. doc.size |-> YamlLead(doc, i, c)]]]
  BY DEF YamlGrammar
<1>7. Y!BeginEvent = g.begin
  BY <1>3, <1>6 DEF Y!BeginEvent
<1>8. Y!EndEvent = g.end
  BY <1>4, <1>6 DEF Y!EndEvent
<1>9. Y!LeadEvent = g.lead
  <2> DEFINE e(i, k, c) == (IF Y!Kind(i) = "block" THEN <<Y!KeyToken(c)>> ELSE <<>>)
             row(i, k) == [c \in 1 .. doc.size |-> e(i, k, c)]
             own(i, k) == [c \in 1 .. doc.size |-> YamlLead(doc, i, c)]
             rows(i) == [k \in 1 .. doc.size |-> row(i, k)]
             owns(i) == [k \in 1 .. doc.size |-> own(i, k)]
  <2>1. Y!LeadEvent = [i \in 0 .. doc.size |-> rows(i)]
    BY DEF Y!LeadEvent
  <2>2. \A i \in 0 .. doc.size : \A k, c \in 1 .. doc.size : e(i, k, c) = YamlLead(doc, i, c)
    BY <1>5
  <2> HIDE DEF e
  <2>3. \A i \in 0 .. doc.size : \A k \in 1 .. doc.size : row(i, k) = own(i, k)
    BY <2>2
  <2>4. g.lead = [i \in 0 .. doc.size |-> owns(i)]
    BY <1>6
  <2> HIDE DEF row, own
  <2>5. \A i \in 0 .. doc.size : rows(i) = owns(i)
    BY <2>3
  <2> HIDE DEF rows, owns
  <2> QED BY <2>1, <2>4, <2>5
<1>10. Y!Prologue = Heading /\ Y!Epilogue = Ending
  BY DEF Y!Prologue, Y!Epilogue, Heading, Ending, Y!Sign
<1>11. ASSUME NEW q PROVE Y!Events(q) = (Heading \o Rendered(q, g.begin, g.lead, g.end)) \o Ending
  <2>1. Y!Rendered(q, Y!BeginEvent, Y!LeadEvent, Y!EndEvent) = Rendered(q, g.begin, g.lead, g.end)
    BY <1>7, <1>8, <1>9 DEF Y!Rendered, Rendered
  <2> QED BY <1>10, <2>1 DEF Y!Events
<1>12. OrdersMatch(g)
  BY YamlPieces DEF OrdersMatch
<1> QED BY <1>11, <1>12

\* The call is void, or the emitter has had the beginning of the document.
YamlTells ==
    /\ DocSound(doc) /\ Calm(pc, ok, failed, output, queue)
    /\ \/ Void(pc, result, ok, failed, output)
       \/ Going(doc, YamlGrammar(doc, sort_keys), Fine(doc), 0 .. doc.size, pc, stack, output, queue)

\* What is known of the events is what the property asks.
LEMMA YamlTellsWhole == YamlTells => Y!YamlWhole
<1> SUFFICES ASSUME YamlTells, pc = "returned", result, Y!Indeterminate \notin Y!ToSet(output)
             PROVE  /\ \A i \in 1 .. doc.size : Y!Kind(i) \notin {"corrupt", "torn", "malformed"}
                    /\ \E order \in Y!Orderings : output = Y!Events(order)
  BY DEF Y!YamlWhole
<1>1. PICK g, G : g = YamlGrammar(doc, sort_keys) /\ G = Fine(doc)
  OBVIOUS
<1>2. DocSound(doc) /\ DocTree(doc) /\ Calm(pc, ok, failed, output, queue)
  BY DEF YamlTells, DocSound
<1>3. ~Marked(output)
  <2> SUFFICES ASSUME NEW i \in 1 .. Len(output), IsSeq(output), output[i] = <<"indeterminate", 0>>
               PROVE  FALSE
    BY DEF Marked
  <2>1. i \in DOMAIN output
    BY DEF IsSeq
  <2>2. output[i] \in Y!ToSet(output)
    BY <2>1 DEF Y!ToSet
  <2> QED BY <2>2 DEF Y!Indeterminate, Y!Sign
<1>4. Going(doc, g, G, 0 .. doc.size, pc, stack, output, queue)
  BY <1>1, <1>3 DEF YamlTells, Void
<1>5. PICK w : output = (Heading \o w) \o Ending /\ MayBeAll(doc, g, w) /\ 0 .. doc.size \subseteq G
  BY <1>4 DEF Going
<1>6. Grammar(doc, g) /\ OrdersMatch(g)
  BY <1>1, <1>2, YamlGood, YamlRendering
<1>7. PICK q \in Orderings : w = Rendered(q, g.begin, g.lead, g.end)
  BY <1>2, <1>5, <1>6, AllRendered
<1>8. output = Y!Events(q)
  BY <1>1, <1>2, <1>5, <1>7, YamlRendering
<1>9. q \in Y!Orderings
  BY <1>7, Same
<1>10. ASSUME NEW i \in 1 .. doc.size PROVE Y!Kind(i) \notin {"corrupt", "torn", "malformed"}
  <2>1. i \in 0 .. doc.size
    BY <1>2 DEF DocTree
  <2>2. i \in Fine(doc)
    BY <1>1, <1>5, <2>1
  <2>3. Y!Kind(i) = KindIn(doc, i)
    BY DEF Y!Kind, KindIn
  <2> QED BY <2>2, <2>3 DEF Fine
<1> QED BY <1>8, <1>9, <1>10

\* Each call of the YAML export, from its start on.
YamlInv == format = "yaml" => YamlTells

\* It holds when the call starts.
LEMMA YamlInvStarts == Init => YamlInv
<1> SUFFICES ASSUME Init, format = "yaml" PROVE YamlTells
  BY DEF YamlInv
<1>1. Y!Init
  BY DEF Init
<1>2. Y!SomeDocument /\ output = <<>> /\ queue = <<>> /\ pc = "start" /\ ok = TRUE
  BY <1>1 DEF Y!Init, Y!ExportInit
<1>3. DocSound(doc)
  BY <1>2, YamlSound
<1>4. Calm(pc, ok, failed, output, queue)
  BY <1>2, SeqEmpty DEF Calm
<1> QED BY <1>2, <1>3, <1>4 DEF YamlTells, Going

\* Every step keeps it.
LEMMA YamlInvGoesOn == YamlInv /\ [Next]_vars => YamlInv'
<1> SUFFICES ASSUME YamlInv, [Next]_vars, format' = "yaml" PROVE YamlTells'
  BY DEF YamlInv
<1>1. CASE Y!Next /\ format = "yaml"
  <2>1. DocSound(doc) /\ Calm(pc, ok, failed, output, queue)
    BY <1>1 DEF YamlInv, YamlTells
  <2>2. PICK g, G, K : g = YamlGrammar(doc, sort_keys) /\ G = Fine(doc) /\ K = 0 .. doc.size
    OBVIOUS
  <2>3. Calm(pc', ok', failed', output', queue')
        /\ (Void(pc, result, ok, failed, output) => Void(pc', result', ok', failed', output'))
    BY <1>1, <2>1, YamlCalmStep
  <2>4. Void(pc', result', ok', failed', output') \/ Going(doc, g, G, K, pc', stack', output', queue')
    <3>1. CASE Void(pc, result, ok, failed, output)
      BY <2>3, <3>1
    <3>2. CASE Going(doc, g, G, K, pc, stack, output, queue)
      BY <1>1, <2>1, <2>2, <3>2, YamlGoesOn
    <3> QED BY <1>1, <2>2, <3>1, <3>2 DEF YamlInv, YamlTells
  <2>5. doc' = doc /\ sort_keys' = sort_keys
    BY <1>1 DEF Y!Next, Y!Start, Y!Root, Y!RootFails, Y!EntryKey, Y!Element, Y!Scalar, Y!Container, Y!ValueFails,
               Y!Close, Y!Unwind, Y!CloseRoot, Y!Finish, Y!Flush, Y!input
  <2> QED BY <2>1, <2>2, <2>3, <2>4, <2>5 DEF YamlTells
<1>2. CASE UNCHANGED vars
  <2>1. YamlTells /\ UNCHANGED <<doc, sort_keys, output, stack, pc, result, failed, queue, ok>>
    BY <1>2 DEF YamlInv, vars, input, yaml
  <2> QED BY <2>1 DEF YamlTells
<1> QED BY <1>1, <1>2 DEF Next

\* bc_hrbl_export_yaml_ex: a call that returns true has brought the events of
\* the whole document to the sink, the end of the stream included, each value
\* after its key and each block's keys in order if they are sorted, unless the
\* emitter accepted an event that was never filled in.
THEOREM WritesYaml == Spec => []YamlWhole
<1>1. Spec => []YamlInv
  BY YamlInvStarts, YamlInvGoesOn, PTL DEF Spec
<1>2. YamlInv => YamlWhole
  BY YamlTellsWhole DEF YamlInv, YamlWhole
<1> QED BY <1>1, <1>2, PTL

-----------------------------------------------------------------------------
(* The verifier's UTF-8 check                                              *)

\* Where the loop stands when it is left.
CheckStopped ==
    /\ status = "ok" => index = Len(data)
    /\ status = "bad_utf8" => index < Len(data) /\ ~Accepts(data, index)

Utf8Inv == TypeOK /\ AcceptedTile /\ IndexOnEveryCut /\ CheckStopped

-----------------------------------------------------------------------------
(* The rows of the table, byte by byte                                     *)

\* A place of a text.
Place(d, i) == d \in Seq(Byte) /\ i \in Nat /\ i < Len(d)

\* A text's bytes are bytes, at every place a sequence may reach.
LEMMA ByteAt ==
    ASSUME NEW d \in Seq(Byte), NEW i \in Nat, NEW k \in Nat, k >= 1, i + k <= Len(d)
    PROVE  d[i + k] \in 0 .. 255
<1>1. i + k \in 1 .. Len(d)
      OBVIOUS
<1>2. d[i + k] \in Byte
      BY <1>1
<1> QED BY <1>2 DEF Byte

\* The lengths by the ranges of the first byte.
LEMMA LengthOf ==
    ASSUME NEW a \in 0 .. 255
    PROVE  /\ SequenceLength(a) \in 0 .. 4
           /\ SequenceLength(a) = 1 <=> a \in 0 .. 127
           /\ SequenceLength(a) = 2 <=> a \in 192 .. 223
           /\ SequenceLength(a) = 3 <=> a \in 224 .. 239
           /\ SequenceLength(a) = 4 <=> a \in 240 .. 247
BY DEF SequenceLength

\* The tests of one turn of the loop, for each length.
LEMMA AcceptsBy ==
    ASSUME NEW d, NEW i, NEW n, NEW p,
           n = SequenceLength(d[i + 1]), p = CodePoint(d, i)
    PROVE  Accepts(d, i) <=>
               /\ WholeSequence(d, i)
               /\ n = 2 => d[i + 1] - 192 >= 2
               /\ n = 3 => p >= 2048
               /\ n = 4 => p >= 65536 /\ p <= 1114111
               /\ ~(p >= 55296 /\ p <= 57343)
BY DEF Accepts

\* Sequences of one byte: a byte below 128 is accepted and no other row has it.
LEMMA OneByteRow ==
    ASSUME NEW d, NEW i, Place(d, i)
    PROVE  OneByte(d, i) <=> Accepts(d, i) /\ SequenceLength(d[i + 1]) = 1
<1>1. d[i + 1] \in 0 .. 255 /\ i + 1 <= Len(d) /\ Len(d) \in Nat /\ i \in Nat
      BY ByteAt DEF Place
<1>0. PICK a \in 0 .. 255 : a = d[i + 1]
      BY <1>1
<1>2. OneByte(d, i) <=> a \in 0 .. 127
      BY <1>1, <1>0 DEF OneByte, Row
<1>3. SequenceLength(a) = 1 <=> a \in 0 .. 127
      BY LengthOf
<1>4. ASSUME SequenceLength(a) = 1 PROVE Accepts(d, i)
  <2>1. CodePoint(d, i) = a
        BY <1>0, <1>4 DEF CodePoint
  <2>2. WholeSequence(d, i)
        BY <1>1, <1>0, <1>4 DEF WholeSequence
  <2>3. Accepts(d, i) <=> WholeSequence(d, i) /\ ~(a >= 55296 /\ a <= 57343)
        BY <1>0, <1>4, <2>1, AcceptsBy
  <2> QED BY <2>2, <2>3
<1> QED BY <1>0, <1>2, <1>3, <1>4

\* Two bytes: the test on the first byte's five bits excludes C0 and C1.
LEMMA TwoBytesRow ==
    ASSUME NEW d, NEW i, Place(d, i)
    PROVE  TwoBytes(d, i) <=> Accepts(d, i) /\ SequenceLength(d[i + 1]) = 2
<1>1. Len(d) \in Nat /\ i \in Nat
      BY DEF Place
<1>2. CASE i + 2 > Len(d)
  <2>1. ~TwoBytes(d, i)
        BY <1>1, <1>2 DEF TwoBytes, Row
  <2>2. SequenceLength(d[i + 1]) = 2 => ~WholeSequence(d, i)
        BY <1>1, <1>2 DEF WholeSequence
  <2> QED BY <2>1, <2>2, AcceptsBy
<1>3. CASE i + 2 <= Len(d)
  <2>0. /\ d[i + 1] \in 0 .. 255
        /\ d[i + 2] \in 0 .. 255
        BY <1>1, <1>3, ByteAt DEF Place
  <2>1. PICK a \in 0 .. 255, b \in 0 .. 255 :
             a = d[i + 1] /\ b = d[i + 2]
        BY <2>0
  <2>2. TwoBytes(d, i) <=> a \in 194 .. 223 /\ b \in 128 .. 191
    <3>1. \A k \in 3 .. 2 : d[i + k] \in 128 .. 191
          OBVIOUS
    <3> QED BY <1>1, <1>3, <2>1, <3>1 DEF TwoBytes, Row
  <2>3. SequenceLength(a) = 2 <=> a \in 192 .. 223
        BY LengthOf
  <2>4. ASSUME SequenceLength(a) = 2
        PROVE  Accepts(d, i) <=> b \in 128 .. 191 /\ a - 192 >= 2
    <3> DEFINE p == (a - 192) * 64 + (b - 128)
    <3>1. CodePoint(d, i) = p
          BY <2>1, <2>4 DEF CodePoint
    <3>2. WholeSequence(d, i) <=> b \in 128 .. 191
          BY <1>3, <2>1, <2>4 DEF WholeSequence, Continuation
    <3> HIDE DEF p
    <3>3. Accepts(d, i) <=> /\ WholeSequence(d, i)
                            /\ a - 192 >= 2
                            /\ ~(p >= 55296 /\ p <= 57343)
          BY <2>1, <2>4, <3>1, AcceptsBy
    <3>4. p \in Int /\ p < 55296
          BY <2>3, <2>4 DEF p
    <3> QED BY <3>2, <3>3, <3>4
  <2>5. a \in 194 .. 223 <=> a \in 192 .. 223 /\ a - 192 >= 2
        OBVIOUS
  <2> QED BY <2>1, <2>2, <2>3, <2>4, <2>5
<1> QED BY <1>1, <1>2, <1>3

\* Three bytes: the tests on the code point exclude E0 80..9F and ED A0..BF.
LEMMA ThreeBytesRow ==
    ASSUME NEW d, NEW i, Place(d, i)
    PROVE  ThreeBytes(d, i) <=> Accepts(d, i) /\ SequenceLength(d[i + 1]) = 3
<1>1. Len(d) \in Nat /\ i \in Nat
      BY DEF Place
<1>2. CASE i + 3 > Len(d)
  <2>1. ~ThreeBytes(d, i)
        BY <1>1, <1>2 DEF ThreeBytes, Row
  <2>2. SequenceLength(d[i + 1]) = 3 => ~WholeSequence(d, i)
        BY <1>1, <1>2 DEF WholeSequence
  <2> QED BY <2>1, <2>2, AcceptsBy
<1>3. CASE i + 3 <= Len(d)
  <2>0. /\ d[i + 1] \in 0 .. 255
        /\ d[i + 2] \in 0 .. 255
        /\ d[i + 3] \in 0 .. 255
        BY <1>1, <1>3, ByteAt DEF Place
  <2>1. PICK a \in 0 .. 255, b \in 0 .. 255, c \in 0 .. 255 :
             a = d[i + 1] /\ b = d[i + 2] /\ c = d[i + 3]
        BY <2>0
  <2>2. ASSUME NEW first, NEW second
        PROVE  Row(d, i, 3, first, second) <=> a \in first /\ b \in second /\ c \in 128 .. 191
    <3>1. (\A k \in 3 .. 3 : d[i + k] \in 128 .. 191) <=> c \in 128 .. 191
          BY <2>1, 3 .. 3 = {3}
    <3> QED BY <1>1, <1>3, <2>1, <3>1 DEF Row
  <2>3. ThreeBytes(d, i) <=>
            /\ c \in 128 .. 191
            /\ \/ a = 224 /\ b \in 160 .. 191
               \/ (a \in 225 .. 236 \/ a = 238 \/ a = 239) /\ b \in 128 .. 191
               \/ a = 237 /\ b \in 128 .. 159
        BY <2>2 DEF ThreeBytes
  <2>4. SequenceLength(a) = 3 <=> a \in 224 .. 239
        BY LengthOf
  <2> DEFINE p == (a - 224) * 4096 + (b - 128) * 64 + (c - 128)
  <2>5. ASSUME SequenceLength(a) = 3
        PROVE  Accepts(d, i) <=>
                   /\ b \in 128 .. 191 /\ c \in 128 .. 191
                   /\ p >= 2048 /\ ~(p >= 55296 /\ p <= 57343)
    <3>1. CodePoint(d, i) = p
          BY <2>1, <2>5 DEF CodePoint
    <3>2. WholeSequence(d, i) <=> b \in 128 .. 191 /\ c \in 128 .. 191
          BY <1>3, <2>1, <2>5 DEF WholeSequence, Continuation
    <3> HIDE DEF p
    <3>3. Accepts(d, i) <=> /\ WholeSequence(d, i)
                            /\ p >= 2048 /\ ~(p >= 55296 /\ p <= 57343)
          BY <2>1, <2>5, <3>1, AcceptsBy
    <3> QED BY <3>2, <3>3
  <2>6. ASSUME a \in 224 .. 239, b \in 128 .. 191, c \in 128 .. 191
        PROVE  (p >= 2048 /\ ~(p >= 55296 /\ p <= 57343)) <=>
                   /\ a = 224 => b >= 160
                   /\ a = 237 => b <= 159
        BY <2>6
  <2>7. ASSUME a \in 224 .. 239, b \in 128 .. 191
        PROVE  ((a = 224 => b >= 160) /\ (a = 237 => b <= 159)) <=>
               \/ a = 224 /\ b \in 160 .. 191
               \/ (a \in 225 .. 236 \/ a = 238 \/ a = 239) /\ b \in 128 .. 191
               \/ a = 237 /\ b \in 128 .. 159
        BY <2>7
  <2>8. ThreeBytes(d, i) => a \in 224 .. 239 /\ b \in 128 .. 191
        BY <2>3
  <2> HIDE DEF p
  <2> QED BY <2>1, <2>3, <2>4, <2>5, <2>6, <2>7, <2>8
<1> QED BY <1>1, <1>2, <1>3

\* Four bytes: the tests on the code point exclude F0 80..8F, F4 90..BF and F5..F7.
LEMMA FourBytesRow ==
    ASSUME NEW d, NEW i, Place(d, i)
    PROVE  FourBytes(d, i) <=> Accepts(d, i) /\ SequenceLength(d[i + 1]) = 4
<1>1. Len(d) \in Nat /\ i \in Nat
      BY DEF Place
<1>2. CASE i + 4 > Len(d)
  <2>1. ~FourBytes(d, i)
        BY <1>1, <1>2 DEF FourBytes, Row
  <2>2. SequenceLength(d[i + 1]) = 4 => ~WholeSequence(d, i)
        BY <1>1, <1>2 DEF WholeSequence
  <2> QED BY <2>1, <2>2, AcceptsBy
<1>3. CASE i + 4 <= Len(d)
  <2>0. /\ d[i + 1] \in 0 .. 255
        /\ d[i + 2] \in 0 .. 255
        /\ d[i + 3] \in 0 .. 255
        /\ d[i + 4] \in 0 .. 255
    <3>1. i + 1 <= Len(d) /\ i + 2 <= Len(d) /\ i + 3 <= Len(d)
          BY <1>1, <1>3
    <3> QED BY <1>3, <3>1, ByteAt DEF Place
  <2>1. PICK a \in 0 .. 255, b \in 0 .. 255, c \in 0 .. 255, e \in 0 .. 255 :
             a = d[i + 1] /\ b = d[i + 2] /\ c = d[i + 3] /\ e = d[i + 4]
        BY <2>0
  <2>2. ASSUME NEW first, NEW second
        PROVE  Row(d, i, 4, first, second) <=> a \in first /\ b \in second /\ c \in 128 .. 191 /\ e \in 128 .. 191
    <3>1. (\A k \in 3 .. 4 : d[i + k] \in 128 .. 191) <=> c \in 128 .. 191 /\ e \in 128 .. 191
          BY <2>1, 3 .. 4 = {3, 4}
    <3> QED BY <1>1, <1>3, <2>1, <3>1 DEF Row
  <2>3. FourBytes(d, i) <=>
            /\ c \in 128 .. 191 /\ e \in 128 .. 191
            /\ \/ a = 240 /\ b \in 144 .. 191
               \/ a \in 241 .. 243 /\ b \in 128 .. 191
               \/ a = 244 /\ b \in 128 .. 143
        BY <2>2 DEF FourBytes
  <2>4. SequenceLength(a) = 4 <=> a \in 240 .. 247
        BY LengthOf
  <2> DEFINE p == (a - 240) * 262144 + (b - 128) * 4096 + (c - 128) * 64 + (e - 128)
  <2>5. ASSUME SequenceLength(a) = 4
        PROVE  Accepts(d, i) <=>
                   /\ b \in 128 .. 191 /\ c \in 128 .. 191 /\ e \in 128 .. 191
                   /\ p >= 65536 /\ p <= 1114111 /\ ~(p >= 55296 /\ p <= 57343)
    <3>1. CodePoint(d, i) = p
          BY <2>1, <2>5 DEF CodePoint
    <3>2. WholeSequence(d, i) <=> b \in 128 .. 191 /\ c \in 128 .. 191 /\ e \in 128 .. 191
          BY <1>3, <2>1, <2>5 DEF WholeSequence, Continuation
    <3> HIDE DEF p
    <3>3. Accepts(d, i) <=> /\ WholeSequence(d, i)
                            /\ p >= 65536 /\ p <= 1114111 /\ ~(p >= 55296 /\ p <= 57343)
          BY <2>1, <2>5, <3>1, AcceptsBy
    <3> QED BY <3>2, <3>3
  <2>6. ASSUME a \in 240 .. 247, b \in 128 .. 191, c \in 128 .. 191, e \in 128 .. 191
        PROVE  (p >= 65536 /\ p <= 1114111 /\ ~(p >= 55296 /\ p <= 57343)) <=>
                   /\ a <= 244
                   /\ a = 240 => b >= 144
                   /\ a = 244 => b <= 143
        BY <2>6
  <2>7. ASSUME a \in 240 .. 247, b \in 128 .. 191
        PROVE  ((a <= 244) /\ (a = 240 => b >= 144) /\ (a = 244 => b <= 143)) <=>
               \/ a = 240 /\ b \in 144 .. 191
               \/ a \in 241 .. 243 /\ b \in 128 .. 191
               \/ a = 244 /\ b \in 128 .. 143
        BY <2>7
  <2>8. FourBytes(d, i) => a \in 240 .. 247 /\ b \in 128 .. 191
        BY <2>3
  <2> HIDE DEF p
  <2> QED BY SMTT(30), <2>1, <2>3, <2>4, <2>5, <2>6, <2>7, <2>8
<1> QED BY <1>1, <1>2, <1>3

\* The length is one of five, and what is accepted fits into the text.
LEMMA AcceptedLength ==
    ASSUME NEW d, NEW i, Place(d, i), Accepts(d, i)
    PROVE  /\ SequenceLength(d[i + 1]) \in 1 .. 4
           /\ i + SequenceLength(d[i + 1]) <= Len(d)
<1>1. WholeSequence(d, i)
      BY DEF Accepts
<1>2. d[i + 1] \in 0 .. 255
      BY ByteAt DEF Place
<1>3. SequenceLength(d[i + 1]) \in 0 .. 4
      BY <1>2, LengthOf
<1> QED BY <1>1, <1>3 DEF WholeSequence

-----------------------------------------------------------------------------
(* The induction                                                           *)

\* The scan starts at the first place, which is on every cut.
LEMMA InitUtf8Inv == CheckInit => Utf8Inv
<1> SUFFICES ASSUME CheckInit PROVE Utf8Inv
    OBVIOUS
<1>1. PICK n \in 0 .. MaxLength : data \in [1 .. n -> Bytes]
      BY DEF CheckInit
<1>2. n \in Nat
      BY LengthAssumption
<1>3. data \in Seq(Byte)
  <2>1. data \in [1 .. n -> Byte]
        BY <1>1, BytesAssumption
  <2> QED BY <1>2, <2>1
<1>4. TypeOK
      BY <1>3 DEF CheckInit, TypeOK
<1>5. AcceptedTile /\ CheckStopped
      BY DEF CheckInit, AcceptedTile, CheckStopped
<1>6. IndexOnEveryCut
      BY DEF CheckInit, IndexOnEveryCut, Segments
<1> QED BY <1>4, <1>5, <1>6 DEF Utf8Inv

\* Advance: the accepted sequence is a row of the table, hence the next tile,
\* and every cut of the text that has the index has the sequence's end.
LEMMA AdvanceUtf8Inv ==
    ASSUME Utf8Inv, Advance
    PROVE  Utf8Inv'
<1> DEFINE n == SequenceLength(data[index + 1])
<1>1. /\ data \in Seq(Byte) /\ index \in Nat /\ index < Len(data) /\ Len(data) \in Nat
      /\ Accepts(data, index) /\ data' = data /\ index' = index + n
      /\ starts' = starts \cup {index} /\ status' = status /\ status = "scan"
      BY DEF Utf8Inv, TypeOK, Advance
<1> HIDE DEF n
<1>2. n \in 1 .. 4 /\ index + n <= Len(data)
      BY <1>1, AcceptedLength DEF Place, n
<1>3. TypeOK'
      BY <1>1, <1>2 DEF Utf8Inv, TypeOK
<1>4. /\ n = 1 => OneByte(data, index)
      /\ n = 2 => TwoBytes(data, index)
      /\ n = 3 => ThreeBytes(data, index)
      /\ n = 4 => FourBytes(data, index)
      BY <1>1, OneByteRow, TwoBytesRow, ThreeBytesRow, FourBytesRow DEF Place, n
<1>5. starts \cup {index} \subseteq starts' \cup {index'}
      BY <1>1
<1>6. AcceptedTile'
  <2>1. 0 \in starts' \cup {index'}
        BY <1>5 DEF Utf8Inv, AcceptedTile
  <2>2. ASSUME NEW i \in starts'
        PROVE  \/ OneByte(data, i) /\ i + 1 \in starts' \cup {index'}
               \/ TwoBytes(data, i) /\ i + 2 \in starts' \cup {index'}
               \/ ThreeBytes(data, i) /\ i + 3 \in starts' \cup {index'}
               \/ FourBytes(data, i) /\ i + 4 \in starts' \cup {index'}
    <3>1. CASE i \in starts
          BY <1>5, <3>1 DEF Utf8Inv, AcceptedTile
    <3>2. CASE i = index
          BY <1>1, <1>2, <1>4, <3>2
    <3> QED BY <1>1, <3>1, <3>2
  <2> QED BY <1>1, <2>1, <2>2 DEF AcceptedTile
<1>7. IndexOnEveryCut'
  <2> SUFFICES ASSUME NEW S \in SUBSET (0 .. Len(data) - 1), Segments(data, S)
               PROVE  index + n \in S \cup {Len(data)}
      BY <1>1 DEF IndexOnEveryCut
  <2>1. index \in S
        BY <1>1 DEF Utf8Inv, IndexOnEveryCut
  <2>2. /\ OneByte(data, index) => n = 1
        /\ TwoBytes(data, index) => n = 2
        /\ ThreeBytes(data, index) => n = 3
        /\ FourBytes(data, index) => n = 4
        BY <1>1, OneByteRow, TwoBytesRow, ThreeBytesRow, FourBytesRow DEF Place, n
  <2> QED BY <2>1, <2>2 DEF Segments
<1>8. CheckStopped'
      BY <1>1 DEF CheckStopped
<1> QED BY <1>3, <1>6, <1>7, <1>8 DEF Utf8Inv

\* The inductive invariant holds in every state.
LEMMA Utf8Inductive == CheckSpec => []Utf8Inv
<1>1. ASSUME Utf8Inv, [CheckNext]_checkVars PROVE Utf8Inv'
  <2>1. CASE Advance
        BY <1>1, <2>1, AdvanceUtf8Inv
  <2>2. CASE Reject
        BY <1>1, <2>2 DEF Reject, Utf8Inv, TypeOK, AcceptedTile, IndexOnEveryCut, CheckStopped
  <2>3. CASE Finish
        BY <1>1, <2>3 DEF Finish, Utf8Inv, TypeOK, AcceptedTile, IndexOnEveryCut, CheckStopped
  <2>4. CASE UNCHANGED checkVars
        BY <1>1, <2>4 DEF checkVars, Utf8Inv, TypeOK, AcceptedTile, IndexOnEveryCut, CheckStopped
  <2> QED BY <1>1, <2>1, <2>2, <2>3, <2>4 DEF CheckNext
<1> QED BY <1>1, InitUtf8Inv, PTL DEF CheckSpec

\* A scan that ends with ok has cut the text into rows; one that ends with
\* bad_utf8 stands at a place every cut has, where no row fits.
LEMMA Utf8InvExact ==
    ASSUME Utf8Inv
    PROVE  Utf8Exact
<1>1. data \in Seq(Byte) /\ index \in Nat /\ Len(data) \in Nat
      BY DEF Utf8Inv, TypeOK
<1>2. ASSUME status = "ok" PROVE WellFormed(data)
  <2>1. Segments(data, starts)
        BY <1>2 DEF Utf8Inv, CheckStopped, AcceptedTile, Segments
  <2> QED BY <2>1 DEF Utf8Inv, TypeOK, WellFormed
<1>3. ASSUME status = "bad_utf8", WellFormed(data) PROVE FALSE
  <2>1. index < Len(data) /\ ~Accepts(data, index)
        BY <1>3 DEF Utf8Inv, CheckStopped
  <2>2. PICK S \in SUBSET (0 .. Len(data) - 1) : Segments(data, S)
        BY <1>3 DEF WellFormed
  <2>3. index \in S
        BY <1>1, <2>1, <2>2 DEF Utf8Inv, IndexOnEveryCut
  <2>4. OneByte(data, index) \/ TwoBytes(data, index)
            \/ ThreeBytes(data, index) \/ FourBytes(data, index)
        BY <2>2, <2>3 DEF Segments
  <2> QED BY <1>1, <2>1, <2>4, OneByteRow, TwoBytesRow, ThreeBytesRow, FourBytesRow DEF Place
<1> QED BY <1>2, <1>3 DEF Utf8Exact

\* The verifier's UTF-8 check (bc_hrbl_verify_utf8_length) accepts exactly the
\* well-formed strings, whatever their length.
THEOREM ChecksUtf8 == CheckSpec => []Utf8Exact
BY Utf8Inductive, Utf8InvExact, PTL
=============================================================================
