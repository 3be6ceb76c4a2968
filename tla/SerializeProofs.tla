-------------------------- MODULE SerializeProofs ---------------------------
(***************************************************************************)
(* The encoder, for every tree, every hash, every width of the references  *)
(* and every allocation that fails.                                        *)
(*                                                                         *)
(* NothingLeaks speaks of the end of the call.  LeakInv adds who owns each *)
(* block before: the serializer its three, each frame of the recursion the *)
(* pending entries of its node.  It rests on the shape of the recursion    *)
(* (Stacked): the lowest frame, and no other, is the root's.               *)
(*                                                                         *)
(* ItemsApart needs Layout: every open container has a room in the buffer  *)
(* that it alone fills (Rooms), so that what its children append behind it *)
(* and what it stores when it closes never meet.                           *)
(*                                                                         *)
(* EntriesSearchable needs Search: each frame is the next child of the one *)
(* below (Linked), its pending entries have a hash, and every block is     *)
(* either still open or complete with ascending entries (Blocks), which no *)
(* later step changes.                                                     *)
(***************************************************************************)
EXTENDS RoundTrip, TreesProofs, FiniteSetTheorems

\* The last two elements give way to one.
FoldsTop(s, t, e) == t = SubSeq(s, 1, Len(s) - 2) \o <<e>>

LEMMA SeqFoldTop ==
  ASSUME NEW s, IsSeq(s), NEW n \in Nat, n >= 1, Len(s) = n + 1, NEW e,
         NEW t, FoldsTop(s, t, e)
  PROVE  IsSeq(t) /\ Len(t) = n /\ t[n] = e /\ SameBelow(s, t, n)
<1>1. PICK m \in Nat : m = n - 1 /\ m = Len(s) - 2 /\ m <= Len(s)
  <2>1. n - 1 \in Nat /\ n - 1 = Len(s) - 2 /\ n - 1 <= Len(s)
    OBVIOUS
  <2> QED BY <2>1
<1>2. PICK p : p = SubSeq(s, 1, m)
  OBVIOUS
<1>3. IsSeq(p) /\ Len(p) = m /\ \A k \in 1 .. m : p[k] = s[k]
  BY <1>1, <1>2, SeqPrefix
<1>4. t = Append(p, e)
  BY <1>1, <1>2, <1>3, SeqSnoc DEF FoldsTop
<1>5. IsSeq(t) /\ Len(t) = m + 1 /\ t[m + 1] = e /\ \A k \in 1 .. m : t[k] = p[k]
  <2>1. /\ IsSeq(Append(p, e)) /\ Len(Append(p, e)) = Len(p) + 1
        /\ Append(p, e)[Len(p) + 1] = e
        /\ \A k \in 1 .. Len(p) : Append(p, e)[k] = p[k]
    BY <1>3, SeqAppend
  <2> QED BY <1>3, <1>4, <2>1, Zenon
<1>6. \A k \in 1 .. Len(s) : k < n => k \in 1 .. m
  BY <1>1
<1>7. SameBelow(s, t, n)
  BY <1>3, <1>5, <1>6 DEF SameBelow
<1> QED BY <1>1, <1>5, <1>7

-----------------------------------------------------------------------------
(* The tree *)

\* The fields of a tree.
SizeOf(t) == t.size
Kids(t, p) == t.children[p]

\* Every list holds nodes.
ClosedTree(t) ==
    /\ SizeOf(t) \in Nat
    /\ \A p \in 0 .. SizeOf(t) :
          /\ IsSeq(Kids(t, p))
          /\ \A k \in 1 .. Len(Kids(t, p)) : Kids(t, p)[k] \in 1 .. SizeOf(t)

LEMMA InitTree == Init => ClosedTree(tree)
<1> SUFFICES ASSUME Init PROVE ClosedTree(tree)
  OBVIOUS
<1>1. PICK n \in 0 .. MaxNodes : \E f \in Forests(n) :
         SizeOf(tree) = n /\ tree.children = ChildLists(f, n)
  <2>1. PICK n \in 0 .. MaxNodes : \E f \in Forests(n) : \E kind, key, text :
           tree = [size |-> n, kind |-> kind, key |-> key, text |-> text, children |-> ChildLists(f, n)]
    BY DEF Init
  <2>2. PICK f \in Forests(n) : \E kind, key, text :
           tree = [size |-> n, kind |-> kind, key |-> key, text |-> text, children |-> ChildLists(f, n)]
    BY <2>1
  <2>3. tree.size = n /\ tree.children = ChildLists(f, n)
    BY <2>2
  <2> QED BY <2>3 DEF SizeOf
<1>2. PICK f \in Forests(n) : tree.children = ChildLists(f, n)
  BY <1>1
<1>3. n \in Nat
  BY SerializeAssumption
<1>4. Parents(f, n)
  <2>1. f \in [1 .. n -> 0 .. n - 1]
    BY <1>2, Zenon DEF Forests
  <2>2. 0 .. n - 1 \subseteq 0 .. n
    BY <1>3
  <2> QED BY <2>1, <2>2 DEF Parents
<1>5. Listed(f, n, n, ChildLists(f, n))
  BY <1>3, <1>4, ChildrenListed
<1>6. ASSUME NEW p \in 0 .. n
      PROVE  /\ IsSeq(Kids(tree, p))
             /\ \A k \in 1 .. Len(Kids(tree, p)) : Kids(tree, p)[k] \in 1 .. n
  <2> DEFINE s == ChildLists(f, n)[p]
  <2>1. Kids(tree, p) = s
    BY <1>2 DEF Kids
  <2>2. s \in Seq(Int) /\ \A k \in 1 .. Len(s) : s[k] \in 1 .. n
    BY <1>5 DEF Listed, Ascends
  <2> HIDE DEF s
  <2> QED BY <2>1, <2>2 DEF IsSeq
<1> QED BY <1>1, <1>3, <1>6 DEF ClosedTree

-----------------------------------------------------------------------------
(* The recursion *)

IsFrame(f) ==
    f = [node |-> f.node, kind_offset |-> f.kind_offset, body |-> f.body, done |-> f.done,
         pending |-> f.pending]

\* A frame has gone through some of its node's children; in a block, and in
\* the root, each has left an entry.
FrameOK(f) ==
    /\ IsFrame(f)
    /\ f.node \in 0 .. SizeOf(tree)
    /\ f.done \in Nat
    /\ f.done <= Len(Kids(tree, f.node))
    /\ IsSeq(f.pending)
    /\ Len(f.pending) = IF Keyed(f) THEN f.done ELSE 0

\* The frames of s; a frame that waits for a call it made has a child to go.
Frames(s) ==
    /\ IsSeq(s)
    /\ Len(s) >= 1
    /\ \A k \in 1 .. Len(s) :
          /\ FrameOK(s[k])
          /\ s[k].node = 0 <=> k = 1
          /\ k < Len(s) => s[k].done < Len(Kids(tree, s[k].node))

Stacked ==
    /\ ClosedTree(tree)
    /\ pc \in {"emit", "unwind"} => Frames(stack)

LEMMA FramesPrimed == ASSUME UNCHANGED tree, Frames(stack') PROVE Frames(stack)'
  BY DEF Frames, FrameOK, Keyed, Nodes

LEMMA TopFrame ==
  ASSUME NEW s, Frames(s)
  PROVE  Len(s) \in Nat /\ Len(s) \in 1 .. Len(s) /\ IsSeq(s) /\ FrameOK(s[Len(s)])
<1>1. Len(s) \in Nat /\ Len(s) >= 1 /\ IsSeq(s)
  BY SeqFacts DEF Frames
<1>2. Len(s) \in 1 .. Len(s)
  BY <1>1
<1> QED BY <1>1, <1>2 DEF Frames

(* A stack as high as another or lower, with the same nodes. *)
LEMMA FramesLower ==
  ASSUME NEW s, Frames(s), NEW n \in 1 .. Len(s),
         NEW t, IsSeq(t), Len(t) = n, SameBelow(s, t, n),
         FrameOK(t[n]), t[n].node = s[n].node
  PROVE  Frames(t)
<1>1. Len(s) \in Nat
  BY TopFrame
<1>2. ASSUME NEW k \in 1 .. Len(t)
      PROVE  /\ FrameOK(t[k])
             /\ t[k].node = 0 <=> k = 1
             /\ k < Len(t) => t[k].done < Len(Kids(tree, t[k].node))
  <2>1. k \in 1 .. Len(s) /\ (k = n \/ (k < n /\ k < Len(s)))
    BY <1>1
  <2>2. /\ FrameOK(s[k])
        /\ s[k].node = 0 <=> k = 1
        /\ k < Len(s) => s[k].done < Len(Kids(tree, s[k].node))
    BY <2>1 DEF Frames
  <2> QED BY <2>1, <2>2 DEF SameBelow
<1>3. Len(t) >= 1
  OBVIOUS
<1> QED BY <1>2, <1>3 DEF Frames

(* A child's value is delivered. *)
LEMMA DeliveredFrame ==
  ASSUME NEW f, FrameOK(f), f.done < Len(Kids(tree, f.node)), NEW i, NEW v, NEW p,
         NEW d, d = Delivered(f, i, v, p)
  PROVE  /\ FrameOK(d)
         /\ d.node = f.node /\ d.kind_offset = f.kind_offset /\ d.body = f.body
         /\ d.done = f.done + 1
<1> DEFINE e == [hash |-> hash_of[tree.key[i]],
                 ref |-> IF key_ref[i] = NoOffset THEN p.at[EmptyKey] ELSE key_ref[i],
                 length |-> Length[tree.key[i]],
                 value |-> v]
           more == IF Keyed(f) THEN Append(f.pending, e) ELSE f.pending
<1>1. d = [f EXCEPT !.done = @ + 1, !.pending = IF Keyed(f) THEN Append(@, e) ELSE @]
  BY Zenon DEF Delivered
<1> HIDE DEF e
<1>2. /\ d = [node |-> f.node, kind_offset |-> f.kind_offset, body |-> f.body, done |-> f.done + 1,
              pending |-> more]
  BY <1>1 DEF FrameOK, IsFrame
<1> HIDE DEF more
<1>3. /\ d.node = f.node /\ d.kind_offset = f.kind_offset /\ d.body = f.body
      /\ d.done = f.done + 1 /\ d.pending = more /\ IsFrame(d)
  BY <1>2 DEF IsFrame
<1>4. Keyed(d) <=> Keyed(f)
  BY <1>3 DEF Keyed
<1>5. IsSeq(more) /\ Len(more) = IF Keyed(f) THEN f.done + 1 ELSE 0
  BY SeqAppend DEF more, FrameOK
<1>6. /\ f.node \in 0 .. SizeOf(tree) /\ f.done \in Nat /\ f.done <= Len(Kids(tree, f.node))
  BY DEF FrameOK
<1>7. f.done + 1 \in Nat
  BY <1>6
<1> QED BY <1>3, <1>4, <1>5, <1>6, <1>7 DEF FrameOK

\* The frame with one more child's value.
After(f, d) == \E i, v, p : d = Delivered(f, i, v, p)
ReplacesTop(s, t, d) == t = [s EXCEPT ![Len(s)] = d]

LEMMA DeliverFrames ==
  ASSUME NEW s, Frames(s), s[Len(s)].done < Len(Kids(tree, s[Len(s)].node)),
         NEW d, After(s[Len(s)], d), NEW t, ReplacesTop(s, t, d)
  PROVE  /\ Frames(t) /\ Len(t) = Len(s) /\ SameBelow(s, t, Len(s)) /\ t[Len(s)] = d
         /\ d.node = s[Len(s)].node
<1>1. Len(s) \in Nat /\ Len(s) \in 1 .. Len(s) /\ IsSeq(s) /\ FrameOK(s[Len(s)]) /\ Len(s) >= 1
  BY TopFrame
<1>2. IsSeq(t) /\ Len(t) = Len(s) /\ t[Len(s)] = d /\ SameBelow(s, t, Len(s))
  BY <1>1, SeqReplace DEF ReplacesTop
<1>3. FrameOK(d) /\ d.node = s[Len(s)].node
  BY <1>1, DeliveredFrame DEF After
<1>4. Frames(t)
  BY <1>1, <1>2, <1>3, FramesLower
<1> QED BY <1>2, <1>3, <1>4

LEMMA FoldFrames ==
  ASSUME NEW s, Frames(s), NEW n \in Nat, n >= 1, Len(s) = n + 1,
         NEW d, After(s[n], d), NEW t, FoldsTop(s, t, d)
  PROVE  /\ Frames(t) /\ Len(t) = n /\ SameBelow(s, t, n) /\ t[n] = d
         /\ d.node = s[n].node
<1>1. IsSeq(s)
  BY TopFrame
<1>2. n \in 1 .. Len(s) /\ n < Len(s)
  OBVIOUS
<1>3. FrameOK(s[n]) /\ s[n].done < Len(Kids(tree, s[n].node))
  BY <1>2 DEF Frames
<1>4. IsSeq(t) /\ Len(t) = n /\ t[n] = d /\ SameBelow(s, t, n)
  BY <1>1, SeqFoldTop
<1>5. FrameOK(d) /\ d.node = s[n].node
  BY <1>3, DeliveredFrame DEF After
<1>6. Frames(t)
  BY <1>2, <1>4, <1>5, FramesLower
<1> QED BY <1>4, <1>5, <1>6

LEMMA PopFrames ==
  ASSUME NEW s, Frames(s), NEW n \in Nat, n >= 1, Len(s) = n + 1,
         NEW t, t = SubSeq(s, 1, Len(s) - 1)
  PROVE  Frames(t) /\ Len(t) = n /\ \A k \in 1 .. n : t[k] = s[k]
<1>1. IsSeq(s) /\ n <= Len(s) /\ t = SubSeq(s, 1, n)
  BY TopFrame
<1>2. IsSeq(t) /\ Len(t) = n /\ \A k \in 1 .. n : t[k] = s[k]
  BY <1>1, SeqPrefix
<1>3. n \in 1 .. Len(s) /\ n \in 1 .. n /\ SameBelow(s, t, n)
  <2>1. \A k \in 1 .. Len(s) : k < n => k \in 1 .. n
    OBVIOUS
  <2> QED BY <1>2, <2>1 DEF SameBelow
<1>4. FrameOK(t[n]) /\ t[n].node = s[n].node
  BY <1>2, <1>3 DEF Frames
<1>5. Frames(t)
  BY <1>2, <1>3, <1>4, FramesLower
<1> QED BY <1>2, <1>5

(* The next child of a frame that is not complete is a node. *)
LEMMA NextIsNode ==
  ASSUME ClosedTree(tree), NEW f, FrameOK(f), ~Complete(f)
  PROVE  Children(f.node)[f.done + 1] \in 1 .. SizeOf(tree) /\ f.done < Len(Kids(tree, f.node))
<1>1. f.node \in 0 .. SizeOf(tree) /\ f.done \in Nat /\ f.done <= Len(Kids(tree, f.node))
  BY DEF FrameOK
<1>2. Len(Kids(tree, f.node)) \in Nat
  BY <1>1, SeqFacts DEF ClosedTree
<1>3. f.done # Len(Kids(tree, f.node))
  BY DEF Complete, Children, Kids
<1>4. f.done < Len(Kids(tree, f.node)) /\ f.done + 1 \in 1 .. Len(Kids(tree, f.node))
  BY <1>1, <1>2, <1>3
<1>5. Kids(tree, f.node)[f.done + 1] \in 1 .. SizeOf(tree)
  BY <1>1, <1>4 DEF ClosedTree
<1> QED BY <1>4, <1>5 DEF Children, Kids

\* The next child of the top frame is opened.
PushesNext(s, t, g) ==
    /\ t = Append(s, g)
    /\ \E i, o, b :
          /\ i = Children(s[Len(s)].node)[s[Len(s)].done + 1]
          /\ g = [node |-> i, kind_offset |-> o, body |-> b, done |-> 0, pending |-> <<>>]

LEMMA PushFrames ==
  ASSUME ClosedTree(tree), NEW s, Frames(s), ~Complete(s[Len(s)]),
         NEW g, NEW t, PushesNext(s, t, g)
  PROVE  /\ g.node \in 1 .. SizeOf(tree) /\ Frames(t) /\ Len(t) = Len(s) + 1
         /\ t[Len(s) + 1] = g /\ \A k \in 1 .. Len(s) : t[k] = s[k]
<1>0. PICK i, o, b :
          /\ i = Children(s[Len(s)].node)[s[Len(s)].done + 1]
          /\ g = [node |-> i, kind_offset |-> o, body |-> b, done |-> 0, pending |-> <<>>]
  BY DEF PushesNext
<1>1. Len(s) \in Nat /\ Len(s) \in 1 .. Len(s) /\ IsSeq(s) /\ FrameOK(s[Len(s)])
  BY TopFrame
<1>2. i \in 1 .. SizeOf(tree) /\ s[Len(s)].done < Len(Kids(tree, s[Len(s)].node))
  BY <1>0, <1>1, NextIsNode
<1>3. /\ IsSeq(t) /\ Len(t) = Len(s) + 1 /\ t[Len(s) + 1] = g
      /\ \A k \in 1 .. Len(s) : t[k] = s[k]
  BY <1>1, SeqAppend DEF PushesNext
<1>4. IsFrame(g) /\ g.node = i /\ g.done = 0 /\ g.pending = <<>>
  BY <1>0 DEF IsFrame
<1>5. i \in 0 .. SizeOf(tree) /\ i # 0 /\ Len(Kids(tree, i)) \in Nat
  <2>1. SizeOf(tree) \in Nat
    BY DEF ClosedTree
  <2>2. i \in 0 .. SizeOf(tree) /\ i # 0
    BY <1>2, <2>1
  <2> QED BY <2>2, SeqFacts DEF ClosedTree
<1>6. FrameOK(g)
  BY <1>4, <1>5, SeqEmpty DEF FrameOK
<1>7. ASSUME NEW k \in 1 .. Len(t)
      PROVE  /\ FrameOK(t[k])
             /\ t[k].node = 0 <=> k = 1
             /\ k < Len(t) => t[k].done < Len(Kids(tree, t[k].node))
  <2>1. CASE k = Len(s) + 1
    BY <1>1, <1>3, <1>4, <1>5, <1>6, <2>1
  <2>2. CASE k # Len(s) + 1
    <3>1. k \in 1 .. Len(s) /\ t[k] = s[k]
      BY <1>1, <1>3, <2>2
    <3>2. FrameOK(s[k]) /\ (s[k].node = 0 <=> k = 1)
      BY <3>1 DEF Frames
    <3>3. s[k].done < Len(Kids(tree, s[k].node))
      <4>1. k = Len(s) \/ k < Len(s)
        BY <1>1, <3>1
      <4> QED BY <1>2, <3>1, <4>1 DEF Frames
    <3> QED BY <3>1, <3>2, <3>3
  <2> QED BY <2>1, <2>2
<1>8. Len(t) >= 1
  BY <1>1, <1>3
<1> QED BY <1>2, <1>3, <1>4, <1>7, <1>8 DEF Frames

-----------------------------------------------------------------------------
(* Memory *)

\* The pending entries of the frames above the root's.
Owned(s) == {Pending(s[k].node) : k \in 2 .. Len(s)}

Memory ==
    /\ pc = "start" => allocated = {}
    /\ pc = "collect" => allocated \subseteq {PoolMemory}
    /\ pc = "roots" => allocated \subseteq {PoolMemory, NodesMemory}
    /\ pc \in {"emit", "unwind"} =>
          allocated \subseteq {PoolMemory, NodesMemory, RootMemory} \cup Owned(stack)
    /\ pc = "unwind" => error # "ok"
    /\ NothingLeaks

LeakInv == Stacked /\ Memory

LEMMA LeakInit == Init => LeakInv
  BY InitTree DEF Init, LeakInv, Stacked, Memory, NothingLeaks

(* The calls before the recursion. *)
LEMMA EarlySteps ==
  ASSUME LeakInv, Start \/ Collect \/ AllocateNodes
  PROVE  LeakInv'
<1>1. tree' = tree /\ stack' = stack
  BY DEF Start, Collect, AllocateNodes, input
<1>2. Stacked'
  <2>1. pc' \notin {"emit", "unwind"}
    BY DEF Start, Collect, AllocateNodes, Exit
  <2>2. ClosedTree(tree)'
    BY <1>1 DEF LeakInv, Stacked, ClosedTree
  <2> QED BY <2>1, <2>2 DEF Stacked
<1>3. Start => Memory'
  BY DEF LeakInv, Memory, NothingLeaks, Start, Exit
<1>4. Collect => Memory'
  BY DEF LeakInv, Memory, NothingLeaks, Collect, Exit
<1>5. AllocateNodes => Memory'
  BY DEF LeakInv, Memory, NothingLeaks, AllocateNodes, Exit
<1>6. Memory'
  BY <1>2, <1>3, <1>4, <1>5 DEF LeakInv
<1> QED BY <1>2, <1>6 DEF LeakInv

LEMMA RootsStep == LeakInv /\ AllocateRoots => LeakInv'
<1> SUFFICES ASSUME LeakInv, AllocateRoots PROVE LeakInv'
  OBVIOUS
<1>1. tree' = tree /\ ClosedTree(tree) /\ ClosedTree(tree)'
  BY DEF AllocateRoots, input, LeakInv, Stacked, ClosedTree
<1>2. CASE pc' = "emit"
  <2>1. stack' = <<RootFrame>>
    BY <1>2 DEF AllocateRoots, Exit
  <2>2. PICK s : s = stack' /\ s = <<RootFrame>>
    BY <2>1
  <2>3. IsSeq(s) /\ Len(s) = 1 /\ s[1] = RootFrame
    BY <2>2, SeqOne
  <2>4. FrameOK(RootFrame) /\ RootFrame.node = 0
    <3>1. SizeOf(tree) \in Nat /\ 0 \in 0 .. SizeOf(tree) /\ IsSeq(Kids(tree, 0))
      BY <1>1 DEF ClosedTree
    <3>2. Len(Kids(tree, 0)) \in Nat
      BY <3>1, SeqFacts
    <3> QED BY <3>1, <3>2, SeqEmpty DEF FrameOK, RootFrame, IsFrame
  <2>5. Frames(s)
    BY <2>3, <2>4 DEF Frames
  <2>6. Frames(stack)'
    BY <1>1, <2>2, <2>5, FramesPrimed
  <2>7. Memory'
    BY <1>2 DEF LeakInv, Memory, NothingLeaks, AllocateRoots, Exit
  <2> QED BY <1>1, <2>6, <2>7 DEF LeakInv, Stacked
<1>3. CASE pc' # "emit"
  <2>1. pc' = "returned" /\ Memory'
    BY <1>3 DEF LeakInv, Memory, NothingLeaks, AllocateRoots, Exit
  <2> QED BY <1>1, <2>1 DEF LeakInv, Stacked
<1> QED BY <1>2, <1>3

(* The recursion fails, at a leaf, in the sort or at the end. *)
LEMMA FailStep ==
  ASSUME LeakInv, pc = "emit", NEW e \in {"oom", "pool_overflow", "internal"}, Fail(e), UNCHANGED input
  PROVE  LeakInv'
<1>1. tree' = tree /\ stack' = stack /\ allocated' = allocated /\ pc' = "unwind" /\ error' # "ok"
  BY DEF Fail, input
<1>2. Stacked'
  BY <1>1, FramesPrimed DEF LeakInv, Stacked, ClosedTree
<1>3. Memory'
  BY <1>1 DEF LeakInv, Memory, NothingLeaks, Owned, Pending, PoolMemory, NodesMemory, RootMemory
<1> QED BY <1>2, <1>3 DEF LeakInv

LEMMA EmitFailsStep == LeakInv /\ EmitFails => LeakInv'
<1> SUFFICES ASSUME LeakInv, EmitFails PROVE LeakInv'
  OBVIOUS
<1>1. pc = "emit" /\ UNCHANGED input
  BY DEF EmitFails
<1>2. \E e \in {"oom", "pool_overflow", "internal"} : Fail(e)
  BY DEF EmitFails
<1> QED BY <1>1, <1>2, FailStep

(* A frame is replaced by one of the same node. *)
LEMMA SameOwners ==
  ASSUME NEW s, NEW t, NEW n \in Nat, Len(t) = n, n <= Len(s), Len(s) \in Nat,
         SameBelow(s, t, n), n >= 1 => t[n].node = s[n].node
  PROVE  Owned(t) = {Pending(s[k].node) : k \in 2 .. n}
<1>1. ASSUME NEW k \in 2 .. n PROVE t[k].node = s[k].node
  <2>1. k \in 1 .. Len(s) /\ (k = n \/ k < n)
    OBVIOUS
  <2> QED BY <2>1 DEF SameBelow
<1> QED BY <1>1 DEF Owned

LEMMA EmitScalarStep == LeakInv /\ EmitScalar => LeakInv'
<1> SUFFICES ASSUME LeakInv, EmitScalar PROVE LeakInv'
  OBVIOUS
<1>1. /\ tree' = tree /\ pc = "emit" /\ pc' = pc /\ allocated' = allocated /\ error' = error
      /\ ~Complete(Top) /\ ClosedTree(tree) /\ Frames(stack)
  BY DEF EmitScalar, input, LeakInv, Stacked
<1>2. PICK s : s = stack
  OBVIOUS
<1>3. PICK t : t = stack'
  OBVIOUS
<1>4. \E i, v, p : stack' = [stack EXCEPT ![Len(stack)] = Delivered(@, i, v, p)]
  BY Zenon DEF EmitScalar
<1>5. PICK i, v, p : stack' = [stack EXCEPT ![Len(stack)] = Delivered(@, i, v, p)]
  BY <1>4
<1>d. PICK d : d = Delivered(s[Len(s)], i, v, p)
  OBVIOUS
<1>t. ReplacesTop(s, t, d) /\ After(s[Len(s)], d)
  BY <1>2, <1>3, <1>5, <1>d DEF ReplacesTop, After
<1>6. Len(s) \in Nat /\ Len(s) \in 1 .. Len(s) /\ FrameOK(s[Len(s)]) /\ Frames(s)
  BY <1>1, <1>2, TopFrame
<1>7. s[Len(s)].done < Len(Kids(tree, s[Len(s)].node))
  BY <1>1, <1>2, <1>6, NextIsNode DEF Top
<1>8. /\ Frames(t) /\ Len(t) = Len(s) /\ SameBelow(s, t, Len(s)) /\ t[Len(s)] = d
      /\ d.node = s[Len(s)].node
  BY <1>t, <1>6, <1>7, DeliverFrames
<1>10. Owned(t) = Owned(s)
  <2>1. Owned(t) = {Pending(s[k].node) : k \in 2 .. Len(s)}
    BY <1>6, <1>8, SameOwners
  <2> QED BY <2>1 DEF Owned
<1>11. Stacked'
  BY <1>1, <1>3, <1>8, FramesPrimed DEF Stacked, ClosedTree
<1>12. Memory'
  <2>1. Owned(stack)' = Owned(stack)
    BY <1>2, <1>3, <1>10 DEF Owned, Pending
  <2> QED BY <1>1, <2>1 DEF LeakInv, Memory, NothingLeaks, PoolMemory, NodesMemory, RootMemory
<1> QED BY <1>11, <1>12 DEF LeakInv

LEMMA OpenContainerStep == LeakInv /\ OpenContainer => LeakInv'
<1> SUFFICES ASSUME LeakInv, OpenContainer PROVE LeakInv'
  OBVIOUS
<1>1. /\ tree' = tree /\ pc = "emit" /\ pc' = pc /\ error' = error
      /\ ~Complete(Top) /\ ClosedTree(tree) /\ Frames(stack)
  BY DEF OpenContainer, input, LeakInv, Stacked
<1>2. PICK s : s = stack
  OBVIOUS
<1>3. PICK t : t = stack'
  OBVIOUS
<1>4. PICK i : i = NextChild
  OBVIOUS
<1>5. \E o, b : stack' = Append(stack, [node |-> i, kind_offset |-> o, body |-> b, done |-> 0, pending |-> <<>>])
  BY <1>4, Zenon DEF OpenContainer
<1>6. PICK o, b : stack' = Append(stack, [node |-> i, kind_offset |-> o, body |-> b, done |-> 0, pending |-> <<>>])
  BY <1>5
<1>7. PICK g : g = [node |-> i, kind_offset |-> o, body |-> b, done |-> 0, pending |-> <<>>]
  OBVIOUS
<1>8. /\ Frames(t) /\ Len(t) = Len(s) + 1
      /\ t[Len(s) + 1] = g /\ \A k \in 1 .. Len(s) : t[k] = s[k]
  <2>1. PushesNext(s, t, g)
    BY <1>1, <1>2, <1>3, <1>4, <1>6, <1>7 DEF Top, NextChild, PushesNext
  <2>2. Frames(s) /\ ~Complete(s[Len(s)])
    BY <1>1, <1>2 DEF Top
  <2> QED BY <1>1, <2>1, <2>2, PushFrames
<1>9. Len(s) \in Nat /\ Len(s) >= 1
  BY <1>1, <1>2, TopFrame
<1>10. Owned(t) = Owned(s) \cup {Pending(i)}
  <2>1. g.node = i
    BY <1>7
  <2>2. \A k \in 2 .. Len(s) : k \in 2 .. Len(t) /\ t[k].node = s[k].node
    BY <1>8, <1>9
  <2>3. Len(s) + 1 \in 2 .. Len(t) /\ t[Len(s) + 1].node = i
    BY <1>8, <1>9, <2>1
  <2>4. \A k \in 2 .. Len(t) : k \in 2 .. Len(s) \/ k = Len(s) + 1
    BY <1>8, <1>9
  <2> QED BY <2>2, <2>3, <2>4 DEF Owned
<1>11. allocated' \subseteq allocated \cup {Pending(i)}
  BY <1>4 DEF OpenContainer
<1>12. Stacked'
  BY <1>1, <1>3, <1>8, FramesPrimed DEF Stacked, ClosedTree
<1>13. Memory'
  <2>1. Owned(stack)' = Owned(stack) \cup {Pending(i)}
    BY <1>2, <1>3, <1>10 DEF Owned, Pending
  <2> QED BY <1>1, <1>11, <2>1 DEF LeakInv, Memory, NothingLeaks, PoolMemory, NodesMemory, RootMemory
<1> QED BY <1>12, <1>13 DEF LeakInv

(* A frame above the root's, and what it owns, is gone. *)
LEMMA OwnedBelow ==
  ASSUME NEW s, Frames(s), NEW n \in Nat, n >= 1, Len(s) = n + 1,
         NEW B, NEW A, A \subseteq B \cup Owned(s)
  PROVE  A \ {Pending(s[n + 1].node)} \subseteq B \cup {Pending(s[k].node) : k \in 2 .. n}
<1>1. \A k \in 2 .. Len(s) : k = n + 1 \/ k \in 2 .. n
  OBVIOUS
<1> QED BY <1>1 DEF Owned

LEMMA CloseContainerStep == LeakInv /\ CloseContainer => LeakInv'
<1> SUFFICES ASSUME LeakInv, CloseContainer PROVE LeakInv'
  OBVIOUS
<1>1. /\ tree' = tree /\ UNCHANGED input /\ pc = "emit" /\ ClosedTree(tree) /\ Frames(stack) /\ Top.node # 0
  BY DEF CloseContainer, input, LeakInv, Stacked
<1>2. CASE \E e \in {"oom", "internal"} : Fail(e)
  <2>1. \E e \in {"oom", "pool_overflow", "internal"} : Fail(e)
    BY <1>2
  <2> QED BY <1>1, <2>1, FailStep
<1>3. CASE ~\E e \in {"oom", "internal"} : Fail(e)
  <2>1. /\ pc' = pc /\ error' = error /\ allocated' = allocated \ {Pending(Top.node)}
        /\ stack' = SubSeq(stack, 1, Len(stack) - 2)
                    \o <<Delivered(stack[Len(stack) - 1], Top.node, nodes_offset + Top.kind_offset, pool)>>
    BY <1>3, Zenon DEF CloseContainer
  <2>2. PICK s : s = stack
    OBVIOUS
  <2>3. PICK t : t = stack'
    OBVIOUS
  <2>4. Len(s) \in Nat /\ Len(s) \in 1 .. Len(s) /\ Len(s) # 1
    <3>1. Len(s) \in Nat /\ Len(s) \in 1 .. Len(s)
      BY <1>1, <2>2, TopFrame
    <3>2. s[Len(s)].node # 0
      BY <1>1, <2>2 DEF Top
    <3> QED BY <1>1, <2>2, <3>1, <3>2 DEF Frames
  <2>5. PICK n \in Nat : n = Len(s) - 1 /\ n >= 1 /\ Len(s) = n + 1
    <3>1. Len(s) - 1 \in Nat /\ Len(s) - 1 >= 1 /\ Len(s) = (Len(s) - 1) + 1
      BY <2>4
    <3> QED BY <3>1
  <2>6. PICK d : d = Delivered(s[n], Top.node, nodes_offset + Top.kind_offset, pool)
    OBVIOUS
  <2>7. After(s[n], d) /\ FoldsTop(s, t, d)
    BY <2>1, <2>2, <2>3, <2>5, <2>6 DEF After, FoldsTop
  <2>8. Frames(t) /\ Len(t) = n /\ SameBelow(s, t, n) /\ t[n] = d /\ d.node = s[n].node
    <3>1. Frames(s)
      BY <1>1, <2>2, Zenon
    <3>2. n >= 1 /\ Len(s) = n + 1
      BY <2>5, Zenon
    <3> QED BY <2>7, <3>1, <3>2, FoldFrames, ZenonT(30)
  <2>9. Owned(t) = {Pending(s[k].node) : k \in 2 .. n}
    BY <2>5, <2>8, SameOwners
  <2>10. Stacked'
    BY <1>1, <2>3, <2>8, FramesPrimed DEF Stacked, ClosedTree
  <2>11. Memory'
    <3> DEFINE B == {PoolMemory, NodesMemory, RootMemory}
    <3>1. allocated \subseteq B \cup Owned(s)
      BY <1>1, <2>2 DEF LeakInv, Memory
    <3>2. allocated' = allocated \ {Pending(s[n + 1].node)}
      BY <2>1, <2>2, <2>5 DEF Top
    <3>3. allocated' \subseteq B \cup Owned(t)
      <4> HIDE DEF B
      <4>1. allocated \ {Pending(s[n + 1].node)} \subseteq B \cup {Pending(s[k].node) : k \in 2 .. n}
        <5>1. Frames(s) /\ n \in Nat /\ n >= 1 /\ Len(s) = n + 1
          BY <1>1, <2>2, <2>5
        <5> QED BY <3>1, <5>1, OwnedBelow, Zenon
      <4> QED BY <2>9, <3>2, <4>1
    <3>4. Owned(stack)' = Owned(t)
      BY <2>3 DEF Owned, Pending
    <3> QED BY <1>1, <2>1, <3>3, <3>4 DEF LeakInv, Memory, NothingLeaks, PoolMemory, NodesMemory, RootMemory
  <2> QED BY <2>10, <2>11 DEF LeakInv
<1> QED BY <1>2, <1>3

(* The root's frame is alone on the stack: nothing pending is owned. *)
LEMMA RootAlone ==
  ASSUME Frames(stack), Top.node = 0
  PROVE  Owned(stack) = {}
<1>1. Len(stack) \in Nat /\ Len(stack) \in 1 .. Len(stack)
  BY TopFrame
<1>2. Len(stack) = 1
  BY <1>1 DEF Frames, Top
<1> QED BY <1>2 DEF Owned

LEMMA UnwindStep == LeakInv /\ Unwind => LeakInv'
<1> SUFFICES ASSUME LeakInv, Unwind PROVE LeakInv'
  OBVIOUS
<1>1. tree' = tree /\ pc = "unwind" /\ ClosedTree(tree) /\ Frames(stack) /\ error # "ok"
  BY DEF Unwind, input, LeakInv, Stacked, Memory
<1>2. CASE Top.node = 0
  <2>1. pc' = "returned" /\ error' = error /\ allocated' = allocated \ {RootMemory, NodesMemory, PoolMemory}
    BY <1>2 DEF Unwind, Exit
  <2>2. allocated' = {}
    BY <1>1, <1>2, <2>1, RootAlone DEF LeakInv, Memory
  <2> QED BY <1>1, <2>1, <2>2 DEF LeakInv, Stacked, Memory, NothingLeaks, ClosedTree
<1>3. CASE Top.node # 0
  <2>1. /\ pc' = pc /\ error' = error /\ allocated' = allocated \ {Pending(Top.node)}
        /\ stack' = SubSeq(stack, 1, Len(stack) - 1)
    BY <1>3, Zenon DEF Unwind
  <2>2. PICK s : s = stack
    OBVIOUS
  <2>3. PICK t : t = stack'
    OBVIOUS
  <2>4. Len(s) \in Nat /\ Len(s) \in 1 .. Len(s) /\ Len(s) # 1
    <3>1. Len(s) \in Nat /\ Len(s) \in 1 .. Len(s)
      BY <1>1, <2>2, TopFrame
    <3>2. s[Len(s)].node # 0
      BY <1>3, <2>2 DEF Top
    <3> QED BY <1>1, <2>2, <3>1, <3>2 DEF Frames
  <2>5. PICK n \in Nat : n = Len(s) - 1 /\ n >= 1 /\ Len(s) = n + 1
    <3>1. Len(s) - 1 \in Nat /\ Len(s) - 1 >= 1 /\ Len(s) = (Len(s) - 1) + 1
      BY <2>4
    <3> QED BY <3>1
  <2>6. Frames(t) /\ Len(t) = n /\ \A k \in 1 .. n : t[k] = s[k]
    <3>1. Frames(s) /\ t = SubSeq(s, 1, Len(s) - 1)
      BY <1>1, <2>1, <2>2, <2>3
    <3>2. n >= 1 /\ Len(s) = n + 1
      BY <2>5, Zenon
    <3> QED BY <3>1, <3>2, PopFrames, ZenonT(30)
  <2>7. Owned(t) = {Pending(s[k].node) : k \in 2 .. n}
    <3>1. \A k \in 2 .. n : t[k] = s[k]
      BY <2>6
    <3> QED BY <2>6, <3>1 DEF Owned
  <2>8. Stacked'
    BY <1>1, <2>3, <2>6, FramesPrimed DEF Stacked, ClosedTree
  <2>9. Memory'
    <3> DEFINE B == {PoolMemory, NodesMemory, RootMemory}
    <3>1. allocated \subseteq B \cup Owned(s)
      BY <1>1, <2>2 DEF LeakInv, Memory
    <3>2. allocated' = allocated \ {Pending(s[n + 1].node)}
      BY <2>1, <2>2, <2>5 DEF Top
    <3>3. allocated' \subseteq B \cup Owned(t)
      <4> HIDE DEF B
      <4>1. allocated \ {Pending(s[n + 1].node)} \subseteq B \cup {Pending(s[k].node) : k \in 2 .. n}
        BY <1>1, <2>2, <2>5, <3>1, OwnedBelow
      <4> QED BY <2>7, <3>2, <4>1
    <3>4. Owned(stack)' = Owned(t)
      BY <2>3 DEF Owned, Pending
    <3> QED BY <1>1, <2>1, <3>3, <3>4 DEF LeakInv, Memory, NothingLeaks, PoolMemory, NodesMemory, RootMemory
  <2> QED BY <2>8, <2>9 DEF LeakInv
<1> QED BY <1>2, <1>3

LEMMA FinishStep == LeakInv /\ Finish => LeakInv'
<1> SUFFICES ASSUME LeakInv, Finish PROVE LeakInv'
  OBVIOUS
<1>1. tree' = tree /\ UNCHANGED input /\ pc = "emit" /\ ClosedTree(tree) /\ Frames(stack) /\ Top.node = 0
  BY DEF Finish, input, LeakInv, Stacked
<1>2. CASE \E e \in {"oom", "internal"} : Fail(e)
  <2>1. \E e \in {"oom", "pool_overflow", "internal"} : Fail(e)
    BY <1>2
  <2> QED BY <1>1, <2>1, FailStep
<1>3. CASE ~\E e \in {"oom", "internal"} : Fail(e)
  <2>1. /\ pc' = "returned" /\ error' = "ok"
        /\ allocated' = (allocated \ {RootMemory, NodesMemory, PoolMemory}) \cup {Output}
    BY <1>3, Zenon DEF Finish
  <2>2. allocated \ {RootMemory, NodesMemory, PoolMemory} = {}
    BY <1>1, RootAlone DEF LeakInv, Memory
  <2>3. allocated' = {Output}
    BY <2>1, <2>2
  <2> QED BY <1>1, <2>1, <2>3 DEF LeakInv, Stacked, Memory, NothingLeaks, ClosedTree, Output
<1> QED BY <1>2, <1>3

LEMMA AgainStep == LeakInv /\ Again => LeakInv'
<1> SUFFICES ASSUME LeakInv, Again PROVE LeakInv'
  OBVIOUS
<1>1. tree' = tree /\ pc' = "start" /\ allocated' = {} /\ ClosedTree(tree)
  BY DEF Again, input, LeakInv, Stacked, Memory, NothingLeaks
<1> QED BY <1>1 DEF LeakInv, Stacked, Memory, NothingLeaks, ClosedTree

LEMMA LeakStep == LeakInv /\ [Next]_vars => LeakInv'
<1>1. ASSUME LeakInv, UNCHANGED vars PROVE LeakInv'
  <2>1. tree' = tree /\ pc' = pc /\ stack' = stack /\ allocated' = allocated /\ error' = error
    BY <1>1 DEF vars, input
  <2>2. Stacked'
    BY <1>1, <2>1, FramesPrimed DEF LeakInv, Stacked, ClosedTree
  <2>3. Memory'
    BY <1>1, <2>1 DEF LeakInv, Memory, NothingLeaks, Owned, Pending, PoolMemory, NodesMemory, RootMemory, Output
  <2> QED BY <2>2, <2>3 DEF LeakInv
<1> QED BY <1>1, EarlySteps, RootsStep, EmitFailsStep, EmitScalarStep, OpenContainerStep,
           CloseContainerStep, UnwindStep, FinishStep, AgainStep DEF Next

(* For every tree and wherever in the recursion a call fails, the encoder  *)
(* frees all it allocated; a call that succeeds leaves the output alone.   *)
THEOREM EncoderReleases == Spec => []NothingLeaks
<1>1. LeakInv => NothingLeaks
  BY DEF LeakInv, Memory
<1> QED BY <1>1, LeakInit, LeakStep, PTL DEF Spec

-----------------------------------------------------------------------------
(* What lies in the nodes buffer *)

SizeAt(m, o) == ItemSize(m[o])
AlignedAt(m, o) == m[o].tag \in {"int64", "count", "element", "entry"} => o % 8 = 0

\* The items of m lie apart from each other below z.
Laid(m, z) ==
    /\ \A o \in DOMAIN m : o \in Nat /\ SizeAt(m, o) \in {1, 8, 24} /\ o + SizeAt(m, o) <= z /\ AlignedAt(m, o)
    /\ \A o, q \in DOMAIN m : o < q => o + SizeAt(m, o) <= q

\* No item of m touches the bytes from a to b.
Vacant(m, a, b) == \A o \in DOMAIN m : o + SizeAt(m, o) <= a \/ b <= o

\* All items of m are inside the bytes from a to b.
Within(m, a, b) == \A o \in DOMAIN m : a <= o /\ o + SizeAt(m, o) <= b

\* r holds the items of m and of c.
Joins(r, m, c) ==
    /\ DOMAIN r = DOMAIN m \cup DOMAIN c
    /\ \A o \in DOMAIN m : r[o] = m[o]
    /\ \A o \in DOMAIN c : o \notin DOMAIN m => r[o] = c[o]

\* r keeps the items of m.
Extends(m, r) == \A o \in DOMAIN m : o \in DOMAIN r /\ r[o] = m[o]

LEMMA JoinIs == \A m, c : Joins(With(m, c), m, c)
  BY DEF Joins, With

LEMMA JoinLaid ==
  ASSUME NEW z \in Nat, NEW m, Laid(m, z), NEW z2 \in Nat, z <= z2, NEW c, Laid(c, z2),
         NEW a \in Nat, NEW b \in Nat, Vacant(m, a, b), Within(c, a, b),
         NEW r, Joins(r, m, c) \/ Joins(r, c, m)
  PROVE  /\ Laid(r, z2) /\ Extends(m, r) /\ Extends(c, r)
         /\ \A u, v \in Nat : Vacant(m, u, v) /\ Vacant(c, u, v) => Vacant(r, u, v)
<1>1. \A o \in DOMAIN m : o \in Nat /\ SizeAt(m, o) \in {1, 8, 24} /\ o + SizeAt(m, o) <= z /\ AlignedAt(m, o)
  BY DEF Laid
<1>2. \A o \in DOMAIN c : o \in Nat /\ SizeAt(c, o) \in {1, 8, 24} /\ o + SizeAt(c, o) <= z2 /\ AlignedAt(c, o)
  BY DEF Laid
<1>3. ASSUME NEW o \in DOMAIN m, NEW q \in DOMAIN c
      PROVE  o # q /\ (o < q => o + SizeAt(m, o) <= q) /\ (q < o => q + SizeAt(c, q) <= o)
  BY <1>1, <1>2 DEF Vacant, Within
<1>4. DOMAIN r = DOMAIN m \cup DOMAIN c
  BY DEF Joins
<1>5. \A o \in DOMAIN m : r[o] = m[o]
  BY <1>3 DEF Joins
<1>6. \A o \in DOMAIN c : r[o] = c[o]
  BY <1>3 DEF Joins
<1>7. \A o \in DOMAIN m : SizeAt(r, o) = SizeAt(m, o) /\ (AlignedAt(m, o) => AlignedAt(r, o))
  BY <1>5 DEF SizeAt, AlignedAt
<1>8. \A o \in DOMAIN c : SizeAt(r, o) = SizeAt(c, o) /\ (AlignedAt(c, o) => AlignedAt(r, o))
  BY <1>6 DEF SizeAt, AlignedAt
<1>9. \A o \in DOMAIN r : o \in Nat /\ SizeAt(r, o) \in {1, 8, 24} /\ o + SizeAt(r, o) <= z2 /\ AlignedAt(r, o)
  BY <1>1, <1>2, <1>4, <1>7, <1>8
<1>10. ASSUME NEW o \in DOMAIN r, NEW q \in DOMAIN r, o < q PROVE o + SizeAt(r, o) <= q
  <2>1. CASE o \in DOMAIN m /\ q \in DOMAIN m
    BY <1>7, <1>10, <2>1 DEF Laid
  <2>2. CASE o \in DOMAIN c /\ q \in DOMAIN c
    BY <1>8, <1>10, <2>2 DEF Laid
  <2>3. CASE o \in DOMAIN m /\ q \in DOMAIN c
    BY <1>3, <1>7, <1>10, <2>3
  <2>4. CASE o \in DOMAIN c /\ q \in DOMAIN m
    BY <1>3, <1>8, <1>10, <2>4
  <2> QED BY <1>4, <2>1, <2>2, <2>3, <2>4
<1>11. Laid(r, z2)
  BY <1>9, <1>10 DEF Laid
<1>12. ASSUME NEW u \in Nat, NEW v \in Nat, Vacant(m, u, v), Vacant(c, u, v) PROVE Vacant(r, u, v)
  BY <1>4, <1>7, <1>8, <1>12 DEF Vacant
<1>13. Extends(m, r) /\ Extends(c, r)
  BY <1>4, <1>5, <1>6 DEF Extends
<1> QED BY <1>11, <1>12, <1>13

(* Part of what is vacant is vacant. *)
LEMMA VacantPart ==
  ASSUME NEW m, \A q \in DOMAIN m : q \in Nat /\ SizeAt(m, q) \in {1, 8, 24},
         NEW a \in Nat, NEW b \in Nat, NEW u \in Nat, NEW v \in Nat, a <= u, v <= b, Vacant(m, a, b)
  PROVE  Vacant(m, u, v)
<1> SUFFICES ASSUME NEW q \in DOMAIN m PROVE q + SizeAt(m, q) <= u \/ v <= q
  BY DEF Vacant
<1>1. PICK n \in Nat : n = SizeAt(m, q)
  OBVIOUS
<1>2. q \in Nat /\ (q + n <= a \/ b <= q)
  BY <1>1 DEF Vacant
<1>3. q + n <= u \/ v <= q
  BY <1>2
<1> QED BY <1>1, <1>3

LEMMA Ends == \A b, p, q \in Nat : p <= q => b + p \in Nat /\ b + q \in Nat /\ b + p <= b + q
  OBVIOUS

(* One item. *)
LEMMA OneItem ==
  ASSUME NEW o \in Nat, NEW x, NEW n \in {1, 8, 24}, ItemSize(x) = n,
         x.tag \in {"int64", "count", "element", "entry"} => o % 8 = 0,
         NEW z \in Nat, o + n <= z
  PROVE  /\ Laid(Cell(o, x), z) /\ Within(Cell(o, x), o, o + n)
         /\ \A u, v \in Nat : (o + n <= u \/ v <= o) => Vacant(Cell(o, x), u, v)
<1>1. PICK c : c = Cell(o, x)
  OBVIOUS
<1>2. DOMAIN c = {o} /\ c[o] = x
  BY <1>1 DEF Cell
<1>3. SizeAt(c, o) = n /\ AlignedAt(c, o)
  BY <1>2 DEF SizeAt, AlignedAt
<1>4. Laid(c, z) /\ Within(c, o, o + n)
  BY <1>2, <1>3 DEF Laid, Within
<1>5. \A u, v \in Nat : (o + n <= u \/ v <= o) => Vacant(c, u, v)
  BY <1>2, <1>3 DEF Vacant
<1> QED BY <1>1, <1>4, <1>5

LEMMA NoItem ==
  ASSUME NEW z
  PROVE  Laid(NoCell, z) /\ \A u, v : Vacant(NoCell, u, v) /\ Within(NoCell, u, v)
<1>1. DOMAIN NoCell = {}
  BY DEF NoCell
<1> QED BY <1>1 DEF Laid, Vacant, Within

LEMMA Sizes ==
  /\ \A k : ItemSize([tag |-> "kind", kind |-> k]) = 1 /\ [tag |-> "kind", kind |-> k].tag = "kind"
  /\ \A v : ItemSize([tag |-> "int64", value |-> v]) = 8
  /\ \A l : ItemSize([tag |-> "string", length |-> l]) = 8 /\ [tag |-> "string", length |-> l].tag = "string"
  /\ \A n : ItemSize([tag |-> "count", count |-> n]) = 8
  /\ \A v : ItemSize([tag |-> "element", value |-> v]) = 8
  BY DEF ItemSize

(* Offsets. *)
LEMMA Aligns ==
  ASSUME NEW n \in Nat
  PROVE  /\ \A a \in {1, 4, 8} : AlignUp(n, a) \in Nat /\ AlignUp(n, a) >= n
         /\ AlignUp(n, 8) % 8 = 0
<1>1. AlignUp(n, 1) \in Nat /\ AlignUp(n, 1) >= n
  BY DEF AlignUp
<1>2. AlignUp(n, 4) \in Nat /\ AlignUp(n, 4) >= n
  BY DEF AlignUp
<1>3. AlignUp(n, 8) \in Nat /\ AlignUp(n, 8) >= n /\ AlignUp(n, 8) % 8 = 0
  BY DEF AlignUp
<1> QED BY <1>1, <1>2, <1>3

-----------------------------------------------------------------------------
(* Room for the entries of the containers being emitted *)

Room(f) == IF Keyed(f) THEN Len(Kids(tree, f.node)) * EntrySize ELSE Len(Kids(tree, f.node)) * ElementSize
Used(f) == IF Keyed(f) THEN 0 ELSE f.done * ElementSize

\* What is left of the room of f is free.
Reserved(f, m, z) ==
    /\ f.body \in Nat /\ f.body % 8 = 0
    /\ f.body + Room(f) <= z
    /\ Vacant(m, f.body + Used(f), f.body + Room(f))

\* The room of f is before that of g.
Before(f, g) == f.body + Room(f) <= g.body

\* The first n frames of s; the root's entries are not in the buffer.
Rooms(s, n, m, z) ==
    /\ \A k \in 2 .. n : Reserved(s[k], m, z)
    /\ \A k \in 2 .. n : \A j \in 2 .. n : j < k => Before(s[j], s[k])

LEMMA RoomFacts ==
  ASSUME ClosedTree(tree), NEW f, FrameOK(f)
  PROVE  /\ Room(f) \in Nat /\ Used(f) \in Nat /\ Used(f) <= Room(f)
         /\ Len(Kids(tree, f.node)) \in Nat /\ f.done \in Nat
<1>1. f.node \in 0 .. SizeOf(tree) /\ f.done \in Nat /\ f.done <= Len(Kids(tree, f.node))
  BY DEF FrameOK
<1>2. Len(Kids(tree, f.node)) \in Nat
  BY <1>1, SeqFacts DEF ClosedTree
<1> QED BY <1>1, <1>2 DEF Room, Used, EntrySize, ElementSize

LEMMA LaidVacant == ASSUME NEW m, NEW z, NEW z2, Laid(m, z) PROVE Vacant(m, z, z2)
  BY DEF Laid, Vacant

(* Items appended at the end of the buffer. *)
LEMMA Grow ==
  ASSUME ClosedTree(tree), NEW s, Frames(s), NEW n \in Nat, n <= Len(s),
         NEW m, NEW z \in Nat, Laid(m, z), Rooms(s, n, m, z),
         NEW z2 \in Nat, z <= z2, NEW c, Laid(c, z2), Within(c, z, z2),
         NEW r, Joins(r, m, c)
  PROVE  Laid(r, z2) /\ Rooms(s, n, r, z2)
<1>1. Vacant(m, z, z2)
  BY LaidVacant
<1>2. /\ Laid(r, z2)
      /\ \A u, v \in Nat : Vacant(m, u, v) /\ Vacant(c, u, v) => Vacant(r, u, v)
  BY <1>1, JoinLaid
<1>3. ASSUME NEW k \in 2 .. n PROVE Reserved(s[k], r, z2)
  <2>1. Len(s) \in Nat /\ k \in 1 .. Len(s)
    BY TopFrame
  <2>2. FrameOK(s[k])
    BY <2>1 DEF Frames
  <2>3. PICK u, v : u = s[k].body + Used(s[k]) /\ v = s[k].body + Room(s[k])
    OBVIOUS
  <2>4. /\ s[k].body \in Nat /\ s[k].body % 8 = 0 /\ v <= z /\ Vacant(m, u, v)
    BY <2>3 DEF Rooms, Reserved
  <2>5. u \in Nat /\ v \in Nat
    <3>1. Room(s[k]) \in Nat /\ Used(s[k]) \in Nat /\ Used(s[k]) <= Room(s[k])
      BY <2>2, RoomFacts
    <3> QED BY <2>3, <2>4, <3>1, Ends, Zenon
  <2>6. Vacant(c, u, v)
    <3>1. \A o \in DOMAIN c : o \in Nat /\ z <= o
      BY DEF Within, Laid
    <3> QED BY <2>4, <2>5, <3>1 DEF Vacant
  <2>7. Vacant(r, u, v)
    BY <1>2, <2>4, <2>5, <2>6
  <2>8. v <= z2
    BY <2>4, <2>5
  <2> QED BY <2>3, <2>4, <2>7, <2>8 DEF Reserved
<1> QED BY <1>2, <1>3 DEF Rooms

(* Nothing is added. *)
LEMMA JoinNothing ==
  ASSUME NEW z \in Nat, NEW m, Laid(m, z), NEW c, DOMAIN c = {}, NEW r, Joins(r, m, c) \/ Joins(r, c, m)
  PROVE  Laid(r, z) /\ Extends(m, r) /\ Extends(c, r) /\ \A u, v \in Nat : Vacant(m, u, v) => Vacant(r, u, v)
<1>1. Laid(c, z) /\ Within(c, 0, 0) /\ \A u, v \in Nat : Vacant(c, u, v)
  BY DEF Laid, Within, Vacant
<1>2. Vacant(m, 0, 0)
  <2>1. \A o \in DOMAIN m : o \in Nat
    BY DEF Laid
  <2> QED BY <2>1 DEF Vacant
<1> QED BY <1>1, <1>2, JoinLaid

\* What is left of the room of frame k of n: below the room of frame n.
FreeRoom(s, n, m, z, k) ==
    \E u, v \in Nat :
       /\ u = s[k].body + Used(s[k]) /\ v = s[k].body + Room(s[k])
       /\ s[k].body \in Nat /\ s[k].body % 8 = 0
       /\ u <= v /\ v <= z /\ Vacant(m, u, v)
       /\ k < n => v <= s[n].body

LEMMA LowerRoom ==
  ASSUME ClosedTree(tree), NEW s, Frames(s), NEW n \in Nat, n <= Len(s), NEW m, NEW z \in Nat, Rooms(s, n, m, z),
         NEW k \in 2 .. n
  PROVE  FreeRoom(s, n, m, z, k)
<1>1. Len(s) \in Nat /\ k \in 1 .. Len(s)
  BY TopFrame
<1>2. FrameOK(s[k])
  BY <1>1 DEF Frames
<1>3. PICK u, v : u = s[k].body + Used(s[k]) /\ v = s[k].body + Room(s[k])
  OBVIOUS
<1>4. s[k].body \in Nat /\ s[k].body % 8 = 0 /\ v <= z /\ Vacant(m, u, v)
  BY <1>3 DEF Rooms, Reserved
<1>5. u \in Nat /\ v \in Nat /\ u <= v
  <2>1. Room(s[k]) \in Nat /\ Used(s[k]) \in Nat /\ Used(s[k]) <= Room(s[k])
    BY <1>2, RoomFacts
  <2>2. PICK b, p, q \in Nat : b = s[k].body /\ p = Used(s[k]) /\ q = Room(s[k]) /\ p <= q
    BY <1>4, <2>1
  <2>3. u = b + p /\ v = b + q
    BY <1>3, <2>2
  <2> QED BY <2>2, <2>3, Ends, Zenon
<1>6. k < n => v <= s[n].body
  <2>1. ASSUME k < n PROVE v <= s[n].body
    <3>1. n \in 2 .. n
      BY <2>1
    <3>2. Before(s[k], s[n])
      BY <2>1, <3>1 DEF Rooms
    <3> QED BY <1>3, <3>2 DEF Before
  <2> QED BY <2>1
<1> QED BY <1>3, <1>4, <1>5, <1>6 DEF FreeRoom

\* o is where element p of q goes, in the room at b; it lies inside.
ElementAt(b, p, q, z, o) == p < q /\ b % 8 = 0 /\ b + q * 8 <= z /\ o = b + p * 8
ElementFits(b, p, q, z, o) ==
    /\ o \in Nat /\ o % 8 = 0 /\ o + 8 <= b + q * 8 /\ o + 8 <= z /\ b <= o
    /\ o + 8 = b + (p * 8 + 8)

LEMMA ElementPlace == \A b, p, q, z \in Nat : \A o : ElementAt(b, p, q, z, o) => ElementFits(b, p, q, z, o)
  BY DEF ElementAt, ElementFits

(* An element stored in a vacant room of m. *)
LEMMA ElementJoins ==
  ASSUME NEW z \in Nat, NEW m, Laid(m, z), NEW o \in Nat, o % 8 = 0, o + 8 <= z,
         NEW e \in Nat, Vacant(m, o, e), o + 8 <= e,
         NEW x, NEW c, c = Cell(o, [tag |-> "element", value |-> x]), NEW r, Joins(r, m, c)
  PROVE  /\ Laid(r, z)
         /\ \A u, v \in Nat : Vacant(m, u, v) /\ (v <= o \/ o + 8 <= u) => Vacant(r, u, v)
<1>1. /\ Laid(c, z) /\ Within(c, o, o + 8)
      /\ \A u, v \in Nat : (o + 8 <= u \/ v <= o) => Vacant(c, u, v)
  <2>1. PICK i : i = [tag |-> "element", value |-> x]
    OBVIOUS
  <2>2. c = Cell(o, i) /\ ItemSize(i) = 8 /\ 8 \in {1, 8, 24}
    BY <2>1, Sizes
  <2> QED BY <2>2, OneItem
<1>2. o + 8 \in Nat /\ o <= o /\ z <= z
  OBVIOUS
<1>3. \A q \in DOMAIN m : q \in Nat /\ SizeAt(m, q) \in {1, 8, 24}
  BY DEF Laid
<1>4. Vacant(m, o, o + 8)
  BY <1>2, <1>3, VacantPart, Zenon
<1>5. /\ Laid(r, z)
      /\ \A u, v \in Nat : Vacant(m, u, v) /\ Vacant(c, u, v) => Vacant(r, u, v)
  BY <1>1, <1>2, <1>4, JoinLaid, SMTT(30)
<1> QED BY <1>1, <1>5, Zenon

LEMMA BelowOrBehind ==
  \A b, o, u, v \in Nat : \A p : b <= o /\ o + 8 = p /\ (v <= b \/ p <= u) => v <= o \/ o + 8 <= u
  OBVIOUS

(* An array's next element is stored in its room. *)
LEMMA Deliver ==
  ASSUME ClosedTree(tree), NEW s, Frames(s), NEW n \in 1 .. Len(s), n \in Nat,
         s[n].done < Len(Kids(tree, s[n].node)),
         NEW m, NEW z \in Nat, Laid(m, z), Rooms(s, n, m, z),
         NEW d, After(s[n], d), NEW t, SameBelow(s, t, n), t[n] = d,
         NEW x, NEW c, c = ElementCell(s[n], x), NEW r, Joins(r, m, c)
  PROVE  Laid(r, z) /\ Rooms(t, n, r, z)
<1>1. Len(s) \in Nat /\ n <= Len(s) /\ FrameOK(s[n])
  BY TopFrame DEF Frames
<1>2. FrameOK(d) /\ d.node = s[n].node /\ d.body = s[n].body /\ d.done = s[n].done + 1
  BY <1>1, DeliveredFrame DEF After
<1>3. (Keyed(d) <=> Keyed(s[n])) /\ Room(d) = Room(s[n])
  BY <1>2 DEF Keyed, Room
<1>4. /\ Room(s[n]) \in Nat /\ Used(s[n]) \in Nat
      /\ Len(Kids(tree, s[n].node)) \in Nat /\ s[n].done \in Nat
      /\ Used(d) \in Nat /\ Used(d) <= Room(d)
  BY <1>1, <1>2, RoomFacts
<1>5. Used(s[n]) <= Used(d)
  BY <1>2, <1>3, <1>4 DEF Used, ElementSize
<1>6. /\ Laid(r, z)
      /\ \A u, v \in Nat : Vacant(m, u, v) /\ (n = 1 \/ v <= s[n].body \/ s[n].body + Used(d) <= u)
            => Vacant(r, u, v)
  <2>1. CASE Keyed(s[n])
    <3>1. DOMAIN c = {}
      BY <2>1 DEF ElementCell, NoCell
    <3> QED BY <3>1, JoinNothing
  <2>2. CASE ~Keyed(s[n])
    <3>1. n # 1
      BY <1>1, <2>2 DEF Frames, Keyed
    <3>2. n \in 2 .. n /\ n \in Nat
      BY <3>1
    <3>3. /\ s[n].body \in Nat /\ s[n].body % 8 = 0 /\ s[n].body + Room(s[n]) <= z
          /\ Vacant(m, s[n].body + Used(s[n]), s[n].body + Room(s[n]))
      BY <3>2 DEF Rooms, Reserved
    <3>4. PICK o : o = s[n].body + s[n].done * ElementSize
      OBVIOUS
    <3>5. /\ Used(s[n]) = s[n].done * 8 /\ Used(d) = s[n].done * 8 + 8
          /\ Room(s[n]) = Len(Kids(tree, s[n].node)) * 8
      BY <1>2, <1>3, <1>4, <2>2 DEF Used, Room, ElementSize
    <3>6. /\ o \in Nat /\ o % 8 = 0 /\ o = s[n].body + Used(s[n])
          /\ o + 8 = s[n].body + Used(d)
          /\ o + 8 <= s[n].body + Room(s[n]) /\ o + 8 <= z /\ s[n].body <= o
      <4>1. PICK b, p, q \in Nat : b = s[n].body /\ p = s[n].done /\ q = Len(Kids(tree, s[n].node)) /\ p < q
        <5>1. PICK b \in Nat : b = s[n].body
          BY <3>3
        <5>2. PICK p \in Nat : p = s[n].done
          BY <1>4
        <5>3. PICK q \in Nat : q = Len(Kids(tree, s[n].node))
          BY <1>4
        <5>4. p < q
          BY <5>2, <5>3, Zenon
        <5> QED BY <5>1, <5>2, <5>3, <5>4
      <4>2. b % 8 = 0 /\ b + q * 8 <= z /\ o = b + p * 8
        <5>1. o = b + p * 8
          BY <3>4, <4>1, Zenon DEF ElementSize
        <5>2. b % 8 = 0
          BY <3>3, <4>1, Zenon
        <5>3. b + q * 8 <= z
          BY <3>3, <3>5, <4>1, Zenon
        <5> QED BY <5>1, <5>2, <5>3
      <4>3. ElementFits(b, p, q, z, o)
        <5>1. ElementAt(b, p, q, z, o)
          BY <4>1, <4>2, Zenon DEF ElementAt
        <5> QED BY <5>1, ElementPlace, Zenon
      <4> QED BY <3>5, <4>1, <4>2, <4>3, Zenon DEF ElementFits
    <3>7. /\ Laid(r, z)
          /\ \A u, v \in Nat : Vacant(m, u, v) /\ (v <= o \/ o + 8 <= u) => Vacant(r, u, v)
      <4>1. c = Cell(o, [tag |-> "element", value |-> x])
        BY <2>2, <3>4, Zenon DEF ElementCell
      <4>2. PICK e : e = s[n].body + Room(s[n])
        OBVIOUS
      <4>3. e \in Nat /\ Vacant(m, o, e) /\ o + 8 <= e
        <5>1. Used(s[n]) \in Nat /\ Used(s[n]) <= Room(s[n]) /\ Room(s[n]) \in Nat /\ s[n].body \in Nat
          BY <1>1, <3>3, RoomFacts
        <5>2. e \in Nat
          BY <4>2, <5>1, Ends, Zenon
        <5>3. Vacant(m, o, e)
          BY <3>3, <3>6, <4>2, Zenon
        <5>4. o + 8 <= e
          BY <3>6, <4>2, Zenon
        <5> QED BY <5>2, <5>3, <5>4
      <4> QED BY <3>6, <4>1, <4>3, ElementJoins, ZenonT(30)
    <3>8. ASSUME NEW u \in Nat, NEW v \in Nat, v <= s[n].body \/ s[n].body + Used(d) <= u
          PROVE  v <= o \/ o + 8 <= u
      <4>1. s[n].body \in Nat /\ o \in Nat /\ s[n].body <= o /\ o + 8 = s[n].body + Used(d)
        BY <3>3, <3>6, Zenon
      <4> QED BY <3>8, <4>1, BelowOrBehind, Zenon
    <3> QED BY <3>1, <3>7, <3>8, Zenon
  <2> QED BY <2>1, <2>2
<1>7. ASSUME NEW k \in 2 .. n PROVE Reserved(t[k], r, z)
  <2>1. PICK u, v \in Nat :
            /\ u = s[k].body + Used(s[k]) /\ v = s[k].body + Room(s[k])
            /\ s[k].body \in Nat /\ s[k].body % 8 = 0
            /\ u <= v /\ v <= z /\ Vacant(m, u, v)
            /\ k < n => v <= s[n].body
    <3>1. FreeRoom(s, n, m, z, k)
      BY <1>1, LowerRoom
    <3> QED BY <3>1, Zenon DEF FreeRoom
  <2>2. CASE k < n
    <3>1. t[k] = s[k]
      <4>1. k \in 1 .. Len(s)
        BY <1>1
      <4> QED BY <2>2, <4>1 DEF SameBelow
    <3>2. Vacant(r, u, v)
      BY <1>6, <2>1, <2>2
    <3> QED BY <2>1, <3>1, <3>2 DEF Reserved
  <2>3. CASE k = n
    <3>1. PICK w \in Nat : w = s[n].body + Used(d)
      <4>1. s[n].body \in Nat /\ Used(d) \in Nat /\ Used(s[n]) \in Nat
        BY <1>4, <2>1, <2>3, Zenon
      <4>2. s[n].body + Used(d) \in Nat
        BY <1>5, <4>1, Ends, Zenon
      <4> QED BY <4>2, Zenon
    <3>2. u <= w
      <4>1. u = s[n].body + Used(s[n]) /\ s[n].body \in Nat
        BY <2>1, <2>3, Zenon
      <4>2. Used(d) \in Nat /\ Used(s[n]) \in Nat /\ Used(s[n]) <= Used(d)
        BY <1>4, <1>5, Zenon
      <4> QED BY <3>1, <4>1, <4>2, Ends, Zenon
    <3>3. Vacant(m, w, v)
      <4>1. \A q \in DOMAIN m : q \in Nat /\ SizeAt(m, q) \in {1, 8, 24}
        BY DEF Laid
      <4>2. v <= v /\ Vacant(m, u, v)
        BY <2>1
      <4> QED BY <3>1, <3>2, <4>1, <4>2, VacantPart, SMTT(30)
    <3>4. Vacant(r, w, v)
      <4>1. s[n].body + Used(d) <= w
        BY <3>1
      <4> QED BY <1>6, <3>3, <4>1
    <3> QED BY <1>2, <1>3, <2>1, <2>3, <3>1, <3>4 DEF Reserved
  <2> QED BY <2>2, <2>3
<1>8. ASSUME NEW k \in 2 .. n, NEW j \in 2 .. n, j < k PROVE Before(t[j], t[k])
  <2>1. t[j] = s[j] /\ t[k].body = s[k].body
    <3>1. j \in 1 .. Len(s) /\ j < n /\ k \in 1 .. Len(s) /\ (k < n \/ k = n)
      BY <1>1, <1>8
    <3> QED BY <1>2, <3>1 DEF SameBelow
  <2>2. Before(s[j], s[k])
    BY <1>8 DEF Rooms
  <2> QED BY <2>1, <2>2 DEF Before
<1> QED BY <1>6, <1>7, <1>8 DEF Rooms

(* Entry k of n, in the room at b. *)
EntryPlace(b, k) == b + (k - 1) * 24
EntriesAt(b, n, z) == b \in Nat /\ n \in Nat /\ b % 8 = 0 /\ b + n * 24 <= z

LEMMA EntryFits ==
  ASSUME NEW b, NEW n, NEW z \in Nat, EntriesAt(b, n, z), NEW k \in 1 .. n
  PROVE  /\ EntryPlace(b, k) \in Nat /\ EntryPlace(b, k) % 8 = 0
         /\ EntryPlace(b, k) + 24 <= z /\ EntryPlace(b, k) + 24 <= b + n * 24 /\ b <= EntryPlace(b, k)
         /\ \A j \in 1 .. n : EntryPlace(b, k) < EntryPlace(b, j) => EntryPlace(b, k) + 24 <= EntryPlace(b, j)
  BY DEF EntryPlace, EntriesAt

\* Entries at every place.
AllEntries(c, b, n) ==
    /\ DOMAIN c = {EntryPlace(b, k) : k \in 1 .. n}
    /\ \A o \in DOMAIN c : ItemSize(c[o]) = 24

LEMMA EntriesLaid ==
  ASSUME NEW b, NEW n, NEW z \in Nat, EntriesAt(b, n, z), NEW c, AllEntries(c, b, n)
  PROVE  Laid(c, z) /\ Within(c, b, b + n * 24)
<1>1. ASSUME NEW o \in DOMAIN c
      PROVE  /\ o \in Nat /\ o % 8 = 0 /\ o + 24 <= z /\ o + 24 <= b + n * 24 /\ b <= o
             /\ \A q \in DOMAIN c : o < q => o + 24 <= q
             /\ SizeAt(c, o) = 24
  <2>1. PICK k \in 1 .. n : o = EntryPlace(b, k)
    BY DEF AllEntries
  <2>2. \A q \in DOMAIN c : \E j \in 1 .. n : q = EntryPlace(b, j)
    BY DEF AllEntries
  <2>3. SizeAt(c, o) = 24
    BY DEF AllEntries, SizeAt
  <2> QED BY <2>1, <2>2, <2>3, EntryFits
<1>2. \A o \in DOMAIN c : AlignedAt(c, o)
  BY <1>1 DEF AlignedAt
<1> QED BY <1>1, <1>2 DEF Laid, Within

LEMMA EntryCellsAll ==
  ASSUME NEW f, NEW p, IsSeq(p), NEW n, Len(p) = n, NEW c, c = EntryCells(f, Sorted(p))
  PROVE  AllEntries(c, f.body, n)
<1>1. DOMAIN Sorted(p) = DOMAIN p
  BY DEF Sorted
<1>2. PICK q : q = Sorted(p)
  OBVIOUS
<1>3. DOMAIN q = 1 .. n
  BY <1>1, <1>2, SeqFacts
<1>4. DOMAIN c = {EntryAt(f, k) : k \in DOMAIN q}
  BY <1>2 DEF EntryCells
<1>5. \A k : EntryAt(f, k) = EntryPlace(f.body, k)
  BY DEF EntryAt, EntryPlace, EntrySize
<1>6. ASSUME NEW o \in DOMAIN c PROVE ItemSize(c[o]) = 24
  <2>1. c[o].tag = "entry"
    BY <1>2, <1>4 DEF EntryCells
  <2> QED BY <2>1 DEF ItemSize, EntrySize
<1> QED BY <1>3, <1>4, <1>5, <1>6 DEF AllEntries

(* A complete block stores its entries; an array has stored its elements. *)
LEMMA Store ==
  ASSUME ClosedTree(tree), NEW s, Frames(s), NEW n \in Nat, n >= 1, Len(s) = n + 1, Complete(s[n + 1]),
         NEW m, NEW z \in Nat, Laid(m, z), Rooms(s, n + 1, m, z),
         NEW c, c = EntryCells(s[n + 1], Sorted(s[n + 1].pending)), NEW r, Joins(r, c, m)
  PROVE  Laid(r, z) /\ Rooms(s, n, r, z) /\ Extends(m, r) /\ Extends(c, r)
<1>0. PICK h \in Nat : h = n + 1 /\ h \in 1 .. Len(s) /\ h \in 2 .. h /\ h <= Len(s)
  <2>1. n + 1 \in Nat /\ n + 1 \in 1 .. Len(s) /\ n + 1 \in 2 .. n + 1 /\ n + 1 <= Len(s)
    OBVIOUS
  <2> QED BY <2>1
<1>1. PICK f : f = s[h]
  OBVIOUS
<1>2. FrameOK(f) /\ Complete(f) /\ Rooms(s, h, m, z) /\ c = EntryCells(f, Sorted(f.pending))
  BY <1>0, <1>1 DEF Frames
<1>3. PICK l : l = Len(f.pending)
  OBVIOUS
<1>4. AllEntries(c, f.body, l)
  BY <1>2, <1>3, EntryCellsAll DEF FrameOK
<1>5. PICK u, v \in Nat :
            /\ u = s[h].body + Used(s[h]) /\ v = s[h].body + Room(s[h])
            /\ s[h].body \in Nat /\ s[h].body % 8 = 0
            /\ u <= v /\ v <= z /\ Vacant(m, u, v)
            /\ h < h => v <= s[h].body
  <2>1. FreeRoom(s, h, m, z, h)
    BY <1>0, <1>2, LowerRoom
  <2> QED BY <2>1, Zenon DEF FreeRoom
<1>6. /\ Laid(r, z) /\ Extends(m, r) /\ Extends(c, r)
      /\ \A u1, v1 \in Nat : Vacant(m, u1, v1) /\ v1 <= f.body => Vacant(r, u1, v1)
  <2>1. CASE ~Keyed(f)
    <3>1. l = 0
      BY <1>2, <1>3, <2>1 DEF FrameOK
    <3>2. DOMAIN c = {}
      BY <1>4, <3>1 DEF AllEntries
    <3> QED BY <3>2, JoinNothing
  <2>2. CASE Keyed(f)
    <3>1. l = Len(Kids(tree, f.node))
      <4>1. l = f.done
        BY <1>2, <1>3, <2>2 DEF FrameOK
      <4>2. f.done = Len(Kids(tree, f.node))
        BY <1>2 DEF Complete, Kids, Children
      <4> QED BY <4>1, <4>2
    <3>2. l \in Nat
      BY <1>2, <3>1, RoomFacts
    <3>3. u = f.body + 0 /\ v = f.body + l * 24
      BY <1>1, <1>5, <2>2, <3>1, Zenon DEF Used, Room, EntrySize
    <3>4. PICK b \in Nat : b = f.body
      BY <1>1, <1>5
    <3>5. u = b /\ v = b + l * 24 /\ b % 8 = 0
      <4>1. u = b + 0 /\ v = b + l * 24 /\ b % 8 = 0
        BY <1>1, <1>5, <3>3, <3>4, Zenon
      <4> QED BY <4>1
    <3>6. EntriesAt(b, l, z) /\ AllEntries(c, b, l)
      BY <1>4, <1>5, <3>2, <3>4, <3>5 DEF EntriesAt
    <3>7. Laid(c, z) /\ Within(c, u, v)
      BY <3>5, <3>6, EntriesLaid
    <3>8. /\ Laid(r, z) /\ Extends(m, r) /\ Extends(c, r)
          /\ \A u1, v1 \in Nat : Vacant(m, u1, v1) /\ Vacant(c, u1, v1) => Vacant(r, u1, v1)
      BY <1>5, <3>7, JoinLaid
    <3>9. ASSUME NEW u1 \in Nat, NEW v1 \in Nat, v1 <= f.body PROVE Vacant(c, u1, v1)
      <4>1. v1 <= b
        BY <3>4, <3>9
      <4>2. \A o \in DOMAIN c : b <= o /\ o \in Nat
        BY <3>5, <3>7 DEF Within, Laid
      <4> QED BY <4>1, <4>2 DEF Vacant
    <3> QED BY <3>8, <3>9
  <2> QED BY <2>1, <2>2
<1>7. ASSUME NEW k \in 2 .. n PROVE Reserved(s[k], r, z)
  <2>1. k \in 2 .. h /\ k < h
    BY <1>0
  <2>2. PICK u1, v1 \in Nat :
            /\ u1 = s[k].body + Used(s[k]) /\ v1 = s[k].body + Room(s[k])
            /\ s[k].body \in Nat /\ s[k].body % 8 = 0
            /\ u1 <= v1 /\ v1 <= z /\ Vacant(m, u1, v1)
            /\ k < h => v1 <= s[h].body
    <3>1. FreeRoom(s, h, m, z, k)
      BY <1>0, <1>2, <2>1, LowerRoom
    <3> QED BY <3>1, Zenon DEF FreeRoom
  <2>3. Vacant(r, u1, v1)
    BY <1>1, <1>6, <2>1, <2>2
  <2> QED BY <2>2, <2>3 DEF Reserved
<1>8. ASSUME NEW k \in 2 .. n, NEW j \in 2 .. n, j < k PROVE Before(s[j], s[k])
  <2>1. k \in 2 .. h /\ j \in 2 .. h
    BY <1>0
  <2> QED BY <1>2, <1>8, <2>1 DEF Rooms
<1> QED BY <1>6, <1>7, <1>8 DEF Rooms

-----------------------------------------------------------------------------
(* The layout is kept *)

Layout ==
    /\ nodes_size \in Nat
    /\ Laid(nodes, nodes_size)
    /\ pc = "emit" => Rooms(stack, Len(stack), nodes, nodes_size)

LEMMA LayoutPrimed ==
  ASSUME UNCHANGED tree, nodes_size' \in Nat, Laid(nodes', nodes_size'),
         pc' = "emit" => Rooms(stack', Len(stack'), nodes', nodes_size')
  PROVE  Layout'
  BY DEF Layout, Laid, Rooms, Reserved, Before, Room, Used, Keyed, Nodes

LEMMA LayoutInit == Init => Layout
  BY NoItem DEF Init, Layout

(* The actions that leave the buffer alone. *)
LEMMA QuietSteps ==
  ASSUME Layout, UNCHANGED <<tree, nodes, nodes_size>>, pc' # "emit" \/ (pc = "emit" /\ UNCHANGED stack)
  PROVE  Layout'
  BY LayoutPrimed DEF Layout

LEMMA RootsLayout == Layout /\ AllocateRoots => Layout'
<1> SUFFICES ASSUME Layout, AllocateRoots PROVE Layout'
  OBVIOUS
<1>1. UNCHANGED <<tree, nodes, nodes_size>>
  BY DEF AllocateRoots, input, buffer
<1>2. CASE pc' = "emit"
  <2>1. stack' = <<RootFrame>>
    BY <1>2 DEF AllocateRoots, Exit
  <2>2. Len(stack') = 1
    BY <2>1, SeqOne
  <2>3. Rooms(stack', Len(stack'), nodes', nodes_size')
    BY <2>2 DEF Rooms
  <2> QED BY <1>1, <2>3, LayoutPrimed DEF Layout
<1>3. CASE pc' # "emit"
  BY <1>1, <1>3, QuietSteps
<1> QED BY <1>2, <1>3

(* Where a value goes. *)
LEMMA ScalarPlace ==
  ASSUME NEW z \in Nat, NEW kind \in Scalars, NEW o, o = KindOffset(z, KindBodyAlign(kind))
  PROVE  o \in Nat /\ z <= o /\ (kind = "int64" => (o + 1) % 8 = 0)
<1>0. z + 1 \in Nat
  OBVIOUS
<1>1. KindBodyAlign(kind) \in {1, 4, 8} /\ (kind = "int64" => KindBodyAlign(kind) = 8)
  BY DEF KindBodyAlign, Scalars
<1>2. PICK a \in {1, 4, 8} : a = KindBodyAlign(kind)
  BY <1>1
<1>3. PICK u \in Nat : u = AlignUp(z + 1, a) /\ u >= z + 1 /\ (a = 8 => u % 8 = 0)
  BY <1>0, Aligns
<1>4. o = u - 1
  BY <1>2, <1>3 DEF KindOffset
<1>5. o \in Nat /\ z <= o /\ o + 1 = u
  BY <1>3, <1>4
<1> QED BY <1>1, <1>2, <1>3, <1>5

LEMMA ScalarItem ==
  ASSUME NEW i, tree.kind[i] \in Scalars, NEW b \in Nat, tree.kind[i] = "int64" => b % 8 = 0,
         NEW z, z = b + KindBodySize(tree.kind[i])
  PROVE  z \in Nat /\ b <= z /\ Laid(ScalarCell(i, b), z) /\ Within(ScalarCell(i, b), b, z)
<1>1. CASE tree.kind[i] = "null"
  <2>1. z = b + 0 /\ ScalarCell(i, b) = NoCell
    BY <1>1 DEF KindBodySize, ScalarCell
  <2> QED BY <2>1, NoItem
<1>2. CASE tree.kind[i] = "int64"
  <2>1. PICK x : x = [tag |-> "int64", value |-> i]
    OBVIOUS
  <2>2. z = b + 8 /\ ScalarCell(i, b) = Cell(b, x) /\ ItemSize(x) = 8 /\ b % 8 = 0
    BY <1>2, <2>1, Sizes DEF KindBodySize, ScalarCell
  <2>3. z \in Nat /\ b + 8 <= z /\ 8 \in {1, 8, 24}
    BY <2>2
  <2> QED BY <2>2, <2>3, OneItem
<1>3. CASE tree.kind[i] = "string"
  <2>1. PICK l : l = Length[tree.text[i]]
    OBVIOUS
  <2>2. PICK x : x = [tag |-> "string", length |-> l]
    OBVIOUS
  <2>3. z = b + 8 /\ ScalarCell(i, b) = Cell(b, x)
    BY <1>3, <2>1, <2>2 DEF KindBodySize, ScalarCell
  <2>4. ItemSize(x) = 8 /\ x.tag = "string"
    BY <2>2, Sizes
  <2>5. z \in Nat /\ b + 8 <= z /\ 8 \in {1, 8, 24}
    BY <2>3
  <2> QED BY <2>3, <2>4, <2>5, OneItem
<1> QED BY <1>1, <1>2, <1>3 DEF Scalars

(* A kind byte, appended. *)
LEMMA KindItem ==
  ASSUME NEW o \in Nat, NEW kind, NEW c, c = Cell(o, [tag |-> "kind", kind |-> kind])
  PROVE  o + 1 \in Nat /\ Laid(c, o + 1) /\ Within(c, o, o + 1)
<1>1. PICK x : x = [tag |-> "kind", kind |-> kind]
  OBVIOUS
<1>2. ItemSize(x) = 1 /\ x.tag = "kind"
  BY <1>1, Sizes
<1>3. o + 1 \in Nat /\ o + 1 <= o + 1 /\ 1 \in {1, 8, 24}
  OBVIOUS
<1>4. c = Cell(o, x)
  BY <1>1
<1> QED BY <1>2, <1>3, <1>4, OneItem

LEMMA GrowKind ==
  ASSUME ClosedTree(tree), NEW s, Frames(s), NEW n \in Nat, n <= Len(s),
         NEW m, NEW z \in Nat, Laid(m, z), Rooms(s, n, m, z),
         NEW o \in Nat, z <= o, NEW kind, NEW r, r = With(m, Cell(o, [tag |-> "kind", kind |-> kind]))
  PROVE  Laid(r, o + 1) /\ Rooms(s, n, r, o + 1)
<1>1. PICK c : c = Cell(o, [tag |-> "kind", kind |-> kind])
  OBVIOUS
<1>2. o + 1 \in Nat /\ Laid(c, o + 1) /\ Within(c, o, o + 1)
  BY <1>1, KindItem
<1>3. z <= o + 1 /\ Within(c, z, o + 1)
  <2>1. \A q \in DOMAIN c : q \in Nat
    BY <1>2 DEF Laid
  <2> QED BY <1>2, <2>1 DEF Within
<1>4. Joins(r, m, c)
  BY <1>1, JoinIs
<1>5. PICK z2 \in Nat : z2 = o + 1
  BY <1>2
<1> QED BY <1>2, <1>3, <1>4, <1>5, Grow

(* A scalar: kind, body, and its place in the container above. *)
LEMMA ScalarLayout == LeakInv /\ Layout /\ EmitScalar => Layout'
<1> SUFFICES ASSUME LeakInv, Layout, EmitScalar PROVE Layout'
  OBVIOUS
<1>1. tree' = tree /\ pc = "emit" /\ ~Complete(Top) /\ ClosedTree(tree) /\ Frames(stack)
  BY DEF EmitScalar, input, LeakInv, Stacked
<1>2. PICK s : s = stack
  OBVIOUS
<1>3. PICK t : t = stack'
  OBVIOUS
<1>4. PICK m, z : m = nodes /\ z = nodes_size
  OBVIOUS
<1>5. \E i, o, v, p :
         /\ tree.kind[i] \in Scalars
         /\ o = KindOffset(nodes_size, KindBodyAlign(tree.kind[i]))
         /\ nodes' = With(With(With(nodes, Cell(o, [tag |-> "kind", kind |-> tree.kind[i]])), ScalarCell(i, o + 1)),
                          ElementCell(Top, v))
         /\ nodes_size' = o + 1 + KindBodySize(tree.kind[i])
         /\ stack' = [stack EXCEPT ![Len(stack)] = Delivered(@, i, v, p)]
  BY Zenon DEF EmitScalar
<1>p. PICK i, o, v, p :
         /\ tree.kind[i] \in Scalars
         /\ o = KindOffset(nodes_size, KindBodyAlign(tree.kind[i]))
         /\ nodes' = With(With(With(nodes, Cell(o, [tag |-> "kind", kind |-> tree.kind[i]])), ScalarCell(i, o + 1)),
                          ElementCell(Top, v))
         /\ nodes_size' = o + 1 + KindBodySize(tree.kind[i])
         /\ stack' = [stack EXCEPT ![Len(stack)] = Delivered(@, i, v, p)]
  BY <1>5
<1>6. /\ tree.kind[i] \in Scalars
      /\ o = KindOffset(z, KindBodyAlign(tree.kind[i]))
      /\ nodes' = With(With(With(m, Cell(o, [tag |-> "kind", kind |-> tree.kind[i]])), ScalarCell(i, o + 1)),
                       ElementCell(s[Len(s)], v))
      /\ nodes_size' = o + 1 + KindBodySize(tree.kind[i])
      /\ stack' = [stack EXCEPT ![Len(stack)] = Delivered(@, i, v, p)]
  BY <1>2, <1>4, <1>p DEF Top
<1>7. PICK n \in Nat : n = Len(s) /\ n \in 1 .. Len(s) /\ n <= Len(s) /\ FrameOK(s[n]) /\ Frames(s)
  <2>1. Len(s) \in Nat /\ Len(s) \in 1 .. Len(s) /\ FrameOK(s[Len(s)]) /\ Frames(s)
    BY <1>1, <1>2, TopFrame
  <2>2. Len(s) <= Len(s)
    BY <2>1
  <2> QED BY <2>1, <2>2
<1>8. z \in Nat /\ Laid(m, z) /\ Rooms(s, n, m, z)
  BY <1>1, <1>2, <1>4, <1>7 DEF Layout
<1>9. s[n].done < Len(Kids(tree, s[n].node))
  BY <1>1, <1>2, <1>7, NextIsNode DEF Top
<1>10. o \in Nat /\ z <= o /\ (tree.kind[i] = "int64" => (o + 1) % 8 = 0)
  BY <1>6, <1>8, ScalarPlace
<1>11. PICK m1 : m1 = With(m, Cell(o, [tag |-> "kind", kind |-> tree.kind[i]]))
  OBVIOUS
<1>12. PICK b \in Nat : b = o + 1
  BY <1>10
<1>13. Laid(m1, b) /\ Rooms(s, n, m1, b)
  <2>1. Laid(m1, o + 1) /\ Rooms(s, n, m1, o + 1)
    BY <1>1, <1>7, <1>8, <1>10, <1>11, GrowKind, Zenon
  <2> QED BY <1>12, <2>1
<1>14. PICK z2 : z2 = b + KindBodySize(tree.kind[i])
  OBVIOUS
<1>15. PICK c : c = ScalarCell(i, b)
  OBVIOUS
<1>16. z2 \in Nat /\ b <= z2 /\ Laid(c, z2) /\ Within(c, b, z2)
  BY <1>6, <1>10, <1>12, <1>14, <1>15, ScalarItem
<1>17. PICK m2 : m2 = With(m1, c)
  OBVIOUS
<1>18. Laid(m2, z2) /\ Rooms(s, n, m2, z2)
  BY <1>1, <1>7, <1>13, <1>16, <1>17, JoinIs, Grow
<1>19. PICK e, r : e = ElementCell(s[n], v) /\ r = With(m2, e)
  OBVIOUS
<1>20. PICK d : d = Delivered(s[n], i, v, p)
  OBVIOUS
<1>21. After(s[n], d) /\ ReplacesTop(s, t, d)
  BY <1>2, <1>3, <1>6, <1>7, <1>20 DEF After, ReplacesTop
<1>22. Len(t) = n /\ SameBelow(s, t, n) /\ t[n] = d
  BY <1>7, <1>9, <1>21, DeliverFrames
<1>23. Laid(r, z2) /\ Rooms(t, n, r, z2)
  BY <1>1, <1>7, <1>9, <1>16, <1>18, <1>19, <1>21, <1>22, JoinIs, Deliver
<1>24. nodes' = r /\ nodes_size' = z2
  BY <1>6, <1>7, <1>11, <1>12, <1>14, <1>15, <1>17, <1>19, Zenon
<1>25. Rooms(stack', Len(stack'), nodes', nodes_size')
  BY <1>3, <1>22, <1>23, <1>24
<1> QED BY <1>1, <1>16, <1>23, <1>24, <1>25, LayoutPrimed

(* A container: kind, header, and the room its frame has to fill. *)
LEMMA OpenPlace ==
  ASSUME NEW z \in Nat, NEW o, o = KindOffset(z, 8), NEW b, b = AlignUp(o + 1, 8)
  PROVE  o \in Nat /\ z <= o /\ b \in Nat /\ o + 1 <= b /\ b % 8 = 0 /\ (b + 8) % 8 = 0 /\ b + 8 \in Nat
<1>0. z + 1 \in Nat
  OBVIOUS
<1>1. PICK u \in Nat : u = AlignUp(z + 1, 8) /\ u >= z + 1 /\ u % 8 = 0
  BY <1>0, Aligns
<1>2. o = u - 1
  BY <1>1 DEF KindOffset
<1>3. o \in Nat /\ z <= o /\ o + 1 \in Nat
  BY <1>1, <1>2
<1>4. b \in Nat /\ o + 1 <= b /\ b % 8 = 0
  BY <1>3, Aligns
<1> QED BY <1>3, <1>4

LEMMA CountItem ==
  ASSUME NEW b \in Nat, b % 8 = 0, NEW count, NEW c, c = Cell(b, [tag |-> "count", count |-> count]),
         NEW z \in Nat, z <= b
  PROVE  b + 8 \in Nat /\ Laid(c, b + 8) /\ Within(c, z, b + 8)
<1>1. PICK x : x = [tag |-> "count", count |-> count]
  OBVIOUS
<1>2. ItemSize(x) = 8 /\ c = Cell(b, x)
  BY <1>1, Sizes
<1>3. b + 8 \in Nat /\ b + 8 <= b + 8 /\ 8 \in {1, 8, 24}
  OBVIOUS
<1>4. Laid(c, b + 8) /\ Within(c, b, b + 8)
  BY <1>2, <1>3, OneItem
<1>5. Within(c, z, b + 8)
  <2>1. \A q \in DOMAIN c : q \in Nat
    BY <1>4 DEF Laid
  <2> QED BY <1>4, <2>1 DEF Within
<1> QED BY <1>3, <1>4, <1>5

\* The frame g has all its room at the end of the buffer.
FreshRoom(g, b, z) == b \in Nat /\ b % 8 = 0 /\ g.body = b /\ Used(g) = 0 /\ Room(g) \in Nat /\ z = b + Room(g)

LEMMA PushRoom ==
  ASSUME ClosedTree(tree), NEW s, Frames(s), NEW n \in Nat, n = Len(s),
         NEW m, NEW b \in Nat, Laid(m, b), Rooms(s, n, m, b),
         NEW g, NEW z, FreshRoom(g, b, z),
         NEW t, t[n + 1] = g, \A k \in 1 .. n : t[k] = s[k]
  PROVE  z \in Nat /\ Laid(m, z) /\ Rooms(t, n + 1, m, z)
<1>1. PICK q \in Nat : q = Room(g)
  BY DEF FreshRoom
<1>2. z = b + q /\ b % 8 = 0 /\ g.body = b /\ Used(g) = 0
  BY <1>1 DEF FreshRoom
<1>3. z \in Nat /\ b <= z /\ b + 0 = b
  BY <1>1, <1>2
<1>4. Joins(m, m, NoCell)
  BY DEF Joins, NoCell
<1>5. Laid(m, z) /\ Rooms(s, n, m, z)
  <2>1. Laid(NoCell, z) /\ Within(NoCell, b, z)
    BY NoItem
  <2> QED BY <1>3, <1>4, <2>1, Grow
<1>6. Reserved(g, m, z)
  <2>1. Vacant(m, b, z)
    BY LaidVacant
  <2>2. z <= z
    BY <1>3
  <2>3. g.body + Used(g) = b /\ g.body + Room(g) = z
    BY <1>1, <1>2, <1>3
  <2> QED BY <1>2, <2>1, <2>2, <2>3 DEF Reserved
<1>7. \A k \in 2 .. n + 1 : k = n + 1 \/ (k \in 2 .. n /\ k \in 1 .. n)
  OBVIOUS
<1>8. \A k \in 2 .. n + 1 : Reserved(t[k], m, z)
  BY <1>5, <1>6, <1>7 DEF Rooms
<1>9. ASSUME NEW k \in 2 .. n + 1, NEW j \in 2 .. n + 1, j < k PROVE Before(t[j], t[k])
  <2>1. j \in 2 .. n /\ t[j] = s[j]
    BY <1>7, <1>9
  <2>2. CASE k = n + 1
    <3>1. s[j].body + Room(s[j]) <= b
      BY <2>1 DEF Rooms, Reserved
    <3> QED BY <1>2, <2>1, <2>2, <3>1 DEF Before
  <2>3. CASE k # n + 1
    <3>1. k \in 2 .. n /\ t[k] = s[k]
      BY <1>7, <2>3
    <3>2. Before(s[j], s[k])
      BY <1>9, <2>1, <3>1 DEF Rooms
    <3> QED BY <2>1, <3>1, <3>2
  <2> QED BY <2>2, <2>3
<1> QED BY <1>3, <1>5, <1>8, <1>9 DEF Rooms

LEMMA OpenLayout == LeakInv /\ Layout /\ OpenContainer => Layout'
<1> SUFFICES ASSUME LeakInv, Layout, OpenContainer PROVE Layout'
  OBVIOUS
<1>1. tree' = tree /\ pc = "emit" /\ ~Complete(Top) /\ ClosedTree(tree) /\ Frames(stack)
  BY DEF OpenContainer, input, LeakInv, Stacked
<1>2. PICK s : s = stack
  OBVIOUS
<1>3. PICK t : t = stack'
  OBVIOUS
<1>4. PICK m, z : m = nodes /\ z = nodes_size
  OBVIOUS
<1>5. \E i, o, b :
         /\ i = NextChild
         /\ tree.kind[i] \in Containers
         /\ o = KindOffset(nodes_size, 8)
         /\ b = AlignUp(o + 1, 8)
         /\ nodes' = With(With(nodes, Cell(o, [tag |-> "kind", kind |-> tree.kind[i]])),
                          Cell(b, [tag |-> "count", count |-> Len(Children(i))]))
         /\ nodes_size' = b + ContainerHeaderSize
                            + Len(Children(i)) * (IF tree.kind[i] = "block" THEN EntrySize ELSE ElementSize)
         /\ stack' = Append(stack, [node |-> i, kind_offset |-> o, body |-> b + ContainerHeaderSize,
                                    done |-> 0, pending |-> <<>>])
  BY Zenon DEF OpenContainer
<1>6. PICK i, o, b :
         /\ i = NextChild
         /\ tree.kind[i] \in Containers
         /\ o = KindOffset(nodes_size, 8)
         /\ b = AlignUp(o + 1, 8)
         /\ nodes' = With(With(nodes, Cell(o, [tag |-> "kind", kind |-> tree.kind[i]])),
                          Cell(b, [tag |-> "count", count |-> Len(Children(i))]))
         /\ nodes_size' = b + ContainerHeaderSize
                            + Len(Children(i)) * (IF tree.kind[i] = "block" THEN EntrySize ELSE ElementSize)
         /\ stack' = Append(stack, [node |-> i, kind_offset |-> o, body |-> b + ContainerHeaderSize,
                                    done |-> 0, pending |-> <<>>])
  BY <1>5
<1>7. PICK n \in Nat : n = Len(s) /\ n <= Len(s) /\ Frames(s)
  <2>1. Len(s) \in Nat /\ Frames(s)
    BY <1>1, <1>2, TopFrame
  <2>2. Len(s) <= Len(s)
    BY <2>1
  <2> QED BY <2>1, <2>2
<1>8. z \in Nat /\ Laid(m, z) /\ Rooms(s, n, m, z)
  BY <1>1, <1>2, <1>4, <1>7 DEF Layout
<1>9. o \in Nat /\ z <= o /\ b \in Nat /\ o + 1 <= b /\ b % 8 = 0 /\ (b + 8) % 8 = 0 /\ b + 8 \in Nat
  BY <1>4, <1>6, <1>8, OpenPlace
<1>10. PICK y \in Nat : y = o + 1
  BY <1>9
<1>11. PICK m1 : m1 = With(m, Cell(o, [tag |-> "kind", kind |-> tree.kind[i]]))
  OBVIOUS
<1>12. Laid(m1, y) /\ Rooms(s, n, m1, y)
  <2>1. Laid(m1, o + 1) /\ Rooms(s, n, m1, o + 1)
    BY <1>1, <1>7, <1>8, <1>9, <1>11, GrowKind, Zenon
  <2> QED BY <1>10, <2>1
<1>13. PICK h \in Nat : h = b + 8
  BY <1>9
<1>14. PICK c : c = Cell(b, [tag |-> "count", count |-> Len(Children(i))])
  OBVIOUS
<1>15. y <= b /\ y <= h /\ h % 8 = 0
  BY <1>9, <1>10, <1>13
<1>16. Laid(c, h) /\ Within(c, y, h)
  BY <1>9, <1>13, <1>14, <1>15, CountItem
<1>17. PICK m2 : m2 = With(m1, c)
  OBVIOUS
<1>18. Laid(m2, h) /\ Rooms(s, n, m2, h)
  BY <1>1, <1>7, <1>12, <1>15, <1>16, <1>17, JoinIs, Grow
<1>19. PICK g : g = [node |-> i, kind_offset |-> o, body |-> h, done |-> 0, pending |-> <<>>]
  OBVIOUS
<1>20. stack' = Append(stack, g)
  BY <1>6, <1>13, <1>19 DEF ContainerHeaderSize
<1>21. /\ g.node \in 1 .. SizeOf(tree) /\ Frames(t) /\ Len(t) = n + 1
       /\ t[n + 1] = g /\ \A k \in 1 .. n : t[k] = s[k]
  <2>1. PushesNext(s, t, g)
    BY <1>2, <1>3, <1>6, <1>19, <1>20 DEF PushesNext, NextChild, Top
  <2>2. ~Complete(s[Len(s)])
    BY <1>1, <1>2 DEF Top
  <2>3. /\ g.node \in 1 .. SizeOf(tree) /\ Frames(t) /\ Len(t) = Len(s) + 1
        /\ t[Len(s) + 1] = g /\ \A k \in 1 .. Len(s) : t[k] = s[k]
    BY <1>1, <1>7, <2>1, <2>2, PushFrames
  <2> QED BY <1>7, <2>3
<1>22. g.node = i /\ g.body = h /\ g.done = 0
  BY <1>19
<1>23. Keyed(g) <=> tree.kind[i] = "block"
  <2>1. i # 0 /\ i \in Nodes
    <3>1. SizeOf(tree) \in Nat
      BY <1>1 DEF ClosedTree
    <3> QED BY <1>21, <1>22, <3>1 DEF Nodes, SizeOf
  <2> QED BY <1>22, <2>1 DEF Keyed
<1>24. Room(g) = Len(Children(i)) * (IF tree.kind[i] = "block" THEN EntrySize ELSE ElementSize)
  <2>1. Kids(tree, g.node) = Children(i)
    BY <1>22 DEF Kids, Children
  <2>2. CASE tree.kind[i] = "block"
    BY <1>23, <2>1, <2>2, Zenon DEF Room
  <2>3. CASE tree.kind[i] # "block"
    BY <1>23, <2>1, <2>3, Zenon DEF Room
  <2> QED BY <2>2, <2>3
<1>25. FrameOK(g)
  <2>1. n + 1 \in 1 .. Len(t)
    BY <1>21
  <2> QED BY <1>21, <2>1 DEF Frames
<1>26. PICK z2 : z2 = h + Room(g)
  OBVIOUS
<1>27. FreshRoom(g, h, z2)
  <2>1. Room(g) \in Nat
    BY <1>1, <1>25, RoomFacts
  <2>2. Used(g) = 0
    BY <1>22 DEF Used, ElementSize
  <2> QED BY <1>15, <1>22, <1>26, <2>1, <2>2 DEF FreshRoom
<1>28. z2 \in Nat /\ Laid(m2, z2) /\ Rooms(t, n + 1, m2, z2)
  BY <1>1, <1>7, <1>18, <1>21, <1>27, PushRoom
<1>29. nodes' = m2 /\ nodes_size' = z2
  <2>1. nodes' = m2
    BY <1>4, <1>6, <1>11, <1>14, <1>17, Zenon
  <2>2. nodes_size' = z2
    BY <1>6, <1>13, <1>24, <1>26, Zenon DEF ContainerHeaderSize
  <2> QED BY <2>1, <2>2
<1>30. Rooms(stack', Len(stack'), nodes', nodes_size')
  BY <1>3, <1>21, <1>28, <1>29
<1> QED BY <1>1, <1>28, <1>29, <1>30, LayoutPrimed

(* A container is complete: its entries, and its place in the one above. *)
LEMMA CloseLayout == LeakInv /\ Layout /\ CloseContainer => Layout'
<1> SUFFICES ASSUME LeakInv, Layout, CloseContainer PROVE Layout'
  OBVIOUS
<1>1. tree' = tree /\ pc = "emit" /\ ClosedTree(tree) /\ Frames(stack) /\ Top.node # 0 /\ Complete(Top)
  BY DEF CloseContainer, input, LeakInv, Stacked
<1>2. CASE \E e \in {"oom", "internal"} : Fail(e)
  <2>1. UNCHANGED <<tree, nodes, nodes_size>> /\ pc' = "unwind"
    BY <1>1, <1>2 DEF Fail, buffer
  <2> QED BY <2>1, QuietSteps
<1>3. CASE ~\E e \in {"oom", "internal"} : Fail(e)
  <2>1. /\ nodes' = With(With(EntryCells(Top, Sorted(Top.pending)), nodes),
                         ElementCell(stack[Len(stack) - 1], nodes_offset + Top.kind_offset))
        /\ nodes_size' = nodes_size
        /\ stack' = SubSeq(stack, 1, Len(stack) - 2)
                    \o <<Delivered(stack[Len(stack) - 1], Top.node, nodes_offset + Top.kind_offset, pool)>>
    BY <1>3, Zenon DEF CloseContainer
  <2>2. PICK s : s = stack
    OBVIOUS
  <2>3. PICK t : t = stack'
    OBVIOUS
  <2>4. Len(s) \in Nat /\ Len(s) \in 1 .. Len(s) /\ Len(s) # 1
    <3>1. Len(s) \in Nat /\ Len(s) \in 1 .. Len(s)
      BY <1>1, <2>2, TopFrame
    <3>2. s[Len(s)].node # 0
      BY <1>1, <2>2 DEF Top
    <3> QED BY <1>1, <2>2, <3>1, <3>2 DEF Frames
  <2>5. PICK n \in Nat : n = Len(s) - 1 /\ n >= 1 /\ Len(s) = n + 1
    <3>1. Len(s) - 1 \in Nat /\ Len(s) - 1 >= 1 /\ Len(s) = (Len(s) - 1) + 1
      <4>1. PICK l \in Nat : l = Len(s) /\ l \in 1 .. l /\ l # 1
        BY <2>4
      <4>2. l - 1 \in Nat /\ l - 1 >= 1 /\ l = (l - 1) + 1
        BY <4>1
      <4> QED BY <4>1, <4>2
    <3> QED BY <3>1
  <2>6. PICK x : x = nodes_offset + Top.kind_offset
    OBVIOUS
  <2>7. PICK d : d = Delivered(s[n], Top.node, x, pool)
    OBVIOUS
  <2>8. After(s[n], d) /\ FoldsTop(s, t, d)
    BY <2>1, <2>2, <2>3, <2>5, <2>6, <2>7 DEF After, FoldsTop
  <2>9. Frames(t) /\ Len(t) = n /\ SameBelow(s, t, n) /\ t[n] = d /\ d.node = s[n].node
    <3>1. Frames(s)
      BY <1>1, <2>2, Zenon
    <3>2. n >= 1 /\ Len(s) = n + 1
      BY <2>5, Zenon
    <3> QED BY <2>8, <3>1, <3>2, FoldFrames, ZenonT(30)
  <2>10. PICK m, z : m = nodes /\ z = nodes_size
    OBVIOUS
  <2>11. z \in Nat /\ Laid(m, z) /\ Rooms(s, n + 1, m, z)
    BY <1>1, <2>2, <2>5, <2>10 DEF Layout
  <2>12. PICK c, m1 : c = EntryCells(s[n + 1], Sorted(s[n + 1].pending)) /\ m1 = With(c, m)
    OBVIOUS
  <2>13. Frames(s) /\ Complete(s[n + 1])
    BY <1>1, <2>2, <2>5 DEF Top
  <2>14. Laid(m1, z) /\ Rooms(s, n, m1, z)
    <3>1. Joins(m1, c, m)
      BY <2>12, JoinIs
    <3> QED BY <1>1, <2>5, <2>11, <2>12, <2>13, <3>1, Store
  <2>15. PICK e, r : e = ElementCell(s[n], x) /\ r = With(m1, e)
    OBVIOUS
  <2>16. n \in 1 .. Len(s) /\ n < Len(s)
    BY <2>5
  <2>17. s[n].done < Len(Kids(tree, s[n].node))
    BY <2>13, <2>16 DEF Frames
  <2>18. Laid(r, z) /\ Rooms(t, n, r, z)
    <3>1. Joins(r, m1, e)
      BY <2>15, JoinIs
    <3> QED BY <1>1, <2>5, <2>8, <2>9, <2>11, <2>13, <2>14, <2>15, <2>16, <2>17, <3>1, Deliver
  <2>19. nodes' = r /\ nodes_size' = z
    <3>1. Top = s[n + 1] /\ stack[Len(stack) - 1] = s[n]
      BY <2>2, <2>5 DEF Top
    <3> QED BY <2>1, <2>6, <2>10, <2>12, <2>15, <3>1, Zenon
  <2>20. Rooms(stack', Len(stack'), nodes', nodes_size')
    BY <2>3, <2>9, <2>18, <2>19
  <2> QED BY <1>1, <2>11, <2>18, <2>19, <2>20, LayoutPrimed
<1> QED BY <1>2, <1>3

LEMMA AgainLayout == Layout /\ Again => Layout'
<1> SUFFICES ASSUME Layout, Again PROVE Layout'
  OBVIOUS
<1>1. tree' = tree /\ pc' = "start" /\ nodes' = NoCell /\ nodes_size' = 0
  BY DEF Again, input
<1>2. Laid(nodes', nodes_size')
  BY <1>1, NoItem
<1> QED BY <1>1, <1>2, LayoutPrimed

LEMMA LayoutStep == LeakInv /\ Layout /\ [Next]_vars => Layout'
<1>1. ASSUME Layout, UNCHANGED vars PROVE Layout'
  <2>1. UNCHANGED <<tree, nodes, nodes_size>> /\ pc' = pc /\ UNCHANGED stack
    BY <1>1 DEF vars, input, buffer
  <2> QED BY <1>1, <2>1, QuietSteps
<1>2. ASSUME Layout, Start \/ Collect \/ AllocateNodes \/ EmitFails \/ Unwind \/ Finish PROVE Layout'
  <2>1. UNCHANGED <<tree, nodes, nodes_size>>
    BY <1>2, Zenon DEF Start, Collect, AllocateNodes, EmitFails, Unwind, Finish, Fail, input, buffer
  <2>2. pc' # "emit"
    BY <1>2 DEF Start, Collect, AllocateNodes, EmitFails, Unwind, Finish, Fail, Exit
  <2> QED BY <1>2, <2>1, <2>2, QuietSteps
<1> QED BY <1>1, <1>2, RootsLayout, ScalarLayout, OpenLayout, CloseLayout, AgainLayout DEF Next

(* For every tree, whatever its shape and its keys, the encoder never      *)
(* stores an item over another one, never outside the buffer, and every    *)
(* body that the readers load as 8 bytes is aligned in the file.           *)
THEOREM EncoderKeepsApart == Spec => []ItemsApart
<1>1. LeakInv /\ Layout => ItemsApart
  <2> SUFFICES ASSUME LeakInv, Layout PROVE ItemsApart
    OBVIOUS
  <2>1. PICK l \in Nat : l = Len(Roots)
    <3>1. IsSeq(Roots)
      <4>1. SizeOf(tree) \in Nat /\ \A p \in 0 .. SizeOf(tree) : IsSeq(Kids(tree, p))
        BY DEF LeakInv, Stacked, ClosedTree
      <4>2. 0 \in 0 .. SizeOf(tree)
        BY <4>1
      <4> QED BY <4>1, <4>2 DEF Roots, Children, Kids
    <3> QED BY <3>1, SeqFacts
  <2>2. nodes_offset = 128 + l * 24
    BY <2>1 DEF nodes_offset, RootIndexOffset, EntrySize
  <2>3. ASSUME NEW o \in DOMAIN nodes
        PROVE  /\ o + ItemSize(nodes[o]) <= nodes_size
               /\ \A q \in DOMAIN nodes : o < q => o + ItemSize(nodes[o]) <= q
               /\ nodes[o].tag \in {"int64", "count", "element", "entry"} => (nodes_offset + o) % 8 = 0
    <3>1. /\ o \in Nat /\ o + SizeAt(nodes, o) <= nodes_size /\ AlignedAt(nodes, o)
          /\ \A q \in DOMAIN nodes : o < q => o + SizeAt(nodes, o) <= q
      BY DEF Layout, Laid
    <3>2. o % 8 = 0 => (nodes_offset + o) % 8 = 0
      BY <2>1, <2>2, <3>1
    <3> QED BY <3>1, <3>2 DEF SizeAt, AlignedAt
  <2> QED BY <2>3 DEF ItemsApart
<1> QED BY <1>1, LeakInit, LeakStep, LayoutInit, LayoutStep, PTL DEF Spec

-----------------------------------------------------------------------------
(* The sort *)

HashAt(p, k) == p[k].hash
IsEntry(e) == e = [hash |-> e.hash, ref |-> e.ref, length |-> e.length, value |-> e.value]
Hashed(p) == IsSeq(p) /\ \A k \in 1 .. Len(p) : HashAt(p, k) \in Nat /\ IsEntry(p[k])

\* Entry k comes before entry i: the order is total.
Precedes(p, k, i) == HashAt(p, k) < HashAt(p, i) \/ (HashAt(p, k) = HashAt(p, i) /\ k < i)
Earlier(p, i) == {k \in DOMAIN p : Precedes(p, k, i)}
RankIn(p, i) == Cardinality(Earlier(p, i))

LEMMA EarlierFinite ==
  ASSUME NEW p, Hashed(p), NEW i \in 1 .. Len(p)
  PROVE  /\ IsFiniteSet(Earlier(p, i)) /\ RankIn(p, i) \in 0 .. Len(p) - 1
<1>1. Len(p) \in Nat /\ DOMAIN p = 1 .. Len(p)
  BY SeqFacts DEF Hashed
<1>2. PICK n \in Nat : n = Len(p)
  BY <1>1
<1>3. IsFiniteSet(1 .. n) /\ Cardinality(1 .. n) = n
  <2>1. IsFiniteSet(1 .. n) /\ Cardinality(1 .. n) = IF 1 > n THEN 0 ELSE n - 1 + 1
    BY FS_Interval
  <2> QED BY <2>1
<1>4. PICK S : S = (1 .. n) \ {i}
  OBVIOUS
<1>5. IsFiniteSet(S) /\ Cardinality(S) = n - 1
  BY <1>2, <1>3, <1>4, FS_RemoveElement
<1>6. Earlier(p, i) \in SUBSET S
  <2>1. ~Precedes(p, i, i)
    BY DEF Precedes, Hashed
  <2> QED BY <1>1, <1>2, <1>4, <2>1 DEF Earlier
<1>7. IsFiniteSet(Earlier(p, i)) /\ RankIn(p, i) <= n - 1
  BY <1>5, <1>6, FS_Subset DEF RankIn
<1>8. RankIn(p, i) \in Nat
  BY <1>7, FS_CardinalityType DEF RankIn
<1> QED BY <1>2, <1>7, <1>8

(* The rank grows with the order. *)
LEMMA RankGrows ==
  ASSUME NEW p, Hashed(p), NEW i \in 1 .. Len(p), NEW j \in 1 .. Len(p), Precedes(p, i, j)
  PROVE  RankIn(p, i) < RankIn(p, j)
<1>1. Len(p) \in Nat /\ DOMAIN p = 1 .. Len(p) /\ \A k \in 1 .. Len(p) : k \in Nat /\ HashAt(p, k) \in Nat
  BY SeqFacts DEF Hashed
<1>2. /\ IsFiniteSet(Earlier(p, i)) /\ RankIn(p, i) \in 0 .. Len(p) - 1
      /\ IsFiniteSet(Earlier(p, j)) /\ RankIn(p, j) \in 0 .. Len(p) - 1
  BY EarlierFinite
<1>3. \A k \in 1 .. Len(p) : Precedes(p, k, i) => Precedes(p, k, j)
  BY <1>1 DEF Precedes
<1>4. ~Precedes(p, i, i)
  BY <1>1 DEF Precedes
<1>5. Earlier(p, i) \in SUBSET Earlier(p, j) /\ i \in Earlier(p, j) /\ i \notin Earlier(p, i)
  BY <1>1, <1>3, <1>4 DEF Earlier
<1>6. RankIn(p, i) <= RankIn(p, j) /\ RankIn(p, i) # RankIn(p, j)
  BY <1>2, <1>5, FS_Subset DEF RankIn
<1> QED BY <1>1, <1>2, <1>6

(* Every rank is some entry's. *)
LEMMA RankReached ==
  ASSUME NEW p, Hashed(p), NEW r \in 1 .. Len(p)
  PROVE  \E i \in DOMAIN p : RankIn(p, i) = r - 1
<1>1. Len(p) \in Nat /\ DOMAIN p = 1 .. Len(p) /\ \A k \in 1 .. Len(p) : k \in Nat /\ HashAt(p, k) \in Nat
  BY SeqFacts DEF Hashed
<1>2. PICK n \in Nat : n = Len(p)
  BY <1>1
<1> DEFINE f == [i \in 1 .. n |-> RankIn(p, i)]
<1>3. f \in [1 .. n -> 0 .. n - 1]
  BY <1>2, EarlierFinite
<1>4. ASSUME NEW i \in 1 .. n, NEW j \in 1 .. n, f[i] = f[j] PROVE i = j
  <2>1. i = j \/ Precedes(p, i, j) \/ Precedes(p, j, i)
    BY <1>1, <1>2 DEF Precedes
  <2>2. RankIn(p, i) \in Nat /\ RankIn(p, i) = RankIn(p, j)
    BY <1>2, <1>4, EarlierFinite
  <2> QED BY <1>2, <2>1, <2>2, RankGrows
<1>5. f \in Injection(1 .. n, 0 .. n - 1)
  BY <1>3, <1>4 DEF Injection, IsInjective
<1>6. /\ IsFiniteSet(1 .. n) /\ IsFiniteSet(0 .. n - 1)
      /\ Cardinality(1 .. n) = Cardinality(0 .. n - 1)
  <2>1. IsFiniteSet(1 .. n) /\ Cardinality(1 .. n) = IF 1 > n THEN 0 ELSE n - 1 + 1
    BY FS_Interval
  <2>2. n - 1 \in Int
    OBVIOUS
  <2>3. IsFiniteSet(0 .. n - 1) /\ Cardinality(0 .. n - 1) = IF 0 > n - 1 THEN 0 ELSE (n - 1) - 0 + 1
    BY <2>2, FS_Interval
  <2> QED BY <2>1, <2>3
<1> HIDE DEF f
<1>7. f \in Surjection(1 .. n, 0 .. n - 1)
  BY <1>5, <1>6, FS_Injection
<1>8. r - 1 \in 0 .. n - 1
  BY <1>2
<1>9. PICK i \in 1 .. n : f[i] = r - 1
  BY <1>7, <1>8 DEF Surjection
<1> QED BY <1>1, <1>2, <1>9 DEF f

(* bc_hrbl_encoder_pending_sort puts the entries in ascending order. *)
LEMMA SortAscends ==
  ASSUME NEW p, Hashed(p), NEW q, q = Sorted(p)
  PROVE  /\ DOMAIN q = 1 .. Len(p) /\ Len(p) \in Nat
         /\ \A k \in 1 .. Len(p) : HashAt(q, k) \in Nat /\ IsEntry(q[k])
         /\ \A j, k \in 1 .. Len(p) : j < k => HashAt(q, j) <= HashAt(q, k)
<1>1. Len(p) \in Nat /\ DOMAIN p = 1 .. Len(p) /\ \A k \in 1 .. Len(p) : k \in Nat /\ HashAt(p, k) \in Nat
  BY SeqFacts DEF Hashed
<1>2. q = [r \in DOMAIN p |-> p[CHOOSE i \in DOMAIN p : RankIn(p, i) = r - 1]]
  BY Zenon DEF Sorted, RankIn, Earlier, Precedes, HashAt
<1> DEFINE at(r) == CHOOSE i \in DOMAIN p : RankIn(p, i) = r - 1
<1>3. ASSUME NEW r \in 1 .. Len(p)
      PROVE  /\ at(r) \in 1 .. Len(p) /\ RankIn(p, at(r)) = r - 1 /\ HashAt(q, r) = HashAt(p, at(r))
             /\ q[r] = p[at(r)]
  <2>1. at(r) \in DOMAIN p /\ RankIn(p, at(r)) = r - 1
    BY RankReached, Zenon
  <2> QED BY <1>1, <1>2, <2>1 DEF HashAt
<1> HIDE DEF at
<1>4. ASSUME NEW j \in 1 .. Len(p), NEW k \in 1 .. Len(p), j < k PROVE HashAt(q, j) <= HashAt(q, k)
  <2>1. /\ at(j) \in 1 .. Len(p) /\ RankIn(p, at(j)) = j - 1 /\ HashAt(q, j) = HashAt(p, at(j))
        /\ at(k) \in 1 .. Len(p) /\ RankIn(p, at(k)) = k - 1 /\ HashAt(q, k) = HashAt(p, at(k))
    BY <1>3
  <2>2. ~Precedes(p, at(k), at(j))
    BY <1>1, <1>4, <2>1, RankGrows
  <2> QED BY <1>1, <2>1, <2>2 DEF Precedes
<1>5. \A k \in 1 .. Len(p) : IsEntry(p[k])
  BY DEF Hashed
<1>6. \A k \in 1 .. Len(p) : IsEntry(q[k])
  BY <1>3, <1>5
<1> QED BY <1>1, <1>2, <1>3, <1>4, <1>6

-----------------------------------------------------------------------------
(* The keys of the entries *)

KeyedScope(p) == p \in {0} \cup {i \in Nodes : tree.kind[i] = "block"}
KeyHash(i) == hash_of[tree.key[i]]

\* The nodes of a keyed scope have keys; keys and texts have lengths.
KeyedTree ==
    /\ \A p \in 0 .. SizeOf(tree) : KeyedScope(p) =>
          \A k \in 1 .. Len(Kids(tree, p)) : KeyHash(Kids(tree, p)[k]) \in Nat
    /\ \A i \in DOMAIN tree.key : Length[tree.key[i]] \in Nat
    /\ \A i \in DOMAIN tree.text : Length[tree.text[i]] \in Nat

LEMMA InitKeys == Init => KeyedTree
<1> SUFFICES ASSUME Init PROVE KeyedTree
  OBVIOUS
<1>1. \E n \in 0 .. MaxNodes : \E f \in Forests(n) : \E kind \in Labels(f, n, Kinds, Containers) :
      \E key \in [KeyedNodes(f, n, kind) -> KeyNames] :
      \E text \in [{i \in 1 .. n : kind[i] = "string"} -> Texts] :
         tree = [size |-> n, kind |-> kind, key |-> key, text |-> text, children |-> ChildLists(f, n)]
  BY Zenon DEF Init
<1>a. PICK n \in 0 .. MaxNodes : \E f \in Forests(n) : \E kind \in Labels(f, n, Kinds, Containers) :
      \E key \in [KeyedNodes(f, n, kind) -> KeyNames] :
      \E text \in [{i \in 1 .. n : kind[i] = "string"} -> Texts] :
         tree = [size |-> n, kind |-> kind, key |-> key, text |-> text, children |-> ChildLists(f, n)]
  BY <1>1
<1>2. PICK f \in Forests(n) : \E kind \in Labels(f, n, Kinds, Containers) :
      \E key \in [KeyedNodes(f, n, kind) -> KeyNames] :
      \E text \in [{i \in 1 .. n : kind[i] = "string"} -> Texts] :
         tree = [size |-> n, kind |-> kind, key |-> key, text |-> text, children |-> ChildLists(f, n)]
  BY <1>a
<1>3. PICK kind, key, text :
         /\ key \in [KeyedNodes(f, n, kind) -> KeyNames]
         /\ text \in [{i \in 1 .. n : kind[i] = "string"} -> Texts]
         /\ tree = [size |-> n, kind |-> kind, key |-> key, text |-> text, children |-> ChildLists(f, n)]
  BY <1>2, Zenon
<1>4. /\ tree.size = n /\ tree.kind = kind /\ tree.key = key /\ tree.text = text
      /\ tree.children = ChildLists(f, n)
  BY <1>3
<1>5. n \in Nat /\ Length \in [Strings -> Nat] /\ HashValues \subseteq Nat
  BY SerializeAssumption
<1>6. Parents(f, n)
  <2>1. f \in [1 .. n -> 0 .. n - 1]
    BY <1>2, Zenon DEF Forests
  <2>2. 0 .. n - 1 \subseteq 0 .. n
    BY <1>5
  <2> QED BY <2>1, <2>2 DEF Parents
<1>7. Listed(f, n, n, ChildLists(f, n))
  BY <1>5, <1>6, ChildrenListed
<1>8. ASSUME NEW p \in 0 .. n, KeyedScope(p), NEW k \in 1 .. Len(Kids(tree, p)) PROVE KeyHash(Kids(tree, p)[k]) \in Nat
  <2>1. PICK i : i = Kids(tree, p)[k]
    OBVIOUS
  <2>2. i \in 1 .. n /\ f[i] = p
    BY <1>4, <1>7, <2>1 DEF Listed, Kids
  <2>3. p = 0 \/ kind[p] = "block"
    BY <1>4, <1>8 DEF KeyedScope
  <2>4. i \in KeyedNodes(f, n, kind)
    BY <2>2, <2>3 DEF KeyedNodes
  <2>5. key[i] \in KeyNames
    BY <1>3, <2>4
  <2>6. hash_of \in [KeyNames -> HashValues]
    BY DEF Init
  <2> QED BY <1>4, <1>5, <2>1, <2>5, <2>6 DEF KeyHash
<1>9. \A i \in DOMAIN key : Length[key[i]] \in Nat
  BY <1>3, <1>5 DEF Strings
<1>10. \A i \in DOMAIN text : Length[text[i]] \in Nat
  BY <1>3, <1>5 DEF Strings
<1> QED BY <1>4, <1>8, <1>9, <1>10 DEF KeyedTree, SizeOf

(* The pool's size stays a number. *)
LEMMA InternedSize ==
  ASSUME NEW p, p.size \in Nat, NEW x, Length[x] \in Nat
  PROVE  Interned(p, x).size \in Nat
<1>1. PICK n \in Nat : n = p.size + 4 + Length[x]
  OBVIOUS
<1>2. AlignUp(p.size + 4 + Length[x], 4) \in Nat
  BY <1>1, Aligns
<1> QED BY <1>2 DEF Interned

LEMMA PoolSize ==
  ASSUME KeyedTree, pool.size \in Nat, [Next]_vars
  PROVE  pool'.size \in Nat
<1>1. Length[EmptyKey] \in Nat
  BY SerializeAssumption
<1>2. \A f, i : PoolForKey(f, i).size \in Nat
  BY <1>1, InternedSize DEF PoolForKey
<1>3. ASSUME NEW i PROVE Collected(i).size \in Nat
  <2> DEFINE keyed == IF HasKeyData(i) THEN Interned(pool, tree.key[i]) ELSE pool
  <2>1. keyed.size \in Nat
    BY InternedSize DEF KeyedTree, HasKeyData
  <2>2. Collected(i) = IF HasText(i) THEN Interned(keyed, tree.text[i]) ELSE keyed
    BY DEF Collected
  <2> HIDE DEF keyed
  <2> QED BY <2>1, <2>2, InternedSize DEF KeyedTree, HasText
<1>4. Collect => pool'.size \in Nat
  BY <1>3, Zenon DEF Collect
<1>5. EmitScalar => pool'.size \in Nat
  BY <1>2, Zenon DEF EmitScalar
<1>6. OpenContainer => pool'.size \in Nat
  BY <1>2, Zenon DEF OpenContainer
<1>7. Again => pool'.size \in Nat
  <2>1. Again => pool' = EmptyPool
    BY DEF Again
  <2>2. EmptyPool.size \in Nat
    BY DEF EmptyPool
  <2> QED BY <2>1, <2>2, Zenon
<1>8. (Start \/ AllocateNodes \/ AllocateRoots \/ CloseContainer \/ EmitFails \/ Unwind \/ Finish \/ UNCHANGED vars)
         => pool' = pool
  BY Zenon DEF Start, AllocateNodes, AllocateRoots, CloseContainer, EmitFails, Unwind, Finish, Fail, vars
<1> QED BY <1>4, <1>5, <1>6, <1>7, <1>8 DEF Next

-----------------------------------------------------------------------------
(* The frames are linked: each is the next child of the one below. *)

NextOf(f) == Kids(tree, f.node)[f.done + 1]

Linked(s) ==
    \A k \in 1 .. Len(s) :
        /\ Hashed(s[k].pending)
        /\ \A j \in 1 .. Len(s) : j = k + 1 => s[j].node = NextOf(s[k])

LEMMA DeliveredHashed ==
  ASSUME NEW f, FrameOK(f), Hashed(f.pending), NEW i, Keyed(f) => KeyHash(i) \in Nat,
         NEW v, NEW p, NEW d, d = Delivered(f, i, v, p)
  PROVE  Hashed(d.pending)
<1> DEFINE e == [hash |-> hash_of[tree.key[i]],
                 ref |-> IF key_ref[i] = NoOffset THEN p.at[EmptyKey] ELSE key_ref[i],
                 length |-> Length[tree.key[i]],
                 value |-> v]
           more == IF Keyed(f) THEN Append(f.pending, e) ELSE f.pending
<1>1. d = [f EXCEPT !.done = @ + 1, !.pending = IF Keyed(f) THEN Append(@, e) ELSE @]
  BY Zenon DEF Delivered
<1>2. e.hash = KeyHash(i) /\ IsEntry(e)
  BY DEF KeyHash, IsEntry
<1> HIDE DEF e
<1>3. d.pending = more
  BY <1>1 DEF FrameOK, IsFrame
<1>4. CASE ~Keyed(f)
  BY <1>3, <1>4
<1>5. CASE Keyed(f)
  <2>1. PICK q : q = f.pending
    OBVIOUS
  <2>2. d.pending = Append(q, e) /\ IsSeq(q)
    BY <1>3, <1>5, <2>1 DEF Hashed
  <2>3. /\ IsSeq(Append(q, e)) /\ Len(Append(q, e)) = Len(q) + 1
        /\ Append(q, e)[Len(q) + 1] = e
        /\ \A k \in 1 .. Len(q) : Append(q, e)[k] = q[k]
    BY <2>2, SeqAppend
  <2>4. PICK t : t = Append(q, e)
    OBVIOUS
  <2>5. Len(q) \in Nat
    BY <2>2, SeqFacts
  <2>6. ASSUME NEW k \in 1 .. Len(t) PROVE HashAt(t, k) \in Nat /\ IsEntry(t[k])
    <3>1. CASE k = Len(q) + 1
      <4>1. t[k] = e
        BY <2>3, <2>4, <3>1
      <4> QED BY <1>2, <1>5, <4>1 DEF HashAt
    <3>2. CASE k # Len(q) + 1
      <4>1. k \in 1 .. Len(q)
        BY <2>3, <2>4, <2>5, <3>2
      <4>2. t[k] = q[k]
        BY <2>3, <2>4, <4>1
      <4>3. HashAt(q, k) \in Nat /\ IsEntry(q[k])
        BY <2>1, <4>1 DEF Hashed
      <4> QED BY <4>2, <4>3 DEF HashAt
    <3> QED BY <3>1, <3>2
  <2> QED BY <2>2, <2>3, <2>4, <2>6 DEF Hashed
<1> QED BY <1>4, <1>5

LEMMA NextHashed ==
  ASSUME ClosedTree(tree), KeyedTree, NEW f, FrameOK(f), f.done < Len(Kids(tree, f.node)), Keyed(f)
  PROVE  KeyHash(NextOf(f)) \in Nat
<1>1. f.node \in 0 .. SizeOf(tree) /\ f.done \in Nat /\ Len(Kids(tree, f.node)) \in Nat
  BY RoomFacts DEF FrameOK
<1>2. f.done + 1 \in 1 .. Len(Kids(tree, f.node))
  BY <1>1
<1>3. KeyedScope(f.node)
  BY DEF Keyed, KeyedScope
<1> QED BY <1>1, <1>2, <1>3 DEF KeyedTree, NextOf

LEMMA LinkReplace ==
  ASSUME NEW s, Linked(s), Len(s) \in Nat, NEW n \in 1 .. Len(s), NEW t, Len(t) = n, SameBelow(s, t, n),
         Hashed(t[n].pending), t[n].node = s[n].node
  PROVE  Linked(t)
<1>1. ASSUME NEW k \in 1 .. Len(t) PROVE Hashed(t[k].pending)
  <2>1. k = n \/ (k < n /\ k \in 1 .. Len(s))
    OBVIOUS
  <2> QED BY <2>1 DEF SameBelow, Linked
<1>2. ASSUME NEW k \in 1 .. Len(t), NEW j \in 1 .. Len(t), j = k + 1 PROVE t[j].node = NextOf(t[k])
  <2>1. k < n /\ k \in 1 .. Len(s) /\ j \in 1 .. Len(s) /\ (j = n \/ j < n)
    BY <1>2
  <2>2. t[k] = s[k] /\ t[j].node = s[j].node
    BY <2>1 DEF SameBelow
  <2>3. s[j].node = NextOf(s[k])
    BY <1>2, <2>1 DEF Linked
  <2> QED BY <2>2, <2>3
<1> QED BY <1>1, <1>2 DEF Linked

LEMMA LinkPush ==
  ASSUME NEW s, Linked(s), NEW n \in Nat, n = Len(s), n >= 1, NEW t, Len(t) = n + 1,
         \A k \in 1 .. n : t[k] = s[k], t[n + 1].pending = <<>>, t[n + 1].node = NextOf(s[n])
  PROVE  Linked(t)
<1>1. ASSUME NEW k \in 1 .. Len(t) PROVE Hashed(t[k].pending)
  <2>1. k = n + 1 \/ k \in 1 .. n
    OBVIOUS
  <2>2. Hashed(<<>>)
    BY SeqEmpty DEF Hashed
  <2> QED BY <2>1, <2>2 DEF Linked
<1>2. ASSUME NEW k \in 1 .. Len(t), NEW j \in 1 .. Len(t), j = k + 1 PROVE t[j].node = NextOf(t[k])
  <2>1. k \in 1 .. n /\ t[k] = s[k]
    BY <1>2
  <2>2. CASE j = n + 1
    BY <1>2, <2>1, <2>2
  <2>3. CASE j # n + 1
    <3>1. j \in 1 .. n /\ t[j] = s[j]
      BY <2>3
    <3> QED BY <1>2, <2>1, <3>1 DEF Linked
  <2> QED BY <2>2, <2>3
<1> QED BY <1>1, <1>2 DEF Linked

-----------------------------------------------------------------------------
(* Blocks in the buffer *)

TagAt(m, o) == m[o].tag
CountAt(m, o) == m[o].count
IsBlock(m, o) == m[o].tag = "kind" /\ m[o].kind = "block"

\* The entries of a block of n at b, in ascending order.
EntriesSorted(m, b, n) ==
    /\ \A k \in 1 .. n :
          /\ EntryPlace(b, k) \in DOMAIN m /\ TagAt(m, EntryPlace(b, k)) = "entry"
          /\ HashAt(m, EntryPlace(b, k)) \in Nat
    /\ \A j, k \in 1 .. n : j < k => HashAt(m, EntryPlace(b, j)) <= HashAt(m, EntryPlace(b, k))

\* The header of n entries after the kind at o.
HeaderAt(m, o, n) ==
    /\ o \in Nat /\ n \in Nat
    /\ (o + 1) % 8 = 0
    /\ o + 1 \in DOMAIN m /\ TagAt(m, o + 1) = "count" /\ CountAt(m, o + 1) = n

BlockDone(m, z, o) ==
    \E n \in Nat : HeaderAt(m, o, n) /\ o + 9 + n * 24 <= z /\ EntriesSorted(m, o + 9, n)

Headed(f, m) ==
    /\ HeaderAt(m, f.kind_offset, Len(Kids(tree, f.node)))
    /\ f.body = f.kind_offset + 9

\* The block whose kind is at o is being emitted.
Opened(s, n, o) == \E k \in 2 .. n : s[k].kind_offset = o /\ Keyed(s[k])

Blocks(s, n, m, z) ==
    /\ \A k \in 2 .. n : Headed(s[k], m)
    /\ \A o \in DOMAIN m : IsBlock(m, o) => Opened(s, n, o) \/ BlockDone(m, z, o)

LEMMA HeaderKept ==
  ASSUME NEW m, NEW r, Extends(m, r), NEW o, NEW n, HeaderAt(m, o, n)
  PROVE  HeaderAt(r, o, n)
  BY DEF HeaderAt, Extends, TagAt, CountAt

LEMMA EntriesKept ==
  ASSUME NEW m, NEW r, Extends(m, r), NEW b, NEW n, EntriesSorted(m, b, n)
  PROVE  EntriesSorted(r, b, n)
<1>1. \A k \in 1 .. n : EntryPlace(b, k) \in DOMAIN m
  BY DEF EntriesSorted
<1>2. \A k \in 1 .. n : EntryPlace(b, k) \in DOMAIN r /\ r[EntryPlace(b, k)] = m[EntryPlace(b, k)]
  BY <1>1 DEF Extends
<1> QED BY <1>2 DEF EntriesSorted, TagAt, HashAt

LEMMA BlocksKept ==
  ASSUME NEW s, NEW n, NEW m, NEW z \in Nat, Blocks(s, n, m, z),
         NEW r, Extends(m, r), NEW z2 \in Nat, z <= z2,
         \A o \in DOMAIN r : o \in DOMAIN m \/ ~IsBlock(r, o)
  PROVE  Blocks(s, n, r, z2)
<1>1. ASSUME NEW k \in 2 .. n PROVE Headed(s[k], r)
  BY HeaderKept DEF Blocks, Headed
<1>2. ASSUME NEW o \in DOMAIN r, IsBlock(r, o) PROVE Opened(s, n, o) \/ BlockDone(r, z2, o)
  <2>1. o \in DOMAIN m /\ r[o] = m[o]
    BY <1>2 DEF Extends
  <2>2. IsBlock(m, o)
    BY <1>2, <2>1 DEF IsBlock
  <2>3. ASSUME BlockDone(m, z, o) PROVE BlockDone(r, z2, o)
    <3>1. PICK l \in Nat : HeaderAt(m, o, l) /\ o + 9 + l * 24 <= z /\ EntriesSorted(m, o + 9, l)
      BY <2>3 DEF BlockDone
    <3>2. HeaderAt(r, o, l) /\ EntriesSorted(r, o + 9, l)
      BY <3>1, HeaderKept, EntriesKept
    <3>3. o \in Nat
      BY <3>1 DEF HeaderAt
    <3>4. o + 9 + l * 24 <= z2
      BY <3>1, <3>3
    <3> QED BY <3>2, <3>4 DEF BlockDone
  <2> QED BY <2>1, <2>2, <2>3 DEF Blocks
<1> QED BY <1>1, <1>2 DEF Blocks

LEMMA BlocksSameFrames ==
  ASSUME NEW s, Len(s) \in Nat, NEW n \in 1 .. Len(s), NEW m, NEW z, Blocks(s, n, m, z),
         NEW t, SameBelow(s, t, n), t[n].node = s[n].node, t[n].kind_offset = s[n].kind_offset, t[n].body = s[n].body
  PROVE  Blocks(t, n, m, z)
<1>1. ASSUME NEW k \in 2 .. n
      PROVE  t[k].node = s[k].node /\ t[k].kind_offset = s[k].kind_offset /\ t[k].body = s[k].body
  <2>1. k = n \/ (k < n /\ k \in 1 .. Len(s))
    OBVIOUS
  <2> QED BY <2>1 DEF SameBelow
<1>2. \A k \in 2 .. n : (Keyed(t[k]) <=> Keyed(s[k])) /\ (Headed(s[k], m) => Headed(t[k], m))
  BY <1>1 DEF Keyed, Headed
<1>3. \A o : Opened(s, n, o) => Opened(t, n, o)
  BY <1>1, <1>2 DEF Opened
<1> QED BY <1>2, <1>3 DEF Blocks

(* Entry k of a block is stored at its place. *)
LEMMA EntryIndex ==
  ASSUME NEW b \in Nat, NEW k \in Nat, k >= 1
  PROVE  (EntryPlace(b, k) - b) \div 24 + 1 = k
<1>1. PICK j \in Nat : j = k - 1 /\ j + 1 = k
  <2>1. k - 1 \in Nat /\ (k - 1) + 1 = k
    OBVIOUS
  <2> QED BY <2>1
<1>2. EntryPlace(b, k) - b = j * 24
  BY <1>1 DEF EntryPlace
<1>3. (j * 24) \div 24 = j
  OBVIOUS
<1> QED BY <1>1, <1>2, <1>3

LEMMA SortedCells ==
  ASSUME NEW f, NEW b \in Nat, f.body = b, NEW p, Hashed(p), NEW n, Len(p) = n, NEW c, c = EntryCells(f, Sorted(p))
  PROVE  EntriesSorted(c, b, n)
<1>1. PICK q : q = Sorted(p)
  OBVIOUS
<1>2. /\ DOMAIN q = 1 .. n /\ n \in Nat
      /\ \A k \in 1 .. n : HashAt(q, k) \in Nat
      /\ \A j, k \in 1 .. n : j < k => HashAt(q, j) <= HashAt(q, k)
  BY <1>1, SortAscends
<1>3. \A k : EntryAt(f, k) = EntryPlace(b, k)
  BY DEF EntryAt, EntryPlace, EntrySize
<1>4. ASSUME NEW k \in 1 .. n
      PROVE  /\ EntryPlace(b, k) \in DOMAIN c /\ TagAt(c, EntryPlace(b, k)) = "entry"
             /\ HashAt(c, EntryPlace(b, k)) = HashAt(q, k)
  <2>1. PICK o : o = EntryPlace(b, k)
    OBVIOUS
  <2>2. o \in {EntryAt(f, j) : j \in DOMAIN q}
    BY <1>2, <1>3, <2>1
  <2>3. (o - b) \div 24 + 1 = k
    BY <1>2, <2>1, EntryIndex
  <2>4. (o - f.body) \div EntrySize + 1 = k
    BY <2>3 DEF EntrySize
  <2>5. DOMAIN c = {EntryAt(f, j) : j \in DOMAIN q}
    BY <1>1 DEF EntryCells
  <2>6. c[o] = [tag |-> "entry", hash |-> q[k].hash, length |-> q[k].length, value |-> q[k].value]
    BY <1>1, <2>2, <2>4, Zenon DEF EntryCells
  <2> QED BY <2>1, <2>2, <2>5, <2>6 DEF TagAt, HashAt
<1> QED BY <1>2, <1>4 DEF EntriesSorted

LEMMA BlockStored ==
  ASSUME ClosedTree(tree), NEW f, FrameOK(f), Keyed(f), Complete(f), Hashed(f.pending),
         NEW m, Headed(f, m), NEW z, f.body + Room(f) <= z,
         NEW c, c = EntryCells(f, Sorted(f.pending)), NEW r, Extends(m, r), Extends(c, r)
  PROVE  BlockDone(r, z, f.kind_offset)
<1>1. PICK o : o = f.kind_offset
  OBVIOUS
<1>2. PICK n \in Nat : n = Len(Kids(tree, f.node))
  BY RoomFacts
<1>3. HeaderAt(m, o, n) /\ f.body = o + 9 /\ o \in Nat
  BY <1>1, <1>2 DEF Headed, HeaderAt
<1>4. Len(f.pending) = n
  <2>1. f.done = Len(Kids(tree, f.node))
    BY DEF Complete, Kids, Children
  <2> QED BY <1>2, <2>1 DEF FrameOK
<1>5. PICK b \in Nat : b = o + 9
  BY <1>3
<1>6. EntriesSorted(c, b, n)
  BY <1>3, <1>4, <1>5, SortedCells
<1>7. Room(f) = n * 24
  BY <1>2 DEF Room, EntrySize
<1>8. o + 9 + n * 24 <= z
  BY <1>3, <1>7
<1> QED BY <1>1, <1>3, <1>5, <1>6, <1>8, HeaderKept, EntriesKept DEF BlockDone

LEMMA BlockCloses ==
  ASSUME NEW s, NEW n \in Nat, NEW m, NEW z, Blocks(s, n + 1, m, z),
         Keyed(s[n + 1]) => BlockDone(m, z, s[n + 1].kind_offset)
  PROVE  Blocks(s, n, m, z)
<1>1. \A k \in 2 .. n : k \in 2 .. n + 1
  OBVIOUS
<1>2. \A k \in 2 .. n + 1 : k \in 2 .. n \/ k = n + 1
  OBVIOUS
<1>3. \A o : Opened(s, n + 1, o) => Opened(s, n, o) \/ (o = s[n + 1].kind_offset /\ Keyed(s[n + 1]))
  BY <1>2 DEF Opened
<1> QED BY <1>1, <1>3 DEF Blocks

-----------------------------------------------------------------------------
(* What the search relies on is kept *)

Search ==
    /\ KeyedTree
    /\ pool.size \in Nat
    /\ pc \in {"start", "collect", "roots"} => nodes = NoCell
    /\ pc = "emit" => Linked(stack) /\ Blocks(stack, Len(stack), nodes, nodes_size)

LEMMA SearchPrimed ==
  ASSUME Search, UNCHANGED input, pool'.size \in Nat,
         pc' \in {"start", "collect", "roots"} => nodes' = NoCell,
         pc' = "emit" => Linked(stack') /\ Blocks(stack', Len(stack'), nodes', nodes_size')
  PROVE  Search'
<1>1. tree' = tree /\ hash_of' = hash_of
  BY DEF input
<1>2. KeyedTree'
  BY <1>1 DEF Search, KeyedTree, KeyedScope, KeyHash, Nodes
<1>3. ASSUME Linked(stack') PROVE Linked(stack)'
  BY <1>1, <1>3 DEF Linked, NextOf
<1>4. ASSUME Blocks(stack', Len(stack'), nodes', nodes_size') PROVE Blocks(stack, Len(stack), nodes, nodes_size)'
  BY <1>1, <1>4 DEF Blocks, Opened, Headed, Keyed, Nodes
<1>5. NoCell' = NoCell
  BY DEF NoCell
<1> QED BY <1>2, <1>3, <1>4, <1>5 DEF Search

LEMMA SearchInit == Init => Search
<1> SUFFICES ASSUME Init PROVE Search
  OBVIOUS
<1>1. pool = EmptyPool /\ nodes = NoCell /\ pc = "start"
  BY DEF Init
<1>2. pool.size \in Nat
  BY <1>1 DEF EmptyPool
<1> QED BY <1>1, <1>2, InitKeys DEF Search

LEMMA RootsSearch == Search /\ AllocateRoots => Search'
<1> SUFFICES ASSUME Search, AllocateRoots PROVE Search'
  OBVIOUS
<1>1. UNCHANGED <<input, pool, nodes>> /\ nodes = NoCell
  BY DEF AllocateRoots, buffer, Search
<1>2. pc' \in {"emit", "returned"}
  BY DEF AllocateRoots, Exit
<1>3. ASSUME pc' = "emit" PROVE Linked(stack') /\ Blocks(stack', Len(stack'), nodes', nodes_size')
  <2>1. stack' = <<RootFrame>>
    BY <1>3 DEF AllocateRoots, Exit
  <2>2. PICK s : s = stack' /\ s = <<RootFrame>>
    BY <2>1
  <2>3. Len(s) = 1 /\ s[1] = RootFrame
    BY <2>2, SeqOne
  <2>4. RootFrame.pending = <<>> /\ Hashed(<<>>)
    BY SeqEmpty DEF RootFrame, Hashed
  <2>5. Linked(s)
    BY <2>3, <2>4 DEF Linked
  <2>6. DOMAIN nodes' = {}
    BY <1>1 DEF NoCell
  <2>7. Blocks(s, 1, nodes', nodes_size')
    BY <2>6 DEF Blocks
  <2> QED BY <2>2, <2>3, <2>5, <2>7
<1>4. pool'.size \in Nat
  BY <1>1 DEF Search
<1> QED BY <1>1, <1>2, <1>3, <1>4, SearchPrimed

NoBlocks(c) == \A o \in DOMAIN c : ~IsBlock(c, o)

LEMMA AddNoBlocks ==
  ASSUME NEW s, NEW n, NEW m, NEW z \in Nat, Blocks(s, n, m, z),
         NEW c, NoBlocks(c), NEW r, r = With(m, c), NEW z2 \in Nat, z <= z2
  PROVE  Blocks(s, n, r, z2)
<1>1. Joins(r, m, c)
  BY JoinIs
<1>2. Extends(m, r)
  BY <1>1 DEF Joins, Extends
<1>3. ASSUME NEW o \in DOMAIN r PROVE o \in DOMAIN m \/ ~IsBlock(r, o)
  <2>1. CASE o \in DOMAIN m
    BY <2>1
  <2>2. CASE o \notin DOMAIN m
    <3>1. o \in DOMAIN c /\ r[o] = c[o]
      BY <1>1, <2>2 DEF Joins
    <3> QED BY <3>1 DEF NoBlocks, IsBlock
  <2> QED BY <2>1, <2>2
<1> QED BY <1>2, <1>3, BlocksKept

LEMMA CellNoBlock ==
  ASSUME NEW o, NEW x, x.tag # "kind" \/ x.kind # "block"
  PROVE  NoBlocks(Cell(o, x))
<1>1. PICK c : c = Cell(o, x)
  OBVIOUS
<1>2. DOMAIN c = {o} /\ c[o] = x
  BY <1>1 DEF Cell
<1> QED BY <1>1, <1>2 DEF NoBlocks, IsBlock

LEMMA NothingNoBlock == NoBlocks(NoCell)
<1>1. DOMAIN NoCell = {}
  BY DEF NoCell
<1> QED BY <1>1 DEF NoBlocks

LEMMA KindNoBlock ==
  ASSUME NEW o, NEW kind, kind # "block"
  PROVE  NoBlocks(Cell(o, [tag |-> "kind", kind |-> kind]))
<1>1. PICK x : x = [tag |-> "kind", kind |-> kind]
  OBVIOUS
<1>2. x.kind # "block"
  BY <1>1
<1> QED BY <1>1, <1>2, CellNoBlock

LEMMA ScalarNoBlock == ASSUME NEW i, tree.kind[i] \in Scalars, NEW b PROVE NoBlocks(ScalarCell(i, b))
<1>1. CASE tree.kind[i] = "null"
  BY <1>1, NothingNoBlock DEF ScalarCell
<1>2. CASE tree.kind[i] = "int64"
  <2>1. PICK x : x = [tag |-> "int64", value |-> i]
    OBVIOUS
  <2>2. x.tag # "kind" /\ ScalarCell(i, b) = Cell(b, x)
    BY <1>2, <2>1 DEF ScalarCell
  <2> QED BY <2>2, CellNoBlock
<1>3. CASE tree.kind[i] = "string"
  <2>1. PICK x : x = [tag |-> "string", length |-> Length[tree.text[i]]]
    OBVIOUS
  <2>2. x.tag # "kind" /\ ScalarCell(i, b) = Cell(b, x)
    BY <1>3, <2>1 DEF ScalarCell
  <2> QED BY <2>2, CellNoBlock
<1> QED BY <1>1, <1>2, <1>3 DEF Scalars

LEMMA ElementNoBlock == ASSUME NEW f, NEW v PROVE NoBlocks(ElementCell(f, v))
<1>1. CASE Keyed(f)
  BY <1>1, NothingNoBlock DEF ElementCell
<1>2. CASE ~Keyed(f)
  <2>1. PICK x : x = [tag |-> "element", value |-> v]
    OBVIOUS
  <2>2. PICK o : o = f.body + f.done * ElementSize
    OBVIOUS
  <2>3. x.tag # "kind" /\ ElementCell(f, v) = Cell(o, x)
    BY <1>2, <2>1, <2>2 DEF ElementCell
  <2> QED BY <2>3, CellNoBlock
<1> QED BY <1>1, <1>2

LEMMA ScalarSearch == LeakInv /\ Layout /\ Search /\ EmitScalar => Search'
<1> SUFFICES ASSUME LeakInv, Layout, Search, EmitScalar PROVE Search'
  OBVIOUS
<1>1. UNCHANGED input /\ pc = "emit" /\ pc' = "emit" /\ ~Complete(Top) /\ ClosedTree(tree) /\ Frames(stack)
  BY DEF EmitScalar, LeakInv, Stacked
<1>2. PICK s : s = stack
  OBVIOUS
<1>3. PICK t : t = stack'
  OBVIOUS
<1>4. PICK m, z : m = nodes /\ z = nodes_size
  OBVIOUS
<1>5. \E i, o, v, p :
         /\ i = NextChild
         /\ tree.kind[i] \in Scalars
         /\ o = KindOffset(nodes_size, KindBodyAlign(tree.kind[i]))
         /\ nodes' = With(With(With(nodes, Cell(o, [tag |-> "kind", kind |-> tree.kind[i]])), ScalarCell(i, o + 1)),
                          ElementCell(Top, v))
         /\ nodes_size' = o + 1 + KindBodySize(tree.kind[i])
         /\ stack' = [stack EXCEPT ![Len(stack)] = Delivered(@, i, v, p)]
  BY Zenon DEF EmitScalar
<1>6. PICK i, o, v, p :
         /\ i = NextChild
         /\ tree.kind[i] \in Scalars
         /\ o = KindOffset(nodes_size, KindBodyAlign(tree.kind[i]))
         /\ nodes' = With(With(With(nodes, Cell(o, [tag |-> "kind", kind |-> tree.kind[i]])), ScalarCell(i, o + 1)),
                          ElementCell(Top, v))
         /\ nodes_size' = o + 1 + KindBodySize(tree.kind[i])
         /\ stack' = [stack EXCEPT ![Len(stack)] = Delivered(@, i, v, p)]
  BY <1>5
<1>7. PICK n \in Nat : n = Len(s) /\ n \in 1 .. Len(s) /\ FrameOK(s[n]) /\ Frames(s)
  <2>1. Len(s) \in Nat /\ Len(s) \in 1 .. Len(s) /\ FrameOK(s[Len(s)]) /\ Frames(s)
    BY <1>1, <1>2, TopFrame
  <2> QED BY <2>1
<1>8. Linked(s) /\ Blocks(s, n, m, z) /\ KeyedTree
  BY <1>1, <1>2, <1>4, <1>7 DEF Search
<1>9. s[n].done < Len(Kids(tree, s[n].node))
  BY <1>1, <1>2, <1>7, NextIsNode DEF Top
<1>10. PICK d : d = Delivered(s[n], i, v, p)
  OBVIOUS
<1>11. After(s[n], d) /\ ReplacesTop(s, t, d)
  BY <1>2, <1>3, <1>6, <1>7, <1>10 DEF After, ReplacesTop
<1>12. Len(t) = n /\ SameBelow(s, t, n) /\ t[n] = d
  BY <1>7, <1>9, <1>11, DeliverFrames
<1>13. d.node = s[n].node /\ d.kind_offset = s[n].kind_offset /\ d.body = s[n].body
  BY <1>7, <1>9, <1>10, DeliveredFrame
<1>14. i = NextOf(s[n])
  BY <1>2, <1>6, <1>7 DEF NextChild, Top, NextOf, Children, Kids
<1>15. Hashed(d.pending)
  <2>1. Hashed(s[n].pending)
    BY <1>7, <1>8 DEF Linked
  <2>2. Keyed(s[n]) => KeyHash(i) \in Nat
    BY <1>1, <1>7, <1>8, <1>9, <1>14, NextHashed
  <2> QED BY <1>7, <1>10, <2>1, <2>2, DeliveredHashed
<1>16. Linked(t)
  BY <1>7, <1>8, <1>12, <1>13, <1>15, LinkReplace
<1>17. z \in Nat /\ o \in Nat /\ z <= o
  BY <1>4, <1>6, ScalarPlace DEF Layout
<1>18. PICK z2 \in Nat : z2 = nodes_size' /\ z <= z2
  <2>1. KindBodySize(tree.kind[i]) \in {0, 8}
    BY DEF KindBodySize
  <2>2. nodes_size' \in Nat /\ z <= nodes_size'
    BY <1>6, <1>17, <2>1
  <2> QED BY <2>2
<1>19. PICK m1 : m1 = With(m, Cell(o, [tag |-> "kind", kind |-> tree.kind[i]]))
  OBVIOUS
<1>20. Blocks(s, n, m1, z2)
  <2>1. tree.kind[i] # "block"
    BY <1>6 DEF Scalars
  <2>2. NoBlocks(Cell(o, [tag |-> "kind", kind |-> tree.kind[i]]))
    BY <2>1, KindNoBlock
  <2> QED BY <1>8, <1>17, <1>18, <1>19, <2>2, AddNoBlocks
<1>21. PICK m2 : m2 = With(m1, ScalarCell(i, o + 1))
  OBVIOUS
<1>r. z2 <= z2
  BY <1>18
<1>22. Blocks(s, n, m2, z2)
  BY <1>6, <1>18, <1>20, <1>21, <1>r, ScalarNoBlock, AddNoBlocks
<1>23. PICK r : r = With(m2, ElementCell(s[n], v))
  OBVIOUS
<1>24. Blocks(s, n, r, z2)
  BY <1>18, <1>22, <1>23, <1>r, ElementNoBlock, AddNoBlocks
<1>25. Blocks(t, n, r, z2)
  <2>1. Len(s) \in Nat
    BY <1>7
  <2> QED BY <1>7, <1>12, <1>13, <1>24, <2>1, BlocksSameFrames
<1>26. nodes' = r
  <2>1. Top = s[n]
    BY <1>2, <1>7 DEF Top
  <2> QED BY <1>4, <1>6, <1>19, <1>21, <1>23, <2>1, Zenon
<1>27. Linked(stack') /\ Blocks(stack', Len(stack'), nodes', nodes_size')
  BY <1>3, <1>12, <1>16, <1>18, <1>25, <1>26
<1>28. pool'.size \in Nat
  <2>1. [Next]_vars
    BY DEF Next
  <2> QED BY <1>8, <2>1, PoolSize DEF Search
<1> QED BY <1>1, <1>27, <1>28, SearchPrimed

(* What is laid out below an end begins below it. *)
LEMMA LaidBelow ==
  ASSUME NEW m, NEW z \in Nat, Laid(m, z)
  PROVE  \A x \in DOMAIN m : x \in Nat /\ x < z
<1>1. \A x \in DOMAIN m : x \in Nat /\ SizeAt(m, x) \in {1, 8, 24} /\ x + SizeAt(m, x) <= z
  BY DEF Laid
<1>2. ASSUME NEW x \in DOMAIN m  PROVE x \in Nat /\ x < z
  <2>1. PICK w : w = SizeAt(m, x)
    OBVIOUS
  <2>2. x \in Nat /\ w \in {1, 8, 24} /\ x + w <= z
    BY <1>1, <2>1
  <2> QED BY <2>2
<1> QED BY <1>2

(* A block, or an array, is opened: a kind and a header, and a new frame. *)
LEMMA OpenBlocks ==
  ASSUME NEW s, NEW n \in Nat, n >= 1, NEW m, NEW z \in Nat, Laid(m, z), Blocks(s, n, m, z),
         NEW o \in Nat, z <= o, (o + 1) % 8 = 0, NEW kind, NEW count \in Nat,
         NEW m1, m1 = With(m, Cell(o, [tag |-> "kind", kind |-> kind])),
         NEW r, r = With(m1, Cell(o + 1, [tag |-> "count", count |-> count])),
         NEW z2 \in Nat, z <= z2,
         NEW t, \A k \in 1 .. n : t[k] = s[k],
         t[n + 1].kind_offset = o, t[n + 1].body = o + 9, Len(Kids(tree, t[n + 1].node)) = count,
         kind = "block" => Keyed(t[n + 1])
  PROVE  Blocks(t, n + 1, r, z2)
<1>1. \A x \in DOMAIN m : x \in Nat /\ x < z
  BY LaidBelow
<1>2. PICK b \in Nat : b = o + 1 /\ b # o /\ b \notin DOMAIN m /\ o \notin DOMAIN m
  <2>1. o + 1 \in Nat /\ o + 1 # o /\ o + 1 \notin DOMAIN m /\ o \notin DOMAIN m
    BY <1>1
  <2> QED BY <2>1
<1>3. PICK x, y : x = [tag |-> "kind", kind |-> kind] /\ y = [tag |-> "count", count |-> count]
  OBVIOUS
<1>4. /\ DOMAIN m1 = DOMAIN m \cup {o} /\ m1[o] = x /\ \A q \in DOMAIN m : m1[q] = m[q]
  BY <1>2, <1>3 DEF With, Cell
<1>5. /\ DOMAIN r = DOMAIN m \cup {o, b} /\ r[o] = x /\ r[b] = y /\ \A q \in DOMAIN m : r[q] = m[q]
  <2>1. r = With(m1, Cell(b, y))
    BY <1>2, <1>3
  <2> QED BY <1>2, <1>4, <2>1 DEF With, Cell
<1>6. Extends(m, r)
  BY <1>5 DEF Extends
<1>7. \A k \in 2 .. n + 1 : k = n + 1 \/ (k \in 2 .. n /\ k \in 1 .. n)
  OBVIOUS
<1>8. HeaderAt(r, o, count)
  <2>1. r[b].tag = "count" /\ r[b].count = count
    BY <1>3, <1>5
  <2> QED BY <1>2, <1>5, <2>1 DEF HeaderAt, TagAt, CountAt
<1>9. ASSUME NEW k \in 2 .. n + 1 PROVE Headed(t[k], r)
  <2>1. CASE k = n + 1
    BY <1>8, <2>1 DEF Headed
  <2>2. CASE k # n + 1
    <3>1. k \in 2 .. n /\ t[k] = s[k]
      BY <1>7, <2>2
    <3> QED BY <1>6, <3>1, HeaderKept DEF Blocks, Headed
  <2> QED BY <2>1, <2>2
<1>10. \A q : Opened(s, n, q) => Opened(t, n + 1, q)
  <2>1. \A k \in 2 .. n : k \in 2 .. n + 1 /\ t[k] = s[k]
    OBVIOUS
  <2> QED BY <2>1 DEF Opened
<1>11. ASSUME NEW q \in DOMAIN r, IsBlock(r, q) PROVE Opened(t, n + 1, q) \/ BlockDone(r, z2, q)
  <2>1. CASE q \in DOMAIN m
    <3>1. IsBlock(m, q)
      BY <1>5, <1>11, <2>1 DEF IsBlock
    <3>2. ASSUME BlockDone(m, z, q) PROVE BlockDone(r, z2, q)
      <4>1. PICK l \in Nat : HeaderAt(m, q, l) /\ q + 9 + l * 24 <= z /\ EntriesSorted(m, q + 9, l)
        BY <3>2 DEF BlockDone
      <4>2. HeaderAt(r, q, l) /\ EntriesSorted(r, q + 9, l)
        BY <1>6, <4>1, HeaderKept, EntriesKept
      <4>3. q + 9 + l * 24 <= z2
        BY <1>1, <2>1, <4>1, SMTT(30)
      <4> QED BY <4>2, <4>3 DEF BlockDone
    <3> QED BY <1>10, <2>1, <3>1, <3>2 DEF Blocks
  <2>2. CASE q = o
    <3>1. kind = "block"
      BY <1>3, <1>5, <1>11, <2>2 DEF IsBlock
    <3>2. n + 1 \in 2 .. n + 1
      OBVIOUS
    <3> QED BY <2>2, <3>1, <3>2 DEF Opened
  <2>3. CASE q = b
    <3>1. r[b].tag = "count"
      BY <1>3, <1>5
    <3> QED BY <1>11, <2>3, <3>1 DEF IsBlock
  <2> QED BY <1>5, <2>1, <2>2, <2>3
<1> QED BY <1>9, <1>11 DEF Blocks

LEMMA OpenSearch == LeakInv /\ Layout /\ Search /\ OpenContainer => Search'
<1> SUFFICES ASSUME LeakInv, Layout, Search, OpenContainer PROVE Search'
  OBVIOUS
<1>1. UNCHANGED input /\ pc = "emit" /\ pc' = "emit" /\ ~Complete(Top) /\ ClosedTree(tree) /\ Frames(stack)
  BY DEF OpenContainer, LeakInv, Stacked
<1>2. PICK s : s = stack
  OBVIOUS
<1>3. PICK t : t = stack'
  OBVIOUS
<1>4. PICK m, z : m = nodes /\ z = nodes_size
  OBVIOUS
<1>5. \E i, o, b :
         /\ i = NextChild
         /\ o = KindOffset(nodes_size, 8)
         /\ b = AlignUp(o + 1, 8)
         /\ nodes' = With(With(nodes, Cell(o, [tag |-> "kind", kind |-> tree.kind[i]])),
                          Cell(b, [tag |-> "count", count |-> Len(Children(i))]))
         /\ nodes_size' = b + ContainerHeaderSize
                            + Len(Children(i)) * (IF tree.kind[i] = "block" THEN EntrySize ELSE ElementSize)
         /\ stack' = Append(stack, [node |-> i, kind_offset |-> o, body |-> b + ContainerHeaderSize,
                                    done |-> 0, pending |-> <<>>])
  BY Zenon DEF OpenContainer
<1>6. PICK i, o, b :
         /\ i = NextChild
         /\ o = KindOffset(nodes_size, 8)
         /\ b = AlignUp(o + 1, 8)
         /\ nodes' = With(With(nodes, Cell(o, [tag |-> "kind", kind |-> tree.kind[i]])),
                          Cell(b, [tag |-> "count", count |-> Len(Children(i))]))
         /\ nodes_size' = b + ContainerHeaderSize
                            + Len(Children(i)) * (IF tree.kind[i] = "block" THEN EntrySize ELSE ElementSize)
         /\ stack' = Append(stack, [node |-> i, kind_offset |-> o, body |-> b + ContainerHeaderSize,
                                    done |-> 0, pending |-> <<>>])
  BY <1>5
<1>7. PICK n \in Nat : n = Len(s) /\ n >= 1 /\ Frames(s)
  <2>1. Len(s) \in Nat /\ Frames(s) /\ Len(s) \in 1 .. Len(s)
    BY <1>1, <1>2, TopFrame
  <2>2. Len(s) >= 1
    BY <2>1
  <2> QED BY <2>1, <2>2
<1>8. Linked(s) /\ Blocks(s, n, m, z) /\ KeyedTree /\ z \in Nat /\ Laid(m, z)
  BY <1>1, <1>2, <1>4, <1>7 DEF Search, Layout
<1>9. o \in Nat /\ z <= o /\ b = o + 1 /\ (o + 1) % 8 = 0 /\ b + 8 = o + 9
  <2>1. PICK u \in Nat : u = AlignUp(z + 1, 8) /\ u >= z + 1 /\ u % 8 = 0
    <3>1. z + 1 \in Nat
      BY <1>8
    <3> QED BY <3>1, Aligns
  <2>2. o = u - 1
    BY <1>4, <1>6, <2>1 DEF KindOffset
  <2>3. o \in Nat /\ z <= o /\ o + 1 = u
    BY <1>8, <2>1, <2>2
  <2>4. AlignUp(u, 8) = u
    BY <2>1 DEF AlignUp
  <2>5. b = u
    BY <1>6, <2>3, <2>4
  <2> QED BY <2>1, <2>3, <2>5
<1>10. PICK g : g = [node |-> i, kind_offset |-> o, body |-> b + ContainerHeaderSize, done |-> 0, pending |-> <<>>]
  OBVIOUS
<1>11. /\ g.node = i /\ g.kind_offset = o /\ g.body = o + 9 /\ g.pending = <<>>
  BY <1>9, <1>10 DEF ContainerHeaderSize
<1>12. /\ g.node \in 1 .. SizeOf(tree) /\ Len(t) = n + 1
       /\ t[n + 1] = g /\ \A k \in 1 .. n : t[k] = s[k]
  <2>1. PushesNext(s, t, g)
    BY <1>2, <1>3, <1>6, <1>10 DEF PushesNext, NextChild, Top
  <2>2. ~Complete(s[Len(s)])
    BY <1>1, <1>2 DEF Top
  <2>3. /\ g.node \in 1 .. SizeOf(tree) /\ Frames(t) /\ Len(t) = Len(s) + 1
        /\ t[Len(s) + 1] = g /\ \A k \in 1 .. Len(s) : t[k] = s[k]
    BY <1>1, <1>7, <2>1, <2>2, PushFrames
  <2> QED BY <1>7, <2>3
<1>13. Linked(t)
  <2>1. i = NextOf(s[n])
    BY <1>2, <1>6, <1>7 DEF NextChild, Top, NextOf, Children, Kids
  <2> QED BY <1>7, <1>8, <1>11, <1>12, <2>1, LinkPush
<1>14. tree.kind[i] = "block" => Keyed(g)
  BY <1>11, <1>12 DEF Keyed, Nodes, SizeOf
<1>15. PICK count \in Nat : count = Len(Children(i)) /\ count = Len(Kids(tree, g.node))
  <2>1. SizeOf(tree) \in Nat /\ i \in 0 .. SizeOf(tree)
    BY <1>1, <1>11, <1>12 DEF ClosedTree
  <2>2. Len(Kids(tree, i)) \in Nat
    BY <1>1, <2>1, SeqFacts DEF ClosedTree
  <2> QED BY <1>11, <2>2 DEF Kids, Children
<1>16. PICK m1 : m1 = With(m, Cell(o, [tag |-> "kind", kind |-> tree.kind[i]]))
  OBVIOUS
<1>17. PICK r : r = With(m1, Cell(o + 1, [tag |-> "count", count |-> count]))
  OBVIOUS
<1>18. nodes' = r
  BY <1>4, <1>6, <1>9, <1>15, <1>16, <1>17, Zenon
<1>19. PICK z2 \in Nat : z2 = nodes_size' /\ z <= z2
  <2>1. PICK e \in {8, 24} : e = IF tree.kind[i] = "block" THEN EntrySize ELSE ElementSize
    BY DEF EntrySize, ElementSize
  <2>2. nodes_size' = o + 1 + 8 + count * e
    BY <1>6, <1>9, <1>15, <2>1 DEF ContainerHeaderSize
  <2>3. count * e \in Nat
    OBVIOUS
  <2>4. nodes_size' \in Nat /\ z <= nodes_size'
    BY <1>8, <1>9, <2>2, <2>3
  <2> QED BY <2>4
<1>20. Blocks(t, n + 1, r, z2)
  <2>1. /\ t[n + 1].kind_offset = o /\ t[n + 1].body = o + 9 /\ Len(Kids(tree, t[n + 1].node)) = count
        /\ tree.kind[i] = "block" => Keyed(t[n + 1])
    BY <1>11, <1>12, <1>14, <1>15, Zenon
  <2>2. n >= 1 /\ Laid(m, z) /\ Blocks(s, n, m, z) /\ z \in Nat /\ z <= z2
    BY <1>7, <1>8, <1>19, Zenon
  <2>3. o \in Nat /\ z <= o /\ (o + 1) % 8 = 0
    BY <1>9, Zenon
  <2>4. \A k \in 1 .. n : t[k] = s[k]
    BY <1>12, Zenon
  <2> QED BY <1>16, <1>17, <2>1, <2>2, <2>3, <2>4, OpenBlocks, SMTT(30)
<1>21. Linked(stack') /\ Blocks(stack', Len(stack'), nodes', nodes_size')
  BY <1>3, <1>12, <1>13, <1>18, <1>19, <1>20
<1>22. pool'.size \in Nat
  <2>1. [Next]_vars
    BY DEF Next
  <2> QED BY <1>8, <2>1, PoolSize DEF Search
<1> QED BY <1>1, <1>21, <1>22, SearchPrimed

LEMMA EntriesNoBlock == ASSUME NEW f, NEW q PROVE NoBlocks(EntryCells(f, q))
<1>1. PICK c : c = EntryCells(f, q)
  OBVIOUS
<1>2. \A o \in DOMAIN c : c[o].tag = "entry"
  BY <1>1 DEF EntryCells
<1> QED BY <1>1, <1>2 DEF NoBlocks, IsBlock

LEMMA CloseSearch == LeakInv /\ Layout /\ Search /\ CloseContainer => Search'
<1> SUFFICES ASSUME LeakInv, Layout, Search, CloseContainer PROVE Search'
  OBVIOUS
<1>1. UNCHANGED input /\ pc = "emit" /\ ClosedTree(tree) /\ Frames(stack) /\ Top.node # 0 /\ Complete(Top)
  BY DEF CloseContainer, LeakInv, Stacked
<1>p. pool'.size \in Nat
  <2>1. [Next]_vars
    BY DEF Next
  <2> QED BY <2>1, PoolSize DEF Search
<1>2. CASE \E e \in {"oom", "internal"} : Fail(e)
  <2>1. pc' = "unwind"
    BY <1>2 DEF Fail
  <2> QED BY <1>1, <1>p, <2>1, SearchPrimed
<1>3. CASE ~\E e \in {"oom", "internal"} : Fail(e)
  <2>1. /\ nodes' = With(With(EntryCells(Top, Sorted(Top.pending)), nodes),
                         ElementCell(stack[Len(stack) - 1], nodes_offset + Top.kind_offset))
        /\ nodes_size' = nodes_size
        /\ pc' = pc
        /\ stack' = SubSeq(stack, 1, Len(stack) - 2)
                    \o <<Delivered(stack[Len(stack) - 1], Top.node, nodes_offset + Top.kind_offset, pool)>>
    BY <1>3, Zenon DEF CloseContainer
  <2>2. PICK s : s = stack
    OBVIOUS
  <2>3. PICK t : t = stack'
    OBVIOUS
  <2>4. Len(s) \in Nat /\ Len(s) \in 1 .. Len(s) /\ Len(s) # 1
    <3>1. Len(s) \in Nat /\ Len(s) \in 1 .. Len(s)
      BY <1>1, <2>2, TopFrame
    <3>2. s[Len(s)].node # 0
      BY <1>1, <2>2 DEF Top
    <3> QED BY <1>1, <2>2, <3>1, <3>2 DEF Frames
  <2>5. PICK n \in Nat : n = Len(s) - 1 /\ n >= 1 /\ Len(s) = n + 1
    <3>1. PICK l \in Nat : l = Len(s) /\ l \in 1 .. l /\ l # 1
      BY <2>4
    <3>2. l - 1 \in Nat /\ l - 1 >= 1 /\ l = (l - 1) + 1
      BY <3>1
    <3> QED BY <3>1, <3>2
  <2>6. PICK x : x = nodes_offset + Top.kind_offset
    OBVIOUS
  <2>7. PICK d : d = Delivered(s[n], Top.node, x, pool)
    OBVIOUS
  <2>8. After(s[n], d) /\ FoldsTop(s, t, d)
    BY <2>1, <2>2, <2>3, <2>5, <2>6, <2>7 DEF After, FoldsTop
  <2>9. Frames(t) /\ Len(t) = n /\ SameBelow(s, t, n) /\ t[n] = d /\ d.node = s[n].node
    <3>1. Frames(s)
      BY <1>1, <2>2, Zenon
    <3>2. n >= 1 /\ Len(s) = n + 1
      BY <2>5, Zenon
    <3> QED BY <2>8, <3>1, <3>2, FoldFrames, ZenonT(30)
  <2>10. PICK m, z : m = nodes /\ z = nodes_size
    OBVIOUS
  <2>11. z \in Nat /\ Laid(m, z) /\ Rooms(s, n + 1, m, z) /\ Linked(s) /\ Blocks(s, n + 1, m, z) /\ KeyedTree
    BY <1>1, <2>2, <2>5, <2>10 DEF Layout, Search
  <2>12. PICK f : f = s[n + 1]
    OBVIOUS
  <2>13. n \in 1 .. Len(s) /\ n < Len(s) /\ n + 1 \in 1 .. Len(s) /\ n + 1 \in 2 .. n + 1
    BY <2>5
  <2>14. Frames(s) /\ Top = f /\ Complete(f) /\ stack[Len(stack) - 1] = s[n]
    BY <1>1, <2>2, <2>5, <2>12 DEF Top
  <2>15. FrameOK(f) /\ FrameOK(s[n]) /\ s[n].done < Len(Kids(tree, s[n].node))
    BY <2>12, <2>13, <2>14 DEF Frames
  <2>16. PICK c, m1 : c = EntryCells(f, Sorted(f.pending)) /\ m1 = With(c, m)
    OBVIOUS
  <2>17. Extends(m, m1) /\ Extends(c, m1)
    <3>1. Joins(m1, c, m)
      BY <2>16, JoinIs
    <3>2. c = EntryCells(s[n + 1], Sorted(s[n + 1].pending)) /\ Complete(s[n + 1])
      BY <2>12, <2>14, <2>16
    <3> QED BY <1>1, <2>5, <2>11, <2>14, <3>1, <3>2, Store
  <2>18. Hashed(f.pending) /\ Hashed(s[n].pending) /\ f.node = NextOf(s[n])
    BY <2>11, <2>12, <2>13 DEF Linked
  <2>19. Keyed(f) => BlockDone(m1, z, f.kind_offset)
    <3>1. Headed(f, m) /\ f.body + Room(f) <= z
      BY <2>11, <2>12, <2>13 DEF Blocks, Rooms, Reserved
    <3> QED BY <1>1, <2>14, <2>15, <2>16, <2>17, <2>18, <3>1, BlockStored
  <2>r. z <= z
    BY <2>11
  <2>20. Blocks(s, n + 1, m1, z)
    <3>1. ASSUME NEW o \in DOMAIN m1 PROVE o \in DOMAIN m \/ ~IsBlock(m1, o)
      <4>1. CASE o \in DOMAIN m
        BY <4>1
      <4>2. CASE o \notin DOMAIN m
        <5>1. o \in DOMAIN c
          BY <2>16, <4>2 DEF With
        <5>2. m1[o] = c[o]
          BY <2>17, <5>1 DEF Extends
        <5>3. NoBlocks(c)
          BY <2>16, EntriesNoBlock
        <5> QED BY <5>1, <5>2, <5>3 DEF NoBlocks, IsBlock
      <4> QED BY <4>1, <4>2
    <3> QED BY <2>11, <2>17, <2>r, <3>1, BlocksKept
  <2>21. Blocks(s, n, m1, z)
    BY <2>12, <2>19, <2>20, BlockCloses
  <2>22. PICK r : r = With(m1, ElementCell(s[n], x))
    OBVIOUS
  <2>23. Blocks(s, n, r, z)
    BY <2>11, <2>21, <2>22, <2>r, ElementNoBlock, AddNoBlocks
  <2>24. d.node = s[n].node /\ d.kind_offset = s[n].kind_offset /\ d.body = s[n].body
    BY <2>7, <2>15, DeliveredFrame
  <2>25. Blocks(t, n, r, z)
    BY <2>4, <2>9, <2>13, <2>23, <2>24, BlocksSameFrames
  <2>26. Hashed(d.pending)
    <3>1. Keyed(s[n]) => KeyHash(f.node) \in Nat
      BY <1>1, <2>11, <2>15, <2>18, NextHashed
    <3> QED BY <2>7, <2>14, <2>15, <2>18, <3>1, DeliveredHashed
  <2>27. Linked(t)
    BY <2>4, <2>9, <2>11, <2>13, <2>24, <2>26, LinkReplace
  <2>28. nodes' = r /\ nodes_size' = z
    BY <2>1, <2>6, <2>10, <2>14, <2>16, <2>22, Zenon
  <2>29. Linked(stack') /\ Blocks(stack', Len(stack'), nodes', nodes_size')
    BY <2>3, <2>9, <2>25, <2>27, <2>28
  <2> QED BY <1>1, <1>p, <2>1, <2>29, SearchPrimed
<1> QED BY <1>2, <1>3

LEMMA SearchStep == LeakInv /\ Layout /\ Search /\ [Next]_vars => Search'
<1> SUFFICES ASSUME LeakInv, Layout, Search, [Next]_vars PROVE Search'
  OBVIOUS
<1>1. pool'.size \in Nat
  BY PoolSize DEF Search
<1>2. CASE UNCHANGED vars
  <2>1. UNCHANGED input /\ UNCHANGED <<pc, stack, nodes, nodes_size>>
    BY <1>2 DEF vars, buffer
  <2> QED BY <1>1, <2>1, SearchPrimed DEF Search
<1>3. CASE Start \/ Collect \/ AllocateNodes
  <2>1. UNCHANGED input /\ UNCHANGED nodes
    BY <1>3 DEF Start, Collect, AllocateNodes, buffer
  <2>2. pc \in {"start", "collect"} /\ pc' # "emit"
    BY <1>3 DEF Start, Collect, AllocateNodes, Exit
  <2> QED BY <1>1, <2>1, <2>2, SearchPrimed DEF Search
<1>4. CASE EmitFails \/ Unwind \/ Finish
  <2>1. UNCHANGED input
    BY <1>4 DEF EmitFails, Unwind, Finish
  <2>2. pc' \notin {"start", "collect", "roots", "emit"}
    BY <1>4 DEF EmitFails, Unwind, Finish, Fail, Exit
  <2> QED BY <1>1, <2>1, <2>2, SearchPrimed
<1>5. CASE Again
  <2>1. UNCHANGED input /\ pc' = "start" /\ nodes' = NoCell
    BY <1>5 DEF Again
  <2> QED BY <1>1, <2>1, SearchPrimed
<1> QED BY <1>2, <1>3, <1>4, <1>5, RootsSearch, ScalarSearch, OpenSearch, CloseSearch DEF Next

-----------------------------------------------------------------------------
(* The image *)

LEMMA ShiftedItem ==
  ASSUME NEW img, NEW m, NEW N \in Nat, img.nodes = Shifted(m, N), NEW q \in Nat, q \in DOMAIN m, NEW o, o = N + q
  PROVE  o \in DOMAIN img.nodes /\ img.nodes[o] = m[q]
<1>1. o - N = q
  OBVIOUS
<1>2. PICK w : w = Shifted(m, N)
  OBVIOUS
<1>3. o \in DOMAIN w /\ w[o] = m[q]
  BY <1>1, <1>2 DEF Shifted
<1> QED BY <1>2, <1>3

LEMMA ShiftedTag ==
  ASSUME NEW img, NEW m, NEW N \in Nat, img.nodes = Shifted(m, N), NEW q \in Nat, q \in DOMAIN m, NEW o, o = N + q,
         NEW tag, TagAt(m, q) = tag
  PROVE  R!Item(img, o, tag) = m[q]
<1>1. o \in DOMAIN img.nodes /\ img.nodes[o] = m[q]
  BY ShiftedItem, SMTT(30)
<1>2. img.nodes[o].tag = tag
  BY <1>1 DEF TagAt
<1> QED BY <1>1, <1>2, Zenon DEF R!Item

\* The blocks of the image are complete.
BlocksOf(img, m, N, z) ==
    /\ N \in Nat /\ N % 8 = 0 /\ z \in Nat /\ Laid(m, z)
    /\ img.nodes = Shifted(m, N)
    /\ img.size \in Nat /\ N + z <= img.size
    /\ \A q \in DOMAIN m : IsBlock(m, q) => BlockDone(m, z, q)

LEMMA BlockAscends ==
  ASSUME NEW img, NEW m, NEW N, NEW z, BlocksOf(img, m, N, z),
         NEW o \in DOMAIN img.nodes, R!KindAt(img, o) = "block"
  PROVE  \A j, k \in DOMAIN R!BlockHashes(img, o) :
            j < k => R!BlockHashes(img, o)[j] <= R!BlockHashes(img, o)[k]
<1>1. /\ N \in Nat /\ N % 8 = 0 /\ z \in Nat /\ img.nodes = Shifted(m, N)
      /\ img.size \in Nat /\ N + z <= img.size
  BY DEF BlocksOf
<1>2. PICK q \in Nat : q \in DOMAIN m /\ o = N + q
  <2>1. PICK x \in DOMAIN m : o = N + x
    BY <1>1 DEF Shifted
  <2>2. x \in Nat
    BY DEF BlocksOf, Laid
  <2> QED BY <2>1, <2>2
<1>3. q \in Nat
  OBVIOUS
<1>4. img.nodes[o] = m[q]
  BY <1>1, <1>2, ShiftedItem
<1>5. IsBlock(m, q)
  <2>1. R!Item(img, o, "kind") # R!Invalid /\ img.nodes[o].kind = "block"
    BY DEF R!KindAt
  <2>2. img.nodes[o].tag = "kind"
    BY <2>1, Zenon DEF R!Item
  <2> QED BY <1>4, <2>1, <2>2 DEF IsBlock
<1>6. PICK n \in Nat : HeaderAt(m, q, n) /\ q + 9 + n * 24 <= z /\ EntriesSorted(m, q + 9, n)
  <2>1. BlockDone(m, z, q)
    BY <1>2, <1>5 DEF BlocksOf
  <2> QED BY <2>1 DEF BlockDone
<1>7. PICK h : h = m[q + 1]
  OBVIOUS
<1>8. (q + 1) % 8 = 0 /\ q + 1 \in DOMAIN m /\ h.tag = "count" /\ h.count = n
  BY <1>6, <1>7 DEF HeaderAt, TagAt, CountAt
<1>9. PICK b \in Nat : b = o + 1 /\ b = N + (q + 1) /\ b % 8 = 0
  <2>1. o + 1 \in Nat /\ o + 1 = N + (q + 1) /\ (o + 1) % 8 = 0
    BY <1>1, <1>2, <1>3, <1>8
  <2> QED BY <2>1
<1>10. R!AlignUp(o + 1, 8) = b
  <2>1. R!AlignUp(b, 8) = b
    BY <1>9 DEF R!AlignUp
  <2> QED BY <1>9, <2>1
<1>11. R!Item(img, b, "count") = h
  <2>1. q + 1 \in Nat
    BY <1>3
  <2>2. TagAt(m, q + 1) = "count"
    BY <1>7, <1>8 DEF TagAt
  <2>3. PICK p \in Nat : p = q + 1
    BY <2>1
  <2>4. p \in DOMAIN m /\ b = N + p /\ TagAt(m, p) = "count" /\ m[p] = h
    BY <1>7, <1>8, <1>9, <2>2, <2>3
  <2> QED BY <1>1, <2>4, ShiftedTag
<1>12. R!Item(img, o, "kind") = m[q] /\ m[q].kind = "block" /\ m[q].tag = "kind"
  <2>1. TagAt(m, q) = "kind" /\ m[q].kind = "block"
    BY <1>5 DEF TagAt, IsBlock
  <2>2. R!Item(img, o, "kind") = m[q]
    BY <1>1, <1>2, <2>1, ShiftedTag
  <2> QED BY <2>1, <2>2 DEF TagAt
<1>13. o < img.size /\ b + 8 + n * 24 <= img.size
  BY <1>1, <1>2, <1>3, <1>6, <1>9
<1>14. R!BodyOffsets(img, o, "block", R!EntrySize) = [tag |-> "body", count |-> n, first |-> b + 8]
  <2>1. h # R!Invalid /\ m[q] # R!Invalid
    BY <1>8, <1>12 DEF R!Invalid
  <2> QED BY <1>4, <1>8, <1>10, <1>11, <1>12, <1>13, <2>1 DEF R!BodyOffsets, R!ContainerHeaderSize, R!EntrySize
<1>15. PICK w : w = R!BlockHashes(img, o)
  OBVIOUS
<1>16. w = [k \in 1 .. n |-> R!Item(img, b + 8 + (k - 1) * 24, "entry").hash]
  <2>1. PICK y : y = R!BodyOffsets(img, o, "block", R!EntrySize)
    OBVIOUS
  <2>2. y.count = n /\ y.first = b + 8
    BY <1>14, <2>1
  <2>3. w = [k \in 1 .. y.count |-> R!Item(img, y.first + (k - 1) * 24, "entry").hash]
    BY <1>15, <2>1, Zenon DEF R!BlockHashes, R!EntrySize
  <2> QED BY <2>2, <2>3, Zenon
<1>17. ASSUME NEW k \in 1 .. n PROVE w[k] = HashAt(m, EntryPlace(q + 9, k)) /\ w[k] \in Nat
  <2>1. PICK e : e = EntryPlace(q + 9, k)
    OBVIOUS
  <2>2. e \in Nat /\ b + 8 + (k - 1) * 24 = N + e
    BY <1>1, <1>2, <1>3, <1>9, <2>1 DEF EntryPlace
  <2>3. e \in DOMAIN m /\ TagAt(m, e) = "entry" /\ HashAt(m, e) \in Nat
    BY <1>6, <2>1 DEF EntriesSorted
  <2>4. R!Item(img, b + 8 + (k - 1) * 24, "entry") = m[e]
    BY <1>1, <2>2, <2>3, ShiftedTag
  <2>5. w[k] = m[e].hash
    BY <1>16, <2>4
  <2> QED BY <2>1, <2>3, <2>5 DEF HashAt
<1>18. \A j, k \in 1 .. n : j < k => HashAt(m, EntryPlace(q + 9, j)) <= HashAt(m, EntryPlace(q + 9, k))
  BY <1>6 DEF EntriesSorted
<1>19. DOMAIN w = 1 .. n
  BY <1>16
<1>20. \A j, k \in 1 .. n : j < k => w[j] <= w[k]
  BY <1>17, <1>18
<1> QED BY <1>15, <1>19, <1>20

\* The root index of img is the sorted entries q, with other references.
RootsOf(img, q) ==
    \A k \in DOMAIN img.roots : k \in DOMAIN q /\ \E x : img.roots[k] = [q[k] EXCEPT !.ref = x]

LEMMA RootsAscend ==
  ASSUME NEW p, Hashed(p), NEW q, q = Sorted(p), NEW img, RootsOf(img, q)
  PROVE  \A j, k \in DOMAIN img.roots : j < k => img.roots[j].hash <= img.roots[k].hash
<1>1. /\ DOMAIN q = 1 .. Len(p)
      /\ \A k \in 1 .. Len(p) : HashAt(q, k) \in Nat /\ IsEntry(q[k])
      /\ \A j, k \in 1 .. Len(p) : j < k => HashAt(q, j) <= HashAt(q, k)
  BY SortAscends
<1>2. ASSUME NEW k \in DOMAIN img.roots PROVE k \in 1 .. Len(p) /\ img.roots[k].hash = HashAt(q, k)
  <2>1. k \in 1 .. Len(p)
    BY <1>1 DEF RootsOf
  <2>2. PICK x : img.roots[k] = [q[k] EXCEPT !.ref = x]
    BY DEF RootsOf
  <2>3. PICK e : e = q[k]
    OBVIOUS
  <2>4. e = [hash |-> e.hash, ref |-> e.ref, length |-> e.length, value |-> e.value]
    BY <1>1, <2>1, <2>3 DEF IsEntry
  <2>5. [e EXCEPT !.ref = x].hash = e.hash
    BY <2>4
  <2> QED BY <2>1, <2>2, <2>3, <2>5 DEF HashAt
<1> QED BY <1>1, <1>2

LEMMA FinishSearch == LeakInv /\ Layout /\ Search /\ Finish => EntriesSearchable'
<1> SUFFICES ASSUME LeakInv, Layout, Search, Finish, Written' PROVE EntriesSearchable'
  BY DEF EntriesSearchable
<1>1. pc = "emit" /\ ClosedTree(tree) /\ Frames(stack) /\ Top.node = 0
  BY DEF Finish, LeakInv, Stacked
<1>2. image' = Image
  BY DEF Finish, Fail, Written
<1>3. PICK s, m, z, N : s = stack /\ m = nodes /\ z = nodes_size /\ N = nodes_offset
  OBVIOUS
<1>4. Len(s) = 1 /\ Top = s[1]
  <2>1. Len(s) \in Nat /\ Len(s) \in 1 .. Len(s)
    BY <1>1, <1>3, TopFrame
  <2>2. Len(s) = 1
    BY <1>1, <1>3, <2>1 DEF Frames, Top
  <2> QED BY <1>3, <2>2 DEF Top
<1>5. PICK p, q : p = Top.pending /\ q = Sorted(p)
  OBVIOUS
<1>6. Hashed(p)
  BY <1>1, <1>3, <1>4, <1>5 DEF Search, Linked
<1>7. PICK img : img = Image
  OBVIOUS
<1>8. /\ img.nodes = Shifted(m, N)
      /\ img.size = N + z + pool.size + FooterSize
      /\ img.roots = [k \in DOMAIN p |-> [q[k] EXCEPT !.ref = (N + z + @) % RefLimit]]
  <2>1. PICK u : u = Unsealed
    OBVIOUS
  <2>2. PICK c, f : img = [u EXCEPT !.checksum = c, !.footer = f]
    BY <1>7, <2>1 DEF Image
  <2>3. img.nodes = u.nodes /\ img.size = u.size /\ img.roots = u.roots
    BY <2>1, <2>2 DEF Unsealed
  <2>4. /\ u.nodes = Shifted(m, N)
        /\ u.size = N + z + pool.size + FooterSize
        /\ u.roots = [k \in DOMAIN p |-> [q[k] EXCEPT !.ref = (N + z + @) % RefLimit]]
    BY <1>3, <1>5, <2>1 DEF Unsealed
  <2> QED BY <2>3, <2>4
<1>9. RootsOf(img, q)
  <2>1. DOMAIN q = DOMAIN p
    BY <1>5 DEF Sorted
  <2>2. ASSUME NEW k \in DOMAIN img.roots PROVE k \in DOMAIN q /\ \E x : img.roots[k] = [q[k] EXCEPT !.ref = x]
    <3>1. k \in DOMAIN p
      BY <1>8
    <3>2. img.roots[k] = [q[k] EXCEPT !.ref = (N + z + q[k].ref) % RefLimit]
      BY <1>8, <3>1
    <3> QED BY <2>1, <3>1, <3>2
  <2> QED BY <2>2 DEF RootsOf
<1>10. \A j, k \in DOMAIN img.roots : j < k => img.roots[j].hash <= img.roots[k].hash
  BY <1>5, <1>6, <1>9, RootsAscend
<1>11. BlocksOf(img, m, N, z)
  <2>1. N \in Nat /\ N % 8 = 0
    <3>1. PICK l \in Nat : l = Len(Roots)
      <4>1. SizeOf(tree) \in Nat /\ \A x \in 0 .. SizeOf(tree) : IsSeq(Kids(tree, x))
        BY <1>1 DEF ClosedTree
      <4>2. 0 \in 0 .. SizeOf(tree)
        BY <4>1
      <4>3. IsSeq(Roots)
        BY <4>1, <4>2 DEF Roots, Children, Kids
      <4> QED BY <4>3, SeqFacts
    <3>2. N = 128 + l * 24
      BY <1>3, <3>1 DEF nodes_offset, RootIndexOffset, EntrySize
    <3> QED BY <3>2
  <2>2. z \in Nat /\ Laid(m, z) /\ pool.size \in Nat
    BY <1>3 DEF Layout, Search
  <2>3. img.size \in Nat /\ N + z <= img.size
    BY <1>8, <2>1, <2>2 DEF FooterSize
  <2>4. Blocks(s, 1, m, z)
    BY <1>1, <1>3, <1>4 DEF Search
  <2>5. \A x : ~Opened(s, 1, x)
    BY DEF Opened
  <2>6. \A x \in DOMAIN m : IsBlock(m, x) => BlockDone(m, z, x)
    BY <2>4, <2>5 DEF Blocks
  <2> QED BY <1>8, <2>1, <2>2, <2>3, <2>6 DEF BlocksOf
<1>12. \A o \in DOMAIN img.nodes : R!KindAt(img, o) = "block" =>
          \A j, k \in DOMAIN R!BlockHashes(img, o) :
             j < k => R!BlockHashes(img, o)[j] <= R!BlockHashes(img, o)[k]
  BY <1>11, BlockAscends
<1>13. image' = img
  BY <1>2, <1>7
<1> QED BY <1>10, <1>12, <1>13 DEF EntriesSearchable

(* No other step hands out an image. *)
LEMMA WrittenOnce ==
  ASSUME LeakInv, [Next]_vars, Written'
  PROVE  Finish \/ (Written /\ image' = image)
<1>1. CASE UNCHANGED vars
  BY <1>1 DEF vars, Written
<1>2. CASE Next
  <2>1. ~(Start \/ Collect \/ AllocateNodes \/ AllocateRoots \/ EmitScalar \/ OpenContainer \/ CloseContainer
          \/ EmitFails \/ Again)
    BY DEF Start, Collect, AllocateNodes, AllocateRoots, EmitScalar, OpenContainer, CloseContainer,
           EmitFails, Again, Fail, Exit, Written
  <2>2. ~Unwind
    BY DEF Unwind, Exit, Written, LeakInv, Memory
  <2> QED BY <1>2, <2>1, <2>2 DEF Next
<1> QED BY <1>1, <1>2

(* For every tree, every hash and every nesting: in every image handed out *)
(* the root index and every block ascend by hash, as the binary search of  *)
(* the reader requires.                                                    *)
THEOREM ImagesSearchable == Spec => []EntriesSearchable
<1>1. Init => EntriesSearchable
  BY DEF Init, EntriesSearchable, Written
<1>2. ASSUME LeakInv, Layout, Search, EntriesSearchable, [Next]_vars PROVE EntriesSearchable'
  <2>1. CASE ~Written'
    BY <2>1 DEF EntriesSearchable
  <2>2. CASE Finish
    BY <1>2, <2>2, FinishSearch
  <2>3. CASE Written /\ image' = image
    BY <1>2, <2>3 DEF EntriesSearchable
  <2> QED BY <1>2, <2>1, <2>2, <2>3, WrittenOnce
<1> QED BY <1>1, <1>2, LeakInit, LeakStep, LayoutInit, LayoutStep, SearchInit, SearchStep, PTL DEF Spec
=============================================================================
