---------------------------- MODULE TreesProofs ----------------------------
(***************************************************************************)
(* The child lists of a tree of any size: each scope lists the nodes added *)
(* to it, all of them, once, in the order of their addition.               *)
(*                                                                         *)
(* The frames of a recursion over a document, and the text it writes: one  *)
(* for each choice of the containers' orders, made by a grammar.  The      *)
(* frames are a place in the text; what is written, with what is ahead of  *)
(* that place, is the text of every plan that agrees with the orders       *)
(* chosen so far.                                                          *)
(***************************************************************************)
EXTENDS Trees, WellFoundedInduction, FiniteSetTheorems, SequenceTheorems, TLAPS

(* Every set of numbers has a least one: the form of induction that needs  *)
(* no operator as a parameter.                                             *)
LEMMA LeastNat == ASSUME NEW T, T \subseteq Nat, T # {} PROVE \E x \in T : \A y \in T : x <= y
<1> DEFINE R == OpToRel(<, Nat)
<1>1. IsWellFoundedOn(R, Nat)
  BY NatLessThanWellFounded, Zenon
<1>2. \A x, y \in Nat : <<x, y>> \in R <=> x < y
  BY DEF OpToRel
<1> HIDE DEF R
<1>3. PICK x \in T : \A y \in T : ~(<<y, x>> \in R)
  BY <1>1, WFMin
<1>4. \A y \in T : y \in Nat /\ x \in Nat /\ ~(y < x)
  BY <1>2, <1>3
<1>5. \A y \in T : x <= y
  BY <1>4
<1> QED BY <1>5, <1>3

(* What holds of 0 and goes from each number to the next holds up to n. *)
LEMMA UpTo ==
  ASSUME NEW n \in Nat, NEW T,
         0 \in T,
         \A i \in 1 .. n : i - 1 \in T => i \in T
  PROVE  \A i \in 0 .. n : i \in T
<1> DEFINE U == {i \in 0 .. n : i \notin T}
<1> SUFFICES ASSUME U # {} PROVE FALSE
  OBVIOUS
<1>1. PICK x \in U : \A y \in U : x <= y
  <2>1. U \subseteq Nat
    OBVIOUS
  <2> HIDE DEF U
  <2> QED BY <2>1, LeastNat
<1>2. x # 0 /\ x \in 1 .. n /\ x - 1 \in 0 .. n
  BY <1>1
<1>3. x - 1 \notin U
  BY <1>1, <1>2
<1> QED BY <1>1, <1>2, <1>3

\* Function g starts from base and follows the steps.
Follows(n, S, base, next, g) ==
    /\ g \in [0 .. n -> S]
    /\ g[0] = base
    /\ \A i \in 1 .. n : g[i] = next[i][g[i - 1]]

(* A first value and a step for each number define a function. *)
LEMMA StepsDefine ==
  ASSUME NEW n \in Nat, NEW S, NEW base \in S,
         NEW next, \A i \in 1 .. n : \A x \in S : next[i][x] \in S
  PROVE  \E g : Follows(n, S, base, next, g)
<1> DEFINE Def(m, g) == g[0] = base /\ \A i \in 1 .. m : g[i] = next[i][g[i - 1]]
           T == {m \in Nat : \E g \in [0 .. m -> S] : Def(m, g)}
<1>1. 0 \in T
  <2> DEFINE g == [i \in 0 .. 0 |-> base]
  <2>1. g \in [0 .. 0 -> S] /\ Def(0, g)
    OBVIOUS
  <2> QED BY <2>1
<1>2. ASSUME NEW m \in 1 .. n, m - 1 \in T PROVE m \in T
  <2>1. PICK g \in [0 .. m - 1 -> S] : Def(m - 1, g)
    BY <1>2
  <2> DEFINE h == [i \in 0 .. m |-> IF i = m THEN next[m][g[m - 1]] ELSE g[i]]
  <2>2. next[m][g[m - 1]] \in S
    BY <2>1
  <2>3. h \in [0 .. m -> S]
    BY <2>1, <2>2
  <2>4. h[0] = base
    BY <2>1
  <2>5. ASSUME NEW i \in 1 .. m PROVE h[i] = next[i][h[i - 1]]
    BY <2>1
  <2> HIDE DEF h
  <2> QED BY <2>3, <2>4, <2>5
<1> HIDE DEF T
<1>3. \A i \in 0 .. n : i \in T
  BY <1>1, <1>2, UpTo
<1>4. n \in T
  BY <1>3
<1> QED BY <1>4 DEF T, Follows

-----------------------------------------------------------------------------
(* Sequences whose elements have no type of their own *)

IsSeq(s) == \E S : s \in Seq(S)

\* Its length is a number, its indices are those up to it.
LEMMA SeqFacts ==
  ASSUME NEW s, IsSeq(s)
  PROVE  Len(s) \in Nat /\ DOMAIN s = 1 .. Len(s)
<1>1. PICK S : s \in Seq(S)
  BY DEF IsSeq
<1> QED BY <1>1

\* The empty sequence is one of them.
LEMMA SeqEmpty == IsSeq(<<>>) /\ Len(<<>>) = 0
<1>1. <<>> \in Seq({})
  OBVIOUS
<1> QED BY <1>1 DEF IsSeq

\* And the only one of length 0.
LEMMA SeqNone == ASSUME NEW s, IsSeq(s), Len(s) = 0 PROVE s = <<>>
<1>1. PICK S : s \in Seq(S)
  BY DEF IsSeq
<1> QED BY <1>1

\* A sequence of one element.
LEMMA SeqOne ==
  ASSUME NEW e
  PROVE  IsSeq(<<e>>) /\ Len(<<e>>) = 1 /\ <<e>>[1] = e
<1>1. <<e>> \in Seq({e})
  OBVIOUS
<1> QED BY <1>1 DEF IsSeq

\* Appending adds the element at the end and keeps the others.
LEMMA SeqAppend ==
  ASSUME NEW s, IsSeq(s), NEW e
  PROVE  /\ IsSeq(Append(s, e)) /\ Len(Append(s, e)) = Len(s) + 1
         /\ Append(s, e)[Len(s) + 1] = e
         /\ \A k \in 1 .. Len(s) : Append(s, e)[k] = s[k]
<1>1. PICK S : s \in Seq(S)
  BY DEF IsSeq
<1> DEFINE T == S \cup {e}
<1>2. s \in Seq(T) /\ e \in T
  BY <1>1
<1> HIDE DEF T
<1>3. Append(s, e) \in Seq(T)
  BY <1>2
<1> QED BY <1>2, <1>3 DEF IsSeq

\* What is kept of a sequence that is cut is its beginning.
LEMMA SeqPrefix ==
  ASSUME NEW s, IsSeq(s), NEW m \in Nat, m <= Len(s)
  PROVE  /\ IsSeq(SubSeq(s, 1, m)) /\ Len(SubSeq(s, 1, m)) = m
         /\ \A k \in 1 .. m : SubSeq(s, 1, m)[k] = s[k]
<1>1. PICK S : s \in Seq(S)
  BY DEF IsSeq
<1>2. SubSeq(s, 1, m) \in Seq(S)
  BY <1>1
<1> QED BY <1>1, <1>2 DEF IsSeq

\* The stacks agree below place n.
SameBelow(s, t, n) == \A k \in 1 .. Len(s) : k < n => t[k] = s[k]

\* Replacing the last element keeps the others.
LEMMA SeqReplace ==
  ASSUME NEW s, IsSeq(s), Len(s) >= 1, NEW e, NEW t, t = [s EXCEPT ![Len(s)] = e]
  PROVE  IsSeq(t) /\ Len(t) = Len(s) /\ t[Len(s)] = e /\ SameBelow(s, t, Len(s))
<1>1. PICK S : s \in Seq(S)
  BY DEF IsSeq
<1> DEFINE T == S \cup {e}
<1>2. s \in Seq(T) /\ e \in T
  BY <1>1
<1> HIDE DEF T
<1>3. PICK n \in 1 .. Len(s) : n = Len(s)
  BY <1>2
<1>4. t = [s EXCEPT ![n] = e]
  BY <1>3
<1>5. t \in Seq(T) /\ Len(t) = Len(s)
  BY <1>2, <1>3, <1>4
<1>6. t[n] = e /\ \A k \in 1 .. Len(s) : k # n => t[k] = s[k]
  BY <1>2, <1>3, <1>4
<1> QED BY <1>3, <1>5, <1>6 DEF IsSeq, SameBelow

\* Joining one element is appending it.
LEMMA SeqSnoc == ASSUME NEW s, IsSeq(s), NEW e PROVE s \o <<e>> = Append(s, e)
<1>1. PICK S : s \in Seq(S)
  BY DEF IsSeq
<1>2. PICK T : s \in Seq(T) /\ e \in T
  <2>1. s \in Seq(S \cup {e}) /\ e \in S \cup {e}
    BY <1>1
  <2> QED BY <2>1
<1> QED BY <1>2

-----------------------------------------------------------------------------
\* A parent for each node.
Parents(f, n) == \A i \in 1 .. n : f[i] \in 0 .. n

\* A list of numbers, each greater than the one before it.
Ascends(s) ==
    /\ s \in Seq(Int)
    /\ \A j, k \in 1 .. Len(s) : j < k => s[j] < s[k]

\* The lists after the first i nodes have been added.
Listed(f, n, i, c) ==
    /\ c = [p \in 0 .. n |-> c[p]]
    /\ \A p \in 0 .. n : Ascends(c[p])
    /\ \A p \in 0 .. n : \A j \in 1 .. Len(c[p]) : c[p][j] \in 1 .. i /\ f[c[p][j]] = p
    /\ \A m \in 1 .. i : \E j \in 1 .. Len(c[f[m]]) : c[f[m]][j] = m

\* A sequence that ascends still does with a larger element at its end.
LEMMA AppendAscends ==
  ASSUME NEW s, Ascends(s), NEW i \in Int, \A j \in 1 .. Len(s) : s[j] < i
  PROVE  /\ Ascends(Append(s, i)) /\ Len(s) \in Nat /\ Len(Append(s, i)) = Len(s) + 1
         /\ Append(s, i)[Len(s) + 1] = i
         /\ \A j \in 1 .. Len(s) : Append(s, i)[j] = s[j]
  BY DEF Ascends

(* The next node goes to the end of its scope's list. *)
LEMMA ListedStep ==
  ASSUME NEW n \in Nat, NEW f, Parents(f, n), NEW i \in 1 .. n,
         NEW c, Listed(f, n, i - 1, c)
  PROVE  Listed(f, n, i, [c EXCEPT ![f[i]] = Append(@, i)])
<1> DEFINE s == c[f[i]]
           t == Append(s, i)
           d == [c EXCEPT ![f[i]] = Append(@, i)]
<1>1. f[i] \in 0 .. n /\ \A m \in 1 .. i : f[m] \in 0 .. n
  BY DEF Parents
<1>2. \A p \in 0 .. n : Ascends(c[p])
  BY DEF Listed
<1>3. \A p \in 0 .. n : \A j \in 1 .. Len(c[p]) : c[p][j] \in 1 .. i - 1 /\ f[c[p][j]] = p
  BY DEF Listed
<1>4. \A j \in 1 .. Len(s) : s[j] \in 1 .. i - 1 /\ s[j] < i
  BY <1>1, <1>3
<1>5. /\ Ascends(t) /\ Len(s) \in Nat /\ Len(t) = Len(s) + 1
      /\ t[Len(s) + 1] = i /\ \A j \in 1 .. Len(s) : t[j] = s[j]
  <2>1. i \in Int /\ Ascends(s)
    BY <1>1, <1>2
  <2> HIDE DEF s
  <2> QED BY <1>4, <2>1, AppendAscends, Zenon
<1>6. d = [p \in 0 .. n |-> d[p]] /\ \A p \in 0 .. n : d[p] = IF p = f[i] THEN t ELSE c[p]
  <2>1. c = [p \in 0 .. n |-> c[p]]
    BY DEF Listed
  <2> QED BY <1>1, <2>1
<1> HIDE DEF d, t
<1>7. \A p \in 0 .. n : Ascends(d[p])
  BY <1>2, <1>5, <1>6
<1>8. ASSUME NEW p \in 0 .. n, NEW j \in 1 .. Len(d[p]) PROVE d[p][j] \in 1 .. i /\ f[d[p][j]] = p
  <2>1. CASE p # f[i]
    <3>1. d[p] = c[p]
      BY <1>6, <2>1
    <3>2. c[p][j] \in 1 .. i - 1 /\ f[c[p][j]] = p
      BY <1>3, <3>1
    <3>3. c[p][j] \in 1 .. i
      BY <3>2
    <3> QED BY <3>1, <3>2, <3>3
  <2>2. CASE p = f[i]
    <3>1. d[p] = t
      BY <1>6, <2>2
    <3>2. j = Len(s) + 1 \/ j \in 1 .. Len(s)
      <4> HIDE DEF s
      <4> QED BY <1>5, <3>1
    <3>3. CASE j = Len(s) + 1
      BY <1>5, <2>2, <3>1, <3>3
    <3>4. CASE j \in 1 .. Len(s)
      <4>1. t[j] = s[j] /\ s[j] \in 1 .. i - 1 /\ f[s[j]] = p
        BY <1>1, <1>3, <1>5, <2>2, <3>4
      <4>2. s[j] \in 1 .. i
        <5> HIDE DEF s
        <5> QED BY <4>1
      <4> QED BY <3>1, <4>1, <4>2
    <3> QED BY <3>2, <3>3, <3>4
  <2> QED BY <2>1, <2>2
<1>9. ASSUME NEW m \in 1 .. i PROVE \E j \in 1 .. Len(d[f[m]]) : d[f[m]][j] = m
  <2>1. CASE m = i
    <3>1. d[f[m]] = t
      BY <1>1, <1>6, <2>1
    <3>2. Len(s) + 1 \in 1 .. Len(t) /\ t[Len(s) + 1] = m
      <4> HIDE DEF s
      <4> QED BY <1>5, <2>1
    <3> QED BY <3>1, <3>2
  <2>2. CASE m # i
    <3>1. m \in 1 .. i - 1
      BY <2>2
    <3>2. PICK j \in 1 .. Len(c[f[m]]) : c[f[m]][j] = m
      BY <3>1 DEF Listed
    <3>3. CASE f[m] = f[i]
      <4>1. d[f[m]] = t /\ j \in 1 .. Len(s) /\ s[j] = m
        BY <1>1, <1>6, <3>2, <3>3
      <4>2. j \in 1 .. Len(t) /\ t[j] = m
        <5> HIDE DEF s
        <5> QED BY <1>5, <4>1
      <4> QED BY <4>1, <4>2
    <3>4. CASE f[m] # f[i]
      <4>1. d[f[m]] = c[f[m]]
        BY <1>1, <1>6, <3>4
      <4> QED BY <3>2, <4>1
    <3> QED BY <3>3, <3>4
  <2> QED BY <2>1, <2>2
<1> QED BY <1>6, <1>7, <1>8, <1>9 DEF Listed, d

(* The lists of all nodes. *)
LEMMA ChildrenListed ==
  ASSUME NEW n \in Nat, NEW f, Parents(f, n)
  PROVE  Listed(f, n, n, ChildLists(f, n))
<1> DEFINE none == [p \in 0 .. n |-> <<>>]
           Eq(g) == g = [i \in 0 .. n |-> IF i = 0 THEN none
                                          ELSE [g[i - 1] EXCEPT ![f[i]] = Append(@, i)]]
           lists == CHOOSE g : Eq(g)
           S == [0 .. n -> Seq(Int)]
           add(i, c) == [c EXCEPT ![f[i]] = Append(@, i)]
           next == [i \in 1 .. n |-> [c \in S |-> add(i, c)]]
<1>1. ChildLists(f, n) = lists[n]
  BY DEF ChildLists
<1>2. \E g : Eq(g)
  <2>1. none \in S
    OBVIOUS
  <2>2. next \in [1 .. n -> [S -> S]]
    <3>1. ASSUME NEW i \in 1 .. n, NEW c \in S PROVE add(i, c) \in S
      <4>1. i \in Int
        OBVIOUS
      <4>2. \A q \in Seq(Int) : Append(q, i) \in Seq(Int)
        BY <4>1
      <4> QED BY <4>2, Zenon
    <3> HIDE DEF S, add
    <3> QED BY <3>1
  <2> HIDE DEF S, none, add
  <2>3. PICK g \in [0 .. n -> S] : g[0] = none /\ \A i \in 1 .. n : g[i] = next[i][g[i - 1]]
    <3> HIDE DEF next
    <3>1. \A i \in 1 .. n : \A c \in S : next[i][c] \in S
      BY <2>2
    <3>2. \E g : Follows(n, S, none, next, g)
      BY <2>1, <3>1, StepsDefine
    <3> QED BY <3>2 DEF Follows
  <2>4. ASSUME NEW i \in 1 .. n PROVE g[i] = add(i, g[i - 1])
    <3>1. i - 1 \in 0 .. n
      OBVIOUS
    <3>2. g[i - 1] \in S
      BY <2>3, <3>1, Zenon
    <3>3. next[i][g[i - 1]] = add(i, g[i - 1])
      BY <3>2
    <3> QED BY <2>3, <3>3
  <2>5. Eq(g)
    <3> DEFINE e(i) == IF i = 0 THEN none ELSE add(i, g[i - 1])
    <3>1. \A i \in 0 .. n : g[i] = e(i)
      BY <2>3, <2>4
    <3> HIDE DEF e
    <3>2. g = [i \in 0 .. n |-> e(i)]
      BY <3>1
    <3> QED BY <3>2, Zenon DEF e, add
  <2> QED BY <2>5
<1>3. lists[0] = none /\ \A i \in 1 .. n : lists[i] = add(i, lists[i - 1])
  <2> HIDE DEF Eq
  <2>1. Eq(lists)
    BY <1>2
  <2> HIDE DEF lists, none
  <2> DEFINE e(i) == IF i = 0 THEN none ELSE add(i, lists[i - 1])
  <2>2. lists = [i \in 0 .. n |-> e(i)]
    BY <2>1, Zenon DEF Eq
  <2> HIDE DEF e, add
  <2>3. \A i \in 0 .. n : lists[i] = e(i)
    BY <2>2
  <2> QED BY <2>3 DEF e
<1> DEFINE T == {i \in 0 .. n : Listed(f, n, i, lists[i])}
<1> HIDE DEF lists, Eq
<1>4. 0 \in T
  <2>1. none = [p \in 0 .. n |-> none[p]] /\ \A p \in 0 .. n : Len(none[p]) = 0 /\ none[p] \in Seq(Int)
    OBVIOUS
  <2> HIDE DEF none
  <2>2. \A p \in 0 .. n : Ascends(none[p])
    BY <2>1 DEF Ascends
  <2>3. Listed(f, n, 0, none)
    BY <2>1, <2>2 DEF Listed
  <2> QED BY <1>3, <2>3
<1>5. ASSUME NEW i \in 1 .. n, i - 1 \in T PROVE i \in T
  <2>1. Listed(f, n, i - 1, lists[i - 1])
    BY <1>5
  <2>2. Listed(f, n, i, [lists[i - 1] EXCEPT ![f[i]] = Append(@, i)])
    BY <2>1, ListedStep
  <2>3. lists[i] = [lists[i - 1] EXCEPT ![f[i]] = Append(@, i)]
    BY <1>3, Zenon
  <2> QED BY <2>2, <2>3
<1> HIDE DEF T
<1>6. n \in T
  <2>1. \A i \in 0 .. n : i \in T
    BY <1>4, <1>5, UpTo
  <2> QED BY <2>1
<1> QED BY <1>1, <1>6 DEF T

-----------------------------------------------------------------------------
(* Frames of a recursion: what is held for them *)

NodeOf(s, k) == s[k].node

FrameRec(f) == f = [node |-> f.node, order |-> f.order, done |-> f.done]

FrameList(s) == IsSeq(s) /\ \A k \in 1 .. Len(s) : FrameRec(s[k])

HeldFor(s) == {<<"entries", NodeOf(s, k)>> : k \in 1 .. Len(s)}

Pushed(s, f, t) == t = Append(s, f)

\* The same frames, the last one further on.
Later(s, t) == t = [s EXCEPT ![Len(s)].done = @ + 1]

\* A frame whose done is counted up is a frame.
LEMMA RecordAdvanced ==
  ASSUME NEW f, FrameRec(f), NEW g, g = [f EXCEPT !.done = @ + 1]
  PROVE  FrameRec(g) /\ g.node = f.node /\ g.order = f.order /\ g.done = f.done + 1
<1>1. PICK a, b, c : f = [node |-> a, order |-> b, done |-> c]
  BY DEF FrameRec
<1>2. g = [node |-> a, order |-> b, done |-> c + 1]
  BY <1>1
<1> QED BY <1>1, <1>2 DEF FrameRec

\* Before the first frame nothing is held.
LEMMA FramesEmpty == FrameList(<<>>) /\ HeldFor(<<>>) = {} /\ Len(<<>>) = 0
  BY SeqEmpty DEF FrameList, HeldFor

\* The root's frame.
LEMMA FramesOne ==
  ASSUME NEW f, FrameRec(f)
  PROVE  FrameList(<<f>>) /\ Len(<<f>>) = 1 /\ <<f>>[1] = f /\ HeldFor(<<f>>) = {<<"entries", f.node>>}
<1>1. IsSeq(<<f>>) /\ Len(<<f>>) = 1 /\ <<f>>[1] = f
  BY SeqOne
<1>2. \A k \in 1 .. 1 : k = 1
  OBVIOUS
<1> QED BY <1>1, <1>2 DEF FrameList, HeldFor, NodeOf

\* A frame more: its entries are held too.
LEMMA FramesPush ==
  ASSUME NEW s, FrameList(s), NEW f, FrameRec(f), NEW t, Pushed(s, f, t)
  PROVE  /\ FrameList(t) /\ Len(t) = Len(s) + 1 /\ Len(s) \in Nat
         /\ t[Len(s) + 1] = f /\ \A k \in 1 .. Len(s) : t[k] = s[k]
         /\ HeldFor(t) = HeldFor(s) \cup {<<"entries", f.node>>}
<1>1. /\ IsSeq(t) /\ Len(t) = Len(s) + 1 /\ Len(s) \in Nat
      /\ t[Len(s) + 1] = f /\ \A k \in 1 .. Len(s) : t[k] = s[k]
  BY SeqAppend, SeqFacts DEF FrameList, Pushed
<1>2. PICK n \in Nat : n = Len(s)
  BY <1>1
<1>3. \A k \in 1 .. Len(t) : k = n + 1 \/ k \in 1 .. n
  BY <1>1, <1>2
<1>4. n + 1 \in 1 .. Len(t) /\ \A k \in 1 .. n : k \in 1 .. Len(t)
  BY <1>1, <1>2
<1>5. FrameList(t)
  BY <1>1, <1>2, <1>3 DEF FrameList
<1>6. HeldFor(t) = HeldFor(s) \cup {<<"entries", f.node>>}
  BY <1>1, <1>2, <1>3, <1>4 DEF HeldFor, NodeOf
<1> QED BY <1>1, <1>5, <1>6

\* A frame less: all but its entries are still held.
LEMMA FramesPop ==
  ASSUME NEW s, FrameList(s), Len(s) >= 1, NEW t, t = SubSeq(s, 1, Len(s) - 1)
  PROVE  /\ FrameList(t) /\ Len(s) \in Nat /\ Len(t) = Len(s) - 1
         /\ \A k \in 1 .. Len(t) : t[k] = s[k]
         /\ HeldFor(s) \ {<<"entries", NodeOf(s, Len(s))>>} \subseteq HeldFor(t)
<1>1. Len(s) \in Nat
  BY SeqFacts DEF FrameList
<1>2. PICK n \in Nat : n = Len(s) - 1 /\ n <= Len(s) /\ n + 1 = Len(s)
  BY <1>1
<1>3. IsSeq(t) /\ Len(t) = n /\ \A k \in 1 .. n : t[k] = s[k]
  BY <1>2, SeqPrefix DEF FrameList
<1>4. \A k \in 1 .. Len(s) : k = n + 1 \/ k \in 1 .. n
  BY <1>2
<1>5. FrameList(t)
  BY <1>2, <1>3 DEF FrameList
<1>6. HeldFor(s) \ {<<"entries", NodeOf(s, Len(s))>>} \subseteq HeldFor(t)
  BY <1>2, <1>3, <1>4 DEF HeldFor, NodeOf
<1> QED BY <1>1, <1>2, <1>3, <1>5, <1>6

\* The last frame is further on: what is held stays.
LEMMA FramesLater ==
  ASSUME NEW s, FrameList(s), Len(s) >= 1, NEW t, Later(s, t)
  PROVE  /\ FrameList(t) /\ Len(s) \in Nat /\ Len(t) = Len(s) /\ SameBelow(s, t, Len(s))
         /\ t[Len(s)].node = s[Len(s)].node /\ t[Len(s)].order = s[Len(s)].order
         /\ t[Len(s)].done = s[Len(s)].done + 1
         /\ HeldFor(t) = HeldFor(s)
<1>1. Len(s) \in Nat /\ Len(s) \in 1 .. Len(s)
  BY SeqFacts DEF FrameList
<1>2. PICK n \in Nat : n = Len(s) /\ n \in 1 .. n
  BY <1>1
<1>3. PICK f : f = s[n] /\ FrameRec(f)
  BY <1>2 DEF FrameList
<1>4. PICK g : g = [f EXCEPT !.done = @ + 1]
  OBVIOUS
<1>5. FrameRec(g) /\ g.node = f.node /\ g.order = f.order /\ g.done = f.done + 1
  BY <1>3, <1>4, RecordAdvanced
<1>6. t = [s EXCEPT ![Len(s)] = g]
  BY <1>2, <1>3, <1>4 DEF Later
<1>7. IsSeq(t) /\ Len(t) = n /\ t[n] = g /\ SameBelow(s, t, n)
  BY <1>1, <1>2, <1>6, SeqReplace DEF FrameList
<1>8. \A k \in 1 .. n : k = n \/ (k < n /\ t[k] = s[k])
  BY <1>2, <1>7 DEF SameBelow
<1>9. FrameList(t)
  BY <1>2, <1>5, <1>7, <1>8 DEF FrameList
<1>10. \A k \in 1 .. n : NodeOf(t, k) = NodeOf(s, k)
  BY <1>2, <1>3, <1>5, <1>7, <1>8 DEF NodeOf
<1>11. HeldFor(t) = HeldFor(s)
  BY <1>2, <1>7, <1>10 DEF HeldFor
<1> QED BY <1>2, <1>3, <1>5, <1>7, <1>9, <1>11

-----------------------------------------------------------------------------
(* The document of a reader *)

KidSet(d, p) == {d.children[p][k] : k \in DOMAIN d.children[p]}

DocTree(d) ==
    /\ d.size \in Nat
    /\ \A p \in 0 .. d.size : d.children[p] \in Seq(p + 1 .. d.size)
    /\ \A p \in 0 .. d.size : \A j, k \in DOMAIN d.children[p] :
           d.children[p][j] = d.children[p][k] => j = k
    /\ \A c \in 1 .. d.size : \E p \in 0 .. d.size : c \in KidSet(d, p)
    /\ \A p, q \in 0 .. d.size : \A c \in KidSet(d, p) : c \in KidSet(d, q) => p = q

\* The lists of children of a forest make a tree.
LEMMA ListsAreTree ==
  ASSUME NEW n \in Nat, NEW f \in Forests(n), NEW d, d.size = n, d.children = ChildLists(f, n)
  PROVE  DocTree(d)
<1> DEFINE c == ChildLists(f, n)
<1>1. \A i \in 1 .. n : f[i] \in 0 .. n - 1 /\ f[i] < i
  BY DEF Forests
<1>2. Listed(f, n, n, c)
  <2>1. Parents(f, n)
    BY <1>1 DEF Parents
  <2> QED BY <2>1, ChildrenListed
<1> HIDE DEF c
<1>3. \A p \in 0 .. n : Ascends(c[p]) /\ DOMAIN c[p] = 1 .. Len(c[p])
  BY <1>2 DEF Listed, Ascends
<1>4. \A p \in 0 .. n : \A j \in 1 .. Len(c[p]) : c[p][j] \in 1 .. n /\ f[c[p][j]] = p
  BY <1>2 DEF Listed
<1>5. \A m \in 1 .. n : \E j \in 1 .. Len(c[f[m]]) : c[f[m]][j] = m
  BY <1>2 DEF Listed
<1>6. d.size = n /\ d.children = c
  BY DEF c
<1>7. ASSUME NEW p \in 0 .. n PROVE c[p] \in Seq(p + 1 .. n)
  <2>1. \A j \in 1 .. Len(c[p]) : c[p][j] \in p + 1 .. n
    BY <1>1, <1>4
  <2>2. c[p] \in Seq(Int)
    BY <1>3 DEF Ascends
  <2> QED BY SMTT(30), <2>1, <2>2
<1>8. ASSUME NEW p \in 0 .. n, NEW j \in 1 .. Len(c[p]), NEW k \in 1 .. Len(c[p]), c[p][j] = c[p][k]
      PROVE  j = k
  <2>1. Ascends(c[p]) /\ c[p][j] \in Int /\ c[p][k] \in Int
    BY <1>3, <1>4
  <2>2. j \in Nat /\ k \in Nat /\ (j = k \/ j < k \/ k < j)
    BY <1>3
  <2>3. (j < k => c[p][j] < c[p][k]) /\ (k < j => c[p][k] < c[p][j])
    <3> DEFINE s == c[p]
    <3>1. \A x, y \in 1 .. Len(s) : x < y => s[x] < s[y]
      BY <2>1 DEF Ascends
    <3> HIDE DEF s
    <3>2. j \in 1 .. Len(s) /\ k \in 1 .. Len(s)
      BY DEF s
    <3>3. (j < k => s[j] < s[k]) /\ (k < j => s[k] < s[j])
      BY <3>1, <3>2
    <3> QED BY <3>3 DEF s
  <2> QED BY <1>8, <2>1, <2>2, <2>3
<1>9. ASSUME NEW m \in 1 .. n PROVE f[m] \in 0 .. n /\ m \in KidSet(d, f[m])
  <2>1. f[m] \in 0 .. n
    BY <1>1
  <2>2. PICK j \in 1 .. Len(c[f[m]]) : c[f[m]][j] = m
    BY <1>5
  <2>3. j \in DOMAIN d.children[f[m]] /\ d.children[f[m]][j] = m
    BY <1>3, <1>6, <2>1, <2>2
  <2> QED BY <2>1, <2>3 DEF KidSet
<1>10. \A p \in 0 .. n : \A m \in KidSet(d, p) : f[m] = p
  BY <1>3, <1>4, <1>6 DEF KidSet
<1>11. \A p \in 0 .. d.size : d.children[p] \in Seq(p + 1 .. d.size)
  BY <1>6, <1>7
<1>12. \A p \in 0 .. d.size : \A j, k \in DOMAIN d.children[p] :
           d.children[p][j] = d.children[p][k] => j = k
  BY <1>3, <1>6, <1>8
<1>13. \A m \in 1 .. d.size : \E p \in 0 .. d.size : m \in KidSet(d, p)
  BY <1>6, <1>9
<1>14. \A p, q \in 0 .. d.size : \A m \in KidSet(d, p) : m \in KidSet(d, q) => p = q
  <2>1. \A p, q \in 0 .. n : \A m \in KidSet(d, p) : m \in KidSet(d, q) => p = q
    BY <1>10, Zenon
  <2> QED BY <1>6, <2>1
<1>15. d.size \in Nat
  BY <1>6
<1> QED BY <1>11, <1>12, <1>13, <1>14, <1>15 DEF DocTree

(* The entries of one container are finitely many. *)
LEMMA KidsFinite ==
  ASSUME NEW d, DocTree(d), NEW p \in 0 .. d.size
  PROVE  IsFiniteSet(KidSet(d, p)) /\ KidSet(d, p) \subseteq p + 1 .. d.size
<1>1. d.size \in Nat /\ d.children[p] \in Seq(p + 1 .. d.size) /\ p \in Int
  BY DEF DocTree
<1>2. KidSet(d, p) \subseteq p + 1 .. d.size
  BY <1>1 DEF KidSet
<1>3. IsFiniteSet(p + 1 .. d.size)
  <2>1. p + 1 \in Int /\ d.size \in Int
    BY <1>1
  <2> QED BY <2>1, FS_Interval
<1> QED BY <1>2, <1>3, FS_Subset

(* An order of a finite set has each element once. *)
LEMMA OrderOfSet ==
  ASSUME NEW S, IsFiniteSet(S), NEW order \in [1 .. Cardinality(S) -> S],
         \A i, j \in 1 .. Cardinality(S) : i # j => order[i] # order[j]
  PROVE  order \in Seq(S) /\ Len(order) = Cardinality(S)
<1>1. Cardinality(S) \in Nat
  BY FS_CardinalityType
<1> QED BY <1>1

-----------------------------------------------------------------------------
(* The text of a document: a grammar, the orders of the containers' entries *)
(* and the texts they make                                                  *)

Tok == {"key", "value", "null", "[", "]", "{", "}", ",", ":",
        "stream", "document", "end of document", "end of stream", "indeterminate"} \X Nat

\* An order of the entries of container p.
OrderOf(d, p, x) ==
    /\ x \in Seq(KidSet(d, p)) /\ Len(x) <= d.size
    /\ \A j, k \in 1 .. Len(x) : x[j] = x[k] => j = k
    /\ \A c \in KidSet(d, p) : \E k \in 1 .. Len(x) : x[k] = c

\* What an exporter writes: the orders it may take, and the pieces of the text.
Grammar(d, g) ==
    /\ \A p \in 0 .. d.size : g.orders[p] # {} /\ \A x \in g.orders[p] : OrderOf(d, p, x)
    /\ \A i \in 0 .. d.size : g.begin[i] \in Seq(Tok) /\ g.end[i] \in Seq(Tok)
    /\ \A i \in 0 .. d.size, k \in 1 .. d.size, c \in 1 .. d.size : g.lead[i][k][c] \in Seq(Tok)

Plan(d, g, o) == \A p \in 0 .. d.size : o[p] \in g.orders[p]

\* The text of node i from its k-th entry on.
TextAt(g, o, r, i, k) ==
    IF k > Len(o[i]) THEN g.end[i]
    ELSE g.lead[i][k][o[i][k]] \o (g.begin[o[i][k]] \o (r[<<o[i][k], 1>>] \o r[<<i, k + 1>>]))

TextRow(d, g, o, r, i) ==
    \A k \in 1 .. d.size + 1 : r[<<i, k>>] \in Seq(Tok) /\ r[<<i, k>>] = TextAt(g, o, r, i, k)

TextsOf(d, g, o, r) == \A i \in 0 .. d.size : TextRow(d, g, o, r, i)

Grid(d) == (0 .. d.size) \X (1 .. d.size + 1)

\* The entries of a container are numbers past its own.
LEMMA PlanOrder ==
  ASSUME NEW d, DocTree(d), NEW g, Grammar(d, g), NEW o, Plan(d, g, o), NEW i \in 0 .. d.size
  PROVE  /\ d.size \in Nat /\ OrderOf(d, i, o[i])
         /\ o[i] \in Seq(i + 1 .. d.size) /\ Len(o[i]) \in 0 .. d.size
         /\ \A k \in 1 .. Len(o[i]) :
               o[i][k] \in i + 1 .. d.size /\ o[i][k] \in 1 .. d.size /\ o[i][k] \in 0 .. d.size /\ k \in 1 .. d.size
<1>1. d.size \in Nat /\ OrderOf(d, i, o[i])
  BY DEF DocTree, Grammar, Plan
<1>2. KidSet(d, i) \subseteq i + 1 .. d.size
  BY KidsFinite
<1>0. PICK x : x = o[i]
  OBVIOUS
<1>3. PICK n \in Nat : x = o[i] /\ n = d.size
  BY <1>0, <1>1
<1>4. x \in Seq(KidSet(d, i)) /\ Len(x) <= n
  BY <1>1, <1>3 DEF OrderOf
<1>5. PICK S : S = i + 1 .. n /\ KidSet(d, i) \subseteq S
  BY <1>2, <1>3
<1>6. x \in Seq(S) /\ Len(x) \in 0 .. n
  BY <1>4, <1>5
<1>7. ASSUME NEW k \in 1 .. Len(x)
      PROVE  x[k] \in i + 1 .. n /\ x[k] \in 1 .. n /\ x[k] \in 0 .. n /\ k \in 1 .. n
  <2>1. x[k] \in S /\ k \in 1 .. n
    BY <1>6
  <2>2. \A y \in i + 1 .. n : y \in 1 .. n /\ y \in 0 .. n
    OBVIOUS
  <2> QED BY <2>1, <2>2, <1>5
<1> QED BY <1>1, <1>3, <1>5, <1>6, <1>7

\* Every plan has its texts: from the last node back, and from the last entry.
LEMMA TextsExist ==
  ASSUME NEW d, DocTree(d), NEW g, Grammar(d, g), NEW o, Plan(d, g, o)
  PROVE  \E r \in [Grid(d) -> Seq(Tok)] : TextsOf(d, g, o, r)
<1>1. PICK N \in Nat : N = d.size
  BY DEF DocTree
<1> DEFINE Good(m, r) == \A i \in m .. N : TextRow(d, g, o, r, i)
           T == {j \in 0 .. N + 1 : \E r \in [Grid(d) -> Seq(Tok)] : Good(N + 1 - j, r)}
<1>2. 0 \in T
  <2>1. <<>> \in Seq(Tok)
    OBVIOUS
  <2>2. [x \in Grid(d) |-> <<>>] \in [Grid(d) -> Seq(Tok)]
    BY <2>1
  <2>3. N + 1 .. N = {} /\ 0 \in 0 .. N + 1 /\ N + 1 - 0 = N + 1
    OBVIOUS
  <2> QED BY <2>2, <2>3
<1>3. ASSUME NEW j \in 1 .. N + 1, j - 1 \in T PROVE j \in T
  <2>1. PICK m \in 0 .. N : m = N + 1 - j /\ m + 1 = N + 1 - (j - 1)
    OBVIOUS
  <2>2. PICK r \in [Grid(d) -> Seq(Tok)] : Good(m + 1, r)
    BY <1>3, <2>1
  <2>3. PICK x : x = o[m]
    OBVIOUS
  <2>4. /\ x \in Seq(m + 1 .. N) /\ Len(x) \in 0 .. N
        /\ \A k \in 1 .. Len(x) : x[k] \in m + 1 .. N /\ x[k] \in 1 .. N /\ x[k] \in 0 .. N /\ k \in 1 .. N
    BY <1>1, <2>3, PlanOrder
  <2> DEFINE S == Seq(Tok)
             val(k, y) == IF k > Len(x) THEN g.end[m]
                          ELSE g.lead[m][k][x[k]] \o (g.begin[x[k]] \o (r[<<x[k], 1>>] \o y))
             next == [i \in 1 .. N |-> [y \in S |-> val(N + 1 - i, y)]]
  <2>5. g.end[m] \in S
    BY <1>1 DEF Grammar
  <2>6. ASSUME NEW k \in 1 .. N, NEW y \in S PROVE val(k, y) \in S
    <3>1. CASE k > Len(x)
      BY <2>5, <3>1
    <3>2. CASE ~(k > Len(x))
      <4>1. PICK c \in 1 .. N : c = x[k] /\ c \in 0 .. N
        BY <2>4, <3>2
      <4>2. r[<<c, 1>>] \in S
        <5>1. <<c, 1>> \in Grid(d)
          BY <1>1, <4>1 DEF Grid
        <5> QED BY <5>1
      <4>3. g.lead[m][k][c] \in S /\ g.begin[c] \in S
        BY <1>1, <4>1 DEF Grammar
      <4>4. g.lead[m][k][c] \o (g.begin[c] \o (r[<<c, 1>>] \o y)) \in S
        <5> HIDE DEF val, next
        <5> QED BY <4>2, <4>3, ConcatProperties
      <4> QED BY <3>2, <4>1, <4>4
    <3> QED BY <3>1, <3>2
  <2>7. \A i \in 1 .. N : \A y \in S : next[i][y] = val(N + 1 - i, y) /\ N + 1 - i \in 1 .. N
    OBVIOUS
  <2> HIDE DEF val, next, S
  <2>8. \A i \in 1 .. N : \A y \in S : next[i][y] \in S
    BY <2>6, <2>7
  <2>9. PICK h : Follows(N, S, g.end[m], next, h)
    BY <2>5, <2>8, StepsDefine
  <2>10. h \in [0 .. N -> S] /\ h[0] = g.end[m] /\ \A i \in 1 .. N : h[i] = val(N + 1 - i, h[i - 1])
    <3>1. h \in [0 .. N -> S] /\ h[0] = g.end[m] /\ \A i \in 1 .. N : h[i] = next[i][h[i - 1]]
      BY <2>9 DEF Follows
    <3>2. \A i \in 1 .. N : i - 1 \in 0 .. N
      OBVIOUS
    <3> QED BY <2>7, <3>1, <3>2
  <2> DEFINE t == [e \in Grid(d) |-> IF e[1] = m THEN h[N + 1 - e[2]] ELSE r[e]]
  <2>11. /\ \A k \in 1 .. N + 1 : t[<<m, k>>] = h[N + 1 - k]
         /\ \A i \in 0 .. N, k \in 1 .. N + 1 : i # m => t[<<i, k>>] = r[<<i, k>>]
    <3>1. \A i \in 0 .. N, k \in 1 .. N + 1 : <<i, k>> \in Grid(d) /\ <<i, k>>[1] = i /\ <<i, k>>[2] = k
      BY <1>1 DEF Grid
    <3> QED BY <3>1
  <2>12. t \in [Grid(d) -> S]
    <3>1. ASSUME NEW e \in Grid(d) PROVE (IF e[1] = m THEN h[N + 1 - e[2]] ELSE r[e]) \in S
      <4>1. PICK i \in 0 .. N, k \in 1 .. N + 1 : e = <<i, k>>
        BY <1>1 DEF Grid
      <4>2. N + 1 - e[2] \in 0 .. N
        BY <4>1
      <4>3. r[e] \in S
        BY DEF S
      <4> QED BY <2>10, <4>2, <4>3
    <3> QED BY <3>1
  <2> HIDE DEF t
  <2>13. TextRow(d, g, o, t, m)
    <3> SUFFICES ASSUME NEW k \in 1 .. N + 1 PROVE t[<<m, k>>] \in S /\ t[<<m, k>>] = TextAt(g, o, t, m, k)
      BY <1>1 DEF TextRow, S
    <3>1. t[<<m, k>>] \in S
      <4>1. N + 1 - k \in 0 .. N
        OBVIOUS
      <4> QED BY <2>10, <2>11, <4>1
    <3>2. CASE k = N + 1
      <4>1. k > Len(x) /\ N + 1 - k = 0
        BY <2>4, <3>2
      <4> QED BY <2>3, <2>10, <2>11, <3>1, <4>1 DEF TextAt
    <3>3. CASE k # N + 1
      <4>1. PICK i \in 1 .. N : i = N + 1 - k /\ k = N + 1 - i /\ i - 1 = N + 1 - (k + 1) /\ k + 1 \in 1 .. N + 1
        BY <3>3
      <4>2. t[<<m, k>>] = val(k, t[<<m, k + 1>>])
        BY <2>10, <2>11, <4>1
      <4>3. ASSUME ~(k > Len(x)) PROVE t[<<x[k], 1>>] = r[<<x[k], 1>>]
        <5>1. x[k] \in m + 1 .. N /\ x[k] \in 0 .. N
          BY <2>4, <4>3
        <5>2. x[k] # m /\ 1 \in 1 .. N + 1
          BY <5>1
        <5> QED BY <2>11, <5>1, <5>2
      <4> QED BY <2>3, <3>1, <4>2, <4>3 DEF TextAt, val
    <3> QED BY <3>2, <3>3
  <2>14. ASSUME NEW i \in m + 1 .. N PROVE TextRow(d, g, o, t, i)
    <3>1. TextRow(d, g, o, r, i) /\ i \in 0 .. N /\ i # m
      BY <2>2
    <3>2. /\ Len(o[i]) \in 0 .. N
          /\ \A k \in 1 .. Len(o[i]) : o[i][k] \in i + 1 .. N /\ o[i][k] \in 0 .. N /\ k \in 1 .. N
      BY <1>1, <3>1, PlanOrder
    <3> SUFFICES ASSUME NEW k \in 1 .. N + 1 PROVE t[<<i, k>>] \in Seq(Tok) /\ t[<<i, k>>] = TextAt(g, o, t, i, k)
      BY <1>1 DEF TextRow
    <3>3. t[<<i, k>>] = r[<<i, k>>] /\ r[<<i, k>>] \in Seq(Tok) /\ r[<<i, k>>] = TextAt(g, o, r, i, k)
      BY <1>1, <2>11, <3>1 DEF TextRow
    <3>4. ASSUME ~(k > Len(o[i])) PROVE t[<<o[i][k], 1>>] = r[<<o[i][k], 1>>] /\ t[<<i, k + 1>>] = r[<<i, k + 1>>]
      <4>1. o[i][k] \in i + 1 .. N /\ o[i][k] \in 0 .. N /\ k \in 1 .. N
        BY <3>2, <3>4
      <4>2. o[i][k] # m /\ 1 \in 1 .. N + 1 /\ k + 1 \in 1 .. N + 1
        BY <4>1
      <4> QED BY <2>11, <3>1, <4>1, <4>2
    <3> QED BY <3>3, <3>4 DEF TextAt
  <2>15. Good(m, t)
    <3>1. \A i \in m .. N : i = m \/ i \in m + 1 .. N
      OBVIOUS
    <3> QED BY <2>13, <2>14, <3>1
  <2> QED BY <2>1, <2>12, <2>15 DEF S
<1> HIDE DEF T
<1>4. N + 1 \in T
  <2>1. N + 1 \in Nat /\ N + 1 \in 0 .. N + 1
    OBVIOUS
  <2>2. \A i \in 0 .. N + 1 : i \in T
    BY <1>2, <1>3, <2>1, UpTo
  <2> QED BY <2>1, <2>2
<1>5. PICK r \in [Grid(d) -> Seq(Tok)] : Good(N + 1 - (N + 1), r)
  BY <1>4 DEF T
<1>6. N + 1 - (N + 1) = 0
  OBVIOUS
<1> QED BY <1>1, <1>5, <1>6 DEF TextsOf

\* Each element of S once, by ascending keys.
Sorts(S, key, x) ==
    /\ x \in [1 .. Cardinality(S) -> S]
    /\ \A i, j \in 1 .. Cardinality(S) : i # j => x[i] # x[j]
    /\ \A i, j \in 1 .. Cardinality(S) : i < j => key[x[i]] <= key[x[j]]

(* A set of nodes can be sorted by key: the least first. *)
LEMMA SortedOrder ==
  ASSUME NEW N \in Nat, NEW key, \A i \in 1 .. N : key[i] \in Nat, NEW S, S \subseteq 1 .. N
  PROVE  \E x : Sorts(S, key, x)
<1> DEFINE T == {n \in 0 .. N : \A Q \in SUBSET (1 .. N) : Cardinality(Q) = n => \E x : Sorts(Q, key, x)}
<1>0. \A Q \in SUBSET (1 .. N) : IsFiniteSet(Q) /\ Cardinality(Q) \in 0 .. N
  <2>1. IsFiniteSet(1 .. N) /\ Cardinality(1 .. N) = N
    BY FS_Interval
  <2> TAKE Q \in SUBSET (1 .. N)
  <2>2. IsFiniteSet(Q) /\ Cardinality(Q) <= N
    BY <2>1, FS_Subset
  <2>3. Cardinality(Q) \in Nat
    BY <2>2, FS_CardinalityType
  <2> QED BY <2>2, <2>3
<1>1. 0 \in T
  <2> SUFFICES ASSUME NEW Q \in SUBSET (1 .. N), Cardinality(Q) = 0 PROVE \E x : Sorts(Q, key, x)
    OBVIOUS
  <2>1. PICK x : x = [i \in 1 .. 0 |-> 0]
    OBVIOUS
  <2>2. 1 .. 0 = {}
    OBVIOUS
  <2>3. x \in [1 .. 0 -> Q]
    BY <2>1, <2>2
  <2> QED BY <2>2, <2>3 DEF Sorts
<1>2. ASSUME NEW n \in 1 .. N, n - 1 \in T PROVE n \in T
  <2> SUFFICES ASSUME NEW Q \in SUBSET (1 .. N), Cardinality(Q) = n PROVE \E x : Sorts(Q, key, x)
    OBVIOUS
  <2>1. IsFiniteSet(Q) /\ Q # {}
    BY <1>0, FS_EmptySet
  <2>2. PICK m \in Q : \A i \in Q : key[m] <= key[i]
    <3> DEFINE V == {key[i] : i \in Q}
    <3>1. V \subseteq Nat /\ V # {}
      BY <2>1
    <3> HIDE DEF V
    <3>2. PICK v \in V : \A w \in V : v <= w
      BY <3>1, LeastNat
    <3> QED BY <3>2 DEF V
  <2>3. PICK R \in SUBSET (1 .. N) : R = Q \ {m}
    OBVIOUS
  <2>4. Cardinality(R) = n - 1
    BY <2>1, <2>3, FS_RemoveElement
  <2>5. PICK y : Sorts(R, key, y)
    BY <1>2, <2>4
  <2>6. /\ y \in [1 .. n - 1 -> R]
        /\ \A i, j \in 1 .. n - 1 : i # j => y[i] # y[j]
        /\ \A i, j \in 1 .. n - 1 : i < j => key[y[i]] <= key[y[j]]
    BY <2>4, <2>5 DEF Sorts
  <2> DEFINE x == [i \in 1 .. n |-> IF i = 1 THEN m ELSE y[i - 1]]
  <2>7. \A i \in 1 .. n : i # 1 => i - 1 \in 1 .. n - 1 /\ x[i] = y[i - 1] /\ x[i] \in R
    BY <2>6
  <2>8. x[1] = m /\ 1 \in 1 .. n
    OBVIOUS
  <2>9. x \in [1 .. n -> Q]
    BY <2>3, <2>6
  <2> HIDE DEF x
  <2>10. ASSUME NEW i \in 1 .. n, NEW j \in 1 .. n, i # j PROVE x[i] # x[j]
    <3>1. CASE i = 1 \/ j = 1
      BY <2>3, <2>7, <2>8, <2>10, <3>1
    <3>2. CASE i # 1 /\ j # 1
      BY <2>6, <2>7, <2>10, <3>2
    <3> QED BY <3>1, <3>2
  <2>11. ASSUME NEW i \in 1 .. n, NEW j \in 1 .. n, i < j PROVE key[x[i]] <= key[x[j]]
    <3>1. j # 1
      BY <2>11
    <3>2. CASE i = 1
      BY <2>2, <2>8, <2>9, <3>2
    <3>3. CASE i # 1
      <4>1. i - 1 < j - 1
        BY <2>11
      <4> QED BY <2>6, <2>7, <3>1, <3>3, <4>1
    <3> QED BY <3>2, <3>3
  <2> QED BY <2>9, <2>10, <2>11 DEF Sorts
<1> HIDE DEF T
<1>3. \A n \in 0 .. N : n \in T
  BY <1>1, <1>2, UpTo
<1>4. Cardinality(S) \in T
  BY <1>0, <1>3
<1> QED BY <1>4 DEF T

DocKeys(d) == \A i \in 1 .. d.size : d.key[i] \in Nat

\* What a recursive text function does.
TextFunction(d, g, o, r) == \A i \in 0 .. d.size, k \in 1 .. d.size + 1 : r[<<i, k>>] = TextAt(g, o, r, i, k)

\* There is only one.
LEMMA TextsUnique ==
  ASSUME NEW d, DocTree(d), NEW g, Grammar(d, g), NEW o, Plan(d, g, o),
         NEW r, TextsOf(d, g, o, r), NEW t, TextFunction(d, g, o, t)
  PROVE  TextsOf(d, g, o, t)
<1>1. PICK N \in Nat : N = d.size
  BY DEF DocTree
<1> DEFINE Equal(i) == \A k \in 1 .. N + 1 : t[<<i, k>>] = r[<<i, k>>]
           T == {j \in 0 .. N + 1 : \A i \in N + 1 - j .. N : Equal(i)}
<1>2. 0 \in T
  <2>1. N + 1 - 0 .. N = {}
    OBVIOUS
  <2> QED BY <2>1
<1>3. ASSUME NEW j \in 1 .. N + 1, j - 1 \in T PROVE j \in T
  <2>1. PICK m \in 0 .. N : m = N + 1 - j /\ m + 1 = N + 1 - (j - 1)
    OBVIOUS
  <2>2. \A i \in m + 1 .. N : Equal(i)
    BY <1>3, <2>1
  <2>3. PICK x : x = o[m]
    OBVIOUS
  <2>4. /\ Len(x) \in 0 .. N
        /\ \A k \in 1 .. Len(x) : x[k] \in m + 1 .. N
    BY <1>1, <2>3, PlanOrder
  <2>5. \A k \in 1 .. N + 1 : t[<<m, k>>] = TextAt(g, o, t, m, k) /\ r[<<m, k>>] = TextAt(g, o, r, m, k)
    BY <1>1 DEF TextFunction, TextsOf, TextRow
  <2> DEFINE V == {i \in 0 .. N : t[<<m, N + 1 - i>>] = r[<<m, N + 1 - i>>]}
  <2>6. 0 \in V
    <3>1. N + 1 \in 1 .. N + 1 /\ N + 1 - 0 = N + 1 /\ N + 1 > Len(x)
      BY <2>4
    <3>2. t[<<m, N + 1>>] = r[<<m, N + 1>>]
      BY <2>3, <2>5, <3>1 DEF TextAt
    <3>3. 0 \in 0 .. N
      OBVIOUS
    <3> QED BY <3>1, <3>2, <3>3
  <2>7. ASSUME NEW i \in 1 .. N, i - 1 \in V PROVE i \in V
    <3>1. PICK k \in 1 .. N : k = N + 1 - i /\ k + 1 = N + 1 - (i - 1) /\ k \in 1 .. N + 1
      OBVIOUS
    <3>2. t[<<m, k + 1>>] = r[<<m, k + 1>>]
      BY <2>7, <3>1
    <3>3. ~(k > Len(x)) => t[<<x[k], 1>>] = r[<<x[k], 1>>]
      <4>1. ~(k > Len(x)) => x[k] \in m + 1 .. N
        BY <2>4
      <4>2. 1 \in 1 .. N + 1
        OBVIOUS
      <4> QED BY <2>2, <4>1, <4>2
    <3>4. t[<<m, k>>] = r[<<m, k>>]
      BY <2>3, <2>5, <3>1, <3>2, <3>3 DEF TextAt
    <3> QED BY <3>1, <3>4
  <2> HIDE DEF V
  <2>8. \A i \in 0 .. N : i \in V
    BY <2>6, <2>7, UpTo
  <2>9. Equal(m)
    <3> SUFFICES ASSUME NEW k \in 1 .. N + 1 PROVE t[<<m, k>>] = r[<<m, k>>]
      OBVIOUS
    <3>1. N + 1 - k \in 0 .. N /\ N + 1 - (N + 1 - k) = k
      OBVIOUS
    <3> QED BY <2>8, <3>1 DEF V
  <2>10. \A i \in m .. N : i = m \/ i \in m + 1 .. N
    OBVIOUS
  <2> QED BY <2>1, <2>2, <2>9, <2>10
<1> HIDE DEF T
<1>4. N + 1 \in T
  <2>1. N + 1 \in Nat /\ N + 1 \in 0 .. N + 1
    OBVIOUS
  <2>2. \A i \in 0 .. N + 1 : i \in T
    BY <1>2, <1>3, <2>1, UpTo
  <2> QED BY <2>1, <2>2
<1>5. \A i \in 0 .. N : Equal(i)
  <2>1. N + 1 - (N + 1) = 0
    OBVIOUS
  <2> QED BY <1>4, <2>1 DEF T
<1> QED BY <1>1, <1>5 DEF TextsOf, TextRow, TextFunction

-----------------------------------------------------------------------------
(* A recursion over the document: n frames, of node N[k] with D[k] entries *)
(* done; m if the next entry of the last one is begun; F: the nodes met.   *)

Standing(d, o, n, N, D, m, F) ==
    \A k \in 1 .. n :
        /\ N[k] \in 0 .. d.size /\ N[k] \in F
        /\ D[k] \in Nat /\ D[k] <= Len(o[N[k]])
        /\ k < n \/ m => D[k] < Len(o[N[k]])

NodesApart(n, N) == N[1] = 0 /\ \A j, k \in 1 .. n : N[j] = N[k] => j = k

Met(d, F) == F \subseteq 0 .. d.size /\ 0 \in F /\ \A i \in 0 .. d.size : i \notin F => \A c \in KidSet(d, i) : c \notin F

MetIn(o, n, N, D, F) ==
    \A k \in 1 .. n : \A j \in 1 .. Len(o[N[k]]) : o[N[k]][j] \in F <=> (j <= D[k] \/ (k < n /\ j = D[k] + 1))

ClosedUnder(d, n, N, F) == \A i \in F : (\A k \in 1 .. n : N[k] # i) => KidSet(d, i) \subseteq F

Walk(d, g, o, n, N, D, m, F) ==
    /\ Plan(d, g, o) /\ n \in Nat /\ n >= 1
    /\ Standing(d, o, n, N, D, m, F) /\ NodesApart(n, N)
    /\ Met(d, F) /\ MetIn(o, n, N, D, F) /\ ClosedUnder(d, n, N, F)

\* A frame more; the last frame, or the one before it, further on; a plan
\* with another order.
MoreBy(n, N, c, M) == \A k \in 1 .. n + 1 : M[k] = IF k = n + 1 THEN c ELSE N[k]

FurtherBy(n, D, E) == \A k \in 1 .. n : E[k] = IF k = n THEN D[k] + 1 ELSE D[k]

PlanWith(d, o, c, x, q) == \A i \in 0 .. d.size : q[i] = IF i = c THEN x ELSE o[i]

\* What the k-th entry of a container is.
LEMMA PlanEntry ==
  ASSUME NEW d, DocTree(d), NEW g, Grammar(d, g), NEW o, Plan(d, g, o), NEW i \in 0 .. d.size
  PROVE  /\ Len(o[i]) \in Nat
         /\ \A k \in 1 .. Len(o[i]) : o[i][k] \in KidSet(d, i) /\ o[i][k] \in 1 .. d.size /\ o[i][k] # i
         /\ \A j, k \in 1 .. Len(o[i]) : o[i][j] = o[i][k] => j = k
         /\ \A c \in KidSet(d, i) : \E k \in 1 .. Len(o[i]) : o[i][k] = c
<1>1. PICK x, Z : x = o[i] /\ Z = d.size
  OBVIOUS
<1>2. /\ Z \in Nat /\ Len(x) \in 0 .. Z /\ \A k \in 1 .. Len(x) : x[k] \in i + 1 .. Z /\ x[k] \in 1 .. Z
  BY <1>1, PlanOrder
<1>3. /\ x \in Seq(KidSet(d, i))
      /\ \A j, k \in 1 .. Len(x) : x[j] = x[k] => j = k
      /\ \A c \in KidSet(d, i) : \E k \in 1 .. Len(x) : x[k] = c
  <2>1. OrderOf(d, i, x)
    BY <1>1, PlanOrder
  <2> QED BY <2>1 DEF OrderOf
<1>4. PICK S : S = KidSet(d, i)
  OBVIOUS
<1>5. \A k \in 1 .. Len(x) : x[k] \in S
  BY <1>3, <1>4
<1>6. \A k \in 1 .. Len(x) : x[k] # i
  BY <1>2
<1>7. Len(x) \in Nat
  BY <1>2
<1> QED BY <1>1, <1>2, <1>3, <1>4, <1>5, <1>6, <1>7

EntriesOf(d, o, i) ==
    Len(o[i]) \in Nat /\ \A k \in 1 .. Len(o[i]) : o[i][k] \in KidSet(d, i) /\ o[i][k] # i

\* The entries of a container are among its nodes, and it is none of them.
LEMMA PlanEntries ==
  ASSUME NEW d, DocTree(d), NEW g, Grammar(d, g), NEW o, Plan(d, g, o), NEW i \in 0 .. d.size
  PROVE  EntriesOf(d, o, i)
  BY PlanEntry DEF EntriesOf

\* The recursion starts at the root.
LEMMA WalkStart ==
  ASSUME NEW d, DocTree(d), NEW g, Grammar(d, g), NEW o, Plan(d, g, o),
         NEW N, N[1] = 0, NEW D, D[1] = 0
  PROVE  Walk(d, g, o, 1, N, D, FALSE, {0})
<1>1. d.size \in Nat /\ 0 \in 0 .. d.size /\ \A k \in 1 .. 1 : k = 1
  BY DEF DocTree
<1>2. Len(o[0]) \in Nat /\ \A j \in 1 .. Len(o[0]) : o[0][j] \in 1 .. d.size /\ o[0][j] # 0 /\ j \in Nat /\ j >= 1
  BY <1>1, PlanEntry
<1>3. Standing(d, o, 1, N, D, FALSE, {0})
  BY <1>1, <1>2 DEF Standing
<1>4. NodesApart(1, N)
  BY <1>1 DEF NodesApart
<1>5. Met(d, {0})
  <2>1. \A i \in 0 .. d.size : \A c \in KidSet(d, i) : c # 0
    <3>1. \A i \in 0 .. d.size : KidSet(d, i) \subseteq i + 1 .. d.size
      BY KidsFinite
    <3>2. \A i \in 0 .. d.size : 0 \notin i + 1 .. d.size
      BY <1>1
    <3> QED BY <3>1, <3>2
  <2> QED BY <1>1, <2>1 DEF Met
<1>6. MetIn(o, 1, N, D, {0})
  <2> SUFFICES ASSUME NEW k \in 1 .. 1, NEW j \in 1 .. Len(o[N[k]])
               PROVE  o[N[k]][j] \in {0} <=> (j <= D[k] \/ (k < 1 /\ j = D[k] + 1))
    BY DEF MetIn
  <2>1. k = 1 /\ N[k] = 0 /\ D[k] = 0
    BY <1>1
  <2>2. o[0][j] # 0 /\ ~(j <= 0) /\ ~(1 < 1)
    BY <1>2, <2>1
  <2> QED BY <2>1, <2>2
<1>7. ClosedUnder(d, 1, N, {0})
  BY <1>1 DEF ClosedUnder
<1>8. 1 \in Nat /\ 1 >= 1
  OBVIOUS
<1> QED BY <1>3, <1>4, <1>5, <1>6, <1>7, <1>8 DEF Walk

\* The next entry of the last frame is begun.
LEMMA WalkEntry ==
  ASSUME NEW d, NEW g, NEW o, NEW n, NEW N, NEW D, NEW F, Walk(d, g, o, n, N, D, FALSE, F),
         D[n] < Len(o[N[n]])
  PROVE  Walk(d, g, o, n, N, D, TRUE, F)
<1>1. n \in Nat /\ \A k \in 1 .. n : k < n \/ k = n
  BY DEF Walk
<1>2. Standing(d, o, n, N, D, TRUE, F)
  BY <1>1 DEF Walk, Standing
<1> QED BY <1>2 DEF Walk

\* The entry that is begun.
LEMMA WalkCurrent ==
  ASSUME NEW d, DocTree(d), NEW g, Grammar(d, g), NEW o, NEW n, NEW N, NEW D, NEW F,
         Walk(d, g, o, n, N, D, TRUE, F)
  PROVE  /\ n \in 1 .. n /\ N[n] \in 0 .. d.size /\ N[n] \in F
         /\ D[n] \in Nat /\ D[n] + 1 \in 1 .. Len(o[N[n]]) /\ Len(o[N[n]]) \in Nat
         /\ o[N[n]][D[n] + 1] \in 1 .. d.size /\ o[N[n]][D[n] + 1] \in KidSet(d, N[n])
         /\ o[N[n]][D[n] + 1] \notin F
         /\ \A c \in KidSet(d, o[N[n]][D[n] + 1]) : c \notin F
<1>1. n \in 1 .. n /\ Plan(d, g, o)
  BY DEF Walk
<1>2. N[n] \in 0 .. d.size /\ N[n] \in F /\ D[n] \in Nat /\ D[n] < Len(o[N[n]])
  BY <1>1 DEF Walk, Standing
<1>3. Len(o[N[n]]) \in Nat /\ D[n] + 1 \in 1 .. Len(o[N[n]])
  BY <1>1, <1>2, PlanEntry
<1>4. PICK c : c = o[N[n]][D[n] + 1]
  OBVIOUS
<1>5. c \in 1 .. d.size /\ c \in KidSet(d, N[n])
  BY <1>1, <1>2, <1>3, <1>4, PlanEntry
<1>6. c \notin F
  <2>1. ~(D[n] + 1 <= D[n]) /\ ~(n < n)
    BY <1>1, <1>2
  <2> QED BY <1>1, <1>3, <1>4, <2>1 DEF Walk, MetIn
<1>7. \A e \in KidSet(d, c) : e \notin F
  <2>1. c \in 0 .. d.size
    BY <1>5 DEF DocTree
  <2> QED BY <1>6, <2>1 DEF Walk, Met
<1> QED BY <1>1, <1>2, <1>3, <1>4, <1>5, <1>6, <1>7

HomeOf(d, o, n, N, D, F, c) ==
    /\ \A k \in 1 .. n : \A j \in 1 .. Len(o[N[k]]) :
           o[N[k]][j] \in F \cup {c} <=> (j <= D[k] \/ j = D[k] + 1)
    /\ \A i \in 0 .. d.size : c \in KidSet(d, i) => i = N[n]

\* An entry is in one container: where c is met says where it is listed.
LEMMA OneHome ==
  ASSUME NEW d, DocTree(d), NEW g, Grammar(d, g), NEW o, NEW n, NEW N, NEW D, NEW F,
         Walk(d, g, o, n, N, D, TRUE, F), NEW c, c = o[N[n]][D[n] + 1]
  PROVE  HomeOf(d, o, n, N, D, F, c)
<1>1. /\ n \in 1 .. n /\ N[n] \in 0 .. d.size /\ c \in KidSet(d, N[n]) /\ c \notin F
      /\ D[n] \in Nat /\ D[n] + 1 \in 1 .. Len(o[N[n]])
  BY WalkCurrent
<1>2. ASSUME NEW i \in 0 .. d.size, c \in KidSet(d, i) PROVE i = N[n]
  BY <1>1, <1>2 DEF DocTree
<1>3. ASSUME NEW k \in 1 .. n, NEW j \in 1 .. Len(o[N[k]])
      PROVE  o[N[k]][j] \in F \cup {c} <=> (j <= D[k] \/ j = D[k] + 1)
  <2>1. o[N[k]][j] \in F <=> (j <= D[k] \/ (k < n /\ j = D[k] + 1))
    BY DEF Walk, MetIn
  <2>2. N[k] \in 0 .. d.size /\ Plan(d, g, o) /\ k \in Nat /\ n \in Nat /\ (k < n \/ k = n)
    BY DEF Walk, Standing
  <2>3. CASE k = n
    <3>1. o[N[k]][j] = c <=> j = D[k] + 1
      BY <1>1, <2>2, <2>3, PlanEntry, SMTT(60)
    <3>2. ~(k < n)
      BY <2>2, <2>3
    <3> QED BY <2>1, <3>1, <3>2
  <2>4. CASE k # n
    <3>1. N[k] # N[n]
      BY <1>1, <2>4 DEF Walk, NodesApart
    <3>2. o[N[k]][j] \in KidSet(d, N[k])
      BY <2>2, PlanEntry
    <3>3. o[N[k]][j] # c
      BY <1>2, <2>2, <3>1, <3>2
    <3>4. k < n
      BY <2>2, <2>4
    <3> QED BY <2>1, <3>3, <3>4
  <2> QED BY <2>3, <2>4
<1> QED BY <1>2, <1>3 DEF HomeOf

\* The entry has nothing below it and is done.
LEMMA WalkLeaf ==
  ASSUME NEW d, DocTree(d), NEW g, Grammar(d, g), NEW o, NEW n, NEW N, NEW D, NEW F,
         Walk(d, g, o, n, N, D, TRUE, F), NEW c, c = o[N[n]][D[n] + 1], KidSet(d, c) = {},
         NEW E, FurtherBy(n, D, E)
  PROVE  Walk(d, g, o, n, N, E, FALSE, F \cup {c})
<1>e. \A k \in 1 .. n : E[k] = IF k = n THEN D[n] + 1 ELSE D[k]
  BY DEF FurtherBy
<1> USE <1>e
<1>1. /\ n \in Nat /\ n \in 1 .. n /\ Plan(d, g, o) /\ N[n] \in 0 .. d.size /\ c \in 1 .. d.size /\ c \notin F
      /\ D[n] \in Nat /\ D[n] + 1 \in 1 .. Len(o[N[n]]) /\ Len(o[N[n]]) \in Nat /\ c \in 0 .. d.size
  <2>1. \A i \in 1 .. d.size : i \in 0 .. d.size
    BY DEF DocTree
  <2> QED BY <2>1, WalkCurrent DEF Walk
<1>2. /\ \A k \in 1 .. n : \A j \in 1 .. Len(o[N[k]]) :
               o[N[k]][j] \in F \cup {c} <=> (j <= D[k] \/ j = D[k] + 1)
      /\ \A i \in 0 .. d.size : c \in KidSet(d, i) => i = N[n]
  <2>1. HomeOf(d, o, n, N, D, F, c)
    BY OneHome
  <2> QED BY <2>1 DEF HomeOf
<1>3. Standing(d, o, n, N, E, FALSE, F \cup {c})
  <2> SUFFICES ASSUME NEW k \in 1 .. n
               PROVE  /\ N[k] \in 0 .. d.size /\ N[k] \in F \cup {c}
                      /\ E[k] \in Nat /\ E[k] <= Len(o[N[k]])
                      /\ k < n => E[k] < Len(o[N[k]])
    BY DEF Standing
  <2>1. N[k] \in 0 .. d.size /\ N[k] \in F /\ D[k] \in Nat /\ D[k] <= Len(o[N[k]]) /\ (k < n => D[k] < Len(o[N[k]]))
    BY DEF Walk, Standing
  <2>2. CASE k = n
    <3>1. E[k] = D[n] + 1
      BY <2>2
    <3>2. E[k] \in Nat /\ E[k] <= Len(o[N[n]]) /\ ~(n < n)
      BY <1>1, <3>1
    <3> QED BY <2>1, <2>2, <3>2
  <2>3. CASE k # n
    BY <2>1, <2>3
  <2> QED BY <2>2, <2>3
<1>4. Met(d, F \cup {c})
  <2>1. Met(d, F) /\ N[n] \in F
    BY <1>1 DEF Walk, Standing
  <2>2. ASSUME NEW i \in 0 .. d.size, i \notin F \cup {c}, NEW e \in KidSet(d, i) PROVE e \notin F \cup {c}
    <3>1. e \notin F
      BY <2>1, <2>2 DEF Met
    <3>2. e # c
      BY <1>2, <2>1, <2>2
    <3> QED BY <3>1, <3>2
  <2> QED BY <1>1, <2>1, <2>2 DEF Met
<1>5. MetIn(o, n, N, E, F \cup {c})
  <2> SUFFICES ASSUME NEW k \in 1 .. n, NEW j \in 1 .. Len(o[N[k]])
               PROVE  o[N[k]][j] \in F \cup {c} <=> (j <= E[k] \/ (k < n /\ j = E[k] + 1))
    BY DEF MetIn
  <2>1. o[N[k]][j] \in F \cup {c} <=> (j <= D[k] \/ j = D[k] + 1)
    BY <1>2
  <2>2. CASE k = n
    <3>1. E[k] = D[k] + 1 /\ D[k] \in Nat /\ ~(k < n)
      BY <1>1, <2>2
    <3>2. (j <= D[k] \/ j = D[k] + 1) <=> j <= D[k] + 1
      <4>1. j \in Int /\ D[k] \in Int
        <5>1. \A x : x \in 1 .. Len(o[N[k]]) => x \in Int
          OBVIOUS
        <5> QED BY <3>1, <5>1
      <4> QED BY <4>1
    <3> QED BY <2>1, <3>1, <3>2
  <2>3. CASE k # n
    <3>1. E[k] = D[k] /\ k < n
      BY <1>1, <2>3
    <3> QED BY <2>1, <3>1
  <2> QED BY <2>2, <2>3
<1>6. ClosedUnder(d, n, N, F \cup {c})
  <2> SUFFICES ASSUME NEW i \in F \cup {c}, \A k \in 1 .. n : N[k] # i PROVE KidSet(d, i) \subseteq F \cup {c}
    BY DEF ClosedUnder
  <2>1. CASE i = c
    BY <2>1
  <2>2. CASE i \in F
    BY <2>2 DEF Walk, ClosedUnder
  <2> QED BY <2>1, <2>2
<1>7. NodesApart(n, N) /\ n >= 1
  BY DEF Walk
<1> QED BY <1>1, <1>3, <1>4, <1>5, <1>6, <1>7 DEF Walk

\* The entry is a container: a frame more, in the order x.
LEMMA WalkOpen ==
  ASSUME NEW d, DocTree(d), NEW g, Grammar(d, g), NEW o, NEW n, NEW N, NEW D, NEW F,
         Walk(d, g, o, n, N, D, TRUE, F), NEW c, c = o[N[n]][D[n] + 1],
         NEW x \in g.orders[c], NEW p, PlanWith(d, o, c, x, p),
         NEW M, MoreBy(n, N, c, M),
         NEW E, MoreBy(n, D, 0, E)
  PROVE  Walk(d, g, p, n + 1, M, E, FALSE, F \cup {c})
<1>1. /\ n \in Nat /\ n \in 1 .. n /\ Plan(d, g, o) /\ N[n] \in 0 .. d.size /\ c \in 1 .. d.size /\ c \notin F
      /\ D[n] \in Nat /\ D[n] + 1 \in 1 .. Len(o[N[n]]) /\ c \in 0 .. d.size
      /\ \A e \in KidSet(d, c) : e \notin F
  <2>1. \A i \in 1 .. d.size : i \in 0 .. d.size
    BY DEF DocTree
  <2>2. n \in Nat /\ Plan(d, g, o)
    BY DEF Walk
  <2>3. /\ n \in 1 .. n /\ N[n] \in 0 .. d.size /\ D[n] \in Nat /\ D[n] + 1 \in 1 .. Len(o[N[n]])
        /\ c \in 1 .. d.size /\ c \notin F /\ \A e \in KidSet(d, c) : e \notin F
    BY WalkCurrent
  <2> QED BY <2>1, <2>2, <2>3
<1>e. /\ \A k \in 1 .. n + 1 : M[k] = IF k = n + 1 THEN c ELSE N[k]
      /\ \A k \in 1 .. n + 1 : E[k] = IF k = n + 1 THEN 0 ELSE D[k]
      /\ \A i \in 0 .. d.size : p[i] = IF i = c THEN x ELSE o[i]
  BY DEF MoreBy, PlanWith
<1> USE <1>e
<1>2. /\ \A k \in 1 .. n : \A j \in 1 .. Len(o[N[k]]) :
               o[N[k]][j] \in F \cup {c} <=> (j <= D[k] \/ j = D[k] + 1)
      /\ \A i \in 0 .. d.size : c \in KidSet(d, i) => i = N[n]
  <2>1. HomeOf(d, o, n, N, D, F, c)
    BY OneHome
  <2> QED BY <2>1 DEF HomeOf
<1>3. Plan(d, g, p)
  BY <1>1 DEF Plan
<1>4. /\ n + 1 \in 1 .. n + 1 /\ M[n + 1] = c /\ E[n + 1] = 0
      /\ \A k \in 1 .. n : /\ k \in 1 .. n + 1 /\ k # n + 1 /\ k < n + 1 /\ (k < n \/ k = n)
                           /\ M[k] = N[k] /\ E[k] = D[k]
      /\ \A k \in 1 .. n + 1 : k = n + 1 \/ k \in 1 .. n
      /\ ~(n + 1 < n + 1)
  <2>1. /\ n + 1 \in 1 .. n + 1 /\ ~(n + 1 < n + 1)
        /\ \A k \in 1 .. n : k \in 1 .. n + 1 /\ k # n + 1 /\ k < n + 1 /\ (k < n \/ k = n)
        /\ \A k \in 1 .. n + 1 : k = n + 1 \/ k \in 1 .. n
    BY <1>1
  <2> QED BY <2>1
<1>5. \A k \in 1 .. n : /\ N[k] \in 0 .. d.size /\ N[k] \in F /\ N[k] # c /\ p[N[k]] = o[N[k]]
                        /\ D[k] \in Nat /\ D[k] < Len(o[N[k]]) /\ D[k] <= Len(o[N[k]])
  <2> SUFFICES ASSUME NEW k \in 1 .. n
               PROVE  /\ N[k] \in 0 .. d.size /\ N[k] \in F /\ N[k] # c /\ p[N[k]] = o[N[k]]
                      /\ D[k] \in Nat /\ D[k] < Len(o[N[k]]) /\ D[k] <= Len(o[N[k]])
    OBVIOUS
  <2>1. N[k] \in 0 .. d.size /\ N[k] \in F /\ D[k] \in Nat /\ D[k] < Len(o[N[k]]) /\ D[k] <= Len(o[N[k]])
    BY DEF Walk, Standing
  <2> QED BY <1>1, <2>1
<1>6. /\ p[c] = x /\ Len(x) \in Nat
      /\ \A j \in 1 .. Len(x) : x[j] \in KidSet(d, c) /\ x[j] # c
  <2>1. p[c] = x
    BY <1>1
  <2>2. EntriesOf(d, p, c)
    BY <1>1, <1>3, PlanEntries
  <2> QED BY <2>1, <2>2 DEF EntriesOf
<1>7. Standing(d, p, n + 1, M, E, FALSE, F \cup {c})
  <2> SUFFICES ASSUME NEW k \in 1 .. n + 1
               PROVE  /\ M[k] \in 0 .. d.size /\ M[k] \in F \cup {c}
                      /\ E[k] \in Nat /\ E[k] <= Len(p[M[k]])
                      /\ k < n + 1 => E[k] < Len(p[M[k]])
    BY DEF Standing
  <2>1. CASE k = n + 1
    <3>1. 0 \in Nat /\ 0 <= Len(x)
      BY <1>6
    <3> QED BY <1>1, <1>4, <1>6, <2>1, <3>1
  <2>2. CASE k # n + 1
    BY <1>4, <1>5, <2>2
  <2> QED BY <2>1, <2>2
<1>8. NodesApart(n + 1, M)
  <2>1. N[1] = 0 /\ 1 \in 1 .. n /\ \A j, k \in 1 .. n : N[j] = N[k] => j = k
    BY <1>1 DEF Walk, NodesApart
  <2>2. M[1] = 0
    BY <1>4, <2>1
  <2>3. ASSUME NEW j \in 1 .. n + 1, NEW k \in 1 .. n + 1, M[j] = M[k] PROVE j = k
    <3>1. CASE j = n + 1 /\ k = n + 1
      BY <3>1
    <3>2. CASE j = n + 1 /\ k # n + 1
      BY <1>4, <1>5, <2>3, <3>2
    <3>3. CASE j # n + 1 /\ k = n + 1
      BY <1>4, <1>5, <2>3, <3>3
    <3>4. CASE j # n + 1 /\ k # n + 1
      BY <1>4, <2>1, <2>3, <3>4
    <3> QED BY <3>1, <3>2, <3>3, <3>4
  <2> QED BY <2>2, <2>3 DEF NodesApart
<1>9. Met(d, F \cup {c})
  <2>1. Met(d, F) /\ N[n] \in F
    BY <1>1 DEF Walk, Standing
  <2>2. ASSUME NEW i \in 0 .. d.size, i \notin F \cup {c}, NEW e \in KidSet(d, i) PROVE e \notin F \cup {c}
    <3>1. e \notin F
      BY <2>1, <2>2 DEF Met
    <3>2. e # c
      BY <1>2, <2>1, <2>2
    <3> QED BY <3>1, <3>2
  <2> QED BY <1>1, <2>1, <2>2 DEF Met
<1>10. MetIn(p, n + 1, M, E, F \cup {c})
  <2> SUFFICES ASSUME NEW k \in 1 .. n + 1, NEW j \in 1 .. Len(p[M[k]])
               PROVE  p[M[k]][j] \in F \cup {c} <=> (j <= E[k] \/ (k < n + 1 /\ j = E[k] + 1))
    BY DEF MetIn
  <2>1. CASE k = n + 1
    <3>1. M[k] = c /\ E[k] = 0 /\ ~(k < n + 1) /\ j \in 1 .. Len(x)
      BY <1>4, <1>6, <2>1
    <3>2. ~(j <= 0)
      BY <3>1
    <3>3. x[j] \notin F \cup {c}
      BY <1>1, <1>6, <3>1
    <3> QED BY <1>6, <3>1, <3>2, <3>3
  <2>2. CASE k # n + 1
    <3>1. k \in 1 .. n /\ M[k] = N[k] /\ E[k] = D[k] /\ k < n + 1 /\ p[M[k]] = o[N[k]] /\ j \in 1 .. Len(o[N[k]])
      BY <1>4, <1>5, <2>2
    <3> QED BY <1>2, <3>1
  <2> QED BY <2>1, <2>2
<1>11. ClosedUnder(d, n + 1, M, F \cup {c})
  <2> SUFFICES ASSUME NEW i \in F \cup {c}, \A k \in 1 .. n + 1 : M[k] # i PROVE KidSet(d, i) \subseteq F \cup {c}
    BY DEF ClosedUnder
  <2>1. i \in F /\ \A k \in 1 .. n : N[k] # i
    BY <1>4
  <2>2. KidSet(d, i) \subseteq F
    BY <2>1 DEF Walk, ClosedUnder
  <2> QED BY <2>2
<1>12. n + 1 \in Nat /\ n + 1 >= 1
  BY <1>1
<1> QED BY <1>3, <1>7, <1>8, <1>9, <1>10, <1>11, <1>12 DEF Walk

\* The last frame is done, the entry of the one before it too.
LEMMA WalkClose ==
  ASSUME NEW d, DocTree(d), NEW g, Grammar(d, g), NEW o, NEW n, NEW N, NEW D, NEW F,
         Walk(d, g, o, n, N, D, FALSE, F), n # 1, D[n] = Len(o[N[n]]),
         NEW E, FurtherBy(n - 1, D, E)
  PROVE  Walk(d, g, o, n - 1, N, E, FALSE, F)
<1>e. \A k \in 1 .. n - 1 : E[k] = IF k = n - 1 THEN D[k] + 1 ELSE D[k]
  BY DEF FurtherBy
<1> USE <1>e
<1>1. /\ n \in Nat /\ n - 1 \in Nat /\ n - 1 >= 1 /\ n \in 1 .. n
      /\ \A k \in 1 .. n - 1 : k \in 1 .. n /\ k < n /\ (k < n - 1 \/ k = n - 1)
      /\ \A k \in 1 .. n : k = n \/ k \in 1 .. n - 1
  <2>1. n \in Nat /\ n >= 1
    BY DEF Walk
  <2> QED BY <2>1
<1>2. \A k \in 1 .. n : /\ N[k] \in 0 .. d.size /\ N[k] \in F /\ Len(o[N[k]]) \in Nat
                        /\ D[k] \in Nat /\ D[k] <= Len(o[N[k]]) /\ (k < n => D[k] < Len(o[N[k]]))
  <2> SUFFICES ASSUME NEW k \in 1 .. n
               PROVE  /\ N[k] \in 0 .. d.size /\ N[k] \in F /\ Len(o[N[k]]) \in Nat
                      /\ D[k] \in Nat /\ D[k] <= Len(o[N[k]]) /\ (k < n => D[k] < Len(o[N[k]]))
    OBVIOUS
  <2>1. /\ N[k] \in 0 .. d.size /\ N[k] \in F
        /\ D[k] \in Nat /\ D[k] <= Len(o[N[k]]) /\ (k < n => D[k] < Len(o[N[k]])) /\ Plan(d, g, o)
    BY DEF Walk, Standing
  <2>2. Len(o[N[k]]) \in Nat
    BY <2>1, PlanEntry
  <2> QED BY <2>1, <2>2
<1>3. Standing(d, o, n - 1, N, E, FALSE, F)
  <2> SUFFICES ASSUME NEW k \in 1 .. n - 1
               PROVE  /\ N[k] \in 0 .. d.size /\ N[k] \in F
                      /\ E[k] \in Nat /\ E[k] <= Len(o[N[k]])
                      /\ k < n - 1 => E[k] < Len(o[N[k]])
    BY DEF Standing
  <2>1. /\ N[k] \in 0 .. d.size /\ N[k] \in F /\ Len(o[N[k]]) \in Nat
        /\ D[k] \in Nat /\ D[k] < Len(o[N[k]])
    BY <1>1, <1>2
  <2>2. E[k] = D[k] \/ (E[k] = D[k] + 1 /\ k = n - 1)
    <3>1. E[k] = IF k = n - 1 THEN D[k] + 1 ELSE D[k]
      OBVIOUS
    <3> QED BY <3>1, Zenon
  <2>3. /\ D[k] <= Len(o[N[k]]) /\ D[k] + 1 \in Nat /\ D[k] + 1 <= Len(o[N[k]])
    BY <2>1
  <2>4. k = n - 1 => ~(k < n - 1)
    BY <1>1
  <2>5. CASE E[k] = D[k]
    BY <2>1, <2>3, <2>5
  <2>6. CASE E[k] = D[k] + 1 /\ k = n - 1
    BY <2>1, <2>3, <2>4, <2>6
  <2> QED BY <2>2, <2>5, <2>6
<1>4. NodesApart(n - 1, N)
  BY <1>1 DEF Walk, NodesApart
<1>5. MetIn(o, n - 1, N, E, F)
  <2> SUFFICES ASSUME NEW k \in 1 .. n - 1, NEW j \in 1 .. Len(o[N[k]])
               PROVE  o[N[k]][j] \in F <=> (j <= E[k] \/ (k < n - 1 /\ j = E[k] + 1))
    BY DEF MetIn
  <2>1. o[N[k]][j] \in F <=> (j <= D[k] \/ j = D[k] + 1)
    BY <1>1 DEF Walk, MetIn
  <2>2. CASE k = n - 1
    <3>1. E[k] = D[k] + 1 /\ ~(k < n - 1)
      BY <1>1, <2>2
    <3>2. (j <= D[k] \/ j = D[k] + 1) <=> j <= D[k] + 1
      <4>1. j \in Int /\ D[k] \in Int
        <5>1. \A x : x \in 1 .. Len(o[N[k]]) => x \in Int
          OBVIOUS
        <5>2. D[k] \in Nat
          BY <1>1, <1>2
        <5> QED BY <5>1, <5>2
      <4> QED BY <4>1
    <3> QED BY <2>1, <3>1, <3>2
  <2>3. CASE k # n - 1
    <3>1. E[k] = D[k] /\ k < n - 1
      BY <1>1, <2>3
    <3> QED BY <2>1, <3>1
  <2> QED BY <2>2, <2>3
<1>6. ClosedUnder(d, n - 1, N, F)
  <2> SUFFICES ASSUME NEW i \in F, \A k \in 1 .. n - 1 : N[k] # i PROVE KidSet(d, i) \subseteq F
    BY DEF ClosedUnder
  <2>1. CASE i = N[n]
    <3> SUFFICES ASSUME NEW e \in KidSet(d, i) PROVE e \in F
      OBVIOUS
    <3>1. N[n] \in 0 .. d.size /\ Plan(d, g, o) /\ Len(o[N[n]]) \in Nat
      BY <1>1, <1>2 DEF Walk
    <3>2. PICK j \in 1 .. Len(o[N[n]]) : o[N[n]][j] = e
      BY <2>1, <3>1, PlanEntry
    <3>3. j <= D[n]
      BY <3>1
    <3> QED BY <1>1, <3>2, <3>3 DEF Walk, MetIn
  <2>2. CASE i # N[n]
    <3>1. \A k \in 1 .. n : N[k] # i
      BY <1>1, <2>2
    <3> QED BY <3>1 DEF Walk, ClosedUnder
  <2> QED BY <2>1, <2>2
<1>7. Plan(d, g, o) /\ Met(d, F)
  BY DEF Walk
<1> QED BY <1>1, <1>3, <1>4, <1>5, <1>6, <1>7 DEF Walk

\* The root's frame is done: every node has been met.
LEMMA WalkEnd ==
  ASSUME NEW d, DocTree(d), NEW g, Grammar(d, g), NEW o, NEW N, NEW D, NEW F,
         Walk(d, g, o, 1, N, D, FALSE, F), D[1] = Len(o[N[1]])
  PROVE  F = 0 .. d.size
<1>1. PICK Z \in Nat : Z = d.size
  BY DEF DocTree
<1>2. F \subseteq 0 .. Z /\ 0 \in F /\ N[1] = 0 /\ Plan(d, g, o) /\ \A k \in 1 .. 1 : k = 1
  BY <1>1 DEF Walk, Met, NodesApart
<1>3. ASSUME NEW i \in F PROVE KidSet(d, i) \subseteq F
  <2>1. CASE i = 0
    <3> SUFFICES ASSUME NEW e \in KidSet(d, i) PROVE e \in F
      OBVIOUS
    <3>1. 0 \in 0 .. d.size
      BY <1>1
    <3>2. Len(o[0]) \in Nat
      BY <1>2, <3>1, PlanEntry
    <3>3. PICK j \in 1 .. Len(o[0]) : o[0][j] = e
      BY <1>2, <2>1, <3>1, PlanEntry
    <3>4. j <= D[1] /\ 1 \in 1 .. 1
      BY <1>2, <3>2
    <3> QED BY <1>2, <3>3, <3>4 DEF Walk, MetIn
  <2>2. CASE i # 0
    <3>1. \A k \in 1 .. 1 : N[k] # i
      BY <1>2, <2>2
    <3> QED BY <3>1 DEF Walk, ClosedUnder
  <2> QED BY <2>1, <2>2
<1> DEFINE T == {i \in 0 .. Z : \A j \in 0 .. i : j \in F}
<1>4. 0 \in T
  <2>1. \A j \in 0 .. 0 : j = 0
    OBVIOUS
  <2> QED BY <1>2, <2>1
<1>5. ASSUME NEW i \in 1 .. Z, i - 1 \in T PROVE i \in T
  <2>1. PICK q \in 0 .. Z : i \in KidSet(d, q)
    BY <1>1 DEF DocTree
  <2>2. i \in q + 1 .. Z
    BY <1>1, <2>1, KidsFinite
  <2>3. q \in 0 .. i - 1
    BY <2>2
  <2>4. i \in F
    BY <1>3, <1>5, <2>1, <2>3
  <2>5. \A j \in 0 .. i : j = i \/ j \in 0 .. i - 1
    OBVIOUS
  <2> QED BY <1>5, <2>4, <2>5
<1> HIDE DEF T
<1>6. \A i \in 0 .. Z : i \in T
  BY <1>4, <1>5, UpTo
<1>7. \A i \in 0 .. Z : i \in F
  BY <1>6 DEF T
<1> QED BY <1>1, <1>2, <1>7

-----------------------------------------------------------------------------
(* What has been written at a point of the recursion, for a plan p and its *)
(* texts r: with what is ahead of it, the whole text.                      *)

Pos(d, g, p, r, n, N, D) ==
    /\ Plan(d, g, p) /\ TextsOf(d, g, p, r) /\ n \in Nat /\ n >= 1
    /\ \A k \in 1 .. n : /\ N[k] \in 0 .. d.size
                         /\ D[k] \in Nat /\ D[k] <= Len(p[N[k]]) /\ (k < n => D[k] < Len(p[N[k]]))

Tails(n, N, D, r, R) ==
    /\ \A k \in 0 .. n - 1 : R[k] \in Seq(Tok)
    /\ R[0] = <<>>
    /\ \A k \in 1 .. n - 1 : R[k] = r[<<N[k], D[k] + 2>>] \o R[k - 1]

Whole(g, r) == g.begin[0] \o r[<<0, 1>>]

AheadOf(g, p, r, i, done, m) ==
    IF m THEN g.begin[p[i][done + 1]] \o (r[<<p[i][done + 1], 1>>] \o r[<<i, done + 2>>])
    ELSE r[<<i, done + 1>>]

Tells(g, p, r, n, N, D, m, w) ==
    w \in Seq(Tok) /\ \E R : Tails(n, N, D, r, R) /\ Whole(g, r) = w \o (AheadOf(g, p, r, N[n], D[n], m) \o R[n - 1])

\* What comes next is the piece.
Leads(g, r, w, piece) ==
    piece \in Seq(Tok) /\ w \in Seq(Tok) /\ \E z \in Seq(Tok) : Whole(g, r) = w \o (piece \o z)

\* The piece came next, and has been written.
Wrote(g, p, r, n, N, D, m, w, piece) == Leads(g, r, w, piece) /\ Tells(g, p, r, n, N, D, m, w \o piece)

Closes(g, p, r, n, N, D, w, e) ==
    /\ Leads(g, r, w, e)
    /\ n = 1 => Whole(g, r) = w \o e
    /\ n # 1 => \A E : FurtherBy(n - 1, D, E) => Tells(g, p, r, n - 1, N, E, FALSE, w \o e)

Regroups(w, a, b, c) ==
    /\ w \o a \in Seq(Tok) /\ b \o c \in Seq(Tok) /\ a \o b \in Seq(Tok)
    /\ w \o ((a \o b) \o c) = (w \o a) \o (b \o c)
    /\ w \o ((a \o b) \o c) = w \o (a \o (b \o c))
    /\ (a \o b) \o c = a \o (b \o c)
    /\ w \o (a \o c) = (w \o a) \o c

\* Texts one after the other.
LEMMA Regroup ==
  ASSUME NEW w \in Seq(Tok), NEW a \in Seq(Tok), NEW b \in Seq(Tok), NEW c \in Seq(Tok)
  PROVE  Regroups(w, a, b, c)
<1>1. w \o a \in Seq(Tok) /\ b \o c \in Seq(Tok) /\ a \o b \in Seq(Tok)
  BY ConcatProperties
<1>2. (a \o b) \o c = a \o (b \o c)
  BY ConcatAssociative, SMTT(60)
<1>3. (w \o a) \o (b \o c) = w \o (a \o (b \o c))
  <2>1. PICK v \in Seq(Tok) : v = b \o c
    BY <1>1
  <2>2. (w \o a) \o v = w \o (a \o v)
    BY ConcatAssociative, SMTT(60)
  <2> QED BY <2>1, <2>2
<1>4. (w \o a) \o c = w \o (a \o c)
  BY ConcatAssociative, SMTT(60)
<1> QED BY <1>1, <1>2, <1>3, <1>4 DEF Regroups

TopText(d, g, p, r, n, N, D) ==
    /\ d.size \in Nat /\ n \in 1 .. n /\ N[n] \in 0 .. d.size
    /\ D[n] \in Nat /\ Len(p[N[n]]) \in 0 .. d.size
    /\ r[<<N[n], D[n] + 1>>] \in Seq(Tok) /\ r[<<N[n], D[n] + 1>>] = TextAt(g, p, r, N[n], D[n] + 1)
    /\ \A k \in 1 .. n : D[k] < Len(p[N[k]]) => r[<<N[k], D[k] + 2>>] \in Seq(Tok)

\* A position: the frame on top, and the texts around it.
LEMMA PosTop ==
  ASSUME NEW d, DocTree(d), NEW g, Grammar(d, g), NEW p, NEW r, NEW n, NEW N, NEW D, Pos(d, g, p, r, n, N, D)
  PROVE  TopText(d, g, p, r, n, N, D)
<1>1. PICK Z \in Nat : Z = d.size
  BY DEF DocTree
<1>2. /\ n \in 1 .. n /\ Plan(d, g, p) /\ TextsOf(d, g, p, r)
      /\ \A k \in 1 .. n : N[k] \in 0 .. Z /\ D[k] \in Nat /\ D[k] <= Len(p[N[k]])
  BY <1>1 DEF Pos
<1>3. \A k \in 1 .. n : Len(p[N[k]]) \in 0 .. Z
  BY <1>1, <1>2, PlanOrder
<1>4. \A i \in 0 .. Z : \A k \in 1 .. Z + 1 : r[<<i, k>>] \in Seq(Tok) /\ r[<<i, k>>] = TextAt(g, p, r, i, k)
  BY <1>1, <1>2 DEF TextsOf, TextRow
<1>5. D[n] + 1 \in 1 .. Z + 1
  BY <1>2, <1>3
<1>6. ASSUME NEW k \in 1 .. n, D[k] < Len(p[N[k]]) PROVE r[<<N[k], D[k] + 2>>] \in Seq(Tok)
  <2>1. D[k] + 2 \in 1 .. Z + 1
    BY <1>2, <1>3, <1>6
  <2> QED BY <1>2, <1>4, <2>1
<1> QED BY <1>1, <1>2, <1>3, <1>4, <1>5, <1>6 DEF TopText

EntryText(d, g, p, r, n, N, D, c) ==
    /\ c \in 1 .. d.size /\ c \in 0 .. d.size /\ D[n] + 1 \in 1 .. d.size /\ D[n] + 1 \in 1 .. Len(p[N[n]])
    /\ g.lead[N[n]][D[n] + 1][c] \in Seq(Tok) /\ g.begin[c] \in Seq(Tok) /\ g.end[c] \in Seq(Tok)
    /\ r[<<c, 1>>] \in Seq(Tok) /\ r[<<c, 1>>] = TextAt(g, p, r, c, 1)
    /\ r[<<N[n], D[n] + 2>>] \in Seq(Tok)
    /\ r[<<N[n], D[n] + 1>>] = g.lead[N[n]][D[n] + 1][c] \o (g.begin[c] \o (r[<<c, 1>>] \o r[<<N[n], D[n] + 2>>]))

\* The entry that is begun, and its texts.
LEMMA PosCurrent ==
  ASSUME NEW d, DocTree(d), NEW g, Grammar(d, g), NEW p, NEW r, NEW n, NEW N, NEW D, Pos(d, g, p, r, n, N, D),
         D[n] < Len(p[N[n]]), NEW c, c = p[N[n]][D[n] + 1]
  PROVE  EntryText(d, g, p, r, n, N, D, c)
<1>1. PICK Z \in Nat : Z = d.size
  BY DEF DocTree
<1>2. /\ n \in 1 .. n /\ N[n] \in 0 .. Z /\ D[n] \in Nat /\ Len(p[N[n]]) \in 0 .. Z
      /\ r[<<N[n], D[n] + 1>>] = TextAt(g, p, r, N[n], D[n] + 1) /\ r[<<N[n], D[n] + 2>>] \in Seq(Tok)
  <2>1. TopText(d, g, p, r, n, N, D)
    BY PosTop
  <2> QED BY <1>1, <2>1 DEF TopText
<1>3. D[n] + 1 \in 1 .. Len(p[N[n]]) /\ D[n] + 1 \in 1 .. Z /\ ~(D[n] + 1 > Len(p[N[n]])) /\ (D[n] + 1) + 1 = D[n] + 2
  BY <1>2, SMTT(60)
<1>4. Plan(d, g, p) /\ TextsOf(d, g, p, r)
  BY DEF Pos
<1>5. c \in 1 .. Z /\ c \in 0 .. Z
  BY <1>1, <1>2, <1>3, <1>4, PlanOrder
<1>6. g.lead[N[n]][D[n] + 1][c] \in Seq(Tok) /\ g.begin[c] \in Seq(Tok) /\ g.end[c] \in Seq(Tok)
  BY <1>1, <1>2, <1>3, <1>5 DEF Grammar
<1>7. r[<<c, 1>>] \in Seq(Tok) /\ r[<<c, 1>>] = TextAt(g, p, r, c, 1)
  <2>1. 1 \in 1 .. Z + 1
    OBVIOUS
  <2> QED BY <1>1, <1>4, <1>5, <2>1 DEF TextsOf, TextRow
<1>8. r[<<N[n], D[n] + 1>>] = g.lead[N[n]][D[n] + 1][c] \o (g.begin[c] \o (r[<<c, 1>>] \o r[<<N[n], D[n] + 2>>]))
  BY <1>2, <1>3, Zenon DEF TextAt
<1> QED BY <1>1, <1>2, <1>3, <1>5, <1>6, <1>7, <1>8 DEF EntryText

\* At the start.
LEMMA TellsStart ==
  ASSUME NEW d, DocTree(d), NEW g, Grammar(d, g), NEW p, NEW r, NEW N, NEW D, Pos(d, g, p, r, 1, N, D),
         N[1] = 0, D[1] = 0
  PROVE  Tells(g, p, r, 1, N, D, FALSE, g.begin[0]) /\ \E z \in Seq(Tok) : Whole(g, r) = g.begin[0] \o z
<1>1. g.begin[0] \in Seq(Tok)
  <2>1. 0 \in 0 .. d.size
    BY DEF DocTree
  <2> QED BY <2>1 DEF Grammar
<1>2. r[<<0, 1>>] \in Seq(Tok)
  <2>1. TopText(d, g, p, r, 1, N, D)
    BY PosTop
  <2>2. 0 + 1 = 1
    OBVIOUS
  <2> QED BY <2>1, <2>2 DEF TopText
<1>3. PICK R : R = [k \in {0} |-> <<>>]
  OBVIOUS
<1>4. Tails(1, N, D, r, R) /\ R[1 - 1] = <<>>
  <2>1. 0 .. 1 - 1 = {0} /\ 1 .. 1 - 1 = {} /\ 1 - 1 = 0 /\ <<>> \in Seq(Tok)
    OBVIOUS
  <2>2. R[0] = <<>>
    BY <1>3
  <2> QED BY <2>1, <2>2 DEF Tails
<1>5. AheadOf(g, p, r, N[1], D[1], FALSE) = r[<<0, 1>>]
  <2>1. 0 + 1 = 1
    OBVIOUS
  <2> QED BY <2>1 DEF AheadOf
<1>6. r[<<0, 1>>] \o <<>> = r[<<0, 1>>]
  BY <1>2, ConcatEmptySeq
<1> QED BY <1>1, <1>2, <1>4, <1>5, <1>6 DEF Tells, Whole

\* What leads to an entry is written.
LEMMA TellsEntry ==
  ASSUME NEW d, DocTree(d), NEW g, Grammar(d, g), NEW p, NEW r, NEW n, NEW N, NEW D, Pos(d, g, p, r, n, N, D),
         D[n] < Len(p[N[n]]), NEW w, Tells(g, p, r, n, N, D, FALSE, w),
         NEW l, l = g.lead[N[n]][D[n] + 1][p[N[n]][D[n] + 1]]
  PROVE  Wrote(g, p, r, n, N, D, TRUE, w, l)
<1>1. PICK c : c = p[N[n]][D[n] + 1]
  OBVIOUS
<1>2. PICK a, b : a = r[<<N[n], D[n] + 1>>] /\ b = g.begin[c] \o (r[<<c, 1>>] \o r[<<N[n], D[n] + 2>>])
  OBVIOUS
<1>3. l \in Seq(Tok) /\ b \in Seq(Tok) /\ a = l \o b
  <2>1. /\ l \in Seq(Tok) /\ g.begin[c] \in Seq(Tok) /\ r[<<c, 1>>] \in Seq(Tok) /\ r[<<N[n], D[n] + 2>>] \in Seq(Tok)
        /\ a = l \o b
    <3>1. EntryText(d, g, p, r, n, N, D, c)
      BY <1>1, PosCurrent
    <3> QED BY <1>1, <1>2, <3>1 DEF EntryText
  <2>2. r[<<c, 1>>] \o r[<<N[n], D[n] + 2>>] \in Seq(Tok)
    BY <2>1, ConcatProperties
  <2> QED BY <1>2, <2>1, <2>2, ConcatProperties
<1>4. PICK R : Tails(n, N, D, r, R) /\ Whole(g, r) = w \o (AheadOf(g, p, r, N[n], D[n], FALSE) \o R[n - 1])
  BY DEF Tells
<1>5. AheadOf(g, p, r, N[n], D[n], FALSE) = l \o b /\ AheadOf(g, p, r, N[n], D[n], TRUE) = b
  BY <1>1, <1>2, <1>3 DEF AheadOf
<1>6. w \in Seq(Tok) /\ R[n - 1] \in Seq(Tok)
  <2>1. n - 1 \in 0 .. n - 1
    BY DEF Pos
  <2> QED BY <1>4, <2>1 DEF Tails, Tells
<1>7. /\ w \o l \in Seq(Tok) /\ b \o R[n - 1] \in Seq(Tok)
      /\ w \o ((l \o b) \o R[n - 1]) = (w \o l) \o (b \o R[n - 1])
      /\ w \o ((l \o b) \o R[n - 1]) = w \o (l \o (b \o R[n - 1]))
  <2>1. Regroups(w, l, b, R[n - 1])
    BY <1>3, <1>6, Regroup
  <2> QED BY <2>1 DEF Regroups
<1>8. Leads(g, r, w, l)
  BY <1>3, <1>4, <1>5, <1>6, <1>7 DEF Leads
<1>9. Tells(g, p, r, n, N, D, TRUE, w \o l)
  BY <1>4, <1>5, <1>7 DEF Tells
<1> QED BY <1>8, <1>9 DEF Wrote

\* The opening of a container is written.
LEMMA TellsOpen ==
  ASSUME NEW d, DocTree(d), NEW g, Grammar(d, g), NEW p, NEW r, NEW n, NEW N, NEW D, Pos(d, g, p, r, n, N, D),
         D[n] < Len(p[N[n]]), NEW w, Tells(g, p, r, n, N, D, TRUE, w),
         NEW c, c = p[N[n]][D[n] + 1],
         NEW M, MoreBy(n, N, c, M),
         NEW E, MoreBy(n, D, 0, E)
  PROVE  Wrote(g, p, r, n + 1, M, E, FALSE, w, g.begin[c])
<1>e. /\ \A k \in 1 .. n + 1 : M[k] = IF k = n + 1 THEN c ELSE N[k]
      /\ \A k \in 1 .. n + 1 : E[k] = IF k = n + 1 THEN 0 ELSE D[k]
  BY DEF MoreBy
<1> USE <1>e
<1>1. PICK a, b, t : a = g.begin[c] /\ b = r[<<c, 1>>] /\ t = r[<<N[n], D[n] + 2>>]
  OBVIOUS
<1>2. a \in Seq(Tok) /\ b \in Seq(Tok) /\ t \in Seq(Tok)
  <2>1. EntryText(d, g, p, r, n, N, D, c)
    BY PosCurrent
  <2> QED BY <1>1, <2>1 DEF EntryText
<1>3. PICK R : Tails(n, N, D, r, R) /\ Whole(g, r) = w \o (AheadOf(g, p, r, N[n], D[n], TRUE) \o R[n - 1])
  BY DEF Tells
<1>4. AheadOf(g, p, r, N[n], D[n], TRUE) = a \o (b \o t)
  BY <1>1 DEF AheadOf
<1>5. n \in Nat /\ n >= 1 /\ n - 1 \in 0 .. n - 1 /\ n \in 1 .. n /\ n + 1 \in 1 .. n + 1 /\ (n + 1) - 1 = n /\ n \in 0 .. n
  BY DEF Pos
<1>6. w \in Seq(Tok) /\ R[n - 1] \in Seq(Tok)
  BY <1>3, <1>5 DEF Tails, Tells
<1>7. PICK z : z = t \o R[n - 1]
  OBVIOUS
<1>8. z \in Seq(Tok) /\ b \o z \in Seq(Tok) /\ w \o a \in Seq(Tok) /\ (b \o t) \o R[n - 1] = b \o z
  <2>1. z \in Seq(Tok) /\ w \o a \in Seq(Tok)
    BY <1>2, <1>6, <1>7, ConcatProperties
  <2>2. b \o z \in Seq(Tok) /\ (b \o t) \o R[n - 1] = b \o z
    <3>1. Regroups(w, b, t, R[n - 1])
      BY <1>2, <1>6, Regroup
    <3>2. b \o z \in Seq(Tok)
      BY <1>2, <2>1, ConcatProperties
    <3> QED BY <1>7, <3>1, <3>2 DEF Regroups
  <2> QED BY <2>1, <2>2
<1>9. Whole(g, r) = (w \o a) \o (b \o z) /\ Whole(g, r) = w \o (a \o (b \o z))
  <2>1. b \o t \in Seq(Tok)
    BY <1>2, ConcatProperties
  <2>2. /\ w \o ((a \o (b \o t)) \o R[n - 1]) = (w \o a) \o ((b \o t) \o R[n - 1])
        /\ w \o ((a \o (b \o t)) \o R[n - 1]) = w \o (a \o ((b \o t) \o R[n - 1]))
    <3>1. Regroups(w, a, b \o t, R[n - 1])
      BY <1>2, <1>6, <2>1, Regroup
    <3> QED BY <3>1 DEF Regroups
  <2> QED BY <1>3, <1>4, <1>8, <2>2
<1>10. Leads(g, r, w, g.begin[c])
  BY <1>1, <1>2, <1>6, <1>8, <1>9 DEF Leads
<1>11. PICK Q : Q = [k \in 0 .. n |-> IF k = n THEN z ELSE R[k]]
  OBVIOUS
<1>12. Tails(n + 1, M, E, r, Q) /\ Q[(n + 1) - 1] = z
  <2>1. /\ \A k \in 0 .. n : k = n \/ k \in 0 .. n - 1
        /\ \A k \in 0 .. n - 1 : k \in 0 .. n /\ k # n
        /\ \A k \in 1 .. n : (k = n \/ k \in 1 .. n - 1) /\ k - 1 \in 0 .. n - 1 /\ k \in 0 .. n /\ k \in 1 .. n + 1 /\ k # n + 1
        /\ \A k \in 1 .. n - 1 : k # n
        /\ 0 \in 0 .. n - 1
    BY <1>5
  <2>2. Q[n] = z /\ \A k \in 0 .. n - 1 : Q[k] = R[k]
    BY <1>5, <1>11, <2>1
  <2>3. \A k \in 0 .. n : Q[k] \in Seq(Tok)
    BY <1>3, <1>8, <2>1, <2>2 DEF Tails
  <2>4. Q[0] = <<>>
    BY <1>3, <2>1, <2>2 DEF Tails
  <2>5. ASSUME NEW k \in 1 .. n PROVE Q[k] = r[<<M[k], E[k] + 2>>] \o Q[k - 1]
    <3>1. M[k] = N[k] /\ E[k] = D[k] /\ Q[k - 1] = R[k - 1]
      BY <2>1, <2>2
    <3>2. CASE k = n
      BY <1>1, <1>7, <2>2, <3>1, <3>2
    <3>3. CASE k # n
      <4>1. k \in 1 .. n - 1 /\ k \in 0 .. n - 1
        <5>1. k \in 1 .. n - 1
          BY <2>1, <3>3
        <5>2. \A x \in 1 .. n - 1 : x \in 0 .. n - 1
          BY <1>5
        <5> QED BY <5>1, <5>2
      <4>2. R[k] = r[<<N[k], D[k] + 2>>] \o R[k - 1]
        BY <1>3, <4>1 DEF Tails
      <4> QED BY <2>2, <3>1, <4>1, <4>2
    <3> QED BY <3>2, <3>3
  <2> QED BY <1>5, <2>2, <2>3, <2>4, <2>5 DEF Tails
<1>13. AheadOf(g, p, r, M[n + 1], E[n + 1], FALSE) = b
  <2>1. M[n + 1] = c /\ E[n + 1] = 0 /\ 0 + 1 = 1
    BY <1>5
  <2> QED BY <1>1, <2>1 DEF AheadOf
<1>14. Tells(g, p, r, n + 1, M, E, FALSE, w \o g.begin[c])
  BY <1>1, <1>8, <1>9, <1>12, <1>13 DEF Tells
<1> QED BY <1>10, <1>14 DEF Wrote

\* An entry with nothing below it is written.
LEMMA TellsLeaf ==
  ASSUME NEW d, DocTree(d), NEW g, Grammar(d, g), NEW p, NEW r, NEW n, NEW N, NEW D, Pos(d, g, p, r, n, N, D),
         D[n] < Len(p[N[n]]), NEW w, Tells(g, p, r, n, N, D, TRUE, w),
         NEW c, c = p[N[n]][D[n] + 1], KidSet(d, c) = {},
         NEW E, FurtherBy(n, D, E)
  PROVE  Wrote(g, p, r, n, N, E, FALSE, w, g.begin[c] \o g.end[c])
<1>e. \A k \in 1 .. n : E[k] = IF k = n THEN D[n] + 1 ELSE D[k]
  BY DEF FurtherBy
<1> USE <1>e
<1>1. PICK a, b, t : a = g.begin[c] /\ b = g.end[c] /\ t = r[<<N[n], D[n] + 2>>]
  OBVIOUS
<1>2. a \in Seq(Tok) /\ b \in Seq(Tok) /\ t \in Seq(Tok) /\ c \in 0 .. d.size
  <2>1. EntryText(d, g, p, r, n, N, D, c)
    BY PosCurrent
  <2> QED BY <1>1, <2>1 DEF EntryText
<1>3. r[<<c, 1>>] = b
  <2>1. r[<<c, 1>>] = TextAt(g, p, r, c, 1)
    <3>1. EntryText(d, g, p, r, n, N, D, c)
      BY PosCurrent
    <3> QED BY <3>1 DEF EntryText
  <2>2. Plan(d, g, p)
    BY DEF Pos
  <2>3. Len(p[c]) \in Nat /\ \A k \in 1 .. Len(p[c]) : p[c][k] \in KidSet(d, c)
    <3>1. EntriesOf(d, p, c)
      BY <1>2, <2>2, PlanEntries
    <3> QED BY <3>1 DEF EntriesOf
  <2>4. 1 > Len(p[c])
    <3> SUFFICES ASSUME ~(1 > Len(p[c])) PROVE FALSE
      OBVIOUS
    <3>1. 1 \in 1 .. Len(p[c])
      BY <2>3
    <3> QED BY <2>3, <3>1
  <2> QED BY <1>1, <2>1, <2>4 DEF TextAt
<1>4. PICK R : Tails(n, N, D, r, R) /\ Whole(g, r) = w \o (AheadOf(g, p, r, N[n], D[n], TRUE) \o R[n - 1])
  BY DEF Tells
<1>5. AheadOf(g, p, r, N[n], D[n], TRUE) = (a \o b) \o t
  <2>1. AheadOf(g, p, r, N[n], D[n], TRUE) = a \o (b \o t)
    BY <1>1, <1>3 DEF AheadOf
  <2>2. Regroups(t, a, b, t)
    BY <1>2, Regroup
  <2>3. (a \o b) \o t = a \o (b \o t)
    BY <2>2 DEF Regroups
  <2> QED BY <2>1, <2>3
<1>6. n \in Nat /\ n - 1 \in 0 .. n - 1 /\ n \in 1 .. n /\ D[n] \in Nat
  BY DEF Pos
<1>7. w \in Seq(Tok) /\ R[n - 1] \in Seq(Tok)
  BY <1>4, <1>6 DEF Tails, Tells
<1>8. a \o b \in Seq(Tok)
  BY <1>2, ConcatProperties
<1>9. /\ w \o (a \o b) \in Seq(Tok) /\ t \o R[n - 1] \in Seq(Tok)
      /\ w \o (((a \o b) \o t) \o R[n - 1]) = (w \o (a \o b)) \o (t \o R[n - 1])
      /\ w \o (((a \o b) \o t) \o R[n - 1]) = w \o ((a \o b) \o (t \o R[n - 1]))
  <2>1. Regroups(w, a \o b, t, R[n - 1])
    BY <1>2, <1>7, <1>8, Regroup
  <2> QED BY <2>1 DEF Regroups
<1>10. Leads(g, r, w, a \o b)
  BY <1>4, <1>5, <1>7, <1>8, <1>9 DEF Leads
<1>11. Tails(n, N, E, r, R)
  <2>1. \A k \in 1 .. n - 1 : E[k] = D[k]
    <3>1. \A k \in 1 .. n - 1 : k \in 1 .. n /\ k # n
      BY <1>6
    <3> QED BY <3>1
  <2> QED BY <1>4, <2>1 DEF Tails
<1>12. AheadOf(g, p, r, N[n], E[n], FALSE) = t
  <2>1. E[n] = D[n] + 1
    BY <1>6
  <2>2. E[n] + 1 = D[n] + 2
    BY <1>6, <2>1
  <2> QED BY <1>1, <2>2 DEF AheadOf
<1>13. Tells(g, p, r, n, N, E, FALSE, w \o (a \o b))
  BY <1>4, <1>5, <1>9, <1>11, <1>12 DEF Tells
<1> QED BY <1>1, <1>10, <1>13 DEF Wrote

\* The end of a container is written.
LEMMA TellsClose ==
  ASSUME NEW d, DocTree(d), NEW g, Grammar(d, g), NEW p, NEW r, NEW n, NEW N, NEW D, Pos(d, g, p, r, n, N, D),
         D[n] = Len(p[N[n]]), NEW w, Tells(g, p, r, n, N, D, FALSE, w), NEW e, e = g.end[N[n]]
  PROVE  Closes(g, p, r, n, N, D, w, e)
<1>1. /\ n \in Nat /\ n >= 1 /\ n - 1 \in 0 .. n - 1 /\ N[n] \in 0 .. d.size
      /\ \A k \in 1 .. n : N[k] \in 0 .. d.size /\ D[k] \in Nat /\ (k < n => D[k] < Len(p[N[k]]))
  BY DEF Pos
<1>2. e \in Seq(Tok)
  BY <1>1 DEF Grammar
<1>3. r[<<N[n], D[n] + 1>>] = e
  <2>1. r[<<N[n], D[n] + 1>>] = TextAt(g, p, r, N[n], D[n] + 1) /\ D[n] \in Nat
    <3>1. TopText(d, g, p, r, n, N, D)
      BY PosTop
    <3> QED BY <3>1 DEF TopText
  <2>2. D[n] + 1 > Len(p[N[n]])
    BY <2>1
  <2> QED BY <2>1, <2>2 DEF TextAt
<1>4. PICK R : Tails(n, N, D, r, R) /\ Whole(g, r) = w \o (AheadOf(g, p, r, N[n], D[n], FALSE) \o R[n - 1])
  BY DEF Tells
<1>5. Whole(g, r) = w \o (e \o R[n - 1])
  BY <1>3, <1>4 DEF AheadOf
<1>6. w \in Seq(Tok) /\ R[n - 1] \in Seq(Tok)
  BY <1>1, <1>4 DEF Tails, Tells
<1>7. Leads(g, r, w, e)
  BY <1>2, <1>5, <1>6 DEF Leads
<1>8. ASSUME n = 1 PROVE Whole(g, r) = w \o e
  <2>1. R[n - 1] = <<>>
    <3>1. n - 1 = 0
      BY <1>8
    <3> QED BY <1>4, <3>1 DEF Tails
  <2>2. e \o <<>> = e
    BY <1>2, ConcatEmptySeq
  <2> QED BY <1>5, <2>1, <2>2
<1>9. ASSUME n # 1, NEW E, FurtherBy(n - 1, D, E)
      PROVE  Tells(g, p, r, n - 1, N, E, FALSE, w \o e)
  <2>1. PICK q \in Nat : q = n - 1 /\ q >= 1 /\ q \in 1 .. n - 1 /\ q \in 1 .. n /\ q < n /\ q - 1 \in 0 .. n - 1
    BY <1>1, <1>9
  <2>2. PICK t : t = r[<<N[q], D[q] + 2>>]
    OBVIOUS
  <2>3. R[n - 1] = t \o R[q - 1]
    BY <1>4, <2>1, <2>2 DEF Tails
  <2>4. t \in Seq(Tok) /\ D[q] \in Nat
    <3>1. D[q] < Len(p[N[q]]) /\ D[q] \in Nat
      BY <1>1, <2>1
    <3>2. TopText(d, g, p, r, n, N, D)
      BY PosTop
    <3> QED BY <2>1, <2>2, <3>1, <3>2 DEF TopText
  <2>5. AheadOf(g, p, r, N[q], E[q], FALSE) = t
    <3>1. E[q] = D[q] + 1
      BY <1>9, <2>1 DEF FurtherBy
    <3>2. E[q] + 1 = D[q] + 2
      BY <2>4, <3>1
    <3> QED BY <2>2, <3>2 DEF AheadOf
  <2>6. Tails(q, N, E, r, R)
    <3>1. /\ \A k \in 0 .. q - 1 : k \in 0 .. n - 1
          /\ \A k \in 1 .. q - 1 : k \in 1 .. n - 1 /\ k # n - 1
      BY <1>1, <2>1
    <3>2. \A k \in 1 .. q - 1 : E[k] = D[k]
      BY <1>9, <3>1 DEF FurtherBy
    <3> QED BY <1>4, <3>1, <3>2 DEF Tails
  <2>7. R[q - 1] \in Seq(Tok)
    BY <1>4, <2>1 DEF Tails
  <2>8. w \o e \in Seq(Tok) /\ w \o (e \o (t \o R[q - 1])) = (w \o e) \o (t \o R[q - 1])
    <3>1. t \o R[q - 1] \in Seq(Tok) /\ w \o e \in Seq(Tok)
      BY <1>2, <1>6, <2>4, <2>7, ConcatProperties
    <3>2. Regroups(w, e, t, R[q - 1])
      BY <1>2, <1>6, <2>4, <2>7, Regroup
    <3> QED BY <3>1, <3>2 DEF Regroups
  <2> QED BY <1>5, <2>1, <2>3, <2>5, <2>6, <2>8 DEF Tells
<1> QED BY <1>7, <1>8, <1>9 DEF Closes

-----------------------------------------------------------------------------
(* The recursion with what it has written, whatever plan it will follow in *)
(* the containers it has not met.                                          *)

Agrees(d, g, o, p, F) == Plan(d, g, p) /\ \A i \in F : p[i] = o[i]

Run(d, g, o, n, N, D, m, F, w) ==
    /\ Walk(d, g, o, n, N, D, m, F)
    /\ w \in Seq(Tok)
    /\ \A p, r : Agrees(d, g, o, p, F) /\ TextsOf(d, g, p, r) => Tells(g, p, r, n, N, D, m, w)

NextPiece(d, g, o, w, piece) == \A r : TextsOf(d, g, o, r) => Leads(g, r, w, piece)

PosSame(d, g, o, p, r, n, N, D) == Pos(d, g, p, r, n, N, D) /\ n \in 1 .. n /\ \A k \in 1 .. n : p[N[k]] = o[N[k]]

\* A plan that agrees in the containers met stands at the same place in its text.
LEMMA PosOf ==
  ASSUME NEW d, NEW g, NEW o, NEW n, NEW N, NEW D, NEW m, NEW F, Walk(d, g, o, n, N, D, m, F),
         NEW p, Agrees(d, g, o, p, F), NEW r, TextsOf(d, g, p, r)
  PROVE  PosSame(d, g, o, p, r, n, N, D)
<1>1. n \in Nat /\ n >= 1 /\ Plan(d, g, p)
  BY DEF Walk, Agrees
<1>2. \A k \in 1 .. n : /\ N[k] \in 0 .. d.size /\ N[k] \in F
                        /\ D[k] \in Nat /\ D[k] <= Len(o[N[k]]) /\ (k < n => D[k] < Len(o[N[k]]))
  BY DEF Walk, Standing
<1>3. \A k \in 1 .. n : p[N[k]] = o[N[k]]
  BY <1>2 DEF Agrees
<1>4. Pos(d, g, p, r, n, N, D)
  BY <1>1, <1>2, <1>3 DEF Pos
<1> QED BY <1>1, <1>3, <1>4 DEF PosSame

\* A walk's own plan agrees with it.
LEMMA AgreesItself ==
  ASSUME NEW d, NEW g, NEW o, NEW n, NEW N, NEW D, NEW m, NEW F, Walk(d, g, o, n, N, D, m, F)
  PROVE  Agrees(d, g, o, o, F)
  BY DEF Agrees, Walk

\* The root is opened: the walk starts and what opens the root is written.
LEMMA RunStart ==
  ASSUME NEW d, DocTree(d), NEW g, Grammar(d, g), NEW o, Plan(d, g, o),
         NEW N, N[1] = 0, NEW D, D[1] = 0
  PROVE  Run(d, g, o, 1, N, D, FALSE, {0}, g.begin[0])
<1>1. Walk(d, g, o, 1, N, D, FALSE, {0})
  BY WalkStart
<1>2. g.begin[0] \in Seq(Tok)
  <2>1. 0 \in 0 .. d.size
    BY DEF DocTree
  <2> QED BY <2>1 DEF Grammar
<1>3. ASSUME NEW p, NEW r, Agrees(d, g, o, p, {0}), TextsOf(d, g, p, r)
      PROVE  Tells(g, p, r, 1, N, D, FALSE, g.begin[0])
  <2>1. Pos(d, g, p, r, 1, N, D)
    <3>1. PosSame(d, g, o, p, r, 1, N, D)
      BY <1>1, <1>3, PosOf
    <3> QED BY <3>1 DEF PosSame
  <2> QED BY <2>1, TellsStart
<1> QED BY <1>1, <1>2, <1>3 DEF Run

\* An entry is begun: what leads to it is written.
LEMMA RunEntry ==
  ASSUME NEW d, DocTree(d), NEW g, Grammar(d, g), NEW o, NEW n, NEW N, NEW D, NEW F, NEW w,
         Run(d, g, o, n, N, D, FALSE, F, w), D[n] < Len(o[N[n]]),
         NEW l, l = g.lead[N[n]][D[n] + 1][o[N[n]][D[n] + 1]]
  PROVE  NextPiece(d, g, o, w, l) /\ Run(d, g, o, n, N, D, TRUE, F, w \o l) /\ l \in Seq(Tok)
<1>1. Walk(d, g, o, n, N, D, FALSE, F) /\ w \in Seq(Tok)
  BY DEF Run
<1>2. ASSUME NEW p, NEW r, Agrees(d, g, o, p, F), TextsOf(d, g, p, r)
      PROVE  Leads(g, r, w, l) /\ Tells(g, p, r, n, N, D, TRUE, w \o l)
  <2>1. Pos(d, g, p, r, n, N, D) /\ p[N[n]] = o[N[n]]
    <3>1. PosSame(d, g, o, p, r, n, N, D)
      BY <1>1, <1>2, PosOf
    <3> QED BY <3>1 DEF PosSame
  <2>2. Tells(g, p, r, n, N, D, FALSE, w)
    BY <1>2 DEF Run
  <2>3. D[n] < Len(p[N[n]]) /\ l = g.lead[N[n]][D[n] + 1][p[N[n]][D[n] + 1]]
    BY <2>1
  <2>4. Wrote(g, p, r, n, N, D, TRUE, w, l)
    BY <2>1, <2>2, <2>3, TellsEntry
  <2> QED BY <2>4 DEF Wrote
<1>3. Walk(d, g, o, n, N, D, TRUE, F)
  BY <1>1, WalkEntry
<1>4. NextPiece(d, g, o, w, l)
  BY <1>1, <1>2, AgreesItself DEF NextPiece
<1>5. l \in Seq(Tok) /\ w \o l \in Seq(Tok)
  <2>1. Plan(d, g, o)
    BY <1>1 DEF Walk
  <2>2. PICK r : TextsOf(d, g, o, r)
    BY <2>1, TextsExist
  <2>3. l \in Seq(Tok)
    BY <1>4, <2>2 DEF NextPiece, Leads
  <2> QED BY <1>1, <2>3, ConcatProperties
<1> QED BY <1>2, <1>3, <1>4, <1>5 DEF Run

\* An entry without entries is written from end to end.
LEMMA RunLeaf ==
  ASSUME NEW d, DocTree(d), NEW g, Grammar(d, g), NEW o, NEW n, NEW N, NEW D, NEW F, NEW w,
         Run(d, g, o, n, N, D, TRUE, F, w), NEW c, c = o[N[n]][D[n] + 1], KidSet(d, c) = {},
         NEW E, FurtherBy(n, D, E)
  PROVE  /\ NextPiece(d, g, o, w, g.begin[c] \o g.end[c]) /\ g.begin[c] \o g.end[c] \in Seq(Tok)
         /\ Run(d, g, o, n, N, E, FALSE, F \cup {c}, w \o (g.begin[c] \o g.end[c]))
<1>1. Walk(d, g, o, n, N, D, TRUE, F) /\ w \in Seq(Tok)
  BY DEF Run
<1>2. PICK l : l = g.begin[c] \o g.end[c]
  OBVIOUS
<1>3. D[n] < Len(o[N[n]])
  <2>1. n \in 1 .. n
    BY <1>1, WalkCurrent
  <2> QED BY <1>1, <2>1 DEF Walk, Standing
<1>4. ASSUME NEW p, NEW r, Agrees(d, g, o, p, F), TextsOf(d, g, p, r)
      PROVE  Leads(g, r, w, l) /\ Tells(g, p, r, n, N, E, FALSE, w \o l)
  <2>1. Pos(d, g, p, r, n, N, D) /\ p[N[n]] = o[N[n]]
    <3>1. PosSame(d, g, o, p, r, n, N, D)
      BY <1>1, <1>4, PosOf
    <3> QED BY <3>1 DEF PosSame
  <2>2. Tells(g, p, r, n, N, D, TRUE, w)
    BY <1>4 DEF Run
  <2>3. D[n] < Len(p[N[n]]) /\ c = p[N[n]][D[n] + 1]
    BY <1>3, <2>1, Zenon
  <2>4. Wrote(g, p, r, n, N, E, FALSE, w, g.begin[c] \o g.end[c])
    BY <2>1, <2>2, <2>3, TellsLeaf
  <2> QED BY <1>2, <2>4 DEF Wrote
<1>5. Walk(d, g, o, n, N, E, FALSE, F \cup {c})
  BY <1>1, WalkLeaf
<1>6. NextPiece(d, g, o, w, l)
  BY <1>1, <1>4, AgreesItself DEF NextPiece
<1>7. l \in Seq(Tok) /\ w \o l \in Seq(Tok)
  <2>1. Plan(d, g, o)
    BY <1>1 DEF Walk
  <2>2. PICK r : TextsOf(d, g, o, r)
    BY <2>1, TextsExist
  <2>3. l \in Seq(Tok)
    BY <1>6, <2>2 DEF NextPiece, Leads
  <2> QED BY <1>1, <2>3, ConcatProperties
<1>8. ASSUME NEW p, NEW r, Agrees(d, g, o, p, F \cup {c}), TextsOf(d, g, p, r)
      PROVE  Tells(g, p, r, n, N, E, FALSE, w \o l)
  <2>1. Agrees(d, g, o, p, F)
    BY <1>8 DEF Agrees
  <2> QED BY <1>4, <1>8, <2>1
<1> QED BY <1>2, <1>5, <1>6, <1>7, <1>8 DEF Run

OpenedFor(d, g, o, q, n, N, M, E, F, c, w) ==
    /\ NextPiece(d, g, o, w, g.begin[c]) /\ g.begin[c] \in Seq(Tok)
    /\ Run(d, g, q, n + 1, M, E, FALSE, F \cup {c}, w \o g.begin[c])
    /\ \A k \in 1 .. n : q[N[k]] = o[N[k]]

\* An entry with entries is opened, in an order that only now is chosen.
LEMMA RunOpen ==
  ASSUME NEW d, DocTree(d), NEW g, Grammar(d, g), NEW o, NEW n, NEW N, NEW D, NEW F, NEW w,
         Run(d, g, o, n, N, D, TRUE, F, w), NEW c, c = o[N[n]][D[n] + 1],
         NEW x \in g.orders[c], NEW q, PlanWith(d, o, c, x, q),
         NEW M, MoreBy(n, N, c, M),
         NEW E, MoreBy(n, D, 0, E)
  PROVE  OpenedFor(d, g, o, q, n, N, M, E, F, c, w)
<1>1. Walk(d, g, o, n, N, D, TRUE, F) /\ w \in Seq(Tok)
  BY DEF Run
<1>2. n \in 1 .. n /\ c \notin F
  BY <1>1, WalkCurrent
<1>3. D[n] < Len(o[N[n]])
  BY <1>1, <1>2 DEF Walk, Standing
<1>4. ASSUME NEW p, NEW r, Agrees(d, g, o, p, F), TextsOf(d, g, p, r)
      PROVE  Leads(g, r, w, g.begin[c]) /\ Tells(g, p, r, n + 1, M, E, FALSE, w \o g.begin[c])
  <2>1. Pos(d, g, p, r, n, N, D) /\ p[N[n]] = o[N[n]]
    <3>1. PosSame(d, g, o, p, r, n, N, D)
      BY <1>1, <1>4, PosOf
    <3> QED BY <3>1 DEF PosSame
  <2>2. Tells(g, p, r, n, N, D, TRUE, w)
    BY <1>4 DEF Run
  <2>3. D[n] < Len(p[N[n]]) /\ c = p[N[n]][D[n] + 1]
    BY <1>3, <2>1, Zenon
  <2>4. Wrote(g, p, r, n + 1, M, E, FALSE, w, g.begin[c])
    BY <2>1, <2>2, <2>3, TellsOpen
  <2> QED BY <2>4 DEF Wrote
<1>5. Walk(d, g, q, n + 1, M, E, FALSE, F \cup {c})
  BY <1>1, WalkOpen
<1>6. NextPiece(d, g, o, w, g.begin[c])
  BY <1>1, <1>4, AgreesItself DEF NextPiece
<1>7. g.begin[c] \in Seq(Tok) /\ w \o g.begin[c] \in Seq(Tok)
  <2>1. Plan(d, g, o)
    BY <1>1 DEF Walk
  <2>2. PICK r : TextsOf(d, g, o, r)
    BY <2>1, TextsExist
  <2>3. g.begin[c] \in Seq(Tok)
    BY <1>6, <2>2 DEF NextPiece, Leads
  <2> QED BY <1>1, <2>3, ConcatProperties
<1>8. \A i \in F : i # c /\ i \in 0 .. d.size /\ q[i] = o[i]
  <2>1. F \subseteq 0 .. d.size
    BY <1>1 DEF Walk, Met
  <2> QED BY <1>2, <2>1 DEF PlanWith
<1>9. ASSUME NEW p, NEW r, Agrees(d, g, q, p, F \cup {c}), TextsOf(d, g, p, r)
      PROVE  Tells(g, p, r, n + 1, M, E, FALSE, w \o g.begin[c])
  <2>1. Agrees(d, g, o, p, F)
    BY <1>8, <1>9 DEF Agrees
  <2> QED BY <1>4, <1>9, <2>1
<1>10. \A k \in 1 .. n : q[N[k]] = o[N[k]]
  <2>1. \A k \in 1 .. n : N[k] \in F
    BY <1>1 DEF Walk, Standing
  <2> QED BY <1>8, <2>1
<1> QED BY <1>5, <1>6, <1>7, <1>9, <1>10 DEF Run, OpenedFor

\* The last container is closed; after the root's end there is nothing to follow.
LEMMA RunClose ==
  ASSUME NEW d, DocTree(d), NEW g, Grammar(d, g), NEW o, NEW n, NEW N, NEW D, NEW F, NEW w,
         Run(d, g, o, n, N, D, FALSE, F, w), D[n] = Len(o[N[n]]), NEW e, e = g.end[N[n]]
  PROVE  /\ NextPiece(d, g, o, w, e) /\ e \in Seq(Tok)
         /\ n = 1 => F = 0 .. d.size /\ \A r : TextsOf(d, g, o, r) => Whole(g, r) = w \o e
         /\ n # 1 => \A E : FurtherBy(n - 1, D, E)
                               => Run(d, g, o, n - 1, N, E, FALSE, F, w \o e)
<1>1. Walk(d, g, o, n, N, D, FALSE, F) /\ w \in Seq(Tok)
  BY DEF Run
<1>2. ASSUME NEW p, NEW r, Agrees(d, g, o, p, F), TextsOf(d, g, p, r)
      PROVE  /\ Leads(g, r, w, e)
             /\ n = 1 => Whole(g, r) = w \o e
             /\ n # 1 => \A E : FurtherBy(n - 1, D, E)
                                => Tells(g, p, r, n - 1, N, E, FALSE, w \o e)
  <2>1. Pos(d, g, p, r, n, N, D) /\ p[N[n]] = o[N[n]]
    <3>1. PosSame(d, g, o, p, r, n, N, D)
      BY <1>1, <1>2, PosOf
    <3> QED BY <3>1 DEF PosSame
  <2>2. Tells(g, p, r, n, N, D, FALSE, w)
    BY <1>2 DEF Run
  <2>3. D[n] = Len(p[N[n]])
    BY <2>1
  <2>4. Closes(g, p, r, n, N, D, w, e)
    BY <2>1, <2>2, <2>3, TellsClose
  <2> QED BY <2>4 DEF Closes
<1>3. NextPiece(d, g, o, w, e)
  BY <1>1, <1>2, AgreesItself DEF NextPiece
<1>4. e \in Seq(Tok) /\ w \o e \in Seq(Tok)
  <2>1. Plan(d, g, o)
    BY <1>1 DEF Walk
  <2>2. PICK r : TextsOf(d, g, o, r)
    BY <2>1, TextsExist
  <2>3. e \in Seq(Tok)
    BY <1>3, <2>2 DEF NextPiece, Leads
  <2> QED BY <1>1, <2>3, ConcatProperties
<1>5. ASSUME n = 1 PROVE F = 0 .. d.size /\ \A r : TextsOf(d, g, o, r) => Whole(g, r) = w \o e
  <2>1. F = 0 .. d.size
    BY <1>1, <1>5, WalkEnd
  <2>2. \A r : TextsOf(d, g, o, r) => Whole(g, r) = w \o e
    BY <1>1, <1>2, <1>5, AgreesItself
  <2> QED BY <2>1, <2>2
<1>6. ASSUME n # 1, NEW E, FurtherBy(n - 1, D, E)
      PROVE  Run(d, g, o, n - 1, N, E, FALSE, F, w \o e)
  <2>1. Walk(d, g, o, n - 1, N, E, FALSE, F)
    BY <1>1, <1>6, WalkClose
  <2>2. ASSUME NEW p, NEW r, Agrees(d, g, o, p, F), TextsOf(d, g, p, r)
        PROVE  Tells(g, p, r, n - 1, N, E, FALSE, w \o e)
    BY <1>2, <1>6, <2>2
  <2> QED BY <1>4, <2>1, <2>2 DEF Run
<1> QED BY <1>3, <1>4, <1>5, <1>6

-----------------------------------------------------------------------------
(* What an exporter has written when it stops *)

StartOf(a, x) == a \in Seq(Tok) /\ \E b \in Seq(Tok) : x = a \o b

\* A beginning of the text of plan o; the whole of it.
Begins(d, g, o, w) == Plan(d, g, o) /\ w \in Seq(Tok) /\ \A r : TextsOf(d, g, o, r) => StartOf(w, Whole(g, r))

Full(d, g, o, w) == Plan(d, g, o) /\ w \in Seq(Tok) /\ \A r : TextsOf(d, g, o, r) => Whole(g, r) = w

\* The first tokens of a text are a part of it.
LEMMA PartCut ==
  ASSUME NEW x \in Seq(Tok), NEW m \in Nat, m <= Len(x)
  PROVE  StartOf(SubSeq(x, 1, m), x) /\ (m = 0 => SubSeq(x, 1, m) = <<>>)
<1> DEFINE a == SubSeq(x, 1, m)
           b == SubSeq(x, m + 1, Len(x))
<1>0. Len(x) \in Nat
  OBVIOUS
<1>1. a \in Seq(Tok)
  <2>1. \A i \in 1 .. m : x[i] \in Tok
    BY <1>0
  <2> QED BY <2>1, SubSeqProperties
<1>2. b \in Seq(Tok)
  <2>1. \A i \in m + 1 .. Len(x) : x[i] \in Tok
    BY <1>0
  <2> QED BY <1>0, <2>1, SubSeqProperties
<1>3. x = a \o b
  <2>1. SubSeq(x, 1, Len(x)) = x
    BY SubSeqFull
  <2>2. 1 \in 1 .. Len(x) + 1 /\ m \in 1 - 1 .. Len(x) /\ Len(x) \in m .. Len(x)
    BY <1>0
  <2>3. a \o b = SubSeq(x, 1, Len(x))
    BY <2>2, ConcatAdjacentSubSeq
  <2> QED BY <2>1, <2>3
<1>4. m = 0 => a = <<>>
  BY SubSeqEmpty
<1> HIDE DEF a, b
<1>5. StartOf(a, x)
  BY <1>1, <1>2, <1>3 DEF StartOf
<1> QED BY <1>4, <1>5 DEF a

\* Nothing is a part of any text, and each text of itself.
LEMMA PartEnds ==
  ASSUME NEW x \in Seq(Tok)
  PROVE  StartOf(<<>>, x) /\ StartOf(x, x)
<1>1. <<>> \in Seq(Tok) /\ x = <<>> \o x /\ x = x \o <<>>
  BY ConcatEmptySeq
<1> QED BY <1>1 DEF StartOf

\* A part of a text is a part of a longer one.
LEMMA PartLonger ==
  ASSUME NEW x \in Seq(Tok), NEW a, StartOf(a, x), NEW y \in Seq(Tok), NEW z, z = x \o y
  PROVE  StartOf(a, z)
<1>1. PICK b \in Seq(Tok) : a \in Seq(Tok) /\ x = a \o b
  BY DEF StartOf
<1>2. Regroups(a, a, b, y)
  BY <1>1, Regroup
<1>3. b \o y \in Seq(Tok) /\ (a \o b) \o y = a \o (b \o y)
  BY <1>2 DEF Regroups
<1>4. z = a \o (b \o y)
  BY <1>1, <1>3
<1> QED BY <1>1, <1>3, <1>4 DEF StartOf

\* A part of what comes next has been written.
LEMMA BeginsNext ==
  ASSUME NEW d, DocTree(d), NEW g, Grammar(d, g), NEW o, Plan(d, g, o), NEW w, NEW x, NextPiece(d, g, o, w, x),
         NEW a, StartOf(a, x)
  PROVE  Begins(d, g, o, w \o a) /\ Begins(d, g, o, w)
<1>1. PICK b \in Seq(Tok) : a \in Seq(Tok) /\ x = a \o b
  BY DEF StartOf
<1>2. w \in Seq(Tok)
  <2>1. PICK r : TextsOf(d, g, o, r)
    BY TextsExist
  <2> QED BY <2>1 DEF NextPiece, Leads
<1>3. w \o a \in Seq(Tok)
  BY <1>1, <1>2, ConcatProperties
<1>4. ASSUME NEW r, TextsOf(d, g, o, r) PROVE StartOf(w \o a, Whole(g, r)) /\ StartOf(w, Whole(g, r))
  <2>1. PICK z \in Seq(Tok) : Whole(g, r) = w \o (x \o z)
    BY <1>4 DEF NextPiece, Leads
  <2>2. Regroups(w, a, b, z)
    BY <1>1, <1>2, <2>1, Regroup
  <2>3. x \o z \in Seq(Tok)
    <3>1. x \in Seq(Tok)
      BY <1>1, ConcatProperties
    <3> QED BY <2>1, <3>1, ConcatProperties
  <2>4. b \o z \in Seq(Tok) /\ Whole(g, r) = (w \o a) \o (b \o z)
    BY <1>1, <2>1, <2>2 DEF Regroups
  <2> QED BY <1>2, <1>3, <2>1, <2>3, <2>4 DEF StartOf
<1> QED BY <1>2, <1>3, <1>4 DEF Begins

\* All of a text is a beginning of it.
LEMMA BeginsFull ==
  ASSUME NEW d, NEW g, NEW o, NEW w, Full(d, g, o, w)
  PROVE  Begins(d, g, o, w)
<1>1. StartOf(w, w)
  BY PartEnds DEF Full
<1> QED BY <1>1 DEF Full, Begins

-----------------------------------------------------------------------------
(* The frames of an exporter *)

Stands(s, o, n, N, D) ==
    /\ FrameList(s) /\ Len(s) = n
    /\ \A k \in 1 .. n : s[k].node = N[k] /\ s[k].order = o[N[k]] /\ s[k].done = D[k]

\* A frame for the container that is opened.
LEMMA StandsPush ==
  ASSUME NEW s, NEW o, NEW n \in Nat, NEW N, NEW D, Stands(s, o, n, N, D),
         NEW f, NEW c, NEW x, f = [node |-> c, order |-> x, done |-> 0], NEW t, Pushed(s, f, t),
         NEW q, \A k \in 1 .. n : q[N[k]] = o[N[k]], q[c] = x,
         NEW M, MoreBy(n, N, c, M), NEW E, MoreBy(n, D, 0, E)
  PROVE  Stands(t, q, n + 1, M, E)
<1>1. FrameRec(f) /\ f.node = c /\ f.order = x /\ f.done = 0
  BY DEF FrameRec
<1>2. FrameList(s) /\ Len(s) = n
  BY DEF Stands
<1>3. FrameList(t) /\ Len(t) = n + 1 /\ t[n + 1] = f /\ \A k \in 1 .. n : t[k] = s[k]
  BY <1>1, <1>2, FramesPush
<1>4. ASSUME NEW k \in 1 .. n + 1 PROVE t[k].node = M[k] /\ t[k].order = q[M[k]] /\ t[k].done = E[k]
  <2>1. M[k] = (IF k = n + 1 THEN c ELSE N[k]) /\ E[k] = (IF k = n + 1 THEN 0 ELSE D[k])
    BY DEF MoreBy
  <2>2. CASE k = n + 1
    BY <1>1, <1>3, <2>1, <2>2
  <2>3. CASE k # n + 1
    <3>1. k \in 1 .. n
      BY <2>3
    <3> QED BY <1>3, <2>1, <2>3, <3>1 DEF Stands
  <2> QED BY <2>2, <2>3
<1> QED BY <1>3, <1>4 DEF Stands

\* The last frame has one more entry done.
LEMMA StandsLater ==
  ASSUME NEW s, NEW o, NEW n \in Nat, n >= 1, NEW N, NEW D, Stands(s, o, n, N, D),
         NEW t, Later(s, t), NEW E, FurtherBy(n, D, E)
  PROVE  Stands(t, o, n, N, E)
<1>1. FrameList(s) /\ Len(s) = n /\ n \in 1 .. n
  BY DEF Stands
<1>2. /\ FrameList(t) /\ Len(t) = n /\ SameBelow(s, t, n)
      /\ t[n].node = s[n].node /\ t[n].order = s[n].order /\ t[n].done = s[n].done + 1
  BY <1>1, FramesLater
<1>3. ASSUME NEW k \in 1 .. n PROVE t[k].node = N[k] /\ t[k].order = o[N[k]] /\ t[k].done = E[k]
  <2>1. E[k] = (IF k = n THEN D[k] + 1 ELSE D[k])
    BY DEF FurtherBy
  <2>2. s[k].node = N[k] /\ s[k].order = o[N[k]] /\ s[k].done = D[k]
    BY DEF Stands
  <2>3. CASE k = n
    BY <1>2, <2>1, <2>2, <2>3
  <2>4. CASE k # n
    <3>1. k < n /\ k \in 1 .. Len(s)
      BY <1>1, <2>4
    <3>2. t[k] = s[k]
      BY <1>2, <3>1 DEF SameBelow
    <3> QED BY <2>1, <2>2, <2>4, <3>2
  <2> QED BY <2>3, <2>4
<1> QED BY <1>2, <1>3 DEF Stands

\* The frames without the last.
LEMMA StandsPop ==
  ASSUME NEW s, NEW o, NEW n \in Nat, n >= 1, NEW N, NEW D, Stands(s, o, n, N, D),
         NEW t, t = SubSeq(s, 1, Len(s) - 1)
  PROVE  Stands(t, o, n - 1, N, D)
<1>1. FrameList(s) /\ Len(s) = n /\ Len(s) >= 1
  BY DEF Stands
<1>2. FrameList(t) /\ Len(t) = n - 1 /\ \A k \in 1 .. Len(t) : t[k] = s[k]
  BY <1>1, FramesPop
<1>3. \A k \in 1 .. n - 1 : k \in 1 .. n
  OBVIOUS
<1> QED BY <1>2, <1>3 DEF Stands

-----------------------------------------------------------------------------
(* The two together: an exporter under way with frames s, having written w, *)
(* all it has met in G and the entry that is begun in K.                    *)

NodeAt(s) == s[Len(s)].node

OrderAt(s) == s[Len(s)].order

DoneAt(s) == s[Len(s)].done

EntryOf(s) == OrderAt(s)[DoneAt(s) + 1]

KindIn(d, i) == IF i = 0 THEN "block" ELSE d.kind[i]

Holder(d, i) == KindIn(d, i) \in {"block", "array"}

Under(d, g, G, K, s, w, m) ==
    \E o, n, N, D, F :
        /\ Run(d, g, o, n, N, D, m, F, w) /\ Stands(s, o, n, N, D)
        /\ (\A k \in 1 .. n : Holder(d, N[k]))
        /\ F \subseteq G /\ (m => o[N[n]][D[n] + 1] \in K)

\* What may be written next; what may have been written; what may be all.
MayFollow(d, g, w, x) == \E o : Plan(d, g, o) /\ NextPiece(d, g, o, w, x)

MayBegin(d, g, w) == \E o : Begins(d, g, o, w)

MayBeAll(d, g, w) == \E o : Full(d, g, o, w)

TopIs(o, n, N, D, s) ==
    /\ NodeAt(s) = N[n] /\ OrderAt(s) = o[N[n]] /\ DoneAt(s) = D[n]
    /\ EntryOf(s) = o[N[n]][D[n] + 1]

\* The last frame is the container whose entries are under way.
LEMMA StandsTop ==
  ASSUME NEW d, NEW g, NEW o, NEW n, NEW N, NEW D, NEW m, NEW F, NEW w, Run(d, g, o, n, N, D, m, F, w),
         NEW s, Stands(s, o, n, N, D)
  PROVE  TopIs(o, n, N, D, s) /\ Len(s) = n /\ n \in Nat /\ n >= 1
<1>1. n \in Nat /\ n >= 1
  BY DEF Run, Walk
<1>2. Len(s) = n /\ n \in 1 .. n
  BY <1>1 DEF Stands
<1>3. s[n].node = N[n] /\ s[n].order = o[N[n]] /\ s[n].done = D[n]
  BY <1>2 DEF Stands
<1> QED BY <1>1, <1>2, <1>3 DEF TopIs, NodeAt, OrderAt, DoneAt, EntryOf

\* What has been written with a part of what comes next.
LEMMA FollowedBy ==
  ASSUME NEW d, DocTree(d), NEW g, Grammar(d, g), NEW w, NEW x, MayFollow(d, g, w, x),
         NEW a, StartOf(a, x)
  PROVE  MayBegin(d, g, w \o a) /\ MayBegin(d, g, w)
<1>1. PICK o : Plan(d, g, o) /\ NextPiece(d, g, o, w, x)
  BY DEF MayFollow
<1>2. Begins(d, g, o, w \o a) /\ Begins(d, g, o, w)
  BY <1>1, BeginsNext
<1> QED BY <1>2 DEF MayBegin

\* The root's container is opened.
LEMMA UnderStart ==
  ASSUME NEW d, DocTree(d), NEW g, Grammar(d, g), NEW G, 0 \in G, NEW K, NEW x \in g.orders[0],
         NEW s, s = <<[node |-> 0, order |-> x, done |-> 0]>>
  PROVE  Under(d, g, G, K, s, g.begin[0], FALSE)
<1>1. d.size \in Nat /\ \A i \in 0 .. d.size : g.orders[i] # {}
  BY DEF DocTree, Grammar
<1>2. PICK o : o = [i \in 0 .. d.size |-> IF i = 0 THEN x ELSE CHOOSE y \in g.orders[i] : TRUE]
  OBVIOUS
<1>3. \A i \in 0 .. d.size : o[i] \in g.orders[i]
  <2>1. \A i \in 0 .. d.size : (CHOOSE y \in g.orders[i] : TRUE) \in g.orders[i]
    BY <1>1
  <2> QED BY <1>2, <2>1
<1>4. Plan(d, g, o) /\ o[0] = x
  BY <1>1, <1>2, <1>3 DEF Plan
<1>5. PICK N, D : N = [k \in 1 .. 1 |-> 0] /\ D = [k \in 1 .. 1 |-> 0]
  OBVIOUS
<1>6. N[1] = 0 /\ D[1] = 0 /\ \A k \in 1 .. 1 : k = 1
  BY <1>5
<1>7. Run(d, g, o, 1, N, D, FALSE, {0}, g.begin[0])
  BY <1>4, <1>6, RunStart
<1>8. Stands(s, o, 1, N, D)
  <2>1. PICK f : f = [node |-> 0, order |-> x, done |-> 0]
    OBVIOUS
  <2>2. FrameRec(f) /\ f.node = 0 /\ f.order = x /\ f.done = 0
    BY <2>1 DEF FrameRec
  <2>3. s = <<f>>
    BY <2>1
  <2>4. FrameList(s) /\ Len(s) = 1 /\ s[1] = f
    <3>1. FrameList(s) /\ Len(s) = 1
      BY <2>2, <2>3, FramesOne
    <3> QED BY <2>3, <3>1
  <2> QED BY <1>4, <1>6, <2>2, <2>4 DEF Stands
<1>9. \A k \in 1 .. 1 : Holder(d, N[k])
  BY <1>6 DEF Holder, KindIn
<1> QED BY <1>7, <1>8, <1>9 DEF Under

EntryOK(d, g, G, K, s, w, c, l) ==
    /\ MayFollow(d, g, w, l) /\ l \in Seq(Tok) /\ Holder(d, NodeAt(s))
    /\ NodeAt(s) \in 0 .. d.size /\ c \in KidSet(d, NodeAt(s)) /\ c \in 1 .. d.size
    /\ DoneAt(s) \in Nat /\ DoneAt(s) + 1 \in 1 .. d.size
    /\ c \in K => Under(d, g, G, K, s, w \o l, TRUE)

\* The next entry of the last frame is begun.
LEMMA UnderEntry ==
  ASSUME NEW d, DocTree(d), NEW g, Grammar(d, g), NEW G, NEW K, NEW s, NEW w,
         Under(d, g, G, K, s, w, FALSE), DoneAt(s) # Len(OrderAt(s)), NEW c, c = EntryOf(s),
         NEW l, l = g.lead[NodeAt(s)][DoneAt(s) + 1][c]
  PROVE  EntryOK(d, g, G, K, s, w, c, l)
<1>1. PICK o, n, N, D, F :
        Run(d, g, o, n, N, D, FALSE, F, w) /\ Stands(s, o, n, N, D) /\ F \subseteq G
        /\ \A k \in 1 .. n : Holder(d, N[k])
  BY DEF Under
<1>2. TopIs(o, n, N, D, s) /\ n \in Nat /\ n >= 1
  BY <1>1, StandsTop
<1>3. /\ NodeAt(s) = N[n] /\ OrderAt(s) = o[N[n]] /\ DoneAt(s) = D[n] /\ c = o[N[n]][D[n] + 1]
      /\ l = g.lead[N[n]][D[n] + 1][o[N[n]][D[n] + 1]]
  BY <1>2 DEF TopIs
<1>4. Walk(d, g, o, n, N, D, FALSE, F)
  BY <1>1 DEF Run
<1>5. N[n] \in 0 .. d.size /\ D[n] \in Nat /\ D[n] <= Len(o[N[n]]) /\ Len(o[N[n]]) \in 0 .. d.size
  <2>1. n \in 1 .. n /\ Plan(d, g, o)
    BY <1>2, <1>4 DEF Walk
  <2>2. N[n] \in 0 .. d.size /\ D[n] \in Nat /\ D[n] <= Len(o[N[n]])
    BY <1>4, <2>1 DEF Walk, Standing
  <2> QED BY <2>1, <2>2, PlanOrder
<1>6. D[n] < Len(o[N[n]]) /\ D[n] + 1 \in 1 .. d.size
  <2>1. d.size \in Nat /\ D[n] # Len(o[N[n]])
    BY <1>3 DEF DocTree
  <2> QED BY <1>5, <2>1
<1>7. NextPiece(d, g, o, w, l) /\ Run(d, g, o, n, N, D, TRUE, F, w \o l) /\ l \in Seq(Tok)
  BY <1>1, <1>3, <1>6, RunEntry
<1>8. c \in 1 .. d.size /\ c \in KidSet(d, N[n])
  <2>1. Walk(d, g, o, n, N, D, TRUE, F)
    BY <1>7 DEF Run
  <2>2. o[N[n]][D[n] + 1] \in 1 .. d.size /\ o[N[n]][D[n] + 1] \in KidSet(d, N[n])
    BY <2>1, WalkCurrent
  <2> QED BY <1>3, <2>2
<1>9. MayFollow(d, g, w, l)
  BY <1>4, <1>7 DEF MayFollow, Walk
<1>10. c \in K => Under(d, g, G, K, s, w \o l, TRUE)
  BY <1>1, <1>3, <1>7 DEF Under
<1>11. Holder(d, NodeAt(s))
  <2>1. n \in 1 .. n
    BY <1>2
  <2> QED BY <1>1, <1>3, <2>1
<1> QED BY <1>3, <1>5, <1>6, <1>7, <1>8, <1>9, <1>10, <1>11 DEF EntryOK

ValueIn(d, K, s, c) ==
    c \in K /\ NodeAt(s) \in 0 .. d.size /\ c \in KidSet(d, NodeAt(s)) /\ c \in 1 .. d.size

\* The entry that is begun is one of the last frame's container.
LEMMA UnderValue ==
  ASSUME NEW d, DocTree(d), NEW g, Grammar(d, g), NEW G, NEW K, NEW s, NEW w,
         Under(d, g, G, K, s, w, TRUE), NEW c, c = EntryOf(s)
  PROVE  ValueIn(d, K, s, c)
<1>1. PICK o, n, N, D, F :
        Run(d, g, o, n, N, D, TRUE, F, w) /\ Stands(s, o, n, N, D) /\ o[N[n]][D[n] + 1] \in K
  BY DEF Under
<1>2. TopIs(o, n, N, D, s)
  BY <1>1, StandsTop
<1>3. Walk(d, g, o, n, N, D, TRUE, F)
  BY <1>1 DEF Run
<1>4. N[n] \in 0 .. d.size /\ o[N[n]][D[n] + 1] \in 1 .. d.size /\ o[N[n]][D[n] + 1] \in KidSet(d, N[n])
  BY <1>3, WalkCurrent
<1> QED BY <1>1, <1>2, <1>4 DEF TopIs, ValueIn

\* An entry without entries of its own is written.
LEMMA UnderLeaf ==
  ASSUME NEW d, DocTree(d), NEW g, Grammar(d, g), NEW G, NEW K, NEW s, NEW w,
         Under(d, g, G, K, s, w, TRUE), NEW c, c = EntryOf(s), KidSet(d, c) = {},
         NEW x, x = g.begin[c] \o g.end[c]
  PROVE  /\ MayFollow(d, g, w, x) /\ x \in Seq(Tok)
         /\ \A t : Later(s, t) /\ c \in G => Under(d, g, G, K, t, w \o x, FALSE)
<1>1. PICK o, n, N, D, F :
        Run(d, g, o, n, N, D, TRUE, F, w) /\ Stands(s, o, n, N, D) /\ F \subseteq G
        /\ \A k \in 1 .. n : Holder(d, N[k])
  BY DEF Under
<1>2. TopIs(o, n, N, D, s) /\ n \in Nat /\ n >= 1
  BY <1>1, StandsTop
<1>3. c = o[N[n]][D[n] + 1]
  BY <1>2 DEF TopIs
<1>4. PICK E : FurtherBy(n, D, E)
  <2>1. FurtherBy(n, D, [k \in 1 .. n |-> IF k = n THEN D[k] + 1 ELSE D[k]])
    BY DEF FurtherBy
  <2> QED BY <2>1
<1>5. /\ NextPiece(d, g, o, w, g.begin[c] \o g.end[c]) /\ g.begin[c] \o g.end[c] \in Seq(Tok)
      /\ Run(d, g, o, n, N, E, FALSE, F \cup {c}, w \o (g.begin[c] \o g.end[c]))
  BY <1>1, <1>3, <1>4, RunLeaf
<1>6. MayFollow(d, g, w, x)
  <2>1. Plan(d, g, o)
    BY <1>1 DEF Run, Walk
  <2> QED BY <1>5, <2>1 DEF MayFollow
<1>7. ASSUME NEW t, Later(s, t), c \in G PROVE Under(d, g, G, K, t, w \o x, FALSE)
  <2>1. Stands(t, o, n, N, E)
    BY <1>1, <1>2, <1>4, <1>7, StandsLater
  <2>2. F \cup {c} \subseteq G
    BY <1>1, <1>7
  <2> QED BY <1>1, <1>5, <2>1, <2>2 DEF Under
<1> QED BY <1>5, <1>6, <1>7

\* An entry with entries of its own is opened.
LEMMA UnderOpen ==
  ASSUME NEW d, DocTree(d), NEW g, Grammar(d, g), NEW G, NEW K, NEW s, NEW w,
         Under(d, g, G, K, s, w, TRUE), NEW c, c = EntryOf(s), NEW x \in g.orders[c]
  PROVE  /\ MayFollow(d, g, w, g.begin[c]) /\ g.begin[c] \in Seq(Tok)
         /\ \A f, t : f = [node |-> c, order |-> x, done |-> 0] /\ Pushed(s, f, t) /\ c \in G /\ Holder(d, c)
                         => Under(d, g, G, K, t, w \o g.begin[c], FALSE)
<1>1. PICK o, n, N, D, F :
        Run(d, g, o, n, N, D, TRUE, F, w) /\ Stands(s, o, n, N, D) /\ F \subseteq G
        /\ \A k \in 1 .. n : Holder(d, N[k])
  BY DEF Under
<1>2. TopIs(o, n, N, D, s) /\ n \in Nat /\ n >= 1
  BY <1>1, StandsTop
<1>3. c = o[N[n]][D[n] + 1]
  BY <1>2 DEF TopIs
<1>4. PICK M : MoreBy(n, N, c, M)
  <2>1. MoreBy(n, N, c, [k \in 1 .. n + 1 |-> IF k = n + 1 THEN c ELSE N[k]])
    BY DEF MoreBy
  <2> QED BY <2>1
<1>5. PICK E : MoreBy(n, D, 0, E)
  <2>1. MoreBy(n, D, 0, [k \in 1 .. n + 1 |-> IF k = n + 1 THEN 0 ELSE D[k]])
    BY DEF MoreBy
  <2> QED BY <2>1
<1>6. PICK q : PlanWith(d, o, c, x, q)
  <2>1. PlanWith(d, o, c, x, [i \in 0 .. d.size |-> IF i = c THEN x ELSE o[i]])
    BY DEF PlanWith
  <2> QED BY <2>1
<1>7. /\ NextPiece(d, g, o, w, g.begin[c]) /\ g.begin[c] \in Seq(Tok)
      /\ Run(d, g, q, n + 1, M, E, FALSE, F \cup {c}, w \o g.begin[c])
      /\ \A k \in 1 .. n : q[N[k]] = o[N[k]]
  <2>1. OpenedFor(d, g, o, q, n, N, M, E, F, c, w)
    BY <1>1, <1>3, <1>4, <1>5, <1>6, RunOpen
  <2> QED BY <2>1 DEF OpenedFor
<1>8. MayFollow(d, g, w, g.begin[c])
  <2>1. Plan(d, g, o)
    BY <1>1 DEF Run, Walk
  <2> QED BY <1>7, <2>1 DEF MayFollow
<1>9. q[c] = x
  <2>1. Walk(d, g, o, n, N, D, TRUE, F)
    BY <1>1 DEF Run
  <2>2. o[N[n]][D[n] + 1] \in 1 .. d.size
    BY <2>1, WalkCurrent
  <2>3. c \in 0 .. d.size
    BY <1>3, <2>2 DEF DocTree
  <2> QED BY <1>6, <2>3 DEF PlanWith
<1>10. ASSUME NEW f, NEW t, f = [node |-> c, order |-> x, done |-> 0], Pushed(s, f, t), c \in G, Holder(d, c)
       PROVE  Under(d, g, G, K, t, w \o g.begin[c], FALSE)
  <2>1. Stands(t, q, n + 1, M, E)
    BY <1>1, <1>2, <1>4, <1>5, <1>7, <1>9, <1>10, StandsPush
  <2>2. F \cup {c} \subseteq G
    BY <1>1, <1>10
  <2>3. ASSUME NEW k \in 1 .. n + 1 PROVE Holder(d, M[k])
    <3>1. M[k] = IF k = n + 1 THEN c ELSE N[k]
      BY <1>4 DEF MoreBy
    <3>2. k # n + 1 => k \in 1 .. n
      BY <1>2
    <3> QED BY <1>1, <1>10, <3>1, <3>2
  <2> QED BY <1>7, <2>1, <2>2, <2>3 DEF Under
<1> QED BY <1>7, <1>8, <1>10

\* The last frame's container is closed.
LEMMA UnderClose ==
  ASSUME NEW d, DocTree(d), NEW g, Grammar(d, g), NEW G, NEW K, NEW s, NEW w,
         Under(d, g, G, K, s, w, FALSE), DoneAt(s) = Len(OrderAt(s)), NEW e, e = g.end[NodeAt(s)]
  PROVE  /\ MayFollow(d, g, w, e) /\ e \in Seq(Tok) /\ Holder(d, NodeAt(s)) /\ NodeAt(s) \in 0 .. d.size
         /\ Len(s) = 1 => NodeAt(s) = 0 /\ 0 .. d.size \subseteq G /\ MayBeAll(d, g, w \o e)
         /\ Len(s) # 1 => \A t, u : t = SubSeq(s, 1, Len(s) - 1) /\ Later(t, u)
                                       => Under(d, g, G, K, u, w \o e, FALSE)
<1>1. PICK o, n, N, D, F :
        Run(d, g, o, n, N, D, FALSE, F, w) /\ Stands(s, o, n, N, D) /\ F \subseteq G
        /\ \A k \in 1 .. n : Holder(d, N[k])
  BY DEF Under
<1>2. TopIs(o, n, N, D, s) /\ Len(s) = n /\ n \in Nat /\ n >= 1
  BY <1>1, StandsTop
<1>3. D[n] = Len(o[N[n]]) /\ e = g.end[N[n]] /\ NodeAt(s) = N[n]
  BY <1>2 DEF TopIs
<1>4. /\ NextPiece(d, g, o, w, e) /\ e \in Seq(Tok)
      /\ n = 1 => F = 0 .. d.size /\ \A r : TextsOf(d, g, o, r) => Whole(g, r) = w \o e
      /\ n # 1 => \A E : FurtherBy(n - 1, D, E) => Run(d, g, o, n - 1, N, E, FALSE, F, w \o e)
  BY <1>1, <1>3, RunClose
<1>5. Plan(d, g, o) /\ w \in Seq(Tok) /\ (n = 1 => N[n] = 0)
  BY <1>1 DEF Run, Walk, NodesApart
<1>6. MayFollow(d, g, w, e)
  BY <1>4, <1>5 DEF MayFollow
<1>7. ASSUME Len(s) = 1 PROVE NodeAt(s) = 0 /\ 0 .. d.size \subseteq G /\ MayBeAll(d, g, w \o e)
  <2>1. w \o e \in Seq(Tok)
    BY <1>4, <1>5, ConcatProperties
  <2>2. Full(d, g, o, w \o e)
    BY <1>2, <1>4, <1>5, <1>7, <2>1 DEF Full
  <2> QED BY <1>1, <1>2, <1>3, <1>4, <1>5, <1>7, <2>2 DEF MayBeAll
<1>8. ASSUME Len(s) # 1, NEW t, NEW u, t = SubSeq(s, 1, Len(s) - 1), Later(t, u)
      PROVE  Under(d, g, G, K, u, w \o e, FALSE)
  <2>1. n # 1 /\ n - 1 \in Nat /\ n - 1 >= 1
    BY <1>2, <1>8
  <2>2. PICK E : FurtherBy(n - 1, D, E)
    <3>1. FurtherBy(n - 1, D, [k \in 1 .. n - 1 |-> IF k = n - 1 THEN D[k] + 1 ELSE D[k]])
      BY DEF FurtherBy
    <3> QED BY <3>1
  <2>3. Run(d, g, o, n - 1, N, E, FALSE, F, w \o e)
    BY <1>4, <2>1, <2>2
  <2>4. Stands(t, o, n - 1, N, D)
    BY <1>1, <1>2, <1>8, StandsPop
  <2>5. Stands(u, o, n - 1, N, E)
    BY <1>8, <2>1, <2>2, <2>4, StandsLater
  <2>6. \A k \in 1 .. n - 1 : Holder(d, N[k])
    <3>1. \A k \in 1 .. n - 1 : k \in 1 .. n
      BY <1>2
    <3> QED BY <1>1, <3>1
  <2> QED BY <1>1, <2>3, <2>5, <2>6 DEF Under
<1>9. Holder(d, NodeAt(s)) /\ NodeAt(s) \in 0 .. d.size
  <2>1. n \in 1 .. n
    BY <1>2
  <2>2. Walk(d, g, o, n, N, D, FALSE, F)
    BY <1>1 DEF Run
  <2>3. N[n] \in 0 .. d.size
    BY <2>1, <2>2 DEF Walk, Standing
  <2> QED BY <1>1, <1>3, <2>1, <2>3
<1> QED BY <1>4, <1>6, <1>7, <1>8, <1>9

\* What has been written while a value is under way.
LEMMA UnderBegins ==
  ASSUME NEW d, DocTree(d), NEW g, Grammar(d, g), NEW G, NEW K, NEW s, NEW w,
         Under(d, g, G, K, s, w, TRUE)
  PROVE  MayBegin(d, g, w) /\ w \in Seq(Tok)
<1>1. PICK c : c = EntryOf(s)
  OBVIOUS
<1>2. ValueIn(d, K, s, c)
  BY <1>1, UnderValue
<1>3. c \in 0 .. d.size
  BY <1>2 DEF ValueIn, DocTree
<1>4. PICK x : x \in g.orders[c]
  BY <1>3 DEF Grammar
<1>5. MayFollow(d, g, w, g.begin[c]) /\ g.begin[c] \in Seq(Tok)
  BY <1>1, <1>4, UnderOpen
<1>6. StartOf(<<>>, g.begin[c])
  BY <1>5, PartEnds
<1>7. MayBegin(d, g, w)
  BY <1>5, <1>6, FollowedBy
<1>8. w \in Seq(Tok)
  BY DEF Under, Run
<1> QED BY <1>7, <1>8

\* Only containers have entries.
LeavesBare(d) == \A i \in 0 .. d.size : ~Holder(d, i) => KidSet(d, i) = {}

DocSound(d) == DocTree(d) /\ DocKeys(d) /\ LeavesBare(d)

\* Signs, keys and values.
LEMMA Tokens ==
  /\ <<>> \in Seq(Tok)
  /\ \A t \in Tok : <<t>> \in Seq(Tok) /\ Len(<<t>>) = 1
  /\ \A t, u \in Tok : <<t, u>> \in Seq(Tok)
  /\ <<"[", 0>> \in Tok /\ <<"]", 0>> \in Tok /\ <<"{", 0>> \in Tok /\ <<"}", 0>> \in Tok
  /\ <<",", 0>> \in Tok /\ <<":", 0>> \in Tok /\ <<"null", 0>> \in Tok
  /\ \A v \in Nat : <<"key", v>> \in Tok /\ <<"value", v>> \in Tok
<1>1. /\ <<"[", 0>> \in Tok /\ <<"]", 0>> \in Tok /\ <<"{", 0>> \in Tok /\ <<"}", 0>> \in Tok
      /\ <<",", 0>> \in Tok /\ <<":", 0>> \in Tok /\ <<"null", 0>> \in Tok
      /\ \A v \in Nat : <<"key", v>> \in Tok /\ <<"value", v>> \in Tok
  BY DEF Tok
<1>4. ASSUME NEW S PROVE <<>> \in Seq(S) /\ \A t \in S : <<t>> \in Seq(S) /\ Len(<<t>>) = 1
  OBVIOUS
<1>5. ASSUME NEW S, NEW t \in S, NEW u \in S PROVE <<t, u>> \in Seq(S)
  OBVIOUS
<1> QED BY <1>1, <1>4, <1>5

\* The sink failed under a text.
LEMMA SomeWritten ==
  ASSUME NEW d, DocTree(d), NEW g, Grammar(d, g), NEW w, NEW x, MayFollow(d, g, w, x), x \in Seq(Tok),
         NEW a, StartOf(a, x), NEW m \in 0 .. Len(a) - 1, NEW v, v = w \o SubSeq(a, 1, m)
  PROVE  MayBegin(d, g, v)
<1>1. PICK b \in Seq(Tok) : a \in Seq(Tok) /\ x = a \o b
  BY DEF StartOf
<1>2. Len(a) \in Nat
  BY <1>1
<1>3. m \in Nat /\ m <= Len(a)
  BY <1>2
<1>4. StartOf(SubSeq(a, 1, m), a)
  BY <1>1, <1>3, PartCut
<1>5. StartOf(SubSeq(a, 1, m), x)
  BY <1>1, <1>4, PartLonger
<1> QED BY <1>5, FollowedBy

\* It failed under a text of one token: nothing of it was written.
LEMMA NothingWritten ==
  ASSUME NEW d, NEW g, NEW w \in Seq(Tok), MayBegin(d, g, w), NEW t,
         NEW m \in 0 .. Len(<<t>>) - 1, NEW v, v = w \o SubSeq(<<t>>, 1, m)
  PROVE  MayBegin(d, g, v)
<1>1. m = 0
  OBVIOUS
<1>2. SubSeq(<<t>>, 1, 0) = <<>>
  BY SubSeqEmpty
<1>3. w \o <<>> = w
  BY ConcatEmptySeq
<1> QED BY <1>1, <1>2, <1>3

\* Two tokens, one after the other.
LEMMA TwoTokens ==
  ASSUME NEW t \in Tok, NEW u \in Tok
  PROVE  <<t, u>> = <<t>> \o <<u>> /\ <<u>> \in Seq(Tok) /\ <<t>> \in Seq(Tok)
<1>1. PICK S : S = Tok
  OBVIOUS
<1>2. t \in S /\ u \in S
  BY <1>1
<1>3. <<t>> \in Seq(S) /\ <<u>> \in Seq(S) /\ <<t, u>> \in Seq(S)
  BY <1>2
<1>4. <<t, u>> = <<t>> \o <<u>>
  <2>1. PICK x, y, z : x = <<t>> /\ y = <<u>> /\ z = <<t, u>>
    OBVIOUS
  <2>2. x \in Seq(S) /\ y \in Seq(S) /\ z \in Seq(S)
    BY <1>3, <2>1
  <2>3. Len(x) = 1 /\ Len(y) = 1 /\ Len(z) = 2 /\ x[1] = t /\ y[1] = u /\ z[1] = t /\ z[2] = u
    BY <1>2, <2>1
  <2>4. x \o y \in Seq(S) /\ Len(x \o y) = 2 /\ (x \o y)[1] = t /\ (x \o y)[2] = u
    BY <2>2, <2>3, ConcatProperties
  <2>5. \A i \in 1 .. 2 : i = 1 \/ i = 2
    OBVIOUS
  <2>6. Len(z) = Len(x \o y) /\ \A i \in 1 .. Len(z) : z[i] = (x \o y)[i]
    BY <2>3, <2>4, <2>5
  <2>7. z = x \o y
    BY <2>2, <2>4, <2>6, SeqEqual
  <2> QED BY <2>1, <2>7
<1> QED BY <1>1, <1>3, <1>4

\* Of a text that may be all there is, each part may have been written.
LEMMA AllCut ==
  ASSUME NEW d, NEW g, NEW z, MayBeAll(d, g, z), NEW v, StartOf(v, z)
  PROVE  MayBegin(d, g, v)
<1>1. PICK o : Full(d, g, o, z)
  BY DEF MayBeAll
<1>2. v \in Seq(Tok)
  BY DEF StartOf
<1>3. Begins(d, g, o, v)
  BY <1>1, <1>2 DEF Full, Begins
<1> QED BY <1>3 DEF MayBegin

\* Every text starts with what opens the root.
LEMMA RootBegins ==
  ASSUME NEW d, DocTree(d), NEW g, Grammar(d, g), NEW v, StartOf(v, g.begin[0])
  PROVE  MayBegin(d, g, v)
<1>1. d.size \in Nat /\ 0 \in 0 .. d.size /\ 1 \in 1 .. d.size + 1
  BY DEF DocTree
<1>2. PICK o : Plan(d, g, o)
  <2>1. \A i \in 0 .. d.size : g.orders[i] # {}
    BY DEF Grammar
  <2>2. \A i \in 0 .. d.size : (CHOOSE x \in g.orders[i] : TRUE) \in g.orders[i]
    BY <2>1
  <2>3. PICK o : o = [i \in 0 .. d.size |-> CHOOSE x \in g.orders[i] : TRUE]
    OBVIOUS
  <2>4. \A i \in 0 .. d.size : o[i] \in g.orders[i]
    BY <2>2, <2>3
  <2>5. Plan(d, g, o)
    BY <2>4 DEF Plan
  <2> QED BY <2>5
<1>3. g.begin[0] \in Seq(Tok)
  BY <1>1 DEF Grammar
<1>4. ASSUME NEW r, TextsOf(d, g, o, r) PROVE StartOf(v, Whole(g, r))
  <2>1. r[<<0, 1>>] \in Seq(Tok)
    BY <1>1, <1>4 DEF TextsOf, TextRow
  <2> QED BY <1>3, <2>1, PartLonger DEF Whole
<1>5. v \in Seq(Tok)
  BY DEF StartOf
<1> QED BY <1>2, <1>4, <1>5 DEF Begins, MayBegin

\* While values are under way there are frames.
LEMMA UnderFrames ==
  ASSUME NEW d, NEW g, NEW G, NEW K, NEW s, NEW w, NEW m, Under(d, g, G, K, s, w, m)
  PROVE  FrameList(s) /\ Len(s) \in Nat /\ Len(s) >= 1 /\ s # <<>> /\ w \in Seq(Tok)
<1>1. PICK o, n, N, D, F : Run(d, g, o, n, N, D, m, F, w) /\ Stands(s, o, n, N, D)
  BY DEF Under
<1>2. n \in Nat /\ n >= 1 /\ w \in Seq(Tok)
  BY <1>1 DEF Run, Walk
<1>3. FrameList(s) /\ Len(s) = n
  BY <1>1 DEF Stands
<1>4. Len(s) # 0
  BY <1>2, <1>3
<1> QED BY <1>2, <1>3, <1>4, SeqEmpty, Zenon

-----------------------------------------------------------------------------
(* An emitter that keeps what it has accepted *)

\* It accepts events: they wait, or go to the sink with all that waits.
EventsTaken(o, q, ev, o2, q2) ==
    \/ q2 = q \o ev /\ o2 = o
    \/ o2 = o \o (q \o ev) /\ q2 = <<>>

\* The sink has received an event that nobody filled in.
Marked(o) == IsSeq(o) /\ \E i \in 1 .. Len(o) : o[i] = <<"indeterminate", 0>>

\* One sequence after another.
LEMMA SeqJoin ==
  ASSUME NEW s, IsSeq(s), NEW t, IsSeq(t)
  PROVE  IsSeq(s \o t) /\ (Marked(s) => Marked(s \o t))
<1>1. PICK S, T : s \in Seq(S) /\ t \in Seq(T)
  BY DEF IsSeq
<1>2. PICK U : s \in Seq(U) /\ t \in Seq(U)
  <2>1. s \in Seq(S \cup T) /\ t \in Seq(S \cup T)
    BY <1>1
  <2> QED BY <2>1
<1>3. s \o t \in Seq(U) /\ Len(s \o t) = Len(s) + Len(t) /\ Len(s) \in Nat /\ Len(t) \in Nat
      /\ \A i \in 1 .. Len(s) : (s \o t)[i] = s[i]
  BY <1>2, ConcatProperties
<1>4. IsSeq(s \o t)
  BY <1>3 DEF IsSeq
<1>5. ASSUME Marked(s) PROVE Marked(s \o t)
  <2>1. PICK i \in 1 .. Len(s) : s[i] = <<"indeterminate", 0>>
    BY <1>5 DEF Marked
  <2>2. i \in 1 .. Len(s \o t)
    BY <1>3
  <2> QED BY <1>3, <1>4, <2>1, <2>2 DEF Marked
<1> QED BY <1>4, <1>5

\* What the sink was given stays given.
LEMMA EmittedKeeps ==
  ASSUME NEW o, IsSeq(o), NEW q, IsSeq(q), NEW ev, IsSeq(ev), NEW o2, NEW q2, EventsTaken(o, q, ev, o2, q2)
  PROVE  IsSeq(o2) /\ IsSeq(q2) /\ (Marked(o) => Marked(o2))
<1>1. IsSeq(q \o ev)
  BY SeqJoin
<1>2. IsSeq(o \o (q \o ev)) /\ (Marked(o) => Marked(o \o (q \o ev)))
  BY <1>1, SeqJoin
<1> QED BY <1>1, <1>2, SeqEmpty DEF EventsTaken

EmittedOn(o, q, ev, o2, q2) == o2 \in Seq(Tok) /\ q2 \in Seq(Tok) /\ o2 \o q2 = (o \o q) \o ev

\* All events, in their order.
LEMMA EmittedAll ==
  ASSUME NEW o \in Seq(Tok), NEW q \in Seq(Tok), NEW ev \in Seq(Tok), NEW o2, NEW q2,
         EventsTaken(o, q, ev, o2, q2)
  PROVE  EmittedOn(o, q, ev, o2, q2)
<1>1. Regroups(o, q, ev, <<>>) /\ <<>> \in Seq(Tok)
  BY Regroup, Tokens
<1>2. Regroups(o, o, q, ev)
  BY Regroup
<1>3. q \o ev \in Seq(Tok) /\ (o \o q) \o ev = o \o (q \o ev)
  BY <1>2 DEF Regroups
<1>4. o \o (q \o ev) \in Seq(Tok)
  BY <1>3, ConcatProperties
<1>5. (o \o (q \o ev)) \o <<>> = o \o (q \o ev)
  BY <1>4, ConcatEmptySeq
<1> QED BY <1>1, <1>3, <1>4, <1>5 DEF EventsTaken, EmittedOn

\* A root without entries.
LEMMA EmptyRoot ==
  ASSUME NEW d, DocTree(d), NEW g, Grammar(d, g), NEW G, 0 \in G, KidSet(d, 0) = {}
  PROVE  0 .. d.size \subseteq G /\ MayBeAll(d, g, g.begin[0] \o g.end[0])
<1>1. 0 \in 0 .. d.size
  BY DEF DocTree
<1>2. PICK order : order \in g.orders[0]
  BY <1>1 DEF Grammar
<1>3. PICK s : s = <<[node |-> 0, order |-> order, done |-> 0]>>
  OBVIOUS
<1>4. Under(d, g, G, {}, s, g.begin[0], FALSE)
  BY <1>2, <1>3, UnderStart
<1>5. Len(order) = 0
  <2>1. OrderOf(d, 0, order)
    BY <1>1, <1>2 DEF Grammar
  <2>2. order \in Seq({})
    BY <2>1 DEF OrderOf
  <2> QED BY <2>2
<1>6. NodeAt(s) = 0 /\ OrderAt(s) = order /\ DoneAt(s) = 0 /\ Len(s) = 1
  BY <1>3 DEF NodeAt, OrderAt, DoneAt
<1>7. DoneAt(s) = Len(OrderAt(s)) /\ g.end[NodeAt(s)] = g.end[0]
  BY <1>5, <1>6
<1>8. 0 .. d.size \subseteq G /\ MayBeAll(d, g, g.begin[0] \o g.end[NodeAt(s)])
  BY <1>4, <1>6, <1>7, UnderClose
<1> QED BY <1>7, <1>8

=============================================================================
