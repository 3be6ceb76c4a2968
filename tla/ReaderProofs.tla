---------------------------- MODULE ReaderProofs ----------------------------
(***************************************************************************)
(* What a program does with an open reader.                                *)
(*                                                                         *)
(* A lookup is correct for every hash function and every index that        *)
(* ascends by hash.  AnswerCorrect speaks of the end only.  LookupInv adds *)
(* what each loop has ruled out so far: entries below low and from high on *)
(* have other hashes, entries between the cursors of the linear probe      *)
(* other keys.                                                             *)
(*                                                                         *)
(* A walk is correct for every document and every number of iterators.     *)
(* WalkInv ties the cursor of each iterator to what it has given, and      *)
(* keeps every reference inside the document.                              *)
(*                                                                         *)
(* A path is resolved to what it spells, for every document and every      *)
(* path.  The places to which a path leads are a function of the nodes;    *)
(* PathInv says that the loop stands at one of the places of the current   *)
(* node and, where no block has a key twice, that the path up to there     *)
(* leads to no other node and that no step from before goes past it.       *)
(***************************************************************************)
EXTENDS MCReader, TreesProofs

Indexed ==
    /\ entry_count \in Nat
    /\ hash_of \in [Keys -> Nat]
    /\ entries \in [Index -> Keys]
    /\ key \in Keys
    /\ \A i, j \in Index : i < j => Hash(i) <= Hash(j)

Searching ==
    pc = "search" =>
        /\ low \in Nat /\ high \in Nat
        /\ low <= high /\ high <= entry_count
        /\ \A i \in Index : i < low => Hash(i) < Target
        /\ \A i \in Index : i >= high => Hash(i) > Target

ProbingLeft ==
    pc = "left" =>
        /\ mid \in Index
        /\ Hash(mid) = Target
        /\ left \in Int
        /\ -1 <= left /\ left <= mid
        /\ \A i \in Index : left < i /\ i <= mid => entries[i] # key

ProbingRight ==
    pc = "right" =>
        /\ mid \in Index
        /\ Hash(mid) = Target
        /\ right \in Nat
        /\ mid < right /\ right <= entry_count
        /\ \A i \in Index : i < right => entries[i] # key

LookupInv == Indexed /\ Searching /\ ProbingLeft /\ ProbingRight /\ AnswerCorrect

-----------------------------------------------------------------------------
LEMMA InitInv == Init => LookupInv
<1> SUFFICES ASSUME Init
             PROVE  LookupInv
  OBVIOUS
<1>1. entry_count \in Nat /\ low = 0 /\ high = entry_count /\ pc = "search"
  BY LookupAssumption DEF Init
<1>2. Indexed
  BY <1>1, LookupAssumption DEF Init, Indexed, Index
<1>3. Searching
  BY <1>1 DEF Searching, Index
<1> QED
  BY <1>1, <1>2, <1>3 DEF LookupInv, ProbingLeft, ProbingRight, AnswerCorrect

LEMMA HashTypes ==
    ASSUME Indexed
    PROVE  Target \in Nat /\ \A i \in Index : Hash(i) \in Nat
  BY DEF Indexed, Target, Hash

(* An entry of another hash has another key.                               *)
LEMMA OtherHashOtherKey ==
    ASSUME NEW i \in Index, Hash(i) # Target
    PROVE  entries[i] # key
  BY DEF Hash, Target

LEMMA MiddleInside ==
    ASSUME low \in Nat, high \in Nat, low < high
    PROVE  Middle \in Nat /\ low <= Middle /\ Middle < high
  BY DEF Middle

(* What the lookup is given stays as it is.                                *)
LEMMA GivenUnchanged ==
    ASSUME Indexed, UNCHANGED given
    PROVE  /\ Indexed'
           /\ Index' = Index /\ Target' = Target /\ entry_count' = entry_count
           /\ entries' = entries /\ key' = key
           /\ \A i \in Index : Hash(i)' = Hash(i)
  BY DEF Indexed, given, Index, Target, Hash

(* A key that is nowhere: NotFound is the answer.                          *)
LEMMA AbsentAnswer ==
    ASSUME Indexed, UNCHANGED given, Return(NotFound), \A i \in Index : entries[i] # key
    PROVE  LookupInv'
<1>1. Indexed' /\ Index' = Index /\ entries' = entries /\ key' = key
  BY GivenUnchanged
<1>2. AnswerCorrect'
  BY <1>1 DEF AnswerCorrect, Return, NotFound
<1> QED
  BY <1>1, <1>2 DEF LookupInv, Searching, ProbingLeft, ProbingRight, Return

(* An entry of the key is an answer.                                       *)
LEMMA PresentAnswer ==
    ASSUME Indexed, UNCHANGED given, NEW i \in Index, entries[i] = key, Return(i)
    PROVE  LookupInv'
<1>1. Indexed' /\ Index' = Index /\ entries' = entries /\ key' = key
  BY GivenUnchanged
<1>2. AnswerCorrect'
  BY <1>1 DEF AnswerCorrect, Return
<1> QED
  BY <1>1, <1>2 DEF LookupInv, Searching, ProbingLeft, ProbingRight, Return

LEMMA BinarySteps ==
    ASSUME LookupInv, SearchHigher \/ SearchLower
    PROVE  LookupInv'
<1>0. /\ Indexed /\ pc = "search" /\ pc' = "search" /\ UNCHANGED given /\ low < high
      /\ low \in Nat /\ high \in Nat /\ high <= entry_count /\ entry_count \in Nat
      /\ \A i \in Index : i < low => Hash(i) < Target
      /\ \A i \in Index : i >= high => Hash(i) > Target
      /\ \A i, j \in Index : i < j => Hash(i) <= Hash(j)
  BY DEF LookupInv, Searching, Indexed, SearchHigher, SearchLower
<1>1. PICK m \in Nat : m = Middle /\ low <= m /\ m < high
  BY <1>0, MiddleInside
<1>2. m \in Index
  BY <1>0, <1>1 DEF Index
<1>3. /\ Indexed' /\ Index' = Index /\ Target' = Target /\ entry_count' = entry_count
      /\ \A i \in Index : Hash(i)' = Hash(i)
  BY <1>0, GivenUnchanged
<1>4. Target \in Nat /\ \A i \in Index : Hash(i) \in Nat
  BY <1>0, HashTypes
<1>5. CASE SearchHigher
  <2>1. low' = m + 1 /\ high' = high /\ Hash(m) < Target
    BY <1>1, <1>5 DEF SearchHigher
  <2>2. \A i \in Index : i < m + 1 => Hash(i) < Target
    <3> SUFFICES ASSUME NEW i \in Index, i < m + 1
                 PROVE  Hash(i) < Target
      OBVIOUS
    <3>1. i = m \/ i < m
      BY <1>1 DEF Index
    <3>2. CASE i < m
      BY <1>0, <1>2, <1>4, <2>1, <3>2
    <3> QED
      BY <2>1, <3>1, <3>2
  <2>3. Searching'
    <3> HIDE DEF Hash, Target, Index
    <3>1. \A i \in Index' : i < low' => Hash(i)' < Target'
      BY <1>3, <2>1, <2>2
    <3>2. \A i \in Index' : i >= high' => Hash(i)' > Target'
      BY <1>0, <1>3, <2>1
    <3> QED
      BY <1>0, <1>1, <1>3, <2>1, <3>1, <3>2 DEF Searching
  <2> QED
    BY <1>0, <1>3, <2>3 DEF LookupInv, ProbingLeft, ProbingRight, AnswerCorrect
<1>6. CASE SearchLower
  <2>1. low' = low /\ high' = m /\ Hash(m) > Target
    BY <1>1, <1>6 DEF SearchLower
  <2>2. \A i \in Index : i >= m => Hash(i) > Target
    <3> SUFFICES ASSUME NEW i \in Index, i >= m
                 PROVE  Hash(i) > Target
      OBVIOUS
    <3>1. i = m \/ m < i
      BY <1>1 DEF Index
    <3>2. CASE m < i
      BY <1>0, <1>2, <1>4, <2>1, <3>2
    <3> QED
      BY <2>1, <3>1, <3>2
  <2>3. Searching'
    <3> HIDE DEF Hash, Target, Index
    <3>1. \A i \in Index' : i < low' => Hash(i)' < Target'
      BY <1>0, <1>3, <2>1
    <3>2. \A i \in Index' : i >= high' => Hash(i)' > Target'
      BY <1>3, <2>1, <2>2
    <3> QED
      BY <1>0, <1>1, <1>3, <2>1, <3>1, <3>2 DEF Searching
  <2> QED
    BY <1>0, <1>3, <2>3 DEF LookupInv, ProbingLeft, ProbingRight, AnswerCorrect
<1> QED
  BY <1>5, <1>6

LEMMA HitStep ==
    ASSUME LookupInv, SearchHit
    PROVE  LookupInv'
<1>0. /\ Indexed /\ UNCHANGED given /\ low < high
      /\ low \in Nat /\ high \in Nat /\ high <= entry_count /\ entry_count \in Nat
  BY DEF LookupInv, Searching, Indexed, SearchHit
<1>1. PICK m \in Nat : m = Middle /\ low <= m /\ m < high
  BY <1>0, MiddleInside
<1>2. m \in Index /\ Hash(m) = Target
  BY <1>0, <1>1 DEF Index, SearchHit
<1>3. /\ Indexed' /\ Index' = Index /\ Target' = Target /\ entries' = entries /\ key' = key
      /\ \A i \in Index : Hash(i)' = Hash(i)
  BY <1>0, GivenUnchanged
<1>4. CASE entries[m] = key
  BY <1>0, <1>1, <1>2, <1>4, PresentAnswer DEF SearchHit
<1>5. CASE entries[m] # key
  <2>1. pc' = "left" /\ left' = m /\ mid' = m
    BY <1>1, <1>5 DEF SearchHit
  <2>2. \A i \in Index : m < i /\ i <= m => entries[i] # key
    BY <1>1 DEF Index
  <2>4. Hash(mid)' = Target'
    BY <1>0, <1>2, <1>3, <2>1 DEF Hash, Target, given
  <2>5. left' \in Int /\ -1 <= left' /\ left' <= mid'
    BY <1>1, <2>1
  <2>6. \A i \in Index : left' < i /\ i <= mid' => entries[i] # key
    BY <2>1, <2>2
  <2>7. ProbingLeft'
    BY <1>2, <1>3, <2>1, <2>4, <2>5, <2>6 DEF ProbingLeft
  <2> QED
    BY <1>3, <2>1, <2>7 DEF LookupInv, Searching, ProbingRight, AnswerCorrect
<1> QED
  BY <1>4, <1>5

LEMMA MissStep ==
    ASSUME LookupInv, SearchFails
    PROVE  LookupInv'
<1>1. Indexed /\ UNCHANGED given /\ Return(NotFound)
  BY DEF LookupInv, SearchFails
<1>2. Target \in Nat /\ \A i \in Index : Hash(i) \in Nat
  BY <1>1, HashTypes
<1>3. \A i \in Index : Hash(i) # Target
  <2> SUFFICES ASSUME NEW i \in Index
               PROVE  Hash(i) # Target
    OBVIOUS
  <2>1. i < low \/ i >= high
    BY DEF LookupInv, Searching, SearchFails, Index
  <2> QED
    BY <1>2, <2>1 DEF LookupInv, Searching, SearchFails
<1>4. \A i \in Index : entries[i] # key
  BY <1>3, OtherHashOtherKey
<1> QED
  BY <1>1, <1>4, AbsentAnswer

LEMMA LeftSteps ==
    ASSUME LookupInv, ProbeLeft
    PROVE  LookupInv'
<1>0. /\ Indexed /\ UNCHANGED given /\ mid \in Index /\ Hash(mid) = Target
      /\ left \in Int /\ 0 <= left /\ left <= mid /\ entry_count \in Nat
      /\ \A i \in Index : left < i /\ i <= mid => entries[i] # key
  BY DEF LookupInv, ProbingLeft, Indexed, ProbeLeft
<1>1. left \in Index
  BY <1>0 DEF Index
<1>2. CASE entries[left] = key
  BY <1>0, <1>1, <1>2, PresentAnswer DEF ProbeLeft
<1>3. CASE entries[left] # key
  <2>1. pc' = "left" /\ left' = left - 1 /\ mid' = mid
    BY <1>3 DEF ProbeLeft
  <2>2. /\ Indexed' /\ Index' = Index /\ Target' = Target /\ entries' = entries /\ key' = key
        /\ \A i \in Index : Hash(i)' = Hash(i)
    BY <1>0, GivenUnchanged
  <2>3. \A i \in Index : left - 1 < i /\ i <= mid => entries[i] # key
    <3> SUFFICES ASSUME NEW i \in Index, left - 1 < i, i <= mid
                 PROVE  entries[i] # key
      OBVIOUS
    <3>1. i = left \/ left < i
      BY <1>0 DEF Index
    <3> QED
      BY <1>0, <1>3, <3>1
  <2>4. Hash(mid)' = Target'
    BY <1>0, <2>1, <2>2 DEF Hash, Target, given
  <2>5. left' \in Int /\ -1 <= left' /\ left' <= mid'
    <3>1. mid \in Int
      BY <1>0 DEF Index
    <3> QED
      BY <1>0, <2>1, <3>1
  <2>6. \A i \in Index : left' < i /\ i <= mid' => entries[i] # key
    BY <2>1, <2>3
  <2>7. ProbingLeft'
    BY <1>0, <2>1, <2>2, <2>4, <2>5, <2>6 DEF ProbingLeft
  <2> QED
    BY <2>1, <2>2, <2>7 DEF LookupInv, Searching, ProbingRight, AnswerCorrect
<1> QED
  BY <1>2, <1>3

LEMMA LeftEnds ==
    ASSUME LookupInv, ProbeLeftEnds
    PROVE  LookupInv'
<1>0. /\ Indexed /\ UNCHANGED given /\ mid \in Index /\ Hash(mid) = Target
      /\ left \in Int /\ -1 <= left /\ left <= mid /\ entry_count \in Nat
      /\ \A i \in Index : left < i /\ i <= mid => entries[i] # key
      /\ \A i, j \in Index : i < j => Hash(i) <= Hash(j)
      /\ ~(left >= 0 /\ Hash(left) = Target)
  BY DEF LookupInv, ProbingLeft, Indexed, ProbeLeftEnds
<1>1. Target \in Nat /\ \A i \in Index : Hash(i) \in Nat
  BY <1>0, HashTypes
<1>2. ASSUME NEW i \in Index, i <= left
      PROVE  Hash(i) # Target
  <2>1. left \in Index /\ Hash(left) # Target
    BY <1>0, <1>2 DEF Index
  <2>2. left < mid
    BY <1>0, <2>1 DEF Index
  <2>3. Hash(left) < Target
    BY <1>0, <1>1, <2>1, <2>2
  <2>4. i = left \/ i < left
    BY <1>0, <1>2 DEF Index
  <2> QED
    BY <1>0, <1>1, <2>1, <2>3, <2>4
<1>3. \A i \in Index : i < mid + 1 => entries[i] # key
  <2> SUFFICES ASSUME NEW i \in Index, i < mid + 1
               PROVE  entries[i] # key
    OBVIOUS
  <2>1. i <= left \/ (left < i /\ i <= mid)
    BY <1>0 DEF Index
  <2> QED
    BY <1>0, <1>2, <2>1, OtherHashOtherKey
<1>4. pc' = "right" /\ right' = mid + 1 /\ mid' = mid
  BY DEF ProbeLeftEnds
<1>5. Indexed' /\ Index' = Index /\ Target' = Target /\ entries' = entries /\ key' = key
      /\ entry_count' = entry_count
  BY <1>0, GivenUnchanged
<1>6. Hash(mid)' = Target'
  BY <1>0, <1>4, <1>5 DEF Hash, Target, given
<1>7. right' \in Nat /\ mid < right' /\ right' <= entry_count
  BY <1>0, <1>4 DEF Index
<1>8. ProbingRight'
  BY <1>0, <1>3, <1>4, <1>5, <1>6, <1>7 DEF ProbingRight
<1> QED
  BY <1>4, <1>5, <1>8 DEF LookupInv, Searching, ProbingLeft, AnswerCorrect

LEMMA RightSteps ==
    ASSUME LookupInv, ProbeRight
    PROVE  LookupInv'
<1>0. /\ Indexed /\ UNCHANGED given /\ mid \in Index /\ Hash(mid) = Target
      /\ right \in Nat /\ mid < right /\ right < entry_count /\ entry_count \in Nat
      /\ \A i \in Index : i < right => entries[i] # key
  BY DEF LookupInv, ProbingRight, Indexed, ProbeRight
<1>1. right \in Index
  BY <1>0 DEF Index
<1>2. CASE entries[right] = key
  BY <1>0, <1>1, <1>2, PresentAnswer DEF ProbeRight
<1>3. CASE entries[right] # key
  <2>1. pc' = "right" /\ right' = right + 1 /\ mid' = mid
    BY <1>3 DEF ProbeRight
  <2>2. Indexed' /\ Index' = Index /\ Target' = Target /\ entries' = entries /\ key' = key
        /\ entry_count' = entry_count
    BY <1>0, GivenUnchanged
  <2>3. \A i \in Index : i < right + 1 => entries[i] # key
    <3> SUFFICES ASSUME NEW i \in Index, i < right + 1
                 PROVE  entries[i] # key
      OBVIOUS
    <3>1. i = right \/ i < right
      BY <1>0 DEF Index
    <3> QED
      BY <1>0, <1>3, <3>1
  <2>4. Hash(mid)' = Target'
    BY <1>0, <2>1, <2>2 DEF Hash, Target, given
  <2>5. right' \in Nat /\ mid < right' /\ right' <= entry_count
    BY <1>0, <2>1 DEF Index
  <2>6. ProbingRight'
    BY <1>0, <2>1, <2>2, <2>3, <2>4, <2>5 DEF ProbingRight
  <2> QED
    BY <2>1, <2>2, <2>6 DEF LookupInv, Searching, ProbingLeft, AnswerCorrect
<1> QED
  BY <1>2, <1>3

LEMMA RightEnds ==
    ASSUME LookupInv, ProbeRightEnds
    PROVE  LookupInv'
<1>0. /\ Indexed /\ UNCHANGED given /\ mid \in Index /\ Hash(mid) = Target
      /\ right \in Nat /\ mid < right /\ right <= entry_count /\ entry_count \in Nat
      /\ \A i \in Index : i < right => entries[i] # key
      /\ \A i, j \in Index : i < j => Hash(i) <= Hash(j)
      /\ ~(right < entry_count /\ Hash(right) = Target)
      /\ Return(NotFound)
  BY DEF LookupInv, ProbingRight, Indexed, ProbeRightEnds
<1>1. Target \in Nat /\ \A i \in Index : Hash(i) \in Nat
  BY <1>0, HashTypes
<1>2. ASSUME NEW i \in Index, right <= i
      PROVE  Hash(i) # Target
  <2>1. right \in Index /\ Hash(right) # Target
    BY <1>0, <1>2 DEF Index
  <2>2. Hash(right) > Target
    BY <1>0, <1>1, <2>1
  <2>3. i = right \/ right < i
    BY <1>0, <1>2 DEF Index
  <2> QED
    BY <1>0, <1>1, <2>1, <2>2, <2>3
<1>3. \A i \in Index : entries[i] # key
  <2> SUFFICES ASSUME NEW i \in Index
               PROVE  entries[i] # key
    OBVIOUS
  <2>1. i < right \/ right <= i
    BY <1>0 DEF Index
  <2> QED
    BY <1>0, <1>2, <2>1, OtherHashOtherKey
<1> QED
  BY <1>0, <1>3, AbsentAnswer

LEMMA StepInv == LookupInv /\ [Next]_vars => LookupInv'
<1> SUFFICES ASSUME LookupInv, [Next]_vars
             PROVE  LookupInv'
  OBVIOUS
<1>1. CASE Step
  BY <1>1, BinarySteps, HitStep, MissStep, LeftSteps, LeftEnds, RightSteps, RightEnds DEF Step
<1>2. CASE UNCHANGED vars
  BY <1>2 DEF vars, LookupInv, Indexed, Searching, ProbingLeft, ProbingRight, AnswerCorrect,
              Index, Hash, Target
<1> QED
  BY <1>1, <1>2 DEF Next, Returned

(* Binary search and linear probe together find a key exactly when the     *)
(* index holds it: for every hash function, every number of entries and    *)
(* every pattern of collisions.                                            *)
THEOREM LookupCorrect == Spec => []AnswerCorrect
<1>1. Spec => []LookupInv
  BY InitInv, StepInv, PTL DEF Spec
<1>2. LookupInv => AnswerCorrect
  BY DEF LookupInv
<1> QED
  BY <1>1, <1>2, PTL

-----------------------------------------------------------------------------
\* The children of a node, in the order of the image.
Kids(d, n) == d.children[n]
NodesOf(d) == DOMAIN d.kind

\* The children of a node are nodes.
ClosedDocument(d) ==
    /\ 0 \notin NodesOf(d)
    /\ \A p \in NodesOf(d) : Kids(d, p) \in Seq(NodesOf(d))

ValueSound(d, v) ==
    v.node # 0 =>
        /\ v.node \in NodesOf(d)
        /\ d.kind[v.node] # "corrupt"
        /\ v.kind = IF d.kind[v.node] = "torn" THEN "block" ELSE d.kind[v.node]

IterRecords(d) == [container : NodesOf(d) \cup {0}, next : Nat, remaining : Nat, is_block : BOOLEAN]

\* An iterator stands behind what it has given.
IterSound(d, it, y) ==
    it.container # 0 =>
        /\ it.next = Len(y) + 1
        /\ Len(y) + it.remaining = Len(Kids(d, it.container))
        /\ y = SubSeq(Kids(d, it.container), 1, Len(y))

Walking ==
    /\ ClosedDocument(doc)
    /\ ValueSound(doc, value)
    /\ iter \in [Iters -> IterRecords(doc)]
    /\ yielded \in [Iters -> Seq(NodesOf(doc))]
    /\ \A i \in Iters : IterSound(doc, iter[i], yielded[i])
    /\ answer = [call |-> "get", ok |-> TRUE] => got = value.node
    /\ W!NoStaleRef

WalkInv == routine = "walk" => Walking

-----------------------------------------------------------------------------
(* Documents are closed: the list of a scope holds nodes of the tree.      *)
LEMMA DocumentsClosed == ASSUME NEW d \in W!Documents PROVE ClosedDocument(d)
<1>1. PICK n \in 0 .. MaxNodes : \E f \in W!Forests(n) : \E k \in W!Labels(f, n, Kinds, {"block", "array"}) :
         d = [kind |-> k, children |-> W!ChildLists(f, n)]
  BY DEF W!Documents
<1>2. PICK f \in W!Forests(n) : \E k \in W!Labels(f, n, Kinds, {"block", "array"}) :
         d = [kind |-> k, children |-> W!ChildLists(f, n)]
  BY <1>1
<1>k. PICK k \in W!Labels(f, n, Kinds, {"block", "array"}) :
         d = [kind |-> k, children |-> W!ChildLists(f, n)]
  BY <1>2
<1>3. n \in Nat
  BY ReaderAssumption
<1>4. Parents(f, n)
  <2>1. f \in [1 .. n -> 0 .. n - 1]
    BY <1>2, Zenon DEF W!Forests
  <2>2. 0 .. n - 1 \subseteq 0 .. n
    BY <1>3
  <2> QED BY <2>1, <2>2 DEF Parents
<1>5. k \in [1 .. n -> Kinds]
  BY <1>k, Zenon DEF W!Labels
<1>6. NodesOf(d) = 1 .. n
  BY <1>k, <1>5 DEF NodesOf
<1>7. W!ChildLists(f, n) = ChildLists(f, n)
  BY Zenon DEF W!ChildLists, ChildLists
<1>8. Listed(f, n, n, ChildLists(f, n))
  BY <1>3, <1>4, ChildrenListed
<1>9. ASSUME NEW p \in 1 .. n PROVE Kids(d, p) \in Seq(1 .. n)
  <2> DEFINE s == ChildLists(f, n)[p]
  <2>1. Kids(d, p) = s
    BY <1>k, <1>7 DEF Kids
  <2>2. p \in 0 .. n
    BY <1>3
  <2>3. s \in Seq(Int) /\ \A j \in 1 .. Len(s) : s[j] \in 1 .. n
    BY <1>8, <2>2 DEF Listed, Ascends
  <2> HIDE DEF s
  <2> QED BY <2>1, <2>3
<1> QED BY <1>6, <1>9 DEF ClosedDocument

(* The next child prolongs the prefix given so far. *)
LEMMA NextChild ==
  ASSUME NEW S, NEW c \in Seq(S), NEW n \in Nat, n < Len(c)
  PROVE  /\ c[n + 1] \in S
         /\ Append(SubSeq(c, 1, n), c[n + 1]) \in Seq(S)
         /\ Len(Append(SubSeq(c, 1, n), c[n + 1])) = n + 1
         /\ Append(SubSeq(c, 1, n), c[n + 1]) = SubSeq(c, 1, n + 1)
<1>1. n + 1 \in 1 .. Len(c) /\ c[n + 1] \in S
  OBVIOUS
<1>2. SubSeq(c, 1, n) \in Seq(S) /\ Len(SubSeq(c, 1, n)) = n
  OBVIOUS
<1>3. \A j \in 1 .. n : SubSeq(c, 1, n)[j] = c[j]
  OBVIOUS
<1>4. SubSeq(c, 1, n + 1) \in Seq(S) /\ Len(SubSeq(c, 1, n + 1)) = n + 1
      /\ \A j \in 1 .. n + 1 : SubSeq(c, 1, n + 1)[j] = c[j]
  BY <1>1
<1> DEFINE y == SubSeq(c, 1, n)
           z == SubSeq(c, 1, n + 1)
<1> HIDE DEF y, z
<1>5. Append(y, c[n + 1]) \in Seq(S) /\ Len(Append(y, c[n + 1])) = n + 1
  BY <1>1, <1>2 DEF y
<1>6. \A j \in 1 .. n + 1 : Append(y, c[n + 1])[j] = c[j]
  <2>1. y \in Seq(S) /\ Len(y) = n /\ \A j \in 1 .. n : y[j] = c[j]
    BY <1>2, <1>3 DEF y
  <2> QED BY <1>1, <2>1
<1>7. z \in Seq(S) /\ Len(z) = n + 1 /\ \A j \in 1 .. n + 1 : z[j] = c[j]
  BY <1>4 DEF z
<1>8. Append(y, c[n + 1]) = z
  BY <1>5, <1>6, <1>7
<1> QED BY <1>1, <1>5, <1>8 DEF y, z

LEMMA WalkInit == W!Init => Walking
<1> SUFFICES ASSUME W!Init PROVE Walking
  OBVIOUS
<1>1. ClosedDocument(doc)
  BY DocumentsClosed DEF W!Init
<1>2. value.node = 0 /\ answer.ok /\ answer.call = "none"
  BY DEF W!Init, W!NoValue
<1>3. W!NoIter \in IterRecords(doc) /\ W!NoIter.container = 0
  BY DEF W!NoIter, IterRecords
<1>4. iter \in [Iters -> IterRecords(doc)] /\ \A i \in Iters : iter[i].container = 0
  BY <1>3 DEF W!Init
<1>5. yielded \in [Iters -> Seq(NodesOf(doc))]
  BY DEF W!Init
<1>6. answer # [call |-> "get", ok |-> TRUE]
  BY <1>2
<1> QED BY <1>1, <1>2, <1>4, <1>5, <1>6 DEF Walking, ValueSound, IterSound, W!NoStaleRef

LEMMA FindWalks == Walking /\ W!Find => Walking'
<1> SUFFICES ASSUME Walking, W!Find PROVE Walking'
  OBVIOUS
<1>0. doc' = doc /\ iter' = iter /\ yielded' = yielded
  BY DEF W!Find
<1>1. PICK n \in W!Nodes \cup {0} :
         /\ value' = IF n # 0 /\ W!KindReadable(n) THEN [node |-> n, kind |-> W!KindAt(n)] ELSE W!NoValue
         /\ answer' = [call |-> "find", ok |-> n # 0 /\ W!KindReadable(n)]
  BY DEF W!Find, W!Answer
<1>2. ValueSound(doc, value')
  BY <1>1 DEF ValueSound, W!KindReadable, W!KindAt, W!NoValue, W!Nodes, NodesOf
<1>3. W!NoStaleRef'
  BY <1>1 DEF W!NoStaleRef
<1>4. answer'.call = "find"
  BY <1>1
<1>5. answer' # [call |-> "get", ok |-> TRUE]
  BY <1>4
<1> QED BY <1>0, <1>2, <1>3, <1>5 DEF Walking

LEMMA GetWalks == ASSUME Walking, NEW kind, W!Get(kind) PROVE Walking'
<1>0. doc' = doc /\ iter' = iter /\ yielded' = yielded /\ value' = value
  BY DEF W!Get
<1>1. answer'.call = "get"
  BY DEF W!Get, W!Answer
<1>2. W!NoStaleRef'
  BY <1>1 DEF W!NoStaleRef
<1>3. answer' = [call |-> "get", ok |-> TRUE] => got' = value'.node
  <2>1. CASE value.node # 0 /\ W!KindAt(value.node) = kind
    BY <1>0, <2>1 DEF W!Get
  <2>2. CASE ~(value.node # 0 /\ W!KindAt(value.node) = kind)
    <3>1. answer' = [call |-> "get", ok |-> FALSE]
      <4>1. CASE value.node = 0
        BY <4>1 DEF W!Get, W!Answer
      <4>2. CASE value.node # 0 /\ W!KindAt(value.node) # kind
        <5>1. (W!KindAt(value.node) = kind) = FALSE
          BY <4>2
        <5>2. answer' = [call |-> "get", ok |-> W!KindAt(value.node) = kind]
          BY <4>2, Zenon DEF W!Get, W!Answer
        <5> QED BY <5>1, <5>2, Zenon
      <4> QED BY <2>2, <4>1, <4>2
    <3> QED BY <3>1
  <2> QED BY <2>1, <2>2
<1> QED BY <1>0, <1>2, <1>3 DEF Walking

LEMMA IterStartWalks == ASSUME Walking, NEW i \in Iters, NEW kind, W!IterStart(i, kind) PROVE Walking'
<1> DEFINE suits == value.node # 0 /\ value.kind = kind /\ W!BodyFits(value.node)
           c == Kids(doc, value.node)
           new == IF suits THEN [container |-> value.node, next |-> 1, remaining |-> Len(c),
                                 is_block |-> kind = "block"]
                  ELSE W!NoIter
<1>0. /\ doc' = doc /\ value' = value /\ got' = got
      /\ iter' = [iter EXCEPT ![i] = new]
      /\ yielded' = [yielded EXCEPT ![i] = <<>>]
      /\ answer'.call = "iter"
  BY DEF W!IterStart, W!Answer, Kids
<1>1. suits => value.node \in NodesOf(doc) /\ c \in Seq(NodesOf(doc))
  BY DEF Walking, ValueSound, ClosedDocument
<1>2. new \in IterRecords(doc)
  BY <1>1 DEF IterRecords, W!NoIter
<1>3. IterSound(doc, new, <<>>)
  <2>1. CASE suits
    <3>1. new.container = value.node /\ new.next = 1 /\ new.remaining = Len(c)
      BY <2>1
    <3>2. SubSeq(c, 1, 0) = <<>> /\ Len(c) \in Nat
      BY <1>1, <2>1
    <3> HIDE DEF new, suits
    <3> QED BY <3>1, <3>2 DEF IterSound
  <2>2. CASE ~suits
    BY <2>2 DEF IterSound, W!NoIter
  <2> QED BY <2>1, <2>2
<1> HIDE DEF new, suits
<1>4. iter' \in [Iters -> IterRecords(doc)] /\ yielded' \in [Iters -> Seq(NodesOf(doc))]
  BY <1>0, <1>2 DEF Walking
<1>5. \A j \in Iters : IterSound(doc, iter'[j], yielded'[j])
  <2> SUFFICES ASSUME NEW j \in Iters PROVE IterSound(doc, iter'[j], yielded'[j])
    OBVIOUS
  <2>1. CASE j = i
    <3>1. iter'[j] = new /\ yielded'[j] = <<>>
      BY <1>0, <2>1 DEF Walking
    <3> QED BY <1>3, <3>1
  <2>2. CASE j # i
    <3>1. iter'[j] = iter[j] /\ yielded'[j] = yielded[j]
      BY <1>0, <2>2 DEF Walking
    <3> QED BY <3>1 DEF Walking
  <2> QED BY <2>1, <2>2
<1>6. W!NoStaleRef' /\ answer' # [call |-> "get", ok |-> TRUE]
  BY <1>0 DEF W!NoStaleRef
<1> QED BY <1>0, <1>4, <1>5, <1>6 DEF Walking

LEMMA IterNextWalks == ASSUME Walking, NEW i \in Iters, W!IterNext(i) PROVE Walking'
<1> DEFINE it == iter[i]
           y == yielded[i]
           c == Kids(doc, it.container)
           child == c[it.next]
           going == it.container # 0 /\ it.remaining # 0 /\ W!KindReadable(child)
<1>0. doc' = doc /\ got' = got /\ answer'.call = "next" /\ answer' # [call |-> "get", ok |-> TRUE]
  BY DEF W!IterNext, W!Answer
<1>1. CASE ~going
  <2>1. value' = W!NoValue /\ iter' = iter /\ yielded' = yielded
    BY <1>1 DEF W!IterNext, Kids
  <2>2. ValueSound(doc, value')
    BY <2>1 DEF ValueSound, W!NoValue
  <2>3. W!NoStaleRef'
    <3>1. W!NoValue' = W!NoValue
      BY DEF W!NoValue
    <3> QED BY <2>1, <3>1 DEF W!NoStaleRef
  <2> QED BY <1>0, <2>1, <2>2, <2>3 DEF Walking
<1>2. CASE going
  <2>1. /\ value' = [node |-> child, kind |-> W!KindAt(child)]
        /\ iter' = [iter EXCEPT ![i].next = @ + 1, ![i].remaining = @ - 1]
        /\ yielded' = [yielded EXCEPT ![i] = Append(@, child)]
        /\ answer'.ok
    <3>1. /\ iter[i].container # 0 /\ iter[i].remaining # 0
          /\ W!KindReadable(doc.children[iter[i].container][iter[i].next])
          /\ child = doc.children[iter[i].container][iter[i].next]
      BY <1>2 DEF Kids
    <3>2. /\ value' = [node |-> child, kind |-> W!KindAt(child)]
          /\ iter' = [iter EXCEPT ![i].next = @ + 1, ![i].remaining = @ - 1]
          /\ yielded' = [yielded EXCEPT ![i] = Append(@, child)]
          /\ W!Answer("next", TRUE)
      BY <3>1, Zenon DEF W!IterNext
    <3>3. answer'.ok
      BY <3>2 DEF W!Answer
    <3> QED BY <3>2, <3>3
  <2>2. /\ it \in IterRecords(doc) /\ it.container \in NodesOf(doc)
        /\ it.remaining \in Nat /\ it.next = Len(y) + 1 /\ it.remaining # 0
        /\ Len(y) + it.remaining = Len(c) /\ y = SubSeq(c, 1, Len(y))
        /\ y \in Seq(NodesOf(doc)) /\ c \in Seq(NodesOf(doc))
    <3>1. it \in IterRecords(doc) /\ it.container # 0 /\ it.remaining # 0 /\ y \in Seq(NodesOf(doc))
      BY <1>2 DEF Walking
    <3>2. it.container \in NodesOf(doc) /\ it.remaining \in Nat
      BY <3>1 DEF IterRecords
    <3>3. c \in Seq(NodesOf(doc))
      BY <3>2 DEF Walking, ClosedDocument
    <3>4. IterSound(doc, it, y)
      BY DEF Walking
    <3> HIDE DEF it, y
    <3> QED BY <3>1, <3>2, <3>3, <3>4 DEF IterSound
  <2>3. /\ child \in NodesOf(doc) /\ Append(y, child) \in Seq(NodesOf(doc))
        /\ Len(Append(y, child)) = Len(y) + 1
        /\ Append(y, child) = SubSeq(c, 1, Len(y) + 1)
    <3>1. PICK n \in Nat : n = Len(y)
      BY <2>2
    <3> HIDE DEF it, y, c
    <3>2. n < Len(c) /\ y = SubSeq(c, 1, n) /\ c \in Seq(NodesOf(doc)) /\ it.next = n + 1
      BY <2>2, <3>1
    <3>3. /\ c[n + 1] \in NodesOf(doc)
          /\ Append(SubSeq(c, 1, n), c[n + 1]) \in Seq(NodesOf(doc))
          /\ Len(Append(SubSeq(c, 1, n), c[n + 1])) = n + 1
          /\ Append(SubSeq(c, 1, n), c[n + 1]) = SubSeq(c, 1, n + 1)
      BY <3>2, NextChild
    <3> QED BY <3>1, <3>2, <3>3, Zenon DEF child
  <2>4. ValueSound(doc, value')
    <3> HIDE DEF child
    <3> QED BY <1>2, <2>1, <2>3 DEF ValueSound, W!KindReadable, W!KindAt
  <2> DEFINE new == [it EXCEPT !.next = @ + 1, !.remaining = @ - 1]
  <2>5. /\ new \in IterRecords(doc) /\ new.container = it.container
        /\ new.next = it.next + 1 /\ new.remaining = it.remaining - 1
    <3>1. it.next \in Nat /\ it.remaining - 1 \in Nat /\ it.is_block \in BOOLEAN
      BY <2>2 DEF IterRecords
    <3>2. it \in [container : NodesOf(doc) \cup {0}, next : Nat, remaining : Nat, is_block : BOOLEAN]
      BY <2>2, Zenon DEF IterRecords
    <3> HIDE DEF it
    <3>3. new.container = it.container /\ new.next = it.next + 1 /\ new.remaining = it.remaining - 1
      BY <3>2
    <3>4. it.next + 1 \in Nat
      BY <3>1
    <3>5. new \in [container : NodesOf(doc) \cup {0}, next : Nat, remaining : Nat, is_block : BOOLEAN]
      BY <3>1, <3>2, <3>4, Zenon
    <3> QED BY <3>3, <3>5, Zenon DEF IterRecords
  <2>6. IterSound(doc, new, Append(y, child))
    <3>1. Len(y) \in Nat
      BY <2>2
    <3>2. Len(y) + 1 + (it.remaining - 1) = Len(c)
      <4> HIDE DEF it, y, c
      <4> QED BY <2>2, <3>1
    <3> HIDE DEF it, y, new, child
    <3> QED BY <2>2, <2>3, <2>5, <3>2 DEF IterSound
  <2>7. iter' = [iter EXCEPT ![i] = new]
    BY <2>1 DEF Walking
  <2> HIDE DEF new, child
  <2>8. iter' \in [Iters -> IterRecords(doc)] /\ yielded' \in [Iters -> Seq(NodesOf(doc))]
    BY <2>1, <2>3, <2>5, <2>7 DEF Walking
  <2>9. \A j \in Iters : IterSound(doc, iter'[j], yielded'[j])
    <3> SUFFICES ASSUME NEW j \in Iters PROVE IterSound(doc, iter'[j], yielded'[j])
      OBVIOUS
    <3>1. CASE j = i
      <4>1. iter'[j] = new /\ yielded'[j] = Append(y, child)
        BY <2>1, <2>7, <3>1 DEF Walking
      <4> QED BY <2>6, <4>1
    <3>2. CASE j # i
      <4>1. iter'[j] = iter[j] /\ yielded'[j] = yielded[j]
        BY <2>1, <2>7, <3>2 DEF Walking
      <4> QED BY <4>1 DEF Walking
    <3> QED BY <3>1, <3>2
  <2>10. W!NoStaleRef'
    BY <2>1 DEF W!NoStaleRef
  <2> QED BY <1>0, <2>4, <2>8, <2>9, <2>10 DEF Walking
<1> QED BY <1>1, <1>2

LEMMA WalkSteps == WalkInv /\ [ReaderNext]_readerVars => WalkInv'
<1> SUFFICES ASSUME WalkInv, [ReaderNext]_readerVars, routine' = "walk"
             PROVE  Walking'
  BY DEF WalkInv
<1>1. routine = "walk" /\ Walking
  BY DEF WalkInv, ReaderNext, readerVars
<1>2. CASE W!Next
  BY <1>1, <1>2, FindWalks, GetWalks, IterStartWalks, IterNextWalks DEF W!Next
<1>3. CASE UNCHANGED readerVars
  BY <1>1, <1>3 DEF readerVars, walk, resolution, Walking, W!NoStaleRef, W!NoValue
<1> QED BY <1>1, <1>2, <1>3 DEF ReaderNext

LEMMA WalkHolds == ReaderSpec => []WalkInv
<1>1. ReaderInit => WalkInv
  BY WalkInit DEF ReaderInit, WalkInv
<1> QED BY <1>1, WalkSteps, PTL DEF ReaderSpec

(* In every document, whatever calls the program mixes, a reference names  *)
(* a node of the document and carries the kind that the image has there,   *)
(* a getter that succeeds gave that node's contents, and a find or a next  *)
(* that fails leaves the reference zeroed.                                 *)
THEOREM ReferencesSound == ReaderSpec => []RefSound
<1>1. WalkInv => RefSound
  BY DEF WalkInv, Walking, RefSound, W!RefSound, ValueSound, W!Nodes, NodesOf, W!KindReadable, W!KindAt
<1> QED BY <1>1, WalkHolds, PTL

(* In every document, with any number of iterators over any containers at  *)
(* once, each gives the children of its container in the order of the      *)
(* image, each once, and none remain only when it has given all.           *)
THEOREM IterationGivesChildren == ReaderSpec => []IterationFaithful
<1>1. WalkInv => IterationFaithful
  BY DEF WalkInv, Walking, IterationFaithful, W!IterationFaithful, IterSound, Kids
<1> QED BY <1>1, WalkHolds, PTL

-----------------------------------------------------------------------------
(* Paths: the places to which a path leads                                 *)

Places(w) == 0 .. Len(w)

\* Where a path may end that leads to m, if f says it of the node above.
Reached(d, w, f, m) ==
    {j \in Places(w) : \E k \in 0 .. j :
        /\ P!OnlyDots(w, k, j)
        /\ IF m = 0 THEN k = 0 ELSE \E i \in f[d.parent[m]] : i < k /\ P!StepWritten(d, w, m, i, k)}

EndsOf(d, w, f) ==
    /\ f \in [0 .. d.size -> SUBSET Places(w)]
    /\ \A m \in 0 .. d.size : f[m] = Reached(d, w, f, m)

\* Every document and path has such places: node after node.
LEMMA EndsExist ==
  ASSUME NEW d, P!Tree(d), NEW w
  PROVE  \E f : EndsOf(d, w, f)
<1>1. PICK N \in Nat : N = d.size
  BY DEF P!Tree
<1>0. ASSUME NEW a, NEW b PROVE Reached(d, w, a, 0) = Reached(d, w, b, 0)
  BY DEF Reached
<1> DEFINE Good(m, f) == \A i \in 0 .. m : f[i] = Reached(d, w, f, i)
           S == SUBSET Places(w)
           T == {m \in 0 .. N : \E f \in [0 .. N -> S] : Good(m, f)}
<1>2. 0 \in T
  <2>1. PICK x : x = Reached(d, w, [m \in 0 .. N |-> {}], 0)
    OBVIOUS
  <2>2. PICK f : f = [m \in 0 .. N |-> IF m = 0 THEN x ELSE {}]
    OBVIOUS
  <2>3. x \in S /\ {} \in S
    BY <2>1 DEF Reached
  <2> HIDE DEF S
  <2>4. f \in [0 .. N -> S] /\ f[0] = x
    BY <2>2, <2>3
  <2>5. Reached(d, w, f, 0) = x
    BY <1>0, <2>1
  <2>6. \A i \in 0 .. 0 : i = 0
    OBVIOUS
  <2>7. Good(0, f)
    BY <2>4, <2>5, <2>6
  <2> QED BY <2>4, <2>7
<1>3. ASSUME NEW m \in 1 .. N, m - 1 \in T PROVE m \in T
  <2>1. PICK f \in [0 .. N -> S] : Good(m - 1, f)
    BY <1>3
  <2>2. PICK g : g = [f EXCEPT ![m] = Reached(d, w, f, m)]
    OBVIOUS
  <2>3. Reached(d, w, f, m) \in S
    BY DEF Reached
  <2>4. /\ g \in [0 .. N -> S] /\ g[m] = Reached(d, w, f, m)
        /\ \A i \in 0 .. N : i # m => g[i] = f[i]
    BY <2>2, <2>3
  <2>5. ASSUME NEW i \in 0 .. m PROVE Reached(d, w, g, i) = Reached(d, w, f, i)
    <3>1. CASE i = 0
      BY <3>1 DEF Reached
    <3>2. CASE i # 0
      <4>1. d.parent[i] \in 0 .. i - 1
        BY <1>1, <3>2 DEF P!Tree
      <4>2. g[d.parent[i]] = f[d.parent[i]]
        BY <2>4, <4>1
      <4> QED BY <4>2 DEF Reached
    <3> QED BY <3>1, <3>2
  <2>6. Good(m, g)
    <3>1. ASSUME NEW i \in 0 .. m PROVE g[i] = Reached(d, w, f, i)
      <4>1. CASE i = m
        BY <2>4, <4>1
      <4>2. CASE i # m
        <5>1. i \in 0 .. m - 1 /\ i \in 0 .. N
          BY <4>2
        <5> QED BY <2>1, <2>4, <4>2, <5>1
      <4> QED BY <4>1, <4>2
    <3> QED BY <2>5, <3>1
  <2> QED BY <2>4, <2>6
<1> HIDE DEF T
<1>4. \A m \in 0 .. N : m \in T
  BY <1>2, <1>3, UpTo
<1>5. PICK f \in [0 .. N -> S] : Good(N, f)
  BY <1>4 DEF T
<1> QED BY <1>1, <1>5 DEF EndsOf

\* LeadsTo reads them.
LEMMA LeadsIs ==
  ASSUME NEW d, P!Tree(d), NEW w, Len(w) \in Nat, NEW f, EndsOf(d, w, f), NEW n \in 0 .. d.size, NEW l
  PROVE  P!LeadsTo(d, w, n, l) <=> l \in f[n]
<1>1. PICK N \in Nat : N = d.size
  BY DEF P!Tree
<1> DEFINE steps(e, m) == {k \in 0 .. Len(w) :
                              IF m = 0 THEN k = 0
                              ELSE \E i \in e[d.parent[m]] : i < k /\ P!StepWritten(d, w, m, i, k)}
           body(e, m) == {j \in 0 .. Len(w) : \E k \in steps(e, m) : k <= j /\ P!OnlyDots(w, k, j)}
           Eq(e) == e = [m \in 0 .. d.size |-> body(e, m)]
           t == CHOOSE e : Eq(e)
<1>2. P!LeadsTo(d, w, n, l) <=> l \in t[n]
  BY DEF P!LeadsTo
<1>3. \A e, m : body(e, m) = Reached(d, w, e, m)
  BY DEF Reached, Places
<1> HIDE DEF body
<1>4. Eq(f)
  <2>1. f = [m \in 0 .. d.size |-> f[m]]
    BY DEF EndsOf
  <2>2. \A m \in 0 .. d.size : f[m] = body(f, m)
    BY <1>3 DEF EndsOf
  <2> QED BY <2>1, <2>2
<1>5. Eq(t)
  <2> HIDE DEF Eq
  <2> QED BY <1>4
<1>6. \A m \in 0 .. N : t[m] = Reached(d, w, t, m)
  <2> HIDE DEF t
  <2> QED BY <1>1, <1>3, <1>5
<1> HIDE DEF t
<1> DEFINE T == {m \in 0 .. N : \A i \in 0 .. m : t[i] = f[i]}
<1>7. 0 \in T
  <2>1. Reached(d, w, t, 0) = Reached(d, w, f, 0)
    BY DEF Reached
  <2>2. t[0] = f[0]
    BY <1>1, <1>6, <2>1 DEF EndsOf
  <2>3. \A i \in 0 .. 0 : i = 0
    OBVIOUS
  <2> QED BY <2>2, <2>3
<1>8. ASSUME NEW m \in 1 .. N, m - 1 \in T PROVE m \in T
  <2>1. \A i \in 0 .. m - 1 : t[i] = f[i]
    BY <1>8
  <2>2. d.parent[m] \in 0 .. m - 1
    BY <1>1 DEF P!Tree
  <2>3. Reached(d, w, t, m) = Reached(d, w, f, m)
    BY <2>1, <2>2 DEF Reached
  <2>4. t[m] = f[m]
    BY <1>1, <1>6, <2>3 DEF EndsOf
  <2>5. \A i \in 0 .. m : i = m \/ i \in 0 .. m - 1
    OBVIOUS
  <2> QED BY <2>1, <2>4, <2>5
<1> HIDE DEF T
<1>9. \A m \in 0 .. N : m \in T
  BY <1>7, <1>8, UpTo
<1>10. t[n] = f[n]
  BY <1>1, <1>9 DEF T
<1> QED BY <1>2, <1>10

-----------------------------------------------------------------------------
(* One step of a path: as the code reads it, and as it may be written       *)

IsPart(C, w, a, b, x) == x \in Seq(C) /\ Len(x) = b - a /\ \A i \in 1 .. b - a : x[i] = w[a + i]

\* A part of a path.
LEMMA TextIs ==
  ASSUME NEW C, NEW w \in Seq(C), NEW a \in Nat, NEW b \in Nat, a <= b, b <= Len(w)
  PROVE  IsPart(C, w, a, b, P!Text(w, a, b))
  BY DEF P!Text, IsPart

\* r is the first place from a on that holds one of the characters, or the end.
Stop(w, a, cs, r) ==
    /\ r \in a .. Len(w)
    /\ \A j \in a .. r - 1 : w[j + 1] \notin cs
    /\ r < Len(w) => w[r + 1] \in cs

\* There is one such place.
LEMMA StopUnique ==
  ASSUME NEW w, Len(w) \in Nat, NEW a \in Nat, NEW cs, NEW r, NEW s, Stop(w, a, cs, r), Stop(w, a, cs, s)
  PROVE  r = s
<1>1. r \in Nat /\ s \in Nat /\ a <= r /\ a <= s /\ r <= Len(w) /\ s <= Len(w)
  BY DEF Stop
<1>2. CASE r < s
  <2>1. r \in a .. s - 1 /\ r < Len(w)
    BY <1>1, <1>2
  <2> QED BY <2>1 DEF Stop
<1>3. CASE s < r
  <2>1. s \in a .. r - 1 /\ s < Len(w)
    BY <1>1, <1>3
  <2> QED BY <2>1 DEF Stop
<1> QED BY <1>1, <1>2, <1>3

\* The loop finds it.
LEMMA FindStops ==
  ASSUME NEW w, Len(w) \in Nat, NEW a \in Nat, a <= Len(w), NEW cs
  PROVE  Stop(w, a, cs, P!Find(w, a, cs)) /\ P!Find(w, a, cs) \in Nat
<1> DEFINE places == {i \in a .. Len(w) - 1 : w[i + 1] \in cs}
<1>1. CASE places = {}
  <2>1. P!Find(w, a, cs) = Len(w)
    BY <1>1 DEF P!Find
  <2>2. ASSUME NEW j \in a .. Len(w) - 1 PROVE w[j + 1] \notin cs
    BY <1>1
  <2>3. Len(w) \in a .. Len(w) /\ ~(Len(w) < Len(w))
    OBVIOUS
  <2> HIDE DEF places
  <2> QED BY <2>1, <2>2, <2>3 DEF Stop
<1>2. CASE places # {}
  <2>1. places \subseteq Nat
    OBVIOUS
  <2>2. PICK x \in places : \A y \in places : x <= y
    <3> HIDE DEF places
    <3> QED BY <1>2, <2>1, LeastNat
  <2>3. P!Find(w, a, cs) = CHOOSE i \in places : \A j \in places : i <= j
    BY <1>2 DEF P!Find
  <2>4. P!Find(w, a, cs) \in places /\ \A j \in places : P!Find(w, a, cs) <= j
    <3> HIDE DEF places
    <3> QED BY <2>2, <2>3
  <2>5. PICK r : r = P!Find(w, a, cs)
    OBVIOUS
  <2>6. r \in a .. Len(w) - 1 /\ w[r + 1] \in cs /\ r \in Nat
    BY <2>4, <2>5
  <2>7. \A j \in a .. r - 1 : w[j + 1] \notin cs
    <3> SUFFICES ASSUME NEW j \in a .. r - 1, w[j + 1] \in cs PROVE FALSE
      OBVIOUS
    <3>1. j \in places
      BY <2>6
    <3>2. r <= j
      BY <2>4, <2>5, <3>1
    <3> QED BY <2>6, <3>2
  <2> HIDE DEF places
  <2>8. Stop(w, a, cs, r)
    BY <2>6, <2>7 DEF Stop
  <2> QED BY <2>5, <2>6, <2>8
<1> QED BY <1>1, <1>2

\* The value of digits is a number.
LEMMA IndexNat ==
  ASSUME NEW C, NEW x \in Seq(C), \A i \in 1 .. Len(x) : P!IsDigit(x[i])
  PROVE  P!Index(x) \in Nat
<1>1. PICK n \in Nat : n = Len(x)
  OBVIOUS
<1> DEFINE body(e, i) == IF i = 0 THEN 0 ELSE e[i - 1] * 10 + P!DigitValue(x[i])
           Eq(e) == e = [i \in 0 .. n |-> body(e, i)]
           t == CHOOSE e : Eq(e)
<1>2. P!Index(x) = t[n]
  BY <1>1 DEF P!Index
<1>3. ASSUME NEW i \in 1 .. n PROVE P!DigitValue(x[i]) \in Nat
  <2>1. P!IsDigit(x[i])
    BY <1>1
  <2>2. PICK c : c = x[i]
    OBVIOUS
  <2>3. \E k \in 1 .. 10 : P!Digits[k] = c
    BY <2>1, <2>2 DEF P!IsDigit
  <2> QED BY <2>2, <2>3 DEF P!DigitValue
<1>4. PICK v : v = [i \in 1 .. n |-> P!DigitValue(x[i])]
  OBVIOUS
<1>41. PICK next : next = [i \in 1 .. n |-> [y \in Nat |-> y * 10 + v[i]]]
  OBVIOUS
<1>5. \A i \in 1 .. n : \A y \in Nat : next[i][y] \in Nat /\ next[i][y] = y * 10 + P!DigitValue(x[i])
  <2>1. \A i \in 1 .. n : v[i] \in Nat /\ v[i] = P!DigitValue(x[i])
    BY <1>3, <1>4
  <2>2. \A i \in 1 .. n : \A y \in Nat : next[i][y] = y * 10 + v[i]
    BY <1>41
  <2>3. \A i \in 1 .. n : \A y \in Nat : y * 10 + v[i] \in Nat
    BY <2>1
  <2> QED BY <2>1, <2>2, <2>3
<1>6. PICK f : Follows(n, Nat, 0, next, f)
  <2>1. 0 \in Nat /\ \A i \in 1 .. n : \A y \in Nat : next[i][y] \in Nat
    BY <1>5
  <2> QED BY <2>1, StepsDefine
<1>7. /\ f \in [0 .. n -> Nat] /\ f[0] = 0
      /\ \A i \in 1 .. n : f[i] = f[i - 1] * 10 + P!DigitValue(x[i])
  <2>1. f \in [0 .. n -> Nat] /\ f[0] = 0 /\ \A i \in 1 .. n : f[i] = next[i][f[i - 1]]
    BY <1>6 DEF Follows
  <2>2. \A i \in 1 .. n : i - 1 \in 0 .. n
    OBVIOUS
  <2> QED BY <1>5, <2>1, <2>2
<1>8. Eq(f)
  <2>1. \A i \in 0 .. n : i # 0 => i \in 1 .. n
    OBVIOUS
  <2>2. \A i \in 0 .. n : f[i] = body(f, i)
    BY <1>7, <2>1
  <2>3. f = [i \in 0 .. n |-> f[i]]
    BY <1>7
  <2> HIDE DEF body
  <2> QED BY <2>2, <2>3
<1>9. Eq(t)
  <2> HIDE DEF Eq
  <2> QED BY <1>8
<1> HIDE DEF t
<1>10. t[0] = 0 /\ \A i \in 1 .. n : t[i] = t[i - 1] * 10 + P!DigitValue(x[i])
  <2>1. \A i \in 0 .. n : t[i] = body(t, i)
    <3> HIDE DEF body
    <3> QED BY <1>9
  <2>2. \A i \in 1 .. n : i # 0 /\ i \in 0 .. n
    OBVIOUS
  <2>3. 0 \in 0 .. n
    OBVIOUS
  <2> QED BY <2>1, <2>2, <2>3
<1> DEFINE T == {i \in 0 .. n : t[i] \in Nat}
<1>11. 0 \in T
  BY <1>10
<1>12. ASSUME NEW i \in 1 .. n, i - 1 \in T PROVE i \in T
  BY <1>3, <1>10, <1>12
<1> HIDE DEF T
<1>13. \A i \in 0 .. n : i \in T
  BY <1>11, <1>12, UpTo
<1> QED BY <1>2, <1>13 DEF T

Numbered(w, e, c, k) ==
    /\ w[c + 1] = "[" /\ Stop(w, c + 1, {"]"}, k - 1) /\ k - 1 < Len(w)
    /\ P!IndexAccepted(P!Text(w, c + 1, k - 1))
    /\ e = P!Index(P!Text(w, c + 1, k - 1)) + 1

\* An index in brackets.
LEMMA BracketedIs ==
  ASSUME NEW C, NEW w \in Seq(C), NEW c \in Nat, NEW k \in Nat, c < Len(w), k <= Len(w),
         NEW e \in Nat, e >= 1, e <= IndexLimit
  PROVE  P!Bracketed(w, e, c, k) <=> Numbered(w, e, c, k)
<1>0. Len(w) \in Nat /\ MaxDigits \in Nat /\ IndexLimit \in Nat
  BY PathAssumption
<1>1. PICK x : x = P!Text(w, c + 1, k - 1)
  OBVIOUS
<1>2. ASSUME P!Bracketed(w, e, c, k) PROVE Numbered(w, e, c, k)
  <2>1. /\ k - c \in 3 .. MaxDigits + 2 /\ w[c + 1] = "[" /\ w[k] = "]" /\ P!Index(x) = e - 1
        /\ \A j \in c + 2 .. k - 1 : P!IsDigit(w[j])
    BY <1>1, <1>2 DEF P!Bracketed
  <2>2. c + 1 \in Nat /\ k - 1 \in Nat /\ c + 1 <= k - 1 /\ k - 1 <= Len(w) /\ k - 1 < Len(w)
    BY <1>0, <2>1
  <2>3. x \in Seq(C) /\ Len(x) = (k - 1) - (c + 1) /\ \A i \in 1 .. (k - 1) - (c + 1) : x[i] = w[c + 1 + i]
    <3>1. IsPart(C, w, c + 1, k - 1, P!Text(w, c + 1, k - 1))
      BY <2>2, TextIs
    <3> QED BY <1>1, <3>1 DEF IsPart
  <2>4. ASSUME NEW j \in c + 1 .. (k - 1) - 1 PROVE w[j + 1] \notin {"]"}
    <3>1. j + 1 \in c + 2 .. k - 1
      BY <2>2
    <3>2. P!IsDigit(w[j + 1])
      BY <2>1, <3>1
    <3> QED BY <3>2 DEF P!IsDigit, P!Digits
  <2>5. Stop(w, c + 1, {"]"}, k - 1)
    <3>1. k - 1 \in c + 1 .. Len(w) /\ k - 1 + 1 = k
      BY <1>0, <2>2
    <3> QED BY <2>1, <2>4, <3>1 DEF Stop
  <2>6. ASSUME NEW i \in 1 .. Len(x) PROVE P!IsDigit(x[i])
    <3>1. c + 1 + i \in c + 2 .. k - 1 /\ x[i] = w[c + 1 + i]
      BY <2>2, <2>3, SMTT(30)
    <3> QED BY <2>1, <3>1
  <2>7. Len(x) \in 1 .. MaxDigits /\ P!Index(x) < IndexLimit
    BY <1>0, <2>1, <2>2, <2>3
  <2> QED BY <1>1, <2>1, <2>2, <2>5, <2>6, <2>7 DEF Numbered, P!IndexAccepted
<1>3. ASSUME Numbered(w, e, c, k) PROVE P!Bracketed(w, e, c, k)
  <2>1. /\ w[c + 1] = "[" /\ k - 1 \in c + 1 .. Len(w) /\ k - 1 < Len(w) /\ w[k - 1 + 1] \in {"]"}
        /\ Len(x) \in 1 .. MaxDigits /\ (\A i \in 1 .. Len(x) : P!IsDigit(x[i])) /\ e = P!Index(x) + 1
    BY <1>1, <1>3 DEF Numbered, Stop, P!IndexAccepted
  <2>2. c + 1 \in Nat /\ k - 1 \in Nat /\ c + 1 <= k - 1 /\ k - 1 <= Len(w) /\ k - 1 + 1 = k
    BY <1>0, <2>1
  <2>3. x \in Seq(C) /\ Len(x) = (k - 1) - (c + 1) /\ \A i \in 1 .. (k - 1) - (c + 1) : x[i] = w[c + 1 + i]
    <3>1. IsPart(C, w, c + 1, k - 1, P!Text(w, c + 1, k - 1))
      BY <2>2, TextIs
    <3> QED BY <1>1, <3>1 DEF IsPart
  <2>4. ASSUME NEW j \in c + 2 .. k - 1 PROVE P!IsDigit(w[j])
    <3>1. j - (c + 1) \in 1 .. (k - 1) - (c + 1) /\ c + 1 + (j - (c + 1)) = j
      BY <2>2
    <3>2. x[j - (c + 1)] = w[j]
      BY <2>3, <3>1
    <3> QED BY <2>1, <2>3, <3>1, <3>2
  <2>5. P!Index(x) \in Nat
    BY <2>1, <2>3, IndexNat
  <2>6. P!Index(x) = e - 1
    BY <2>1, <2>5
  <2>7. k - c \in 3 .. MaxDigits + 2
    BY <1>0, <2>1, <2>2, <2>3
  <2> QED BY <1>1, <2>1, <2>2, <2>4, <2>6, <2>7 DEF P!Bracketed
<1> QED BY <1>2, <1>3

Quoted(w, key_, c, k) ==
    /\ w[c + 1] \in P!Quotes /\ Stop(w, c + 1, {w[c + 1]}, k - 1) /\ k - 1 < Len(w) /\ k - 1 > c + 1
    /\ key_ = P!Text(w, c + 1, k - 1)

\* A key in quotes.
LEMMA QuotedIs ==
  ASSUME NEW C, NEW w \in Seq(C), NEW c \in Nat, NEW k \in Nat, c < Len(w), k <= Len(w), NEW y
  PROVE  P!QuotedKey(w, y, c, k) <=> Quoted(w, y, c, k)
<1>0. Len(w) \in Nat /\ Len(<<>>) = 0
  OBVIOUS
<1>1. PICK x : x = P!Text(w, c + 1, k - 1)
  OBVIOUS
<1>2. ASSUME P!QuotedKey(w, y, c, k) PROVE Quoted(w, y, c, k)
  <2>1. /\ y # <<>> /\ k - c >= 2 /\ w[c + 1] \in P!Quotes /\ w[k] = w[c + 1] /\ x = y
        /\ \A i \in 1 .. Len(x) : x[i] # w[k]
    BY <1>1, <1>2 DEF P!QuotedKey
  <2>2. c + 1 \in Nat /\ k - 1 \in Nat /\ c + 1 <= k - 1 /\ k - 1 <= Len(w) /\ k - 1 < Len(w)
    BY <1>0, <2>1
  <2>3. x \in Seq(C) /\ Len(x) = (k - 1) - (c + 1) /\ \A i \in 1 .. (k - 1) - (c + 1) : x[i] = w[c + 1 + i]
    <3>1. IsPart(C, w, c + 1, k - 1, P!Text(w, c + 1, k - 1))
      BY <2>2, TextIs
    <3> QED BY <1>1, <3>1 DEF IsPart
  <2>4. ASSUME NEW j \in c + 1 .. (k - 1) - 1 PROVE w[j + 1] \notin {w[c + 1]}
    <3>1. j - c \in 1 .. (k - 1) - (c + 1) /\ c + 1 + (j - c) = j + 1
      BY <2>2
    <3>2. x[j - c] = w[j + 1]
      BY <2>3, <3>1
    <3> QED BY <2>1, <2>3, <3>1, <3>2
  <2>5. Len(x) # 0
    <3>1. Len(x) = 0 => x = <<>>
      BY <2>3
    <3> QED BY <2>1, <3>1
  <2>6. k - 1 > c + 1 /\ k - 1 \in c + 1 .. Len(w) /\ k - 1 + 1 = k
    BY <1>0, <2>2, <2>3, <2>5
  <2>7. Stop(w, c + 1, {w[c + 1]}, k - 1)
    BY <2>1, <2>4, <2>6 DEF Stop
  <2> QED BY <1>1, <2>1, <2>2, <2>6, <2>7 DEF Quoted
<1>3. ASSUME Quoted(w, y, c, k) PROVE P!QuotedKey(w, y, c, k)
  <2>1. /\ w[c + 1] \in P!Quotes /\ k - 1 \in c + 1 .. Len(w) /\ k - 1 < Len(w) /\ k - 1 > c + 1 /\ y = x
        /\ w[k - 1 + 1] \in {w[c + 1]} /\ \A j \in c + 1 .. (k - 1) - 1 : w[j + 1] \notin {w[c + 1]}
    BY <1>1, <1>3 DEF Quoted, Stop
  <2>2. c + 1 \in Nat /\ k - 1 \in Nat /\ c + 1 <= k - 1 /\ k - 1 <= Len(w) /\ k - 1 + 1 = k /\ k - c >= 2
    BY <1>0, <2>1
  <2>3. x \in Seq(C) /\ Len(x) = (k - 1) - (c + 1) /\ \A i \in 1 .. (k - 1) - (c + 1) : x[i] = w[c + 1 + i]
    <3>1. IsPart(C, w, c + 1, k - 1, P!Text(w, c + 1, k - 1))
      BY <2>2, TextIs
    <3> QED BY <1>1, <3>1 DEF IsPart
  <2>4. x # <<>>
    <3>1. Len(x) # 0
      BY <1>0, <2>1, <2>2, <2>3
    <3> QED BY <1>0, <3>1
  <2>5. ASSUME NEW i \in 1 .. Len(x) PROVE x[i] # w[k]
    <3>1. c + i \in c + 1 .. (k - 1) - 1 /\ c + i + 1 = c + 1 + i /\ i \in 1 .. (k - 1) - (c + 1)
      BY <2>2, <2>3
    <3> QED BY <2>1, <2>2, <2>3, <3>1
  <2> QED BY <1>1, <2>1, <2>2, <2>4, <2>5 DEF P!QuotedKey
<1> QED BY <1>2, <1>3

Bare(w, key_, c, k) ==
    /\ w[c + 1] \notin P!Quotes /\ w[c + 1] \notin {".", "["} /\ Stop(w, c, {".", "["}, k) /\ k > c
    /\ key_ = P!Text(w, c, k)

\* A key without quotes.
LEMMA BareIs ==
  ASSUME NEW C, NEW w \in Seq(C), NEW c \in Nat, NEW k \in Nat, c < k, k <= Len(w), NEW y
  PROVE  P!BareKey(w, y, c, k) <=> Bare(w, y, c, k)
<1>0. Len(w) \in Nat /\ Len(<<>>) = 0 /\ c <= k
  OBVIOUS
<1>1. PICK x : x = P!Text(w, c, k)
  OBVIOUS
<1>2. x \in Seq(C) /\ Len(x) = k - c /\ \A i \in 1 .. k - c : x[i] = w[c + i]
  <2>1. IsPart(C, w, c, k, P!Text(w, c, k))
    BY <1>0, TextIs
  <2> QED BY <1>1, <2>1 DEF IsPart
<1>3. x # <<>> /\ 1 \in 1 .. k - c /\ x[1] = w[c + 1]
  <2>1. Len(x) # 0 /\ 1 \in 1 .. k - c
    BY <1>2
  <2>2. x # <<>>
    BY <1>0, <2>1
  <2> QED BY <1>2, <2>1, <2>2
<1>4. ASSUME P!BareKey(w, y, c, k) PROVE Bare(w, y, c, k)
  <2>1. /\ x = y /\ x[1] \notin P!Quotes /\ (\A i \in 1 .. Len(x) : x[i] \notin {".", "["})
        /\ k = Len(w) \/ w[k + 1] \in {".", "["}
    BY <1>1, <1>4 DEF P!BareKey
  <2>2. ASSUME NEW j \in c .. k - 1 PROVE w[j + 1] \notin {".", "["}
    <3>1. j - c + 1 \in 1 .. k - c /\ c + (j - c + 1) = j + 1
      OBVIOUS
    <3>2. x[j - c + 1] = w[j + 1]
      BY <1>2, <3>1
    <3> QED BY <1>2, <2>1, <3>1, <3>2
  <2>3. Stop(w, c, {".", "["}, k)
    BY <1>0, <2>1, <2>2 DEF Stop
  <2>4. w[c + 1] \notin {".", "["}
    BY <1>2, <1>3, <2>1
  <2> QED BY <1>1, <1>3, <2>1, <2>3, <2>4 DEF Bare
<1>5. ASSUME Bare(w, y, c, k) PROVE P!BareKey(w, y, c, k)
  <2>1. /\ w[c + 1] \notin P!Quotes /\ y = x /\ (k < Len(w) => w[k + 1] \in {".", "["})
        /\ \A j \in c .. k - 1 : w[j + 1] \notin {".", "["}
    BY <1>1, <1>5 DEF Bare, Stop
  <2>2. ASSUME NEW i \in 1 .. Len(x) PROVE x[i] \notin {".", "["}
    <3>1. c + i - 1 \in c .. k - 1 /\ c + i - 1 + 1 = c + i /\ i \in 1 .. k - c
      BY <1>2
    <3>2. w[c + i] \notin {".", "["}
      BY <2>1, <3>1
    <3> QED BY <1>2, <3>1, <3>2
  <2>3. k = Len(w) \/ w[k + 1] \in {".", "["}
    BY <1>0, <2>1
  <2> QED BY <1>1, <1>3, <2>1, <2>2, <2>3 DEF P!BareKey
<1> QED BY <1>4, <1>5

\* The step from p at place c to node n and place k, as the code takes it.
Taken(d, w, p, c, n, k) ==
    \/ /\ P!KindOf(d, p) = "array"
       /\ \E e \in 1 .. Len(d.children[p]) : d.children[p][e] = n /\ Numbered(w, e, c, k)
    \/ /\ P!KindOf(d, p) = "block" /\ d.parent[n] = p
       /\ Quoted(w, d.key[n], c, k) \/ Bare(w, d.key[n], c, k)

Path(C, d, w) ==
    /\ P!Tree(d) /\ d.size \in Nat /\ \A p \in 0 .. d.size : Len(d.children[p]) <= IndexLimit
    /\ w \in Seq(C) /\ Len(w) \in Nat

\* What the tree says of a node and the one above.
LEMMA Above ==
  ASSUME NEW d, P!Tree(d), NEW n \in 1 .. d.size
  PROVE  /\ d.parent[n] \in 0 .. d.size /\ d.parent[n] \in Nat /\ P!KindOf(d, d.parent[n]) \in {"block", "array"}
<1>1. PICK p : p = d.parent[n]
  OBVIOUS
<1>2. d.size \in Nat /\ p \in 0 .. n - 1 /\ n \in 1 .. d.size
  BY <1>1 DEF P!Tree
<1>3. p \in 0 .. d.size /\ p \in Nat
  BY <1>2
<1>4. \A q \in 0 .. d.size : (\E e \in 1 .. Len(d.children[q]) : d.children[q][e] = n) <=> q = p
  BY <1>1 DEF P!Tree
<1>5. PICK e \in 1 .. Len(d.children[p]) : d.children[p][e] = n
  BY <1>3, <1>4
<1>6. P!KindOf(d, p) \in {"block", "array"}
  <2>1. CASE p = 0
    BY <2>1 DEF P!KindOf
  <2>2. CASE p # 0
    <3>1. p \in 1 .. d.size
      BY <1>3, <2>2
    <3>2. d.children[p] # <<>>
      BY <1>5
    <3> QED BY <2>2, <3>1, <3>2 DEF P!Tree, P!KindOf
  <2> QED BY <2>1, <2>2
<1> QED BY <1>1, <1>3, <1>4, <1>5, <1>6

\* Every step that is written is taken, and no other.
LEMMA TakenIs ==
  ASSUME NEW C, NEW d, NEW w, Path(C, d, w), NEW n \in 1 .. d.size, NEW c \in Nat, NEW k \in Nat, c < k, k <= Len(w)
  PROVE  P!StepWritten(d, w, n, c, k) <=> Taken(d, w, d.parent[n], c, n, k)
<1>1. PICK p : p = d.parent[n]
  OBVIOUS
<1>2. p \in 0 .. d.size /\ P!KindOf(d, p) \in {"block", "array"}
  BY <1>1, Above DEF Path
<1>3. w \in Seq(C) /\ Len(w) \in Nat /\ c < Len(w) /\ d.size \in Nat /\ IndexLimit \in Nat
  BY PathAssumption DEF Path
<1>4. \A y : P!QuotedKey(w, y, c, k) <=> Quoted(w, y, c, k)
  BY <1>3, QuotedIs
<1>5. \A y : P!BareKey(w, y, c, k) <=> Bare(w, y, c, k)
  BY <1>3, BareIs
<1>6. ASSUME NEW e \in 1 .. Len(d.children[p]) PROVE P!Bracketed(w, e, c, k) <=> Numbered(w, e, c, k)
  <2>1. PICK x : x = d.children[p]
    OBVIOUS
  <2>2. Len(x) <= IndexLimit /\ x \in Seq(p + 1 .. d.size)
    BY <1>2, <2>1 DEF Path, P!Tree
  <2>3. e \in Nat /\ e >= 1 /\ e <= IndexLimit
    BY <1>3, <2>1, <2>2
  <2> QED BY <1>3, <2>3, BracketedIs
<1> QED BY <1>1, <1>2, <1>4, <1>5, <1>6 DEF P!StepWritten, Taken

StepEnds(d, w, p, c, n, k) ==
    /\ c < k /\ k <= Len(w) /\ w[c + 1] # "." /\ w[k] # "."
    /\ \A m \in 1 .. d.size, j \in Nat : Taken(d, w, p, c, m, j) =>
           k = j /\ (P!KeysDiffer(d) => n = m)

\* It is the only one from there.
LEMMA TakenOnce ==
  ASSUME NEW C, NEW d, NEW w, Path(C, d, w), NEW p \in 0 .. d.size, NEW n \in 1 .. d.size,
         NEW c \in Nat, NEW k \in Nat, Taken(d, w, p, c, n, k)
  PROVE  StepEnds(d, w, p, c, n, k)
<1>0. Len(w) \in Nat
  BY DEF Path
<1>1. ASSUME NEW cs, NEW a \in Nat, Stop(w, a, cs, k), NEW j \in Nat, Stop(w, a, cs, j) PROVE k = j
  BY <1>0, <1>1, StopUnique
<1>2. ASSUME NEW cs, NEW a \in Nat, Stop(w, a, cs, k - 1), NEW j \in Nat, Stop(w, a, cs, j - 1) PROVE k = j
  <2>1. PICK r, s : r = k - 1 /\ s = j - 1
    OBVIOUS
  <2>2. Stop(w, a, cs, r) /\ Stop(w, a, cs, s)
    BY <1>2, <2>1
  <2>3. r = s
    BY <1>0, <2>2, StopUnique
  <2> QED BY <2>1, <2>3
<1>3. CASE P!KindOf(d, p) = "array"
  <2>1. PICK e \in 1 .. Len(d.children[p]) : d.children[p][e] = n /\ Numbered(w, e, c, k)
    BY <1>3 DEF Taken
  <2>2. c < k /\ k <= Len(w) /\ w[c + 1] # "." /\ w[k] # "."
    <3>1. w[c + 1] = "[" /\ k - 1 \in c + 1 .. Len(w) /\ k - 1 < Len(w) /\ w[k - 1 + 1] \in {"]"}
      BY <2>1 DEF Numbered, Stop
    <3>2. k - 1 + 1 = k
      OBVIOUS
    <3> QED BY <1>0, <3>1, <3>2
  <2>3. ASSUME NEW m \in 1 .. d.size, NEW j \in Nat, Taken(d, w, p, c, m, j) PROVE k = j /\ n = m
    <3>1. PICK f \in 1 .. Len(d.children[p]) : d.children[p][f] = m /\ Numbered(w, f, c, j)
      BY <1>3, <2>3 DEF Taken
    <3>2. k = j
      BY <1>2, <2>1, <3>1 DEF Numbered
    <3>3. e = f
      BY <2>1, <3>1, <3>2 DEF Numbered
    <3> QED BY <2>1, <3>1, <3>2, <3>3
  <2> QED BY <2>2, <2>3 DEF StepEnds
<1>4. CASE P!KindOf(d, p) # "array"
  <2>1. P!KindOf(d, p) = "block" /\ d.parent[n] = p /\ (Quoted(w, d.key[n], c, k) \/ Bare(w, d.key[n], c, k))
    BY <1>4 DEF Taken
  <2>2. c < k /\ k <= Len(w) /\ w[c + 1] # "." /\ w[k] # "."
    <3>1. CASE Quoted(w, d.key[n], c, k)
      <4>1. w[c + 1] \in P!Quotes /\ k - 1 \in c + 1 .. Len(w) /\ k - 1 < Len(w) /\ w[k - 1 + 1] \in {w[c + 1]}
        BY <3>1 DEF Quoted, Stop
      <4>2. k - 1 + 1 = k
        OBVIOUS
      <4>3. w[c + 1] # "."
        BY <4>1 DEF P!Quotes
      <4> QED BY <1>0, <4>1, <4>2, <4>3
    <3>2. CASE Bare(w, d.key[n], c, k)
      <4>1. /\ w[c + 1] \notin {".", "["} /\ k > c /\ k \in c .. Len(w)
            /\ \A j \in c .. k - 1 : w[j + 1] \notin {".", "["}
        BY <3>2 DEF Bare, Stop
      <4>2. k - 1 \in c .. k - 1 /\ k - 1 + 1 = k
        BY <4>1
      <4> QED BY <4>1, <4>2
    <3> QED BY <2>1, <3>1, <3>2
  <2>3. ASSUME NEW m \in 1 .. d.size, NEW j \in Nat, Taken(d, w, p, c, m, j)
        PROVE  k = j /\ (P!KeysDiffer(d) => n = m)
    <3>1. d.parent[m] = p /\ (Quoted(w, d.key[m], c, j) \/ Bare(w, d.key[m], c, j))
      BY <1>4, <2>3 DEF Taken
    <3>2. c + 1 \in Nat
      OBVIOUS
    <3>3. k = j /\ d.key[n] = d.key[m]
      <4>1. CASE w[c + 1] \in P!Quotes
        <5>1. Quoted(w, d.key[n], c, k) /\ Quoted(w, d.key[m], c, j)
          BY <2>1, <3>1, <4>1 DEF Bare
        <5>2. k = j
          BY <1>2, <3>2, <5>1 DEF Quoted
        <5> QED BY <5>1, <5>2 DEF Quoted
      <4>2. CASE w[c + 1] \notin P!Quotes
        <5>1. Bare(w, d.key[n], c, k) /\ Bare(w, d.key[m], c, j)
          BY <2>1, <3>1, <4>2 DEF Quoted
        <5>2. k = j
          BY <1>1, <5>1 DEF Bare
        <5> QED BY <5>1, <5>2 DEF Bare
      <4> QED BY <4>1, <4>2
    <3> QED BY <2>1, <3>1, <3>3 DEF P!KeysDiffer
  <2> QED BY <2>2, <2>3 DEF StepEnds
<1> QED BY <1>3, <1>4

-----------------------------------------------------------------------------
(* Where a resolution stands: the path up to c leads to p; where no block  *)
(* has a key twice it leads to nothing else, and no step that begins       *)
(* before c goes past it.                                                  *)

NoneAcross(d, w, f, c) ==
    \A n \in 1 .. d.size : \A i \in f[d.parent[n]] : \A k \in Nat :
        i < c /\ i < k /\ k <= Len(w) /\ P!StepWritten(d, w, n, i, k) => k <= c

Only(d, w, f, p, c) == (\A n \in 0 .. d.size : c \in f[n] => n = p) /\ NoneAcross(d, w, f, c)

At(d, w, f, p, c) ==
    /\ p \in 0 .. d.size /\ c \in 0 .. Len(w) /\ c \in f[p]
    /\ P!KeysDiffer(d) => Only(d, w, f, p, c)

Placed(C, d, w, f) == Path(C, d, w) /\ EndsOf(d, w, f)

\* How a path comes to a place.
Comes(d, w, f, n, l) ==
    /\ l \in Nat /\ l <= Len(w)
    /\ \E k \in Nat :
          /\ k <= l /\ P!OnlyDots(w, k, l)
          /\ n = 0 => k = 0
          /\ n # 0 => \E i \in f[d.parent[n]] : i \in Nat /\ i < k /\ P!StepWritten(d, w, n, i, k)

LEMMA ComesThere ==
  ASSUME NEW C, NEW d, NEW w, NEW f, Placed(C, d, w, f), NEW n \in 0 .. d.size, NEW l \in f[n]
  PROVE  Comes(d, w, f, n, l)
<1>1. f[n] = Reached(d, w, f, n) /\ Len(w) \in Nat /\ d.size \in Nat
  BY DEF Placed, Path, EndsOf
<1>2. l \in 0 .. Len(w)
  BY <1>1 DEF Reached, Places
<1>3. PICK k \in 0 .. l : /\ P!OnlyDots(w, k, l)
                          /\ IF n = 0 THEN k = 0
                             ELSE \E i \in f[d.parent[n]] : i < k /\ P!StepWritten(d, w, n, i, k)
  BY <1>1 DEF Reached
<1>4. k \in Nat /\ k <= l /\ l \in Nat /\ l <= Len(w)
  BY <1>1, <1>2
<1>5. n # 0 => f[d.parent[n]] \subseteq Nat
  <2> SUFFICES ASSUME n # 0 PROVE f[d.parent[n]] \subseteq Nat
    OBVIOUS
  <2>1. n \in 1 .. d.size
    BY <1>1
  <2>2. d.parent[n] \in 0 .. d.size
    BY <2>1, Above DEF Placed, Path
  <2>3. f[d.parent[n]] \subseteq Places(w)
    BY <2>2 DEF Placed, EndsOf
  <2> QED BY <1>1, <2>3 DEF Places
<1> QED BY <1>3, <1>4, <1>5 DEF Comes

\* Between the place and where every step from it ends nothing does.
LEMMA Gap ==
  ASSUME NEW C, NEW d, NEW w, NEW f, Placed(C, d, w, f), NEW p, NEW c \in Nat, Only(d, w, f, p, c),
         w[c + 1] # ".", NEW b \in Nat,
         \A n \in 1 .. d.size, k \in Nat : c < k /\ k <= Len(w) /\ Taken(d, w, p, c, n, k) => b <= k
  PROVE  \A n \in 0 .. d.size : \A l \in f[n] : ~(c < l /\ l < b)
<1>1. d.size \in Nat /\ Len(w) \in Nat /\ Path(C, d, w) /\ P!Tree(d)
  BY DEF Placed, Path
<1> DEFINE Bad == {l \in Nat : c < l /\ l < b /\ \E n \in 0 .. d.size : l \in f[n]}
<1>2. ASSUME Bad # {} PROVE FALSE
  <2>1. Bad \subseteq Nat
    OBVIOUS
  <2>2. PICK l \in Bad : \A y \in Bad : l <= y
    <3> HIDE DEF Bad
    <3> QED BY <1>2, <2>1, LeastNat
  <2>3. l \in Nat /\ c < l /\ l < b
    BY <2>2
  <2>4. PICK n \in 0 .. d.size : l \in f[n]
    BY <2>2
  <2>5. PICK k \in Nat : /\ k <= l /\ l <= Len(w) /\ P!OnlyDots(w, k, l)
                         /\ n = 0 => k = 0
                         /\ n # 0 => \E i \in f[d.parent[n]] : i \in Nat /\ i < k /\ P!StepWritten(d, w, n, i, k)
    BY <2>4, ComesThere DEF Comes
  <2>6. ~(k <= c)
    <3> SUFFICES ASSUME k <= c PROVE FALSE
      OBVIOUS
    <3>1. c + 1 \in k + 1 .. l
      BY <2>3, <2>5
    <3> QED BY <2>5, <3>1 DEF P!OnlyDots
  <2>7. n # 0 /\ n \in 1 .. d.size
    BY <1>1, <2>4, <2>5, <2>6
  <2>8. PICK i \in f[d.parent[n]] : i \in Nat /\ i < k /\ P!StepWritten(d, w, n, i, k)
    BY <2>5, <2>7
  <2>9. d.parent[n] \in 0 .. d.size
    BY <1>1, <2>7, Above
  <2>10. k <= Len(w)
    BY <1>1, <2>3, <2>5
  <2>11. CASE i < c
    <3>1. k <= c
      BY <2>7, <2>8, <2>10, <2>11 DEF Only, NoneAcross
    <3> QED BY <2>6, <3>1
  <2>12. CASE i = c
    <3>1. d.parent[n] = p
      BY <2>8, <2>9, <2>12 DEF Only
    <3>2. Taken(d, w, p, c, n, k)
      BY <1>1, <2>7, <2>8, <2>10, <2>12, <3>1, TakenIs
    <3>3. b <= k
      BY <2>7, <2>8, <2>10, <2>12, <3>2
    <3> QED BY <2>3, <2>5, <3>3
  <2>13. CASE c < i
    <3>1. i \in Bad
      BY <2>3, <2>5, <2>8, <2>9, <2>13
    <3>2. l <= i
      BY <2>2, <3>1
    <3> QED BY <2>3, <2>5, <2>8, <3>2
  <2> QED BY <2>8, <2>11, <2>12, <2>13
<1>3. ASSUME NEW n \in 0 .. d.size, NEW l \in f[n], c < l, l < b PROVE FALSE
  <2>1. l \in Nat
    BY ComesThere DEF Comes
  <2>2. l \in Bad
    BY <1>3, <2>1
  <2> HIDE DEF Bad
  <2> QED BY <1>2, <2>2
<1> QED BY <1>3

\* A step ends at no dot.
LEMMA EndsAtNoDot ==
  ASSUME NEW C, NEW d, NEW w, Path(C, d, w), NEW n \in 1 .. d.size, NEW c \in Nat, NEW k \in Nat, c < k, k <= Len(w),
         P!StepWritten(d, w, n, c, k)
  PROVE  w[c + 1] # "." /\ w[k] # "." /\ StepEnds(d, w, d.parent[n], c, n, k)
<1>1. Taken(d, w, d.parent[n], c, n, k)
  BY TakenIs
<1>2. PICK p \in 0 .. d.size : p = d.parent[n]
  BY Above DEF Path
<1>3. StepEnds(d, w, p, c, n, k)
  BY <1>1, <1>2, TakenOnce
<1> QED BY <1>2, <1>3 DEF StepEnds

\* The root, before the first character.
LEMMA AtStart ==
  ASSUME NEW C, NEW d, NEW w, NEW f, Placed(C, d, w, f)
  PROVE  At(d, w, f, 0, 0)
<1>1. d.size \in Nat /\ Len(w) \in Nat /\ f[0] = Reached(d, w, f, 0)
  BY DEF Placed, Path, EndsOf
<1>2. 0 \in f[0]
  BY <1>1 DEF Reached, P!OnlyDots, Places
<1>3. ASSUME NEW n \in 0 .. d.size, 0 \in f[n] PROVE n = 0
  BY <1>1, <1>3, ComesThere DEF Comes
<1>4. \A n \in 1 .. d.size : f[d.parent[n]] \subseteq Nat
  <2> SUFFICES ASSUME NEW n \in 1 .. d.size, NEW i \in f[d.parent[n]] PROVE i \in Nat
    OBVIOUS
  <2>1. d.parent[n] \in 0 .. d.size
    BY Above DEF Placed, Path
  <2> QED BY <2>1, ComesThere DEF Comes
<1>5. NoneAcross(d, w, f, 0)
  BY <1>4 DEF NoneAcross
<1> QED BY <1>1, <1>2, <1>3, <1>5 DEF At, Only

\* Past a dot.
LEMMA AtDot ==
  ASSUME NEW C, NEW d, NEW w, NEW f, Placed(C, d, w, f), NEW p, NEW c, At(d, w, f, p, c), c < Len(w), w[c + 1] = "."
  PROVE  At(d, w, f, p, c + 1)
<1>1. /\ d.size \in Nat /\ Len(w) \in Nat /\ Path(C, d, w) /\ c \in Nat /\ p \in 0 .. d.size /\ c \in f[p]
      /\ c + 1 \in 0 .. Len(w) /\ P!Tree(d)
  BY DEF Placed, Path, At
<1>2. c + 1 \in f[p]
  <2>1. f[p] = Reached(d, w, f, p)
    BY <1>1 DEF Placed, EndsOf
  <2>2. PICK k \in 0 .. c : /\ P!OnlyDots(w, k, c)
                            /\ IF p = 0 THEN k = 0
                               ELSE \E i \in f[d.parent[p]] : i < k /\ P!StepWritten(d, w, p, i, k)
    BY <1>1, <2>1 DEF Reached
  <2>3. k \in 0 .. c + 1
    BY <1>1
  <2>4. P!OnlyDots(w, k, c + 1)
    <3>1. \A j \in k + 1 .. c + 1 : j = c + 1 \/ j \in k + 1 .. c
      BY <1>1
    <3> QED BY <2>2, <3>1 DEF P!OnlyDots
  <2> QED BY <1>1, <2>1, <2>2, <2>3, <2>4 DEF Reached, Places
<1>3. ASSUME P!KeysDiffer(d) PROVE Only(d, w, f, p, c + 1)
  <2>1. Only(d, w, f, p, c)
    BY <1>3 DEF At
  <2>2. ASSUME NEW n \in 0 .. d.size, c + 1 \in f[n] PROVE n = p
    <3>1. PICK k \in Nat : /\ k <= c + 1 /\ P!OnlyDots(w, k, c + 1)
                           /\ n = 0 => k = 0
                           /\ n # 0 => \E i \in f[d.parent[n]] : i \in Nat /\ i < k /\ P!StepWritten(d, w, n, i, k)
      BY <2>2, ComesThere DEF Comes
    <3>2. k <= c
      <4> SUFFICES ASSUME k = c + 1 PROVE FALSE
        BY <1>1, <3>1
      <4>1. n # 0 /\ n \in 1 .. d.size /\ k <= Len(w)
        BY <1>1, <3>1
      <4>2. PICK i \in f[d.parent[n]] : i \in Nat /\ i < k /\ P!StepWritten(d, w, n, i, k)
        BY <3>1, <4>1
      <4>3. w[k] # "."
        BY <1>1, <4>1, <4>2, EndsAtNoDot
      <4> QED BY <4>3
    <3>3. P!OnlyDots(w, k, c)
      <4>1. \A j \in k + 1 .. c : j \in k + 1 .. c + 1
        BY <1>1
      <4> QED BY <3>1, <4>1 DEF P!OnlyDots
    <3>4. c \in f[n]
      <4>1. f[n] = Reached(d, w, f, n) /\ k \in 0 .. c /\ c \in 0 .. Len(w)
        BY <1>1, <3>1, <3>2 DEF Placed, EndsOf
      <4>2. IF n = 0 THEN k = 0 ELSE \E i \in f[d.parent[n]] : i < k /\ P!StepWritten(d, w, n, i, k)
        BY <3>1
      <4> QED BY <3>3, <4>1, <4>2 DEF Reached, Places
    <3> QED BY <2>1, <3>4 DEF Only
  <2>3. ASSUME NEW n \in 1 .. d.size, NEW i \in f[d.parent[n]], NEW k \in Nat,
               i < c + 1, i < k, k <= Len(w), P!StepWritten(d, w, n, i, k)
        PROVE  k <= c + 1
    <3>1. d.parent[n] \in 0 .. d.size
      BY <1>1, Above
    <3>2. i \in Nat
      BY <3>1, ComesThere DEF Comes
    <3>3. CASE i < c
      <4>1. k <= c
        BY <2>1, <2>3, <3>3 DEF Only, NoneAcross
      <4> QED BY <1>1, <4>1
    <3>4. CASE i = c
      <4>1. w[i + 1] # "."
        BY <1>1, <2>3, <3>2, EndsAtNoDot
      <4> QED BY <3>4, <4>1
    <3> QED BY <1>1, <2>3, <3>2, <3>3, <3>4
  <2> QED BY <2>2, <2>3 DEF Only, NoneAcross
<1> QED BY <1>1, <1>2, <1>3 DEF At

\* Past a step.
LEMMA AtStep ==
  ASSUME NEW C, NEW d, NEW w, NEW f, Placed(C, d, w, f), NEW p, NEW c, At(d, w, f, p, c), c < Len(w),
         NEW n \in 1 .. d.size, NEW k \in Nat, Taken(d, w, p, c, n, k)
  PROVE  At(d, w, f, n, k)
<1>1. /\ d.size \in Nat /\ Len(w) \in Nat /\ Path(C, d, w) /\ c \in Nat /\ p \in 0 .. d.size /\ c \in f[p] /\ P!Tree(d)
  BY DEF Placed, Path, At
<1>2. StepEnds(d, w, p, c, n, k)
  BY <1>1, TakenOnce
<1>3. c < k /\ k <= Len(w) /\ w[c + 1] # "." /\ w[k] # "."
  BY <1>2 DEF StepEnds
<1>4. d.parent[n] = p
  <2>1. ASSUME NEW e \in 1 .. Len(d.children[p]), d.children[p][e] = n PROVE p = d.parent[n]
    BY <1>1, <2>1 DEF P!Tree
  <2>2. (\E e \in 1 .. Len(d.children[p]) : d.children[p][e] = n) \/ d.parent[n] = p
    BY DEF Taken
  <2> QED BY <1>1, <2>1, <2>2
<1>5. P!StepWritten(d, w, n, c, k)
  BY <1>1, <1>3, <1>4, TakenIs
<1>6. n \in 0 .. d.size /\ n # 0 /\ k \in 0 .. Len(w) /\ k \in 0 .. k
  BY <1>1, <1>3
<1>7. k \in f[n]
  <2>1. P!OnlyDots(w, k, k)
    BY DEF P!OnlyDots
  <2>2. f[n] = Reached(d, w, f, n)
    BY <1>6 DEF Placed, EndsOf
  <2> QED BY <1>1, <1>3, <1>4, <1>5, <1>6, <2>1, <2>2 DEF Reached, Places
<1>8. ASSUME P!KeysDiffer(d) PROVE Only(d, w, f, n, k)
  <2>1. Only(d, w, f, p, c)
    BY <1>8 DEF At
  <2>2. \A m \in 1 .. d.size, j \in Nat : c < j /\ j <= Len(w) /\ Taken(d, w, p, c, m, j) => k <= j
    BY <1>2 DEF StepEnds
  <2>3. \A m \in 0 .. d.size : \A l \in f[m] : ~(c < l /\ l < k)
    BY <1>1, <1>3, <2>1, <2>2, Gap
  <2>4. ASSUME NEW m \in 1 .. d.size, NEW i \in f[d.parent[m]], NEW j \in Nat,
               i < k, i < j, j <= Len(w), P!StepWritten(d, w, m, i, j)
        PROVE  j <= k /\ (j = k => m = n)
    <3>1. d.parent[m] \in 0 .. d.size
      BY <1>1, Above
    <3>2. i \in Nat
      BY <3>1, ComesThere DEF Comes
    <3>3. CASE i < c
      <4>1. j <= c
        BY <2>1, <2>4, <3>3 DEF Only, NoneAcross
      <4> QED BY <1>1, <1>3, <4>1
    <3>4. CASE i = c
      <4>1. d.parent[m] = p
        BY <2>1, <3>1, <3>4 DEF Only
      <4>2. Taken(d, w, p, c, m, j)
        BY <1>1, <2>4, <3>4, <4>1, TakenIs
      <4> QED BY <1>2, <1>8, <4>2 DEF StepEnds
    <3>5. ~(c < i)
      BY <2>3, <2>4, <3>1
    <3> QED BY <1>1, <3>2, <3>3, <3>4, <3>5
  <2>5. ASSUME NEW m \in 0 .. d.size, k \in f[m] PROVE m = n
    <3>1. PICK j \in Nat : /\ j <= k /\ P!OnlyDots(w, j, k)
                           /\ m = 0 => j = 0
                           /\ m # 0 => \E i \in f[d.parent[m]] : i \in Nat /\ i < j /\ P!StepWritten(d, w, m, i, j)
      BY <2>5, ComesThere DEF Comes
    <3>2. j = k
      <4> SUFFICES ASSUME j < k PROVE FALSE
        BY <3>1
      <4>1. k \in j + 1 .. k
        OBVIOUS
      <4> QED BY <1>3, <3>1, <4>1 DEF P!OnlyDots
    <3>3. m # 0 /\ m \in 1 .. d.size
      BY <1>1, <1>3, <3>1, <3>2
    <3> QED BY <1>3, <2>4, <3>1, <3>2, <3>3
  <2> QED BY <2>4, <2>5 DEF Only, NoneAcross
<1> QED BY <1>6, <1>7, <1>8 DEF At

\* Where no step is taken the path leads nowhere.
LEMMA NoneLeads ==
  ASSUME NEW C, NEW d, NEW w, NEW f, Placed(C, d, w, f), NEW p, NEW c, At(d, w, f, p, c), c < Len(w), w[c + 1] # ".",
         \A n \in 1 .. d.size, k \in Nat : ~Taken(d, w, p, c, n, k), P!KeysDiffer(d)
  PROVE  \A n \in 0 .. d.size : Len(w) \notin f[n]
<1>1. Len(w) \in Nat /\ c \in Nat /\ Only(d, w, f, p, c) /\ Len(w) + 1 \in Nat /\ Len(w) < Len(w) + 1
  BY DEF Placed, Path, At
<1>2. \A n \in 1 .. d.size, k \in Nat : c < k /\ k <= Len(w) /\ Taken(d, w, p, c, n, k) => Len(w) + 1 <= k
  OBVIOUS
<1>3. PICK b \in Nat : b = Len(w) + 1
  BY <1>1
<1>4. \A n \in 0 .. d.size : \A l \in f[n] : ~(c < l /\ l < b)
  BY <1>1, <1>2, <1>3, Gap
<1> QED BY <1>1, <1>3, <1>4

-----------------------------------------------------------------------------
(* The loop: where it stands, and what it answers.                         *)

Told(d, w, f, a) ==
    /\ a \in 0 .. d.size
    /\ a # 0 => Len(w) \in f[a] /\ P!KindOf(d, a) # "corrupt"
    /\ P!KeysDiffer(d) =>
          \A n \in 1 .. d.size : Len(w) \in f[n] /\ P!KindOf(d, n) # "corrupt" => a = n

PathInv ==
    \E f : /\ Placed(Characters, doc, path, f) /\ pc \in {"scan", "done"}
           /\ pc = "scan" => answer = 0 /\ At(doc, path, f, current, cursor) /\ (resolved_root <=> current # 0)
           /\ pc = "done" => Told(doc, path, f, answer)

\* It holds when a path is given.
LEMMA PathStarts == P!Init => PathInv
<1> SUFFICES ASSUME P!Init PROVE PathInv
  OBVIOUS
<1>1. PICK n \in Nat : path \in [1 .. n -> Characters]
  BY PathAssumption DEF P!Init
<1>2. path \in Seq(Characters) /\ Len(path) \in Nat
  BY <1>1
<1>3. P!Tree(doc) /\ \A p \in 0 .. doc.size : Len(doc.children[p]) <= IndexLimit
  BY PathAssumption DEF P!Init
<1>4. Path(Characters, doc, path)
  BY <1>2, <1>3 DEF Path, P!Tree
<1>5. PICK f : EndsOf(doc, path, f)
  BY <1>3, EndsExist
<1>6. Placed(Characters, doc, path, f)
  BY <1>4, <1>5 DEF Placed
<1>7. At(doc, path, f, 0, 0)
  BY <1>6, AtStart
<1> QED BY <1>6, <1>7 DEF PathInv, P!Init

\* A step that is taken.
LEMMA MovesOn ==
  ASSUME NEW f, Placed(Characters, doc, path, f), At(doc, path, f, current, cursor), cursor < Len(path),
         NEW n \in 1 .. doc.size, NEW k \in Nat, Taken(doc, path, current, cursor, n, k),
         P!MoveTo(n, k), pc = "scan", answer = 0
  PROVE  PathInv'
<1>1. At(doc, path, f, n, k)
  BY AtStep
<1>2. /\ doc' = doc /\ path' = path /\ pc' = "scan" /\ answer' = 0 /\ current' = n /\ cursor' = k /\ resolved_root' = TRUE
      /\ n # 0
  BY DEF P!MoveTo, Placed, Path
<1>3. Placed(Characters, doc', path', f) /\ At(doc', path', f, current', cursor') /\ (resolved_root' <=> current' # 0)
  BY <1>1, <1>2
<1> QED BY <1>2, <1>3 DEF PathInv

\* Where no step is taken, nothing is what the path spells.
LEMMA FailsThere ==
  ASSUME NEW f, Placed(Characters, doc, path, f), At(doc, path, f, current, cursor), cursor < Len(path),
         path[cursor + 1] # ".",
         \A n \in 1 .. doc.size, k \in Nat : ~Taken(doc, path, current, cursor, n, k),
         P!Fail, answer = 0
  PROVE  PathInv'
<1>1. P!KeysDiffer(doc) => \A n \in 0 .. doc.size : Len(path) \notin f[n]
  BY NoneLeads
<1>2. doc.size \in Nat
  BY DEF Placed, Path
<1>3. Told(doc, path, f, 0)
  BY <1>1, <1>2 DEF Told
<1>4. doc' = doc /\ path' = path /\ pc' = "done" /\ answer' = 0
  BY DEF P!Fail
<1>5. Placed(Characters, doc', path', f) /\ Told(doc', path', f, answer')
  BY <1>3, <1>4
<1> QED BY <1>4, <1>5 DEF PathInv

\* What the loop knows where it stands.
LEMMA Scanning ==
  ASSUME NEW f, Placed(Characters, doc, path, f), At(doc, path, f, current, cursor), cursor < Len(path)
  PROVE  /\ P!Tree(doc) /\ doc.size \in Nat /\ path \in Seq(Characters) /\ Len(path) \in Nat
         /\ cursor \in Nat /\ cursor + 1 \in Nat /\ cursor + 1 <= Len(path) /\ cursor <= Len(path)
         /\ current \in 0 .. doc.size
  BY DEF Placed, Path, At

\* A dot is passed.
LEMMA DotGoesOn == ASSUME PathInv, P!Dot PROVE PathInv'
<1>1. PICK f : /\ Placed(Characters, doc, path, f) /\ answer = 0 /\ At(doc, path, f, current, cursor)
               /\ resolved_root <=> current # 0
  BY DEF PathInv, P!Dot
<1>2. /\ pc = "scan" /\ cursor < Len(path) /\ path[cursor + 1] = "." /\ cursor' = cursor + 1
      /\ UNCHANGED <<doc, path, current, resolved_root, pc, answer>>
  BY DEF P!Dot, P!Char
<1>3. At(doc, path, f, current, cursor + 1)
  BY <1>1, <1>2, AtDot
<1>4. Placed(Characters, doc', path', f) /\ At(doc', path', f, current', cursor') /\ (resolved_root' <=> current' # 0)
  BY <1>1, <1>2, <1>3
<1> QED BY <1>1, <1>2, <1>4 DEF PathInv

\* An index is followed if it is one that may be taken.
LEMMA SubscriptGoesOn == ASSUME PathInv, P!Subscript PROVE PathInv'
<1>1. PICK f : /\ Placed(Characters, doc, path, f) /\ answer = 0 /\ At(doc, path, f, current, cursor)
               /\ resolved_root <=> current # 0
  BY DEF PathInv, P!Subscript
<1>2. pc = "scan" /\ cursor < Len(path) /\ path[cursor + 1] = "["
  BY DEF P!Subscript, P!Char
<1>3. /\ P!Tree(doc) /\ doc.size \in Nat /\ path \in Seq(Characters) /\ Len(path) \in Nat
      /\ cursor \in Nat /\ cursor + 1 \in Nat /\ cursor + 1 <= Len(path) /\ current \in 0 .. doc.size
  BY <1>1, <1>2, Scanning
<1>4. PICK close \in Nat : close = P!Find(path, cursor + 1, {"]"}) /\ Stop(path, cursor + 1, {"]"}, close)
  BY <1>3, FindStops
<1>5. PICK digits : digits = P!Text(path, cursor + 1, close)
  OBVIOUS
<1> DEFINE Right == /\ resolved_root /\ close < Len(path) /\ P!IndexAccepted(digits) /\ P!Kind(current) = "array"
                    /\ (P!Index(digits) % IndexLimit) + 1 <= Len(P!Children(current))
<1>6. IF Right THEN P!MoveTo(P!Children(current)[(P!Index(digits) % IndexLimit) + 1], close + 1) ELSE P!Fail
  BY <1>4, <1>5 DEF P!Subscript
<1>7. P!IndexAccepted(digits) => (P!Index(digits) \in Nat /\ P!Index(digits) % IndexLimit = P!Index(digits))
  <2> SUFFICES ASSUME P!IndexAccepted(digits)
               PROVE  P!Index(digits) \in Nat /\ P!Index(digits) % IndexLimit = P!Index(digits)
    OBVIOUS
  <2>1. P!Index(digits) < IndexLimit /\ (\A i \in 1 .. Len(digits) : P!IsDigit(digits[i])) /\ IndexLimit \in Nat
    BY PathAssumption DEF P!IndexAccepted
  <2>2. cursor + 1 <= close /\ close <= Len(path)
    BY <1>3, <1>4 DEF Stop
  <2>3. IsPart(Characters, path, cursor + 1, close, P!Text(path, cursor + 1, close))
    BY <1>3, <2>2, TextIs
  <2>4. digits \in Seq(Characters)
    BY <1>5, <2>3 DEF IsPart
  <2>5. P!Index(digits) \in Nat
    BY <2>1, <2>4, IndexNat
  <2> QED BY <2>1, <2>5
<1>8. CASE Right
  <2>1. PICK e : e = P!Index(digits) + 1 /\ e \in Nat /\ e >= 1
    BY <1>7, <1>8
  <2>2. PICK n : n = doc.children[current][e]
    OBVIOUS
  <2>3. P!MoveTo(n, close + 1) /\ e <= Len(doc.children[current]) /\ P!KindOf(doc, current) = "array"
    BY <1>6, <1>7, <1>8, <2>1, <2>2 DEF P!Children, P!Kind
  <2>4. doc.children[current] \in Seq(current + 1 .. doc.size)
    BY <1>3 DEF P!Tree
  <2>5. e \in 1 .. Len(doc.children[current]) /\ n \in 1 .. doc.size
    <3>1. PICK x, N : x = doc.children[current] /\ N = doc.size
      OBVIOUS
    <3>2. N \in Nat /\ x \in Seq(current + 1 .. N) /\ current \in Nat /\ e \in 1 .. Len(x) /\ n = x[e]
      BY <1>3, <2>1, <2>2, <2>3, <2>4, <3>1
    <3>3. n \in current + 1 .. N
      BY <3>2
    <3> QED BY <3>1, <3>2, <3>3
  <2>6. close + 1 - 1 = close /\ close + 1 \in Nat
    OBVIOUS
  <2>7. Numbered(path, e, cursor, close + 1)
    BY <1>2, <1>4, <1>5, <1>8, <2>1, <2>6 DEF Numbered
  <2>8. Taken(doc, path, current, cursor, n, close + 1)
    BY <2>2, <2>3, <2>5, <2>7 DEF Taken
  <2>9. PICK k \in Nat : k = close + 1
    BY <2>6
  <2>10. P!MoveTo(n, k) /\ Taken(doc, path, current, cursor, n, k)
    BY <2>3, <2>8, <2>9
  <2> QED BY <1>1, <1>2, <2>5, <2>10, MovesOn
<1>9. CASE ~Right
  <2>1. P!Fail
    BY <1>6, <1>9
  <2>2. ASSUME NEW n \in 1 .. doc.size, NEW k \in Nat, Taken(doc, path, current, cursor, n, k) PROVE FALSE
    <3>1. "[" \notin P!Quotes
      BY DEF P!Quotes
    <3>2. PICK e \in 1 .. Len(doc.children[current]) : Numbered(path, e, cursor, k) /\ P!KindOf(doc, current) = "array"
      BY <1>2, <2>2, <3>1 DEF Taken, Quoted, Bare
    <3>3. k - 1 \in Int /\ Stop(path, cursor + 1, {"]"}, k - 1)
      BY <3>2 DEF Numbered
    <3>4. PICK s : s = k - 1
      OBVIOUS
    <3>5. s = close
      BY <1>3, <1>4, <3>3, <3>4, StopUnique
    <3>6. close < Len(path) /\ P!IndexAccepted(digits) /\ e = P!Index(digits) + 1
      BY <1>5, <3>2, <3>4, <3>5 DEF Numbered
    <3>7. resolved_root
      BY <1>1, <3>2 DEF P!KindOf
    <3>8. (P!Index(digits) % IndexLimit) + 1 <= Len(doc.children[current])
      BY <1>7, <3>2, <3>6
    <3> QED BY <1>9, <3>2, <3>6, <3>7, <3>8 DEF P!Kind, P!Children
  <2> QED BY <1>1, <1>2, <2>1, <2>2, FailsThere
<1> QED BY <1>8, <1>9

\* A key is followed if the block has it.
LEMMA KeyGoesOn == ASSUME PathInv, P!Key PROVE PathInv'
<1>1. PICK f : /\ Placed(Characters, doc, path, f) /\ answer = 0 /\ At(doc, path, f, current, cursor)
               /\ resolved_root <=> current # 0
  BY DEF PathInv, P!Key
<1>2. pc = "scan" /\ cursor < Len(path) /\ path[cursor + 1] \notin {".", "["}
  BY DEF P!Key, P!Char
<1>3. /\ P!Tree(doc) /\ doc.size \in Nat /\ path \in Seq(Characters) /\ Len(path) \in Nat
      /\ cursor \in Nat /\ cursor + 1 \in Nat /\ cursor + 1 <= Len(path) /\ cursor <= Len(path)
      /\ current \in 0 .. doc.size
  BY <1>1, <1>2, Scanning
<1>4. PICK from, to, next : /\ from = P!Segment.from /\ to = P!Segment.to /\ next = P!Segment.next
  OBVIOUS
<1> DEFINE hits == {n \in 1 .. doc.size :
                       /\ \E i \in 1 .. Len(doc.children[current]) : doc.children[current][i] = n
                       /\ doc.key[n] = P!Text(path, from, to)}
           Right == /\ path[cursor + 1] \in P!Quotes => to < Len(path)
                    /\ to > from /\ P!KindOf(doc, current) = "block" /\ hits # {}
<1>5. IF Right THEN \E n \in hits : P!MoveTo(n, next) ELSE P!Fail
  BY <1>4 DEF P!Key, P!Char, P!Kind, P!Children
<1>6. ASSUME NEW n \in 1 .. doc.size
      PROVE  (\E i \in 1 .. Len(doc.children[current]) : doc.children[current][i] = n) <=> doc.parent[n] = current
  BY <1>3 DEF P!Tree
<1>7. CASE path[cursor + 1] \in P!Quotes
  <2>1. PICK c : c = path[cursor + 1]
    OBVIOUS
  <2>2. PICK close \in Nat : close = P!Find(path, cursor + 1, {c}) /\ Stop(path, cursor + 1, {c}, close)
    BY <1>3, FindStops
  <2>3. from = cursor + 1 /\ to = close /\ next = close + 1
    BY <1>4, <1>7, <2>1, <2>2 DEF P!Segment, P!Char
  <2>4. PICK k \in Nat : k = close + 1 /\ k - 1 = close
    OBVIOUS
  <2>5. CASE Right
    <3>1. PICK n \in hits : P!MoveTo(n, next)
      BY <1>5, <2>5
    <3>2. n \in 1 .. doc.size /\ doc.parent[n] = current /\ doc.key[n] = P!Text(path, cursor + 1, close)
      BY <1>6, <2>3, <3>1
    <3>3. Quoted(path, doc.key[n], cursor, k)
      BY <1>7, <2>1, <2>2, <2>3, <2>4, <2>5, <3>2 DEF Quoted
    <3>4. Taken(doc, path, current, cursor, n, k) /\ P!MoveTo(n, k)
      BY <2>3, <2>4, <2>5, <3>1, <3>2, <3>3 DEF Taken
    <3> QED BY <1>1, <1>2, <3>2, <3>4, MovesOn
  <2>6. CASE ~Right
    <3>1. P!Fail
      BY <1>5, <2>6
    <3>2. ASSUME NEW n \in 1 .. doc.size, NEW j \in Nat, Taken(doc, path, current, cursor, n, j) PROVE FALSE
      <4>1. P!KindOf(doc, current) = "block" /\ doc.parent[n] = current /\ Quoted(path, doc.key[n], cursor, j)
        BY <1>2, <1>7, <3>2 DEF Taken, Numbered, Bare
      <4>2. PICK s : s = j - 1
        OBVIOUS
      <4>3. Stop(path, cursor + 1, {c}, s)
        BY <2>1, <4>1, <4>2 DEF Quoted
      <4>4. s = close
        BY <1>3, <2>2, <4>3, StopUnique
      <4>5. close < Len(path) /\ close > cursor + 1 /\ doc.key[n] = P!Text(path, cursor + 1, close)
        BY <4>1, <4>2, <4>4 DEF Quoted
      <4>6. n \in hits
        BY <1>6, <2>3, <4>1, <4>5
      <4> HIDE DEF hits
      <4> QED BY <2>3, <2>6, <4>1, <4>5, <4>6
    <3>3. path[cursor + 1] # "."
      BY <1>2
    <3> QED BY <1>1, <1>2, <3>1, <3>2, <3>3, FailsThere
  <2> QED BY <2>5, <2>6
<1>8. CASE path[cursor + 1] \notin P!Quotes
  <2>1. PICK stop \in Nat : stop = P!Find(path, cursor, {".", "["}) /\ Stop(path, cursor, {".", "["}, stop)
    BY <1>3, FindStops
  <2>2. from = cursor /\ to = stop /\ next = stop
    BY <1>4, <1>8, <2>1 DEF P!Segment, P!Char
  <2>3. CASE Right
    <3>1. PICK n \in hits : P!MoveTo(n, next)
      BY <1>5, <2>3
    <3>2. n \in 1 .. doc.size /\ doc.parent[n] = current /\ doc.key[n] = P!Text(path, cursor, stop)
      BY <1>6, <2>2, <3>1
    <3>3. Bare(path, doc.key[n], cursor, stop)
      BY <1>2, <1>8, <2>1, <2>2, <2>3, <3>2 DEF Bare
    <3>4. Taken(doc, path, current, cursor, n, stop) /\ P!MoveTo(n, stop)
      BY <2>2, <2>3, <3>1, <3>2, <3>3 DEF Taken
    <3> QED BY <1>1, <1>2, <3>2, <3>4, MovesOn
  <2>4. CASE ~Right
    <3>1. P!Fail
      BY <1>5, <2>4
    <3>2. ASSUME NEW n \in 1 .. doc.size, NEW j \in Nat, Taken(doc, path, current, cursor, n, j) PROVE FALSE
      <4>1. P!KindOf(doc, current) = "block" /\ doc.parent[n] = current /\ Bare(path, doc.key[n], cursor, j)
        BY <1>2, <1>8, <3>2 DEF Taken, Numbered, Quoted
      <4>2. j = stop
        BY <1>3, <2>1, <4>1, StopUnique DEF Bare
      <4>3. stop > cursor /\ doc.key[n] = P!Text(path, cursor, stop)
        BY <4>1, <4>2 DEF Bare
      <4>4. n \in hits
        BY <1>6, <2>2, <4>1, <4>3
      <4> HIDE DEF hits
      <4> QED BY <1>8, <2>2, <2>4, <4>1, <4>3, <4>4
    <3>3. path[cursor + 1] # "."
      BY <1>2
    <3> QED BY <1>1, <1>2, <3>1, <3>2, <3>3, FailsThere
  <2> QED BY <2>3, <2>4
<1> QED BY <1>7, <1>8

\* The end of the path.
LEMMA EndGoesOn == ASSUME PathInv, P!End PROVE PathInv'
<1>1. PICK f : /\ Placed(Characters, doc, path, f) /\ answer = 0 /\ At(doc, path, f, current, cursor)
               /\ resolved_root <=> current # 0
  BY DEF PathInv, P!End
<1>2. /\ cursor = Len(path) /\ pc' = "done" /\ doc' = doc /\ path' = path
      /\ answer' = IF resolved_root /\ P!KindOf(doc, current) # "corrupt" THEN current ELSE 0
  BY DEF P!End, P!Kind
<1>3. /\ current \in 0 .. doc.size /\ doc.size \in Nat /\ Len(path) \in f[current]
      /\ P!KeysDiffer(doc) => \A n \in 0 .. doc.size : Len(path) \in f[n] => n = current
  BY <1>1, <1>2 DEF At, Only, Placed, Path
<1>4. Told(doc, path, f, answer')
  <2>1. CASE resolved_root /\ P!KindOf(doc, current) # "corrupt"
    BY <1>2, <1>3, <2>1 DEF Told
  <2>2. CASE ~(resolved_root /\ P!KindOf(doc, current) # "corrupt")
    <3>1. answer' = 0
      BY <1>2, <2>2
    <3>2. ASSUME P!KeysDiffer(doc), NEW n \in 1 .. doc.size, Len(path) \in f[n], P!KindOf(doc, n) # "corrupt" PROVE FALSE
      <4>1. n = current /\ n # 0
        BY <1>3, <3>2
      <4> QED BY <1>1, <2>2, <3>2, <4>1
    <3> QED BY <1>3, <3>1, <3>2 DEF Told
  <2> QED BY <2>1, <2>2
<1>5. Placed(Characters, doc', path', f) /\ Told(doc', path', f, answer')
  BY <1>1, <1>2, <1>4
<1> QED BY <1>2, <1>5 DEF PathInv

\* Every step of the program keeps it.
LEMMA PathGoesOn == ASSUME routine = "path" => PathInv, [ReaderNext]_readerVars PROVE (routine = "path" => PathInv)'
<1>1. CASE routine = "path" /\ P!Next
  <2>1. PathInv
    BY <1>1
  <2> QED BY <1>1, <2>1, DotGoesOn, SubscriptGoesOn, KeyGoesOn, EndGoesOn DEF P!Next
<1>2. CASE routine # "path" /\ routine' = routine
  BY <1>2
<1>3. CASE UNCHANGED readerVars
  BY <1>3 DEF readerVars, resolution, place, PathInv
<1> QED BY <1>1, <1>2, <1>3 DEF ReaderNext

\* What is known at the end is what the property asks.
LEMMA PathTold == PathInv => P!PathSpells
<1> SUFFICES ASSUME PathInv, pc = "done"
             PROVE  /\ answer # 0 => P!LeadsTo(doc, path, answer, Len(path)) /\ P!Kind(answer) # "corrupt"
                    /\ P!KeysDiffer(doc) =>
                          \A n \in 1 .. doc.size :
                              P!LeadsTo(doc, path, n, Len(path)) /\ P!Kind(n) # "corrupt" => answer = n
  BY DEF P!PathSpells
<1>1. PICK f : Placed(Characters, doc, path, f) /\ Told(doc, path, f, answer)
  BY DEF PathInv
<1>2. P!Tree(doc) /\ EndsOf(doc, path, f) /\ doc.size \in Nat /\ Len(path) \in Nat
  BY <1>1 DEF Placed, Path
<1>3. \A n \in 0 .. doc.size : P!LeadsTo(doc, path, n, Len(path)) <=> Len(path) \in f[n]
  BY <1>2, LeadsIs
<1>4. \A n \in 1 .. doc.size : n \in 0 .. doc.size
  BY <1>2
<1> QED BY <1>1, <1>3, <1>4 DEF Told, P!Kind

\* bc_hrbl_reader_resolve_path: the one pass from left to right finds what the
\* whole path spells.
THEOREM PathsSpelled == ReaderSpec => []PathSpells
<1>1. ReaderInit => (routine = "path" => PathInv)
  BY PathStarts DEF ReaderInit
<1>2. (routine = "path" => PathInv) => PathSpells
  BY PathTold DEF PathSpells
<1> QED BY <1>1, <1>2, PathGoesOn, PTL DEF ReaderSpec
=============================================================================
