-------------------------- MODULE PendingSortProofs --------------------------
(***************************************************************************)
(* The sort of the pending entries, for every number of entries, workers,  *)
(* digits and passes: the lifetime of its memory and threads, the places   *)
(* the threads write to, and the order it leaves.                          *)
(*                                                                         *)
(* BuffersOutliveThreads is not inductive: that the unwinding main thread  *)
(* may free the buffers depends on which threads it has created and joined *)
(* so far.  LifeInv adds, for each place of the main thread, which threads *)
(* exist: those it has created, minus those it has joined.                 *)
(*                                                                         *)
(* SortedStably and ScattersDisjoint follow from SortInv.  It says that    *)
(* the array read in pass p holds the given entries, ordered by their p    *)
(* low digits and then by the given order (Arranged); how far each thread  *)
(* has counted or scattered its chunk (Running); and which work is done at *)
(* each place of the main thread (Worked).  Its parts rest, in this order, *)
(* on counting entries by digit, the digits of a hash, one stable radix    *)
(* pass, the chunks and the totals over them, and insertion.               *)
(***************************************************************************)
EXTENDS PendingSort, TLAPS, TreesProofs, FiniteSetTheorems

\* Places of the main thread between the allocations and the frees.
Parallel == {"create_count", "join_count", "positions", "create_scatter", "join_scatter",
             "next_pass", "unwind"}

Shape ==
    /\ worker_count \in Nat
    /\ index \in Nat
    /\ limit \in Nat
    /\ DOMAIN threads = Workers
    /\ threads = [w \in Workers |-> threads[w]]
    /\ \A w \in Workers : threads[w] = [state |-> threads[w].state, next |-> threads[w].next]

Held == pc \in Parallel => allocated = Blocks

\* Worker numbers whose thread may exist at each place.
MayExist ==
    CASE pc \in {"create_count", "create_scatter"} -> {w \in Workers : w < index}
      [] pc \in {"join_count", "join_scatter"} -> {w \in Workers : w >= index}
      [] pc = "unwind" -> {w \in Workers : index <= w /\ w < limit}
      [] OTHER -> {}

Threads == \A w \in Workers : threads[w].state # "none" => w \in MayExist

LifeInv == Shape /\ Held /\ Threads

-----------------------------------------------------------------------------
\* No thread exists before the sort starts.
LEMMA LifeInit == Init => LifeInv
<1> SUFFICES ASSUME Init
             PROVE  LifeInv
  OBVIOUS
<1>1. worker_count \in Nat /\ Workers = 0 .. worker_count - 1
  BY SortAssumption DEF Init, Workers
<1>2. threads = [w \in Workers |-> NoThread]
  BY DEF Init, Workers
<1>3. Shape
  BY <1>1, <1>2 DEF Init, Shape, NoThread
<1>4. Held
  BY DEF Init, Held, Parallel
<1>5. Threads
  BY <1>2 DEF Threads, NoThread
<1> QED
  BY <1>3, <1>4, <1>5 DEF LifeInv

(* Replacing one thread keeps the array of threads in shape.               *)
LEMMA ShapeUpdate ==
    ASSUME Shape, NEW v \in Workers, NEW s, NEW n,
           threads' = [threads EXCEPT ![v] = [state |-> s, next |-> n]],
           worker_count' = worker_count, index' \in Nat, limit' \in Nat
    PROVE  Shape'
<1>1. Workers' = Workers
  BY DEF Workers
<1>2. DOMAIN threads' = Workers
  BY DEF Shape
<1>3. threads' = [w \in Workers |-> threads'[w]]
  BY DEF Shape
<1>4. \A w \in Workers : threads'[w] = IF w = v THEN [state |-> s, next |-> n] ELSE threads[w]
  BY DEF Shape
<1>5. ASSUME NEW w \in Workers
      PROVE  threads'[w] = [state |-> threads'[w].state, next |-> threads'[w].next]
  <2>1. CASE w = v
    BY <1>4, <2>1
  <2>2. CASE w # v
    <3>1. threads'[w] = threads[w]
      BY <1>4, <2>2
    <3> QED
      BY <3>1 DEF Shape
  <2> QED
    BY <2>1, <2>2
<1>6. worker_count' \in Nat
  BY DEF Shape
<1> QED
  BY <1>1, <1>2, <1>3, <1>5, <1>6 DEF Shape

\* The fields of a thread's record, one of them replaced.
LEMMA FieldUpdate ==
    ASSUME NEW r, r = [state |-> r.state, next |-> r.next], NEW x
    PROVE  /\ [r EXCEPT !.next = x] = [state |-> r.state, next |-> x]
           /\ [r EXCEPT !.state = x] = [state |-> x, next |-> r.next]
<1>1. PICK a, b : r = [state |-> a, next |-> b]
  OBVIOUS
<1>2. [[state |-> a, next |-> b] EXCEPT !.next = x] = [state |-> a, next |-> x]
  OBVIOUS
<1>3. [[state |-> a, next |-> b] EXCEPT !.state = x] = [state |-> x, next |-> b]
  OBVIOUS
<1> QED
  BY <1>1, <1>2, <1>3

(* A step of the main thread that touches no thread, from and to places    *)
(* where none exists.                                                      *)
LEMMA QuietStep ==
    ASSUME LifeInv, UNCHANGED <<input_vars, threads>>,
           MayExist = {}, index' \in Nat, limit' \in Nat,
           Held'
    PROVE  LifeInv'
<1>1. Workers' = Workers
  BY DEF Workers, input_vars
<1>2. Shape'
  BY <1>1 DEF LifeInv, Shape, input_vars
<1>3. Threads'
  BY <1>1 DEF LifeInv, Threads
<1> QED
  BY <1>2, <1>3 DEF LifeInv

\* The steps of the main thread that create and join no thread.
LEMMA QuietActions ==
    ASSUME LifeInv,
           Start \/ InsertPivot \/ InsertionDone \/ SerialPass \/ SerialDone \/ Positions \/ NextPass
    PROVE  LifeInv'
<1>0. index \in Nat /\ limit \in Nat
  BY DEF LifeInv, Shape
<1>1. MayExist = {}
  BY DEF MayExist, Start, InsertPivot, InsertionDone, SerialPass, SerialDone, Positions, NextPass
<1>2. UNCHANGED <<input_vars, threads>> /\ index' \in Nat /\ limit' \in Nat
  BY <1>0 DEF Start, InsertPivot, InsertionDone, SerialPass, SerialDone, Positions, NextPass
<1>3. Held'
  BY DEF LifeInv, Held, Parallel, Return, Start, InsertPivot, InsertionDone, SerialPass,
         SerialDone, Positions, NextPass
<1> QED
  BY <1>1, <1>2, <1>3, QuietStep

(* A created thread is one of those the main thread has created so far.    *)
LEMMA CreateActions ==
    ASSUME LifeInv, CreateCount \/ CreateScatter
    PROVE  LifeInv'
<1>0. /\ index \in Nat /\ limit \in Nat /\ worker_count \in Nat /\ index < worker_count
      /\ Workers' = Workers /\ index \in Workers /\ Workers = 0 .. worker_count - 1
      /\ pc \in {"create_count", "create_scatter"} /\ UNCHANGED allocated
      /\ worker_count' = worker_count
  BY DEF LifeInv, Shape, Workers, CreateCount, CreateScatter, input_vars
<1>1. \A w \in Workers : threads[w].state # "none" => w < index
  BY <1>0 DEF LifeInv, Threads, MayExist
<1>2. Held'
  BY <1>0 DEF LifeInv, Held, Parallel
<1>3. CASE limit' = index /\ pc' = "unwind" /\ index' = 0 /\ UNCHANGED threads
  <2>1. Shape'
    BY <1>0, <1>3 DEF LifeInv, Shape
  <2>2. \A w \in Workers : threads'[w].state # "none" => 0 <= w /\ w < limit'
    BY <1>0, <1>1, <1>3
  <2>3. Threads'
    BY <1>0, <1>3, <2>2 DEF Threads, MayExist
  <2> QED
    BY <1>2, <2>1, <2>3 DEF LifeInv
<1>4. CASE /\ \E s, n : threads' = [threads EXCEPT ![index] = [state |-> s, next |-> n]]
           /\ \/ index + 1 = worker_count /\ pc' \in {"join_count", "join_scatter"} /\ index' = 0
              \/ index' = index + 1 /\ pc' = pc
           /\ limit' = limit
  <2>1. PICK s, n : threads' = [threads EXCEPT ![index] = [state |-> s, next |-> n]]
    BY <1>4
  <2>0. Shape /\ index' \in Nat /\ limit' \in Nat
    BY <1>0, <1>4 DEF LifeInv
  <2>2. Shape'
    BY <1>0, <2>0, <2>1, ShapeUpdate
  <2>3. \A w \in Workers : w # index => threads'[w] = threads[w]
    BY <1>0, <2>1 DEF LifeInv, Shape
  <2>4. \A w \in Workers : threads'[w].state # "none" => w < index + 1
    BY <1>0, <1>1, <2>3
  <2>5. Threads'
    BY <1>0, <1>4, <2>4 DEF Threads, MayExist
  <2> QED
    BY <1>2, <2>2, <2>5 DEF LifeInv
<1> QED
  BY <1>0, <1>3, <1>4 DEF CreateCount, CreateScatter

(* A joined thread is gone, and the main thread goes on with the next.     *)
LEMMA JoinActions ==
    ASSUME LifeInv, JoinCount \/ JoinScatter
    PROVE  LifeInv'
<1>0. /\ index \in Nat /\ limit \in Nat /\ worker_count \in Nat
      /\ Workers' = Workers /\ Workers = 0 .. worker_count - 1
      /\ pc \in {"join_count", "join_scatter"} /\ UNCHANGED <<allocated, limit>>
      /\ worker_count' = worker_count
  BY DEF LifeInv, Shape, Workers, JoinCount, JoinScatter, input_vars
<1>1. \A w \in Workers : threads[w].state # "none" => w >= index
  BY <1>0 DEF LifeInv, Threads, MayExist
<1>2. Held'
  BY <1>0 DEF LifeInv, Held, Parallel
<1>3. threads' = [threads EXCEPT ![index] = NoThread]
  BY DEF JoinCount, JoinScatter, Join
<1>4. index' \in Nat
  BY <1>0 DEF JoinCount, JoinScatter, Join
<1>5. Shape'
  BY <1>0, <1>3, <1>4 DEF LifeInv, Shape, NoThread
<1>6. \A w \in Workers : threads'[w].state # "none" => w >= index + 1
  BY <1>0, <1>1, <1>3 DEF LifeInv, Shape, NoThread
<1>7. CASE index + 1 = worker_count
  <2>1. \A w \in Workers : threads'[w].state = "none"
    BY <1>0, <1>6, <1>7
  <2> QED
    BY <1>0, <1>2, <1>5, <2>1 DEF LifeInv, Threads
<1>8. CASE index + 1 # worker_count
  <2>1. index' = index + 1 /\ pc' = pc
    BY <1>8 DEF JoinCount, JoinScatter, Join
  <2>2. Threads'
    BY <1>0, <1>6, <2>1 DEF Threads, MayExist
  <2> QED
    BY <1>2, <1>5, <2>2 DEF LifeInv
<1> QED
  BY <1>7, <1>8

(* After a failed pthread_create the buffers are freed only once every     *)
(* thread created before it is joined.                                     *)
LEMMA UnwindAction ==
    ASSUME LifeInv, Unwind
    PROVE  LifeInv'
<1>0. /\ index \in Nat /\ limit \in Nat /\ worker_count \in Nat
      /\ Workers' = Workers /\ Workers = 0 .. worker_count - 1
      /\ pc = "unwind" /\ limit' = limit /\ worker_count' = worker_count
  BY DEF LifeInv, Shape, Workers, Unwind, input_vars
<1>1. \A w \in Workers : threads[w].state # "none" => index <= w /\ w < limit
  BY <1>0 DEF LifeInv, Threads, MayExist
<1>2. CASE /\ index < limit /\ index' = index + 1 /\ UNCHANGED <<pc, error, allocated>>
           /\ threads' = [threads EXCEPT ![index] = NoThread]
  <2>0. Shape /\ index' \in Nat /\ limit' \in Nat
    BY <1>0, <1>2 DEF LifeInv
  <2>1. Shape'
    <3>1. CASE index \in Workers
      BY <1>0, <1>2, <2>0, <3>1, ShapeUpdate DEF NoThread
    <3>2. CASE index \notin Workers
      <4>1. threads' = threads
        BY <1>2, <2>0, <3>2 DEF Shape
      <4> QED
        BY <1>0, <2>0, <4>1 DEF Shape
    <3> QED
      BY <3>1, <3>2
  <2>2. \A w \in Workers : threads'[w].state # "none" => index + 1 <= w /\ w < limit
    BY <1>0, <1>1, <1>2 DEF LifeInv, Shape, NoThread
  <2>3. Threads'
    BY <1>0, <1>2, <2>2 DEF Threads, MayExist
  <2>4. Held'
    BY <1>0, <1>2 DEF LifeInv, Held, Parallel
  <2> QED
    BY <2>1, <2>3, <2>4 DEF LifeInv
<1>3. CASE index = limit /\ Return("internal") /\ UNCHANGED <<threads, index>>
  <2>1. \A w \in Workers : threads'[w].state = "none"
    BY <1>0, <1>1, <1>3
  <2>2. Threads'
    BY <1>0, <2>1 DEF Threads
  <2>3. Held'
    BY <1>3 DEF Held, Parallel, Return
  <2>4. Shape'
    BY <1>0, <1>3 DEF LifeInv, Shape
  <2> QED
    BY <2>2, <2>3, <2>4 DEF LifeInv
<1> QED
  BY <1>2, <1>3 DEF Unwind

(* A thread never comes into being by a step of its own.                   *)
LEMMA ThreadActions ==
    ASSUME LifeInv, NEW v \in Workers, Thread(v)
    PROVE  LifeInv'
<1>0. /\ Workers' = Workers /\ worker_count' = worker_count
      /\ UNCHANGED <<allocated, pc, index, limit>>
  BY DEF Thread, ZeroCounts, Count, Scatter, Exit, Workers, input_vars, main
<1>1. threads[v].state # "none"
  BY DEF Thread, ZeroCounts, Count, Scatter, Exit
<1>2. threads[v] = [state |-> threads[v].state, next |-> threads[v].next]
  BY DEF LifeInv, Shape
<1>3. \E s, n : threads' = [threads EXCEPT ![v] = [state |-> s, next |-> n]]
  <2>1. CASE ZeroCounts(v)
    BY <2>1 DEF ZeroCounts
  <2>2. CASE Count(v) \/ Scatter(v)
    <3>1. threads' = [threads EXCEPT ![v].next = @ + 1]
      BY <2>2 DEF Count, Scatter
    <3>2. threads' = [threads EXCEPT ![v] = [state |-> threads[v].state, next |-> threads[v].next + 1]]
      BY <1>2, <3>1, FieldUpdate
    <3> QED
      BY <3>2
  <2>3. CASE Exit(v)
    <3>1. threads' = [threads EXCEPT ![v].state = "done"]
      BY <2>3 DEF Exit
    <3>2. threads' = [threads EXCEPT ![v] = [state |-> "done", next |-> threads[v].next]]
      BY <1>2, <3>1, FieldUpdate
    <3> QED
      BY <3>2
  <2> QED
    BY <2>1, <2>2, <2>3 DEF Thread
<1>4. PICK s, n : threads' = [threads EXCEPT ![v] = [state |-> s, next |-> n]]
  BY <1>3
<1>5. Shape'
  BY <1>0, <1>4 DEF LifeInv, Shape
<1>6. \A w \in Workers : threads'[w].state # "none" => threads[w].state # "none"
  BY <1>1, <1>4 DEF LifeInv, Shape
<1>7. MayExist' = MayExist
  BY <1>0 DEF MayExist
<1>8. Threads'
  BY <1>0, <1>6, <1>7 DEF LifeInv, Threads
<1>9. Held'
  BY <1>0 DEF LifeInv, Held
<1> QED
  BY <1>5, <1>8, <1>9 DEF LifeInv

\* No step breaks the invariant.
LEMMA LifeStep == LifeInv /\ [Next]_vars => LifeInv'
<1> SUFFICES ASSUME LifeInv, [Next]_vars
             PROVE  LifeInv'
  OBVIOUS
<1>1. CASE Main
  BY <1>1, QuietActions, CreateActions, JoinActions, UnwindAction DEF Main
<1>2. CASE \E w \in Workers : Thread(w)
  BY <1>2, ThreadActions
<1>3. CASE UNCHANGED vars
  BY <1>3 DEF vars, main, input_vars, LifeInv, Shape, Held, Threads, MayExist, Workers
<1> QED
  BY <1>1, <1>2, <1>3 DEF Next, Returned

\* Where a thread may exist, the buffers are not freed.
LEMMA LifeImpliesHeld == LifeInv => BuffersOutliveThreads
<1> SUFFICES ASSUME LifeInv, NEW w \in Workers, threads[w].state # "none"
             PROVE  allocated = Blocks
  BY DEF BuffersOutliveThreads
<1>1. w \in MayExist
  BY DEF LifeInv, Threads
<1>2. pc \in Parallel
  BY <1>1 DEF MayExist, Parallel
<1> QED
  BY <1>2 DEF LifeInv, Held

(* Whatever the number of workers and wherever pthread_create fails, the   *)
(* scratch, contexts and thread handles of a parallel sort are freed only  *)
(* when every thread it created has been joined.                           *)
THEOREM ThreadsNeverOutliveBuffers == Spec => []BuffersOutliveThreads
<1>1. Spec => []LifeInv
  BY LifeInit, LifeStep, PTL DEF Spec
<1> QED
  BY <1>1, LifeImpliesHeld, PTL

-----------------------------------------------------------------------------
(* Counting entries by digit.  g gives the digit of each entry.            *)

\* Entries from x up to y, y excluded, with the digit d.
Hits(g, x, y, d) == {i \in x .. y - 1 : g[i] = d}
HitCount(g, x, y, d) == Cardinality(Hits(g, x, y, d))

\* Entries before n with a smaller digit.
Smaller(g, n, d) == {i \in 0 .. n - 1 : g[i] < d}
SmallerCount(g, n, d) == Cardinality(Smaller(g, n, d))

\* Entries that a stable sort puts before entry i.
Goes(g, k, i) == g[k] < g[i] \/ (g[k] = g[i] /\ k < i)
Earlier(g, n, i) == {k \in 0 .. n - 1 : Goes(g, k, i)}
Place(g, n, i) == Cardinality(Earlier(g, n, i))

Digital(g, n) == \A i \in 0 .. n - 1 : g[i] \in Int

\* The first n indices are n.
LEMMA Initial == ASSUME NEW n \in Nat PROVE IsFiniteSet(0 .. n - 1) /\ Cardinality(0 .. n - 1) = n
<1>1. PICK m \in Int : m = n - 1
  OBVIOUS
<1>2. IsFiniteSet(0 .. m) /\ Cardinality(0 .. m) = IF 0 > m THEN 0 ELSE m - 0 + 1
  BY FS_Interval
<1>3. Cardinality(0 .. m) = n
  BY <1>1, <1>2
<1> QED BY <1>1, <1>2, <1>3

\* A part of the entries is finite and no larger than all of them.
LEMMA PartFinite ==
  ASSUME NEW n \in Nat, NEW S, S \subseteq 0 .. n - 1
  PROVE  IsFiniteSet(S) /\ Cardinality(S) \in Nat /\ Cardinality(S) <= n
<1>1. S \in SUBSET (0 .. n - 1)
  OBVIOUS
<1>2. IsFiniteSet(0 .. n - 1) /\ Cardinality(0 .. n - 1) = n
  BY Initial
<1>3. IsFiniteSet(S) /\ Cardinality(S) <= Cardinality(0 .. n - 1)
  BY <1>1, <1>2, FS_Subset
<1> QED BY <1>2, <1>3, FS_CardinalityType

\* Sets that share nothing add up.
LEMMA DisjointSum ==
  ASSUME NEW S, NEW T, IsFiniteSet(S), IsFiniteSet(T), S \cap T = {}
  PROVE  Cardinality(S \cup T) = Cardinality(S) + Cardinality(T)
<1>1. Cardinality(S \cup T) = Cardinality(S) + Cardinality(T) - Cardinality(S \cap T)
  BY FS_Union
<1>2. Cardinality(S \cap T) = 0
  BY FS_EmptySet
<1>3. Cardinality(S) \in Nat /\ Cardinality(T) \in Nat
  BY FS_CardinalityType
<1> QED BY <1>1, <1>2, <1>3

\* A count of entries is a natural number.
LEMMA HitFacts ==
  ASSUME NEW n \in Nat, NEW g, NEW x \in 0 .. n, NEW y \in 0 .. n, NEW d
  PROVE  IsFiniteSet(Hits(g, x, y, d)) /\ HitCount(g, x, y, d) \in Nat
<1>1. Hits(g, x, y, d) \subseteq 0 .. n - 1
  BY DEF Hits
<1> QED BY <1>1, PartFinite DEF HitCount

\* An empty chunk holds no entry.
LEMMA HitNone == ASSUME NEW g, NEW x \in Int, NEW d PROVE HitCount(g, x, x, d) = 0
<1>1. Hits(g, x, x, d) = {}
  BY DEF Hits
<1> QED BY <1>1, FS_EmptySet DEF HitCount

\* The counts of two adjoining chunks add up.
LEMMA HitParts ==
  ASSUME NEW n \in Nat, NEW g, NEW x \in 0 .. n, NEW y \in 0 .. n, NEW z \in 0 .. n, x <= y, y <= z, NEW d
  PROVE  HitCount(g, x, z, d) = HitCount(g, x, y, d) + HitCount(g, y, z, d)
<1>1. Hits(g, x, z, d) = Hits(g, x, y, d) \cup Hits(g, y, z, d)
  BY DEF Hits
<1>2. Hits(g, x, y, d) \cap Hits(g, y, z, d) = {}
  BY DEF Hits
<1>3. IsFiniteSet(Hits(g, x, y, d)) /\ IsFiniteSet(Hits(g, y, z, d))
  BY HitFacts
<1> QED BY <1>1, <1>2, <1>3, DisjointSum DEF HitCount

(* One more entry. *)
LEMMA HitNext ==
  ASSUME NEW n \in Nat, NEW g, NEW x \in 0 .. n, NEW y \in 0 .. n - 1, x <= y, NEW d
  PROVE  HitCount(g, x, y + 1, d) = IF g[y] = d THEN HitCount(g, x, y, d) + 1 ELSE HitCount(g, x, y, d)
<1>1. IsFiniteSet(Hits(g, x, y, d))
  <2>1. y \in 0 .. n
    OBVIOUS
  <2> QED BY <2>1, HitFacts
<1>2. CASE g[y] = d
  <2>1. Hits(g, x, y + 1, d) = Hits(g, x, y, d) \cup {y}
    BY <1>2 DEF Hits
  <2>2. y \notin Hits(g, x, y, d)
    BY DEF Hits
  <2> QED BY <1>1, <1>2, <2>1, <2>2, FS_AddElement DEF HitCount
<1>3. CASE g[y] # d
  <2>1. Hits(g, x, y + 1, d) = Hits(g, x, y, d)
    BY <1>3 DEF Hits
  <2> QED BY <1>3, <2>1 DEF HitCount
<1> QED BY <1>2, <1>3

\* The number of entries with a smaller digit is at most the number of entries.
LEMMA SmallerFacts ==
  ASSUME NEW n \in Nat, NEW g, NEW d
  PROVE  IsFiniteSet(Smaller(g, n, d)) /\ SmallerCount(g, n, d) \in Nat /\ SmallerCount(g, n, d) <= n
<1>1. Smaller(g, n, d) \subseteq 0 .. n - 1
  BY DEF Smaller
<1> QED BY <1>1, PartFinite DEF SmallerCount

\* No digit is below zero.
LEMMA SmallerNone ==
  ASSUME NEW n \in Nat, NEW g, \A i \in 0 .. n - 1 : g[i] \in Nat
  PROVE  SmallerCount(g, n, 0) = 0
<1>1. Smaller(g, n, 0) = {}
  BY DEF Smaller
<1> QED BY <1>1, FS_EmptySet DEF SmallerCount

\* The total grows by the bucket of each digit.
LEMMA SmallerNext ==
  ASSUME NEW n \in Nat, NEW g, Digital(g, n), NEW d \in Int
  PROVE  SmallerCount(g, n, d + 1) = SmallerCount(g, n, d) + HitCount(g, 0, n, d)
<1>1. Smaller(g, n, d + 1) = Smaller(g, n, d) \cup Hits(g, 0, n, d)
  BY DEF Smaller, Hits, Digital
<1>2. Smaller(g, n, d) \cap Hits(g, 0, n, d) = {}
  BY DEF Smaller, Hits, Digital
<1>3. IsFiniteSet(Smaller(g, n, d)) /\ IsFiniteSet(Hits(g, 0, n, d))
  <2>1. 0 \in 0 .. n /\ n \in 0 .. n
    OBVIOUS
  <2> QED BY <2>1, SmallerFacts, HitFacts
<1> QED BY <1>1, <1>2, <1>3, DisjointSum DEF SmallerCount, HitCount

(* A bucket ends where the next one starts, or before. *)
LEMMA SmallerGrows ==
  ASSUME NEW n \in Nat, NEW g, Digital(g, n), NEW c \in Int, NEW d \in Int, c < d
  PROVE  SmallerCount(g, n, c) + HitCount(g, 0, n, c) <= SmallerCount(g, n, d)
<1>1. Smaller(g, n, c + 1) \in SUBSET Smaller(g, n, d)
  BY DEF Smaller, Digital
<1>2. SmallerCount(g, n, c + 1) <= SmallerCount(g, n, d)
  BY <1>1, SmallerFacts, FS_Subset DEF SmallerCount
<1> QED BY <1>2, SmallerNext

(* The place of an entry: its bucket, then the entries of its digit before it. *)
LEMMA PlaceIs ==
  ASSUME NEW n \in Nat, NEW g, Digital(g, n), NEW i \in 0 .. n - 1
  PROVE  Place(g, n, i) = SmallerCount(g, n, g[i]) + HitCount(g, 0, i, g[i])
<1>1. g[i] \in Int
  BY DEF Digital
<1>2. Earlier(g, n, i) = Smaller(g, n, g[i]) \cup Hits(g, 0, i, g[i])
  BY DEF Earlier, Goes, Smaller, Hits, Digital
<1>3. Smaller(g, n, g[i]) \cap Hits(g, 0, i, g[i]) = {}
  BY DEF Smaller, Hits, Digital
<1>4. IsFiniteSet(Smaller(g, n, g[i])) /\ IsFiniteSet(Hits(g, 0, i, g[i]))
  <2>1. 0 \in 0 .. n /\ i \in 0 .. n
    OBVIOUS
  <2> QED BY <2>1, SmallerFacts, HitFacts
<1> QED BY <1>2, <1>3, <1>4, DisjointSum DEF Place, SmallerCount, HitCount

\* The place of an entry is an index of the array.
LEMMA PlaceInside ==
  ASSUME NEW n \in Nat, NEW g, Digital(g, n), NEW i \in 0 .. n - 1
  PROVE  IsFiniteSet(Earlier(g, n, i)) /\ Place(g, n, i) \in 0 .. n - 1
<1>1. IsFiniteSet((0 .. n - 1) \ {i}) /\ Cardinality((0 .. n - 1) \ {i}) = n - 1
  BY Initial, FS_RemoveElement
<1>2. ~Goes(g, i, i)
  BY DEF Goes, Digital
<1>3. Earlier(g, n, i) \in SUBSET ((0 .. n - 1) \ {i})
  BY <1>2 DEF Earlier
<1>4. IsFiniteSet(Earlier(g, n, i)) /\ Place(g, n, i) <= n - 1
  BY <1>1, <1>3, FS_Subset DEF Place
<1>5. Place(g, n, i) \in Nat
  BY <1>4, FS_CardinalityType DEF Place
<1> QED BY <1>4, <1>5

\* An entry that goes before another has the smaller place.
LEMMA PlaceGrows ==
  ASSUME NEW n \in Nat, NEW g, Digital(g, n), NEW i \in 0 .. n - 1, NEW j \in 0 .. n - 1, Goes(g, i, j)
  PROVE  Place(g, n, i) < Place(g, n, j)
<1>1. /\ IsFiniteSet(Earlier(g, n, i)) /\ Place(g, n, i) \in 0 .. n - 1
      /\ IsFiniteSet(Earlier(g, n, j)) /\ Place(g, n, j) \in 0 .. n - 1
  BY PlaceInside
<1>2. ASSUME NEW k \in 0 .. n - 1, Goes(g, k, i) PROVE Goes(g, k, j)
  BY <1>2 DEF Goes, Digital
<1>3. ~Goes(g, i, i)
  BY DEF Goes, Digital
<1>4. Earlier(g, n, i) \in SUBSET Earlier(g, n, j) /\ i \in Earlier(g, n, j) /\ i \notin Earlier(g, n, i)
  BY <1>2, <1>3 DEF Earlier
<1>5. Place(g, n, i) <= Place(g, n, j) /\ Place(g, n, i) # Place(g, n, j)
  BY <1>1, <1>4, FS_Subset DEF Place
<1> QED BY <1>1, <1>5

\* No two entries have one place, and places tell the order.
LEMMA PlaceOrders ==
  ASSUME NEW n \in Nat, NEW g, Digital(g, n), NEW i \in 0 .. n - 1, NEW j \in 0 .. n - 1
  PROVE  /\ Place(g, n, i) = Place(g, n, j) => i = j
         /\ Place(g, n, i) < Place(g, n, j) => Goes(g, i, j)
<1>1. i = j \/ Goes(g, i, j) \/ Goes(g, j, i)
  BY DEF Goes, Digital
<1>2. Place(g, n, i) \in Nat /\ Place(g, n, j) \in Nat
  BY PlaceInside
<1>3. Goes(g, i, j) => Place(g, n, i) < Place(g, n, j)
  BY PlaceGrows
<1>4. Goes(g, j, i) => Place(g, n, j) < Place(g, n, i)
  BY PlaceGrows
<1> QED BY <1>1, <1>2, <1>3, <1>4

(* Every place is some entry's. *)
LEMMA PlaceReached ==
  ASSUME NEW n \in Nat, NEW g, Digital(g, n), NEW q \in 0 .. n - 1
  PROVE  \E i \in 0 .. n - 1 : Place(g, n, i) = q
<1> DEFINE S == 0 .. n - 1
           f == [i \in S |-> Place(g, n, i)]
<1>1. f \in [S -> S]
  BY PlaceInside
<1>2. ASSUME NEW i \in S, NEW j \in S, f[i] = f[j] PROVE i = j
  BY <1>2, PlaceOrders
<1>3. f \in Injection(S, S)
  BY <1>1, <1>2 DEF Injection, IsInjective
<1>4. IsFiniteSet(S)
  BY Initial
<1> HIDE DEF f
<1>5. f \in Surjection(S, S)
  BY <1>3, <1>4, FS_Injection
<1>6. PICK i \in S : f[i] = q
  BY <1>5 DEF Surjection
<1> QED BY <1>6 DEF f

-----------------------------------------------------------------------------
(* Digits of a hash *)

\* Quotient and remainder of natural numbers.
LEMMA DivMod ==
  ASSUME NEW a \in Nat, NEW b \in Nat, b > 0
  PROVE  /\ a \div b \in Nat /\ a % b \in Nat /\ a % b < b
         /\ a = b * (a \div b) + (a % b)
<1>1. PICK q \in Int : q = a \div b
  OBVIOUS
<1>2. a >= b * q /\ a < b * q + b
  BY <1>1
<1>3. q >= 0
  BY <1>2
<1>4. a % b \in Nat /\ a % b < b
  OBVIOUS
<1>5. a \div b \in Nat
  BY <1>1, <1>3
<1>6. a % b = a - b * (a \div b)
  OBVIOUS
<1>7. PICK c \in Int : c = b * (a \div b)
  BY <1>5
<1>8. a = c + (a - c)
  OBVIOUS
<1>9. a = b * (a \div b) + (a % b)
  BY <1>6, <1>7, <1>8
<1> QED BY <1>4, <1>5, <1>9, Zenon

\* A quotient is known by a remainder below the divisor.
LEMMA DivUnique == \A a, b, q, r \in Nat : r < b /\ a = b * q + r => a \div b = q /\ a % b = r
  OBVIOUS

\* A product over a sum.
LEMMA Distribute == \A p, r, s, t \in Nat : p * (r * s + t) = (r * p) * s + p * t /\ p * t = t * p
  OBVIOUS

\* Two digits make a number below the product of their bases.
LEMMA BelowProduct == \A p, r, t, u \in Nat : t < r /\ u < p => t * p + u < r * p
  OBVIOUS

(* The low digits up to the next one. *)
LEMMA LowDigits ==
  ASSUME NEW h \in Nat, NEW p \in Nat, p > 0, NEW r \in Nat, r > 0
  PROVE  h % (r * p) = ((h \div p) % r) * p + (h % p)
<1>1. PICK q \in Nat, u \in Nat : q = h \div p /\ u = h % p /\ u < p /\ h = p * q + u
  BY DivMod
<1>2. PICK s \in Nat, t \in Nat : s = q \div r /\ t = q % r /\ t < r /\ q = r * s + t
  BY DivMod
<1>3. PICK m \in Nat, w \in Nat : m = r * p /\ w = t * p + u
  OBVIOUS
<1>4. w < m
  BY <1>1, <1>2, <1>3, BelowProduct
<1>5. h = m * s + w
  <2>1. p * q = (r * p) * s + p * t /\ p * t = t * p
    BY <1>2, Distribute
  <2>2. PICK b \in Nat, c \in Nat : b = m * s /\ c = t * p
    OBVIOUS
  <2>3. p * q = b + c
    BY <1>3, <2>1, <2>2
  <2>4. h = (b + c) + u /\ w = c + u
    BY <1>1, <1>3, <2>2, <2>3
  <2> QED BY <2>2, <2>4
<1>6. h % m = w
  BY <1>4, <1>5, DivUnique
<1>7. (h \div p) % r = t /\ h % p = u
  BY <1>1, <1>2, Zenon
<1>8. h % (r * p) = t * p + u
  BY <1>3, <1>6, Zenon
<1> QED BY <1>7, <1>8, Zenon

\* What each digit counts for.
LEMMA PowerFacts ==
  /\ \A p \in 0 .. Passes : Power[p] \in Nat /\ Power[p] > 0
  /\ Power[0] = 1
  /\ \A p \in 0 .. Passes : p < Passes => p + 1 \in 0 .. Passes /\ Power[p + 1] = Radix * Power[p]
<1>0. Passes \in Nat /\ Radix \in Nat /\ Radix > 0
  BY SortAssumption
<1> DEFINE next == [i \in 1 .. Passes |-> [x \in Nat |-> Radix * x]]
<1>1. PICK f : Follows(Passes, Nat, 1, next, f)
  <2>1. \A i \in 1 .. Passes : \A x \in Nat : next[i][x] \in Nat
    BY <1>0
  <2> HIDE DEF next
  <2> QED BY <1>0, <2>1, StepsDefine
<1>2. f \in [0 .. Passes -> Nat] /\ f[0] = 1 /\ \A i \in 1 .. Passes : f[i] = Radix * f[i - 1]
  <2>1. \A i \in 1 .. Passes : i - 1 \in 0 .. Passes
    BY <1>0
  <2> QED BY <1>1, <2>1 DEF Follows
<1>3. f = [p \in 0 .. Passes |-> IF p = 0 THEN 1 ELSE Radix * f[p - 1]]
  <2> DEFINE g == [p \in 0 .. Passes |-> IF p = 0 THEN 1 ELSE Radix * f[p - 1]]
  <2>1. \A p \in 0 .. Passes : f[p] = g[p]
    BY <1>0, <1>2
  <2>2. f = [p \in 0 .. Passes |-> f[p]]
    BY <1>2
  <2> QED BY <2>1, <2>2
<1>4. Power = [p \in 0 .. Passes |-> IF p = 0 THEN 1 ELSE Radix * Power[p - 1]]
  BY <1>3, Zenon DEF Power
<1>5. Power[0] = 1
  BY <1>0, <1>4
<1>6. \A p \in 1 .. Passes : Power[p] = Radix * Power[p - 1]
  BY <1>0, <1>4
<1>7. \A p \in 0 .. Passes : p \in {i \in 0 .. Passes : Power[i] \in Nat /\ Power[i] > 0}
  <2> DEFINE T == {i \in 0 .. Passes : Power[i] \in Nat /\ Power[i] > 0}
  <2>1. 0 \in T
    BY <1>0, <1>5
  <2>2. ASSUME NEW i \in 1 .. Passes, i - 1 \in T PROVE i \in T
    <3>1. PICK x \in Nat : x = Power[i - 1] /\ x > 0
      BY <2>2
    <3>2. Radix * x \in Nat /\ Radix * x > 0
      BY <1>0, <3>1
    <3> QED BY <1>6, <3>1, <3>2
  <2> HIDE DEF T
  <2>3. \A i \in 0 .. Passes : i \in T
    BY <1>0, <2>1, <2>2, UpTo
  <2> QED BY <2>3 DEF T
<1>8. ASSUME NEW p \in 0 .. Passes, p < Passes
      PROVE  p + 1 \in 0 .. Passes /\ Power[p + 1] = Radix * Power[p]
  <2>1. p + 1 \in 1 .. Passes /\ (p + 1) - 1 = p
    BY <1>0, <1>8
  <2> QED BY <1>0, <1>6, <2>1
<1> QED BY <1>5, <1>7, <1>8

\* Digit p of a hash, and what its digits before p say.
DigitOf(h, p) == (h \div Power[p]) % Radix
Low(h, p) == h % Power[p]

\* A digit is below the radix.
LEMMA DigitType == ASSUME NEW h \in Nat, NEW p \in 0 .. Passes PROVE DigitOf(h, p) \in Digits
<1>1. PICK q \in Nat : q = h \div Power[p]
  BY PowerFacts, DivMod
<1>2. Radix \in Nat /\ Radix > 0
  BY SortAssumption
<1>3. q % Radix \in Nat /\ q % Radix < Radix
  BY <1>2, DivMod
<1> QED BY <1>1, <1>2, <1>3 DEF DigitOf, Digits

\* One more low digit: the new digit counts most.
LEMMA LowNext ==
  ASSUME NEW h \in Nat, NEW p \in 0 .. Passes, p < Passes
  PROVE  /\ Low(h, p + 1) = DigitOf(h, p) * Power[p] + Low(h, p)
         /\ Low(h, p) \in Nat /\ Low(h, p) < Power[p]
<1>1. PICK u \in Nat : u = Power[p] /\ u > 0 /\ Power[p + 1] = Radix * u
  BY PowerFacts
<1>2. Radix \in Nat /\ Radix > 0
  BY SortAssumption
<1>3. h % (Radix * u) = ((h \div u) % Radix) * u + (h % u)
  BY <1>1, <1>2, LowDigits
<1>4. h % u \in Nat /\ h % u < u
  BY <1>1, DivMod
<1>5. Low(h, p + 1) = h % (Radix * u) /\ Low(h, p) = h % u /\ DigitOf(h, p) = (h \div u) % Radix
  BY <1>1, Zenon DEF Low, DigitOf
<1>6. Low(h, p + 1) = DigitOf(h, p) * u + Low(h, p)
  BY <1>3, <1>5, Zenon
<1> QED BY <1>1, <1>4, <1>5, <1>6

\* The higher digit decides.
LEMMA LexBelow == \A a, b, u, x, y \in Nat : a < b /\ x < u => a * u + x < b * u + y
<1> SUFFICES ASSUME NEW a \in Nat, NEW b \in Nat, NEW u \in Nat, NEW x \in Nat, NEW y \in Nat, a < b, x < u
             PROVE  a * u + x < b * u + y
  OBVIOUS
<1>1. a * u + x < b * u
  BY BelowProduct
<1>2. a * u \in Nat /\ b * u \in Nat
  OBVIOUS
<1> QED BY <1>1, <1>2

(* Numbers compare by their next digit, then by the digits before it. *)
LEMMA LowOrder ==
  ASSUME NEW g \in Nat, NEW h \in Nat, NEW p \in 0 .. Passes, p < Passes
  PROVE  /\ DigitOf(g, p) < DigitOf(h, p) => Low(g, p + 1) < Low(h, p + 1)
         /\ DigitOf(g, p) = DigitOf(h, p) /\ Low(g, p) < Low(h, p) => Low(g, p + 1) < Low(h, p + 1)
         /\ DigitOf(g, p) = DigitOf(h, p) /\ Low(g, p) = Low(h, p) => Low(g, p + 1) = Low(h, p + 1)
<1>1. PICK u \in Nat : u = Power[p]
  BY PowerFacts
<1>2. PICK a \in Nat : a = DigitOf(g, p)
  BY DigitType, SortAssumption DEF Digits
<1>3. PICK b \in Nat : b = DigitOf(h, p)
  BY DigitType, SortAssumption DEF Digits
<1>4. PICK x \in Nat : x = Low(g, p) /\ x < u /\ Low(g, p + 1) = a * u + x
  BY <1>1, <1>2, LowNext
<1>5. PICK y \in Nat : y = Low(h, p) /\ Low(h, p + 1) = b * u + y
  BY <1>1, <1>3, LowNext
<1>6. a < b => a * u + x < b * u + y
  BY <1>4, LexBelow
<1>7. a * u \in Nat
  OBVIOUS
<1>8. x < y => a * u + x < a * u + y
  BY <1>7
<1> QED BY <1>2, <1>3, <1>4, <1>5, <1>6, <1>8

\* No digit is nothing, all digits are the hash.
LEMMA LowEnds ==
  /\ \A h \in Nat : Low(h, 0) = 0
  /\ \A h \in Hashes : h \in Nat /\ Low(h, Passes) = h
<1>1. ASSUME NEW h \in Nat PROVE Low(h, 0) = 0
  BY PowerFacts DEF Low
<1>2. ASSUME NEW h \in Hashes PROVE h \in Nat /\ Low(h, Passes) = h
  <2>1. PICK u \in Nat : u = Power[Passes] /\ u > 0
    BY PowerFacts, SortAssumption
  <2>2. h \in Nat /\ h < u
    BY <2>1 DEF Hashes
  <2>3. h = u * 0 + h
    BY <2>1, <2>2
  <2>4. h % u = h
    BY <2>1, <2>2, <2>3, DivUnique
  <2> QED BY <2>1, <2>2, <2>4 DEF Low
<1> QED BY <1>1, <1>2

-----------------------------------------------------------------------------
(* One pass of a radix sort *)

HashOf(e) == e.hash
IdOf(e) == e.id

\* The order after p passes: the low digits, then the order given.
LowBefore(x, y, p) ==
    \/ Low(HashOf(x), p) < Low(HashOf(y), p)
    \/ Low(HashOf(x), p) = Low(HashOf(y), p) /\ IdOf(x) < IdOf(y)

\* The entries as the caller gives them.
Given(n, inp) == \A i \in 0 .. n - 1 : HashOf(inp[i]) \in Hashes /\ IdOf(inp[i]) = i

SameEntries(n, inp, a) ==
    /\ \A i \in 0 .. n - 1 : \E j \in 0 .. n - 1 : a[i] = inp[j]
    /\ \A j \in 0 .. n - 1 : \E i \in 0 .. n - 1 : a[i] = inp[j]

Arranged(n, inp, a, p) ==
    /\ SameEntries(n, inp, a)
    /\ \A i, j \in 0 .. n - 1 : i < j => LowBefore(a[i], a[j], p)

DigitsAt(n, a, p) == [i \in 0 .. n - 1 |-> DigitOf(HashOf(a[i]), p)]

\* The entries x .. y - 1 of a are at their places in b.
Placed(n, g, a, b, x, y) == \A i \in x .. y - 1 : b[Place(g, n, i)] = a[i]

\* An entry of the array is one of those given.
LEMMA EntryFacts ==
  ASSUME NEW n \in Nat, NEW inp, NEW a, Given(n, inp), SameEntries(n, inp, a), NEW i \in 0 .. n - 1
  PROVE  HashOf(a[i]) \in Hashes /\ HashOf(a[i]) \in Nat /\ IdOf(a[i]) \in 0 .. n - 1
<1>1. PICK j \in 0 .. n - 1 : a[i] = inp[j]
  BY DEF SameEntries
<1>2. HashOf(inp[j]) \in Hashes /\ IdOf(inp[j]) = j
  BY DEF Given
<1>3. HashOf(inp[j]) \in Nat
  BY <1>2, LowEnds
<1> QED BY <1>1, <1>2, <1>3

\* The digits of a pass are digits.
LEMMA DigitsKnown ==
  ASSUME NEW n \in Nat, NEW inp, NEW a, Given(n, inp), SameEntries(n, inp, a),
         NEW p \in 0 .. Passes
  PROVE  /\ Digital(DigitsAt(n, a, p), n)
         /\ \A i \in 0 .. n - 1 : /\ DigitsAt(n, a, p)[i] = DigitOf(HashOf(a[i]), p)
                                  /\ DigitsAt(n, a, p)[i] \in Digits
<1>1. ASSUME NEW i \in 0 .. n - 1
      PROVE  DigitsAt(n, a, p)[i] = DigitOf(HashOf(a[i]), p) /\ DigitsAt(n, a, p)[i] \in Digits
  <2>1. HashOf(a[i]) \in Nat
    BY EntryFacts
  <2>2. DigitOf(HashOf(a[i]), p) \in Digits
    BY <2>1, DigitType
  <2>3. DigitsAt(n, a, p)[i] = DigitOf(HashOf(a[i]), p)
    BY DEF DigitsAt
  <2> QED BY <2>2, <2>3
<1>2. Digits \subseteq Int
  BY SortAssumption DEF Digits
<1> QED BY <1>1, <1>2 DEF Digital

\* One stable pass more: ordered by the low digits, then by the given order.
LEMMA PassSorts ==
  ASSUME NEW n \in Nat, NEW inp, NEW a, NEW b, Given(n, inp), NEW p \in 0 .. Passes, p < Passes,
         Arranged(n, inp, a, p), Placed(n, DigitsAt(n, a, p), a, b, 0, n)
  PROVE  Arranged(n, inp, b, p + 1)
<1> DEFINE g == DigitsAt(n, a, p)
<1>0. SameEntries(n, inp, a)
  BY DEF Arranged
<1>1. Digital(g, n) /\ \A i \in 0 .. n - 1 : g[i] = DigitOf(HashOf(a[i]), p)
  BY <1>0, DigitsKnown
<1>2. \A i \in 0 .. n - 1 : b[Place(g, n, i)] = a[i]
  BY DEF Placed
<1> HIDE DEF g
<1>3. \A i \in 0 .. n - 1 : Place(g, n, i) \in 0 .. n - 1
  BY <1>1, PlaceInside
<1>4. \A q \in 0 .. n - 1 : \E i \in 0 .. n - 1 : Place(g, n, i) = q
  BY <1>1, PlaceReached
<1>5. SameEntries(n, inp, b)
  <2>1. ASSUME NEW q \in 0 .. n - 1 PROVE \E j \in 0 .. n - 1 : b[q] = inp[j]
    <3>1. PICK i \in 0 .. n - 1 : Place(g, n, i) = q
      BY <1>4
    <3>2. PICK j \in 0 .. n - 1 : a[i] = inp[j]
      BY <1>0 DEF SameEntries
    <3> QED BY <1>2, <3>1, <3>2
  <2>2. ASSUME NEW j \in 0 .. n - 1 PROVE \E q \in 0 .. n - 1 : b[q] = inp[j]
    <3>1. PICK i \in 0 .. n - 1 : a[i] = inp[j]
      BY <1>0 DEF SameEntries
    <3> QED BY <1>2, <1>3, <3>1
  <2> QED BY <2>1, <2>2 DEF SameEntries
<1>6. ASSUME NEW q \in 0 .. n - 1, NEW r \in 0 .. n - 1, q < r
      PROVE  LowBefore(b[q], b[r], p + 1)
  <2>1. PICK i \in 0 .. n - 1 : Place(g, n, i) = q
    BY <1>4
  <2>2. PICK k \in 0 .. n - 1 : Place(g, n, k) = r
    BY <1>4
  <2>3. b[q] = a[i] /\ b[r] = a[k]
    BY <1>2, <2>1, <2>2
  <2>4. Place(g, n, i) < Place(g, n, k)
    BY <1>6, <2>1, <2>2
  <2>5. Goes(g, i, k)
    BY <1>1, <2>4, PlaceOrders
  <2>6. HashOf(a[i]) \in Nat /\ HashOf(a[k]) \in Nat
    BY <1>0, EntryFacts
  <2>7. PICK x \in Nat, y \in Nat : x = HashOf(a[i]) /\ y = HashOf(a[k])
    BY <2>6
  <2>8. g[i] = DigitOf(x, p) /\ g[k] = DigitOf(y, p)
    BY <1>1, <2>7
  <2>9. CASE DigitOf(x, p) < DigitOf(y, p)
    <3>1. Low(x, p + 1) < Low(y, p + 1)
      BY <2>9, LowOrder
    <3> QED BY <2>3, <2>7, <3>1 DEF LowBefore
  <2>10. CASE DigitOf(x, p) = DigitOf(y, p) /\ i < k
    <3>1. LowBefore(a[i], a[k], p)
      BY <2>10 DEF Arranged
    <3>2. \/ Low(x, p) < Low(y, p)
          \/ Low(x, p) = Low(y, p) /\ IdOf(a[i]) < IdOf(a[k])
      BY <2>7, <3>1 DEF LowBefore
    <3>3. \/ Low(x, p + 1) < Low(y, p + 1)
          \/ Low(x, p + 1) = Low(y, p + 1) /\ IdOf(a[i]) < IdOf(a[k])
      BY <2>10, <3>2, LowOrder
    <3> QED BY <2>3, <2>7, <3>3 DEF LowBefore
  <2> QED BY <2>5, <2>8, <2>9, <2>10 DEF Goes
<1> QED BY <1>5, <1>6 DEF Arranged

-----------------------------------------------------------------------------
(* Chunks and write positions *)

\* Where the chunk of worker v starts: also where that of v - 1 ends.
Part(n, workers, v) == IF v = workers THEN n ELSE v * (n \div workers)

\* A product grows with its factor.
LEMMA ProductGrows == \A a, b, c \in Nat : a <= b => a * c <= b * c /\ a * c \in Nat
  OBVIOUS

\* The chunks start at 0, end at count, and do not overlap.
LEMMA Parts ==
  ASSUME NEW n \in Nat, NEW k \in Nat, k > 0
  PROVE  /\ Part(n, k, 0) = 0 /\ Part(n, k, k) = n
         /\ \A v \in 0 .. k : Part(n, k, v) \in 0 .. n
         /\ \A u, v \in 0 .. k : u <= v => Part(n, k, u) <= Part(n, k, v)
<1>1. PICK c \in Nat : c = n \div k /\ k * c <= n
  <2>1. PICK c \in Nat, r \in Nat : c = n \div k /\ r = n % k /\ n = k * c + r
    BY DivMod
  <2>2. k * c \in Nat
    OBVIOUS
  <2> QED BY <2>1, <2>2
<1>2. \A v : Part(n, k, v) = IF v = k THEN n ELSE v * c
  BY <1>1 DEF Part
<1>3. Part(n, k, 0) = 0 /\ Part(n, k, k) = n
  BY <1>2
<1>4. \A v \in 0 .. k : v * c \in Nat /\ v * c <= n
  BY <1>1, ProductGrows
<1>5. \A u, v \in 0 .. k : u <= v => u * c <= v * c
  BY ProductGrows
<1>6. \A v \in 0 .. k : Part(n, k, v) \in 0 .. n
  BY <1>2, <1>4
<1>7. ASSUME NEW u \in 0 .. k, NEW v \in 0 .. k, u <= v PROVE Part(n, k, u) <= Part(n, k, v)
  BY <1>2, <1>4, <1>5, <1>7
<1> QED BY <1>3, <1>6, <1>7

\* The start and the end of a worker's range are bounds of its chunk.
LEMMA Ranges ==
  ASSUME count \in Nat, worker_count \in Nat, NEW w \in Workers
  PROVE  RangeStart(w) = Part(count, worker_count, w) /\ RangeEnd(w) = Part(count, worker_count, w + 1)
  BY DEF RangeStart, RangeEnd, Part, Workers, chunk_size

(* A function given by its start and a step is the one that takes both.    *)
LEMMA SumIs ==
  ASSUME NEW k \in Nat, NEW f, NEW e,
         f[0] = e[0], \A v \in 1 .. k : f[v - 1] = e[v - 1] => f[v] = e[v]
  PROVE  \A v \in 0 .. k : f[v] = e[v]
<1> DEFINE T == {v \in 0 .. k : f[v] = e[v]}
<1>1. 0 \in T
  OBVIOUS
<1>2. ASSUME NEW i \in 1 .. k, i - 1 \in T PROVE i \in T
  BY <1>2
<1> HIDE DEF T
<1>3. \A i \in 0 .. k : i \in T
  BY <1>1, <1>2, UpTo
<1> QED BY <1>3 DEF T

\* What the counting threads of the workers before w + 1 leave.
CountedBy(w, g) ==
    \A d \in Digits : contexts[w].counts[d] =
        HitCount(g, Part(count, worker_count, w), Part(count, worker_count, w + 1), d)

\* The counts of the first v workers, added up, are the hits in their chunks.
LEMMA Buckets ==
  ASSUME count \in Nat, worker_count \in Nat, worker_count > 0, NEW g,
         \A w \in Workers : CountedBy(w, g), NEW d \in Digits
  PROVE  \A v \in 0 .. worker_count : InBucket(d)[v] = HitCount(g, 0, Part(count, worker_count, v), d)
<1> DEFINE H(v) == HitCount(g, 0, Part(count, worker_count, v), d)
           e == [v \in 0 .. worker_count |-> H(v)]
<1>1. H(0) = 0
  BY Parts, HitNone
<1>2. ASSUME NEW v \in 1 .. worker_count
      PROVE  H(v) = H(v - 1) + contexts[v - 1].counts[d]
  <2>1. v - 1 \in 0 .. worker_count /\ v \in 0 .. worker_count /\ v - 1 <= v /\ v - 1 \in Workers
    BY DEF Workers
  <2>2. contexts[v - 1].counts[d] =
           HitCount(g, Part(count, worker_count, v - 1), Part(count, worker_count, (v - 1) + 1), d)
    BY <2>1 DEF CountedBy
  <2>3. (v - 1) + 1 = v
    OBVIOUS
  <2>4. PICK x, y : x = Part(count, worker_count, v - 1) /\ y = Part(count, worker_count, v)
    OBVIOUS
  <2>5. x \in 0 .. count /\ y \in 0 .. count /\ x <= y
    BY <2>1, <2>4, Parts
  <2>6. 0 \in 0 .. count /\ 0 <= x
    BY <2>5
  <2>7. HitCount(g, 0, y, d) = HitCount(g, 0, x, d) + HitCount(g, x, y, d)
    BY <2>5, <2>6, HitParts
  <2> QED BY <2>2, <2>3, <2>4, <2>7
<1> HIDE DEF H
<1>3. e = [v \in 0 .. worker_count |-> IF v = 0 THEN 0 ELSE e[v - 1] + contexts[v - 1].counts[d]]
  <2>1. \A v \in 0 .. worker_count : v # 0 => v \in 1 .. worker_count /\ v - 1 \in 0 .. worker_count
    OBVIOUS
  <2>2. \A v \in 0 .. worker_count : e[v] = H(v)
    OBVIOUS
  <2> DEFINE f == [v \in 0 .. worker_count |-> IF v = 0 THEN 0 ELSE e[v - 1] + contexts[v - 1].counts[d]]
  <2>3. ASSUME NEW v \in 0 .. worker_count PROVE e[v] = f[v]
    <3>1. CASE v = 0
      BY <1>1, <2>2, <3>1
    <3>2. CASE v # 0
      <4>1. H(v) = H(v - 1) + contexts[v - 1].counts[d]
        BY <1>2, <2>1, <3>2
      <4>2. e[v - 1] = H(v - 1) /\ e[v] = H(v)
        BY <2>1, <2>2, <3>2
      <4>3. f[v] = e[v - 1] + contexts[v - 1].counts[d]
        BY <3>2
      <4> QED BY <4>1, <4>2, <4>3
    <3> QED BY <3>1, <3>2
  <2> QED BY <2>3
<1>4. InBucket(d) = [v \in 0 .. worker_count |->
                        IF v = 0 THEN 0 ELSE InBucket(d)[v - 1] + contexts[v - 1].counts[d]]
  BY <1>3, Zenon DEF InBucket
<1>5. PICK f : f = InBucket(d)
  OBVIOUS
<1>6. f[0] = 0 /\ \A v \in 1 .. worker_count : f[v] = f[v - 1] + contexts[v - 1].counts[d]
  <2>1. f = [v \in 0 .. worker_count |-> IF v = 0 THEN 0 ELSE f[v - 1] + contexts[v - 1].counts[d]]
    BY <1>4, <1>5, Zenon
  <2> QED BY <2>1
<1>7. \A v \in 0 .. worker_count : e[v] = H(v)
  OBVIOUS
<1>8. f[0] = e[0] /\ \A v \in 1 .. worker_count : f[v - 1] = e[v - 1] => f[v] = e[v]
  BY <1>1, <1>2, <1>6, <1>7
<1> HIDE DEF e
<1>9. \A v \in 0 .. worker_count : f[v] = e[v]
  BY <1>8, SumIs
<1> QED BY <1>5, <1>7, <1>9 DEF H

\* The running total of a digit counts the entries with smaller ones.
LEMMA Totals ==
  ASSUME count \in Nat, worker_count \in Nat, worker_count > 0, NEW g,
         \A i \in 0 .. count - 1 : g[i] \in Digits,
         \A w \in Workers : CountedBy(w, g)
  PROVE  \A d \in Digits : running_total[d] = SmallerCount(g, count, d)
<1>0. Radix \in Nat /\ Radix > 0 /\ Digits = 0 .. Radix - 1
  BY SortAssumption DEF Digits
<1> DEFINE H(v) == SmallerCount(g, count, v)
           B(d) == InBucket(d)[worker_count]
           e == [v \in 0 .. Radix |-> H(v)]
<1>1. H(0) = 0
  <2>1. \A i \in 0 .. count - 1 : g[i] \in Nat
    BY <1>0
  <2> QED BY <2>1, SmallerNone
<1>2. ASSUME NEW v \in 1 .. Radix
      PROVE  H(v) = H(v - 1) + B(v - 1)
  <2>1. v - 1 \in Digits /\ v - 1 \in Int
    BY <1>0
  <2>2. \A u \in 0 .. worker_count : InBucket(v - 1)[u] = HitCount(g, 0, Part(count, worker_count, u), v - 1)
    BY <2>1, Buckets
  <2>3. Part(count, worker_count, worker_count) = count
    BY Parts
  <2>4. B(v - 1) = HitCount(g, 0, count, v - 1)
    BY <2>2, <2>3
  <2>5. Digital(g, count)
    BY <1>0 DEF Digital
  <2>6. SmallerCount(g, count, (v - 1) + 1) = SmallerCount(g, count, v - 1) + HitCount(g, 0, count, v - 1)
    BY <2>1, <2>5, SmallerNext
  <2>7. (v - 1) + 1 = v
    OBVIOUS
  <2> QED BY <2>4, <2>6, <2>7
<1> HIDE DEF H, B
<1>3. e = [v \in 0 .. Radix |-> IF v = 0 THEN 0 ELSE e[v - 1] + B(v - 1)]
  <2>1. \A v \in 0 .. Radix : v # 0 => v \in 1 .. Radix /\ v - 1 \in 0 .. Radix
    BY <1>0
  <2>2. \A v \in 0 .. Radix : e[v] = H(v)
    OBVIOUS
  <2> DEFINE f == [v \in 0 .. Radix |-> IF v = 0 THEN 0 ELSE e[v - 1] + B(v - 1)]
  <2>3. ASSUME NEW v \in 0 .. Radix PROVE e[v] = f[v]
    <3>1. CASE v = 0
      BY <1>1, <2>2, <3>1
    <3>2. CASE v # 0
      <4>1. H(v) = H(v - 1) + B(v - 1)
        BY <1>2, <2>1, <3>2
      <4>2. e[v - 1] = H(v - 1) /\ e[v] = H(v)
        BY <2>1, <2>2, <3>2
      <4>3. f[v] = e[v - 1] + B(v - 1)
        BY <3>2
      <4> QED BY <4>1, <4>2, <4>3
    <3> QED BY <3>1, <3>2
  <2> QED BY <2>3
<1>4. running_total = [d \in 0 .. Radix |-> IF d = 0 THEN 0 ELSE running_total[d - 1] + InBucket(d - 1)[worker_count]]
  <2>1. e = [d \in 0 .. Radix |-> IF d = 0 THEN 0 ELSE e[d - 1] + InBucket(d - 1)[worker_count]]
    BY <1>3 DEF B
  <2> HIDE DEF e
  <2> QED BY <2>1, Zenon DEF running_total
<1>5. PICK f : f = running_total
  OBVIOUS
<1>6. f[0] = 0 /\ \A v \in 1 .. Radix : f[v] = f[v - 1] + B(v - 1)
  <2>1. f = [v \in 0 .. Radix |-> IF v = 0 THEN 0 ELSE f[v - 1] + B(v - 1)]
    BY <1>4, <1>5, Zenon DEF B
  <2> QED BY <1>0, <2>1
<1>7. \A v \in 0 .. Radix : e[v] = H(v)
  OBVIOUS
<1>8. f[0] = e[0] /\ \A v \in 1 .. Radix : f[v - 1] = e[v - 1] => f[v] = e[v]
  <2>1. 0 \in 0 .. Radix /\ \A v \in 1 .. Radix : v \in 0 .. Radix /\ v - 1 \in 0 .. Radix
    BY <1>0
  <2> HIDE DEF e
  <2> QED BY <1>1, <1>2, <1>6, <1>7, <2>1
<1> HIDE DEF e
<1>9. \A v \in 0 .. Radix : f[v] = e[v]
  BY <1>0, <1>8, SumIs
<1>10. \A d \in Digits : d \in 0 .. Radix
  BY <1>0
<1> QED BY <1>5, <1>7, <1>9, <1>10 DEF H

(* The write positions the main thread computes: worker w writes its first *)
(* entry of a digit after the smaller ones and after those before its      *)
(* chunk.                                                                  *)
LEMMA WritesFrom ==
  ASSUME count \in Nat, worker_count \in Nat, worker_count > 0, NEW g,
         \A i \in 0 .. count - 1 : g[i] \in Digits,
         \A w \in Workers : CountedBy(w, g),
         NEW w \in Workers, NEW d \in Digits
  PROVE  WritePosition(w, d) = SmallerCount(g, count, d) + HitCount(g, 0, Part(count, worker_count, w), d)
<1>1. running_total[d] = SmallerCount(g, count, d)
  BY Totals
<1>2. \A v \in 0 .. worker_count : InBucket(d)[v] = HitCount(g, 0, Part(count, worker_count, v), d)
  BY Buckets
<1>3. w \in 0 .. worker_count
  BY DEF Workers
<1> QED BY <1>1, <1>2, <1>3 DEF WritePosition

(* The positions a worker has still to write for a digit are those from    *)
(* its next one to the end of its part of the bucket.                      *)
\* Where the entries of digit d that come before entry i end.
From(g, n, i, d) == SmallerCount(g, n, d) + HitCount(g, 0, i, d)

\* The write position moves by the entries of the digit it passes.
LEMMA FromFacts ==
  ASSUME NEW n \in Nat, NEW g, Digital(g, n), NEW i \in 0 .. n, NEW d \in Int
  PROVE  /\ From(g, n, i, d) \in 0 .. n
         /\ \A j \in 0 .. n : i <= j =>
               From(g, n, j, d) = From(g, n, i, d) + HitCount(g, i, j, d) /\ HitCount(g, i, j, d) \in Nat
<1>1. ASSUME NEW j \in 0 .. n, i <= j
      PROVE  From(g, n, j, d) = From(g, n, i, d) + HitCount(g, i, j, d) /\ HitCount(g, i, j, d) \in Nat
  <2>1. 0 \in 0 .. n /\ 0 <= i
    OBVIOUS
  <2>2. HitCount(g, 0, j, d) = HitCount(g, 0, i, d) + HitCount(g, i, j, d)
    BY <1>1, <2>1, HitParts
  <2>3. HitCount(g, 0, i, d) \in Nat /\ HitCount(g, i, j, d) \in Nat /\ SmallerCount(g, n, d) \in Nat
    BY <2>1, HitFacts, SmallerFacts
  <2> QED BY <2>2, <2>3 DEF From
<1>2. n \in 0 .. n /\ 0 \in 0 .. n
  OBVIOUS
<1>3. From(g, n, n, d) = From(g, n, i, d) + HitCount(g, i, n, d) /\ HitCount(g, i, n, d) \in Nat
  BY <1>1, <1>2
<1>4. From(g, n, n, d) <= n
  <2>1. From(g, n, n, d) = SmallerCount(g, n, d + 1)
    BY SmallerNext DEF From
  <2>2. SmallerCount(g, n, d + 1) <= n
    BY SmallerFacts
  <2> QED BY <2>1, <2>2
<1>5. From(g, n, i, d) \in Nat
  BY <1>2, HitFacts, SmallerFacts DEF From
<1>6. From(g, n, i, d) <= n
  <2>1. PICK x, y, z : x = From(g, n, i, d) /\ y = From(g, n, n, d) /\ z = HitCount(g, i, n, d)
    OBVIOUS
  <2>2. y = x + z /\ z \in Nat /\ x \in Nat /\ y <= n
    BY <1>3, <1>4, <1>5, <2>1
  <2> QED BY <2>1, <2>2
<1> QED BY <1>1, <1>5, <1>6

\* A write position never moves back.
LEMMA FromGrows ==
  ASSUME NEW n \in Nat, NEW g, Digital(g, n), NEW x \in 0 .. n, NEW y \in 0 .. n, x <= y, NEW b \in Int
  PROVE  From(g, n, x, b) <= From(g, n, y, b) /\ From(g, n, x, b) \in Nat /\ From(g, n, y, b) \in Nat
<1>1. From(g, n, x, b) \in 0 .. n
  BY FromFacts
<1>2. From(g, n, y, b) \in 0 .. n
  BY FromFacts
<1>3. From(g, n, y, b) = From(g, n, x, b) + HitCount(g, x, y, b) /\ HitCount(g, x, y, b) \in Nat
  BY FromFacts
<1>4. PICK u, v, z : u = From(g, n, x, b) /\ v = From(g, n, y, b) /\ z = HitCount(g, x, y, b)
  OBVIOUS
<1>5. v = u + z /\ z \in Nat /\ u \in 0 .. n /\ v \in 0 .. n
  BY <1>1, <1>2, <1>3, <1>4
<1> QED BY <1>4, <1>5

(* Two stretches of places, of entries i .. j - 1 of digit c and k .. l - 1 *)
(* of digit d, share no place unless they share an entry.                   *)
LEMMA Apart ==
  ASSUME NEW n \in Nat, NEW g, Digital(g, n),
         NEW i \in 0 .. n, NEW j \in 0 .. n, i <= j, NEW k \in 0 .. n, NEW l \in 0 .. n, k <= l,
         NEW c \in Int, NEW d \in Int, c # d \/ j <= k \/ l <= i, NEW q \in Int,
         From(g, n, i, c) <= q, q < From(g, n, j, c)
  PROVE  ~(From(g, n, k, d) <= q /\ q < From(g, n, l, d))
<1>0. n \in 0 .. n /\ 0 \in 0 .. n
  OBVIOUS
<1>1. ASSUME NEW x \in 0 .. n, NEW y \in 0 .. n, x <= y, NEW b \in Int
      PROVE  From(g, n, x, b) <= From(g, n, y, b) /\ From(g, n, x, b) \in Nat /\ From(g, n, y, b) \in Nat
  BY <1>1, FromGrows
<1>2. ASSUME NEW a \in Int, NEW b \in Int, a < b, NEW x \in 0 .. n, NEW y \in 0 .. n
      PROVE  From(g, n, x, a) <= From(g, n, y, b)
  <2>1. SmallerCount(g, n, a) + HitCount(g, 0, n, a) <= SmallerCount(g, n, b)
    BY <1>2, SmallerGrows
  <2>2. HitCount(g, 0, y, b) \in Nat /\ SmallerCount(g, n, b) \in Nat
    BY <1>0, HitFacts, SmallerFacts
  <2>3. From(g, n, x, a) <= From(g, n, n, a)
    BY <1>0, <1>1
  <2>4. From(g, n, x, a) \in Nat /\ From(g, n, n, a) \in Nat
    BY <1>0, <1>1
  <2>5. From(g, n, n, a) = SmallerCount(g, n, a) + HitCount(g, 0, n, a)
    BY DEF From
  <2>6. From(g, n, y, b) = SmallerCount(g, n, b) + HitCount(g, 0, y, b)
    BY DEF From
  <2> QED BY <2>1, <2>2, <2>3, <2>4, <2>5, <2>6
<1>3. /\ From(g, n, i, c) \in Nat /\ From(g, n, j, c) \in Nat
      /\ From(g, n, k, d) \in Nat /\ From(g, n, l, d) \in Nat
  BY <1>1
<1>4. CASE c < d
  BY <1>2, <1>3, <1>4
<1>5. CASE d < c
  BY <1>2, <1>3, <1>5
<1>6. CASE c = d /\ j <= k
  BY <1>1, <1>3, <1>6
<1>7. CASE c = d /\ l <= i
  BY <1>1, <1>3, <1>7
<1> QED BY <1>4, <1>5, <1>6, <1>7

-----------------------------------------------------------------------------
(* What main thread and threads share *)

State(w) == threads[w].state
NextOf(w) == threads[w].next
Counts(w) == contexts[w].counts
PositionsOf(w) == contexts[w].positions
Chunk(w) == Part(count, worker_count, w)

Context(p, s, e, c, o) == [pass |-> p, start |-> s, end |-> e, counts |-> c, positions |-> o]
IsContext(r) ==
    /\ r = Context(r.pass, r.start, r.end, r.counts, r.positions)
    /\ r.counts = [d \in Digits |-> r.counts[d]]
    /\ r.positions = [d \in Digits |-> r.positions[d]]

ContextShape ==
    /\ contexts = [w \in Workers |-> contexts[w]]
    /\ \A w \in Workers : IsContext(contexts[w])

ArrayNames == {"entries", "scratch"}
ArrayShape ==
    /\ arrays = [b \in ArrayNames |-> arrays[b]]
    /\ \A b \in ArrayNames : arrays[b] = [i \in Indices |-> arrays[b][i]]

(* The context of worker w tells its thread to do its chunk in this pass. *)
Told(w) ==
    /\ contexts[w].pass = pass
    /\ contexts[w].start = Chunk(w)
    /\ contexts[w].end = Chunk(w + 1)

\* The fields of a context.
LEMMA ContextFields ==
  ASSUME NEW p, NEW s, NEW e, NEW c, NEW o
  PROVE  /\ Context(p, s, e, c, o).pass = p /\ Context(p, s, e, c, o).start = s
         /\ Context(p, s, e, c, o).end = e /\ Context(p, s, e, c, o).counts = c
         /\ Context(p, s, e, c, o).positions = o
  BY DEF Context

\* A context with one field replaced.
LEMMA ContextExcept ==
  ASSUME NEW r, IsContext(r), NEW x
  PROVE  /\ [r EXCEPT !.pass = x] = Context(x, r.start, r.end, r.counts, r.positions)
         /\ [r EXCEPT !.start = x] = Context(r.pass, x, r.end, r.counts, r.positions)
         /\ [r EXCEPT !.end = x] = Context(r.pass, r.start, x, r.counts, r.positions)
         /\ [r EXCEPT !.counts = x] = Context(r.pass, r.start, r.end, x, r.positions)
         /\ [r EXCEPT !.positions = x] = Context(r.pass, r.start, r.end, r.counts, x)
<1>1. PICK p, s, e, c, o : r = [pass |-> p, start |-> s, end |-> e, counts |-> c, positions |-> o]
  BY DEF IsContext, Context
<1> DEFINE q == [pass |-> p, start |-> s, end |-> e, counts |-> c, positions |-> o]
<1>2. r.pass = p /\ r.start = s /\ r.end = e /\ r.counts = c /\ r.positions = o
  BY <1>1
<1>3. [q EXCEPT !.counts = x] = [pass |-> p, start |-> s, end |-> e, counts |-> x, positions |-> o]
  OBVIOUS
<1>4. [q EXCEPT !.positions = x] = [pass |-> p, start |-> s, end |-> e, counts |-> c, positions |-> x]
  OBVIOUS
<1>5. [q EXCEPT !.pass = x] = [pass |-> x, start |-> s, end |-> e, counts |-> c, positions |-> o]
  OBVIOUS
<1>6. [q EXCEPT !.start = x] = [pass |-> p, start |-> x, end |-> e, counts |-> c, positions |-> o]
  OBVIOUS
<1>7. [q EXCEPT !.end = x] = [pass |-> p, start |-> s, end |-> x, counts |-> c, positions |-> o]
  OBVIOUS
<1> QED BY <1>1, <1>2, <1>3, <1>4, <1>5, <1>6, <1>7 DEF Context

(* Fills in the range of a worker, one field after the other. *)
LEMMA ContextRange ==
  ASSUME NEW r, IsContext(r), NEW x, NEW y, NEW z
  PROVE  [[[r EXCEPT !.pass = x] EXCEPT !.start = y] EXCEPT !.end = z] = Context(x, y, z, r.counts, r.positions)
<1>1. \A p, s, e : IsContext(Context(p, s, e, r.counts, r.positions))
  BY ContextFields DEF IsContext
<1>2. [r EXCEPT !.pass = x] = Context(x, r.start, r.end, r.counts, r.positions)
  BY ContextExcept
<1>3. ASSUME NEW p, NEW s, NEW e
      PROVE  [Context(p, s, e, r.counts, r.positions) EXCEPT !.start = y] = Context(p, y, e, r.counts, r.positions)
  <2>1. PICK q : q = Context(p, s, e, r.counts, r.positions)
    OBVIOUS
  <2>2. IsContext(q) /\ q.pass = p /\ q.end = e /\ q.counts = r.counts /\ q.positions = r.positions
    BY <1>1, <2>1, ContextFields
  <2>3. [q EXCEPT !.start = y] = Context(q.pass, y, q.end, q.counts, q.positions)
    BY <2>2, ContextExcept
  <2> QED BY <2>1, <2>2, <2>3, Zenon
<1>4. ASSUME NEW p, NEW s, NEW e
      PROVE  [Context(p, s, e, r.counts, r.positions) EXCEPT !.end = z] = Context(p, s, z, r.counts, r.positions)
  <2>1. PICK q : q = Context(p, s, e, r.counts, r.positions)
    OBVIOUS
  <2>2. IsContext(q) /\ q.pass = p /\ q.start = s /\ q.counts = r.counts /\ q.positions = r.positions
    BY <1>1, <2>1, ContextFields
  <2>3. [q EXCEPT !.end = z] = Context(q.pass, q.start, z, q.counts, q.positions)
    BY <2>2, ContextExcept
  <2> QED BY <2>1, <2>2, <2>3, Zenon
<1>5. PICK u : u = [r EXCEPT !.pass = x]
  OBVIOUS
<1>6. u = Context(x, r.start, r.end, r.counts, r.positions)
  BY <1>2, <1>5, Zenon
<1>7. PICK v : v = [u EXCEPT !.start = y]
  OBVIOUS
<1>8. v = Context(x, y, r.end, r.counts, r.positions)
  BY <1>3, <1>6, <1>7
<1>9. [v EXCEPT !.end = z] = Context(x, y, z, r.counts, r.positions)
  BY <1>4, <1>8
<1> QED BY <1>5, <1>7, <1>9, Zenon

\* A step that replaces one worker's context leaves the others alone.
LEMMA ContextUpdate ==
  ASSUME ContextShape, worker_count' = worker_count, NEW v \in Workers,
         NEW p, NEW s, NEW e, NEW c, NEW o,
         c = [d \in Digits |-> c[d]], o = [d \in Digits |-> o[d]],
         contexts' = [contexts EXCEPT ![v] = Context(p, s, e, c, o)]
  PROVE  /\ ContextShape'
         /\ contexts'[v] = Context(p, s, e, c, o)
         /\ \A w \in Workers : w # v => contexts'[w] = contexts[w]
<1>1. Workers' = Workers
  BY DEF Workers
<1>2. contexts' = [w \in Workers |-> IF w = v THEN Context(p, s, e, c, o) ELSE contexts[w]]
  BY DEF ContextShape
<1>3. contexts'[v] = Context(p, s, e, c, o) /\ \A w \in Workers : w # v => contexts'[w] = contexts[w]
  BY <1>2
<1>4. IsContext(Context(p, s, e, c, o))
  BY ContextFields DEF IsContext
<1>5. \A w \in Workers : IsContext(contexts'[w])
  BY <1>3, <1>4 DEF ContextShape
<1>6. contexts' = [w \in Workers |-> contexts'[w]]
  BY <1>2
<1> QED BY <1>1, <1>3, <1>5, <1>6 DEF ContextShape

\* Three fields set in one assignment are set one after the other.
LEMMA RangeUpdate ==
  ASSUME NEW f, NEW S, NEW i \in S, f = [j \in S |-> f[j]], NEW x, NEW y, NEW z
  PROVE  [f EXCEPT ![i].pass = x, ![i].start = y, ![i].end = z]
           = [f EXCEPT ![i] = [[[f[i] EXCEPT !.pass = x] EXCEPT !.start = y] EXCEPT !.end = z]]
<1> DEFINE a == [f EXCEPT ![i].pass = x]
           b == [a EXCEPT ![i].start = y]
           c == [b EXCEPT ![i].end = z]
<1>1. [f EXCEPT ![i].pass = x, ![i].start = y, ![i].end = z] = c
  OBVIOUS
<1>2. PICK r : r = [f[i] EXCEPT !.pass = x]
  OBVIOUS
<1>3. a = [f EXCEPT ![i] = r]
  BY <1>2
<1>4. PICK s : s = [r EXCEPT !.start = y]
  OBVIOUS
<1>5. b = [f EXCEPT ![i] = s]
  <2>1. PICK g : g = a
    OBVIOUS
  <2>2. g = [j \in S |-> IF j = i THEN r ELSE f[j]]
    BY <1>3, <2>1
  <2>3. [g EXCEPT ![i].start = y] = [j \in S |-> IF j = i THEN s ELSE f[j]]
    BY <1>4, <2>2
  <2> QED BY <2>1, <2>3
<1>6. PICK t : t = [s EXCEPT !.end = z]
  OBVIOUS
<1>7. c = [f EXCEPT ![i] = t]
  <2>1. PICK g : g = b
    OBVIOUS
  <2>2. g = [j \in S |-> IF j = i THEN s ELSE f[j]]
    BY <1>5, <2>1
  <2>3. [g EXCEPT ![i].end = z] = [j \in S |-> IF j = i THEN t ELSE f[j]]
    BY <1>6, <2>2
  <2> QED BY <2>1, <2>3
<1> HIDE DEF a, b, c
<1> QED BY <1>1, <1>2, <1>4, <1>6, <1>7, Zenon

\* The main thread fills in a worker's pass and range and keeps its counts.
LEMMA CreateCountDoes ==
  ASSUME ContextShape, CreateCount, index \in Workers
  PROVE  /\ ContextShape'
         /\ contexts'[index] = Context(pass, RangeStart(index), RangeEnd(index), Counts(index), PositionsOf(index))
         /\ \A w \in Workers : w # index => contexts'[w] = contexts[w]
<1>0. worker_count' = worker_count
  BY DEF CreateCount, input_vars
<1>1. IsContext(contexts[index])
  BY DEF ContextShape
<1>2. contexts' = [contexts EXCEPT ![index].pass = pass, ![index].start = RangeStart(index),
                                   ![index].end = RangeEnd(index)]
  BY DEF CreateCount
<1>3. contexts' = [contexts EXCEPT ![index] =
                     [[[contexts[index] EXCEPT !.pass = pass] EXCEPT !.start = RangeStart(index)]
                                        EXCEPT !.end = RangeEnd(index)]]
  BY <1>2, RangeUpdate DEF ContextShape
<1>4. [[[contexts[index] EXCEPT !.pass = pass] EXCEPT !.start = RangeStart(index)] EXCEPT !.end = RangeEnd(index)]
        = Context(pass, RangeStart(index), RangeEnd(index), Counts(index), PositionsOf(index))
  BY <1>1, ContextRange DEF Counts, PositionsOf
<1>5. contexts' = [contexts EXCEPT ![index] =
                     Context(pass, RangeStart(index), RangeEnd(index), Counts(index), PositionsOf(index))]
  BY <1>3, <1>4
<1>6. Counts(index) = [d \in Digits |-> Counts(index)[d]] /\ PositionsOf(index) = [d \in Digits |-> PositionsOf(index)[d]]
  BY <1>1 DEF IsContext, Counts, PositionsOf
<1> QED BY <1>0, <1>5, <1>6, ContextUpdate

\* A thread clears its counts.
LEMMA ZeroCountsDoes ==
  ASSUME ContextShape, NEW v \in Workers, ZeroCounts(v)
  PROVE  /\ ContextShape'
         /\ contexts'[v] = Context(contexts[v].pass, contexts[v].start, contexts[v].end,
                                   [d \in Digits |-> 0], PositionsOf(v))
         /\ \A w \in Workers : w # v => contexts'[w] = contexts[w]
<1>0. worker_count' = worker_count
  BY DEF ZeroCounts, input_vars
<1>1. IsContext(contexts[v])
  BY DEF ContextShape
<1> DEFINE z == [d \in Digits |-> 0]
<1>2. contexts' = [contexts EXCEPT ![v].counts = z]
  BY DEF ZeroCounts
<1>3. z = [d \in Digits |-> z[d]]
  OBVIOUS
<1> HIDE DEF z
<1>4. contexts' = [contexts EXCEPT ![v] = [contexts[v] EXCEPT !.counts = z]]
  BY <1>2 DEF ContextShape
<1>5. [contexts[v] EXCEPT !.counts = z]
        = Context(contexts[v].pass, contexts[v].start, contexts[v].end, z, PositionsOf(v))
  BY <1>1, ContextExcept DEF PositionsOf
<1>6. PositionsOf(v) = [d \in Digits |-> PositionsOf(v)[d]]
  BY <1>1 DEF IsContext, PositionsOf
<1>7. contexts' = [contexts EXCEPT ![v] =
                     Context(contexts[v].pass, contexts[v].start, contexts[v].end, z, PositionsOf(v))]
  BY <1>4, <1>5
<1>8. /\ ContextShape'
      /\ contexts'[v] = Context(contexts[v].pass, contexts[v].start, contexts[v].end, z, PositionsOf(v))
      /\ \A w \in Workers : w # v => contexts'[w] = contexts[w]
  BY <1>0, <1>3, <1>6, <1>7, ContextUpdate
<1> QED BY <1>8 DEF z

\* A thread adds one to the count of a digit.
LEMMA CountDoes ==
  ASSUME ContextShape, NEW v \in Workers, Count(v)
  PROVE  /\ ContextShape'
         /\ contexts'[v] = Context(contexts[v].pass, contexts[v].start, contexts[v].end,
                                   [Counts(v) EXCEPT ![ItemDigit(v)] = @ + 1], PositionsOf(v))
         /\ \A w \in Workers : w # v => contexts'[w] = contexts[w]
<1>0. worker_count' = worker_count
  BY DEF Count, input_vars
<1>1. IsContext(contexts[v])
  BY DEF ContextShape
<1>2. PICK k : k = ItemDigit(v)
  OBVIOUS
<1>3. contexts' = [contexts EXCEPT ![v].counts[k] = @ + 1]
  BY <1>2 DEF Count
<1> DEFINE z == [Counts(v) EXCEPT ![k] = @ + 1]
<1>4. Counts(v) = [d \in Digits |-> Counts(v)[d]] /\ PositionsOf(v) = [d \in Digits |-> PositionsOf(v)[d]]
  BY <1>1 DEF IsContext, Counts, PositionsOf
<1>5. z = [d \in Digits |-> z[d]]
  BY <1>4
<1>6. contexts' = [contexts EXCEPT ![v] = [contexts[v] EXCEPT !.counts = z]]
  BY <1>3 DEF ContextShape, Counts
<1> HIDE DEF z
<1>7. [contexts[v] EXCEPT !.counts = z]
        = Context(contexts[v].pass, contexts[v].start, contexts[v].end, z, PositionsOf(v))
  BY <1>1, ContextExcept DEF PositionsOf
<1>8. contexts' = [contexts EXCEPT ![v] =
                     Context(contexts[v].pass, contexts[v].start, contexts[v].end, z, PositionsOf(v))]
  BY <1>6, <1>7
<1>9. /\ ContextShape'
      /\ contexts'[v] = Context(contexts[v].pass, contexts[v].start, contexts[v].end, z, PositionsOf(v))
      /\ \A w \in Workers : w # v => contexts'[w] = contexts[w]
  BY <1>0, <1>4, <1>5, <1>8, ContextUpdate
<1> QED BY <1>2, <1>9 DEF z

\* A thread moves the write position of a digit by one.
LEMMA ScatterDoes ==
  ASSUME ContextShape, NEW v \in Workers, Scatter(v)
  PROVE  /\ ContextShape'
         /\ contexts'[v] = Context(contexts[v].pass, contexts[v].start, contexts[v].end,
                                   Counts(v), [PositionsOf(v) EXCEPT ![ItemDigit(v)] = @ + 1])
         /\ \A w \in Workers : w # v => contexts'[w] = contexts[w]
<1>0. worker_count' = worker_count
  BY DEF Scatter, input_vars
<1>1. IsContext(contexts[v])
  BY DEF ContextShape
<1>2. PICK k : k = ItemDigit(v)
  OBVIOUS
<1>3. contexts' = [contexts EXCEPT ![v].positions[k] = @ + 1]
  BY <1>2 DEF Scatter
<1> DEFINE z == [PositionsOf(v) EXCEPT ![k] = @ + 1]
<1>4. Counts(v) = [d \in Digits |-> Counts(v)[d]] /\ PositionsOf(v) = [d \in Digits |-> PositionsOf(v)[d]]
  BY <1>1 DEF IsContext, Counts, PositionsOf
<1>5. z = [d \in Digits |-> z[d]]
  BY <1>4
<1>6. contexts' = [contexts EXCEPT ![v] = [contexts[v] EXCEPT !.positions = z]]
  BY <1>3 DEF ContextShape, PositionsOf
<1> HIDE DEF z
<1>7. [contexts[v] EXCEPT !.positions = z]
        = Context(contexts[v].pass, contexts[v].start, contexts[v].end, Counts(v), z)
  BY <1>1, ContextExcept DEF Counts
<1>8. contexts' = [contexts EXCEPT ![v] =
                     Context(contexts[v].pass, contexts[v].start, contexts[v].end, Counts(v), z)]
  BY <1>6, <1>7
<1>9. /\ ContextShape'
      /\ contexts'[v] = Context(contexts[v].pass, contexts[v].start, contexts[v].end, Counts(v), z)
      /\ \A w \in Workers : w # v => contexts'[w] = contexts[w]
  BY <1>0, <1>4, <1>5, <1>8, ContextUpdate
<1> QED BY <1>2, <1>9 DEF z

\* The main thread sets the write positions of every worker.
LEMMA PositionsDoes ==
  ASSUME ContextShape, Positions
  PROVE  /\ ContextShape'
         /\ \A w \in Workers :
              contexts'[w] = Context(contexts[w].pass, contexts[w].start, contexts[w].end,
                                     Counts(w), [d \in Digits |-> WritePosition(w, d)])
<1>0. Workers' = Workers
  BY DEF Positions, input_vars, Workers
<1>1. contexts' = [w \in Workers |->
                    [contexts[w] EXCEPT !.positions = [d \in Digits |-> WritePosition(w, d)]]]
  BY DEF Positions
<1>2. ASSUME NEW w \in Workers
      PROVE  /\ contexts'[w] = Context(contexts[w].pass, contexts[w].start, contexts[w].end,
                                       Counts(w), [d \in Digits |-> WritePosition(w, d)])
             /\ IsContext(contexts'[w])
  <2> DEFINE z == [d \in Digits |-> WritePosition(w, d)]
  <2>1. IsContext(contexts[w])
    BY DEF ContextShape
  <2>2. z = [d \in Digits |-> z[d]]
    OBVIOUS
  <2>3. contexts'[w] = [contexts[w] EXCEPT !.positions = z]
    BY <1>1
  <2> HIDE DEF z
  <2>4. contexts'[w] = Context(contexts[w].pass, contexts[w].start, contexts[w].end, Counts(w), z)
    BY <2>1, <2>3, ContextExcept DEF Counts
  <2>5. Counts(w) = [d \in Digits |-> Counts(w)[d]]
    BY <2>1 DEF IsContext, Counts
  <2>6. PICK r : r = contexts'[w]
    OBVIOUS
  <2>7. /\ r.pass = contexts[w].pass /\ r.start = contexts[w].start /\ r.end = contexts[w].end
        /\ r.counts = Counts(w) /\ r.positions = z
    BY <2>4, <2>6, ContextFields
  <2>8. IsContext(r)
    BY <2>2, <2>4, <2>5, <2>6, <2>7 DEF IsContext
  <2> QED BY <2>4, <2>6, <2>8 DEF z
<1>3. contexts' = [w \in Workers |-> contexts'[w]]
  BY <1>1
<1> QED BY <1>0, <1>2, <1>3 DEF ContextShape

-----------------------------------------------------------------------------
(* The algorithms on the arrays *)

\* A write to one entry of one array.
Writes(b, q, x) == arrays' = [arrays EXCEPT ![b][q] = x]

\* It changes this entry and no other.
LEMMA ArrayCell ==
  ASSUME ArrayShape, count' = count, NEW b \in ArrayNames, NEW q \in Indices, NEW x,
         Writes(b, q, x)
  PROVE  /\ ArrayShape'
         /\ \A c \in ArrayNames : c # b => arrays'[c] = arrays[c]
         /\ arrays'[b][q] = x
         /\ \A i \in Indices : i # q => arrays'[b][i] = arrays[b][i]
<1>0. Indices' = Indices
  BY DEF Indices
<1>1. PICK f : f = [arrays[b] EXCEPT ![q] = x]
  OBVIOUS
<1>2. arrays' = [c \in ArrayNames |-> IF c = b THEN f ELSE arrays[c]]
  BY <1>1 DEF ArrayShape, Writes
<1>3. f = [i \in Indices |-> f[i]] /\ f[q] = x /\ \A i \in Indices : i # q => f[i] = arrays[b][i]
  BY <1>1 DEF ArrayShape
<1>4. arrays'[b] = f /\ \A c \in ArrayNames : c # b => arrays'[c] = arrays[c]
  BY <1>2
<1>5. \A c \in ArrayNames : arrays'[c] = [i \in Indices |-> arrays'[c][i]]
  BY <1>3, <1>4 DEF ArrayShape
<1>6. arrays' = [c \in ArrayNames |-> arrays'[c]]
  BY <1>2
<1> QED BY <1>0, <1>3, <1>4, <1>5, <1>6 DEF ArrayShape, ArrayNames

\* A write of one whole array.
LEMMA ArrayWhole ==
  ASSUME ArrayShape, count' = count, NEW b \in ArrayNames, NEW f, f = [i \in Indices |-> f[i]],
         arrays' = [arrays EXCEPT ![b] = f]
  PROVE  /\ ArrayShape'
         /\ arrays'[b] = f
         /\ \A c \in ArrayNames : c # b => arrays'[c] = arrays[c]
<1>0. Indices' = Indices
  BY DEF Indices
<1>2. arrays' = [c \in ArrayNames |-> IF c = b THEN f ELSE arrays[c]]
  BY DEF ArrayShape
<1>4. arrays'[b] = f /\ \A c \in ArrayNames : c # b => arrays'[c] = arrays[c]
  BY <1>2
<1>5. \A c \in ArrayNames : arrays'[c] = [i \in Indices |-> arrays'[c][i]]
  BY <1>4 DEF ArrayShape
<1>6. arrays' = [c \in ArrayNames |-> arrays'[c]]
  BY <1>2
<1> QED BY <1>0, <1>4, <1>5, <1>6 DEF ArrayShape, ArrayNames

\* The two arrays alternate; before the first pass and after the last it is entries that is read.
LEMMA Buffers ==
  /\ Source(0) = "entries" /\ Source(Passes) = "entries"
  /\ \A p \in 0 .. Passes : /\ Source(p) \in ArrayNames /\ Destination(p) \in ArrayNames
                            /\ Source(p) # Destination(p) /\ Source(p + 1) = Destination(p)
  BY SortAssumption DEF Source, Destination, ArrayNames

(* Before the first pass the given order is all there is. *)
LEMMA ArrangedFirst ==
  ASSUME NEW n \in Nat, NEW inp, NEW a, Given(n, inp), \A i \in 0 .. n - 1 : a[i] = inp[i]
  PROVE  SameEntries(n, inp, a) /\ Arranged(n, inp, a, 0)
<1>1. SameEntries(n, inp, a)
  BY DEF SameEntries
<1>2. ASSUME NEW i \in 0 .. n - 1, NEW j \in 0 .. n - 1, i < j PROVE LowBefore(a[i], a[j], 0)
  <2>1. HashOf(a[i]) \in Nat /\ HashOf(a[j]) \in Nat
    BY <1>1, EntryFacts
  <2>2. Low(HashOf(a[i]), 0) = 0 /\ Low(HashOf(a[j]), 0) = 0
    BY <2>1, LowEnds
  <2>3. IdOf(a[i]) = i /\ IdOf(a[j]) = j
    BY DEF Given
  <2> QED BY <1>2, <2>2, <2>3 DEF LowBefore
<1> QED BY <1>1, <1>2 DEF Arranged

\* What a sort that succeeds leaves.
Ordered ==
    /\ \A i, j \in Indices : i < j => Before(arrays["entries"][i], arrays["entries"][j])
    /\ {arrays["entries"][i] : i \in Indices} = {input[i] : i \in Indices}

Precedes(x, y) == HashOf(x) < HashOf(y) \/ (HashOf(x) = HashOf(y) /\ IdOf(x) < IdOf(y))

\* Entries in order, none lost, is the order the sort promises.
LEMMA OrderedIs ==
  ASSUME count \in Nat, SameEntries(count, input, arrays["entries"]),
         \A i, j \in 0 .. count - 1 : i < j => Precedes(arrays["entries"][i], arrays["entries"][j])
  PROVE  Ordered
<1> DEFINE a == arrays["entries"]
<1>1. ASSUME NEW i \in Indices, NEW j \in Indices, i < j
      PROVE  Before(a[i], a[j])
  <2>1. Precedes(a[i], a[j])
    BY <1>1 DEF Indices
  <2> QED BY <2>1, Zenon DEF Before, Precedes, HashOf, IdOf
<1>2. {a[i] : i \in Indices} = {input[i] : i \in Indices}
  <2>1. \A i \in Indices : \E j \in Indices : a[i] = input[j]
    BY DEF SameEntries, Indices
  <2>2. \A j \in Indices : \E i \in Indices : a[i] = input[j]
    BY DEF SameEntries, Indices
  <2> HIDE DEF a
  <2> QED BY <2>1, <2>2
<1> QED BY <1>1, <1>2, Zenon DEF Ordered

(* After the last pass the low digits are all of the hash. *)
LEMMA ArrangedLast ==
  ASSUME count \in Nat, Given(count, input), Arranged(count, input, arrays["entries"], Passes)
  PROVE  Ordered
<1>1. SameEntries(count, input, arrays["entries"])
  BY DEF Arranged
<1>2. ASSUME NEW i \in 0 .. count - 1, NEW j \in 0 .. count - 1, i < j
      PROVE  Precedes(arrays["entries"][i], arrays["entries"][j])
  <2>1. PICK x, y : x = arrays["entries"][i] /\ y = arrays["entries"][j]
    OBVIOUS
  <2>2. HashOf(x) \in Hashes /\ HashOf(y) \in Hashes
    BY <1>1, <2>1, EntryFacts
  <2>3. LowBefore(x, y, Passes)
    BY <1>2, <2>1 DEF Arranged
  <2>4. Low(HashOf(x), Passes) = HashOf(x) /\ Low(HashOf(y), Passes) = HashOf(y)
    BY <2>2, LowEnds
  <2>5. Precedes(x, y)
    BY <2>3, <2>4 DEF LowBefore, Precedes
  <2> QED BY <2>1, <2>5
<1> QED BY <1>1, <1>2, OrderedIs

-----------------------------------------------------------------------------
(* Insertion *)

\* The first x entries are in order, the others as given.
Inserted(n, inp, a, x) ==
    /\ x \in 1 .. n
    /\ SameEntries(n, inp, a)
    /\ \A j \in x .. n - 1 : a[j] = inp[j]
    /\ \A i \in 0 .. x - 1 : IdOf(a[i]) < x
    /\ \A i, j \in 0 .. x - 1 : i < j => Precedes(a[i], a[j])

\* Where the entry e goes among the first x.
Fits(a, x, e, s) ==
    /\ s > 0 => HashOf(a[s - 1]) <= HashOf(e)
    /\ \A k \in s .. x - 1 : HashOf(a[k]) > HashOf(e)

\* A pivot has a place in the sorted prefix.
LEMMA SlotExists ==
  ASSUME NEW n \in Nat, NEW x \in 0 .. n, NEW a, NEW e, HashOf(e) \in Nat,
         \A i \in 0 .. n - 1 : HashOf(a[i]) \in Nat
  PROVE  \E s \in 0 .. x : Fits(a, x, e, s)
<1> DEFINE T == {y \in 0 .. x : \E s \in 0 .. y : Fits(a, y, e, s)}
<1>1. 0 \in T
  <2>1. Fits(a, 0, e, 0)
    BY DEF Fits
  <2> QED BY <2>1
<1>2. ASSUME NEW y \in 1 .. x, y - 1 \in T PROVE y \in T
  <2>0. HashOf(a[y - 1]) \in Nat
    OBVIOUS
  <2>1. CASE HashOf(a[y - 1]) <= HashOf(e)
    <3>1. Fits(a, y, e, y)
      BY <2>1 DEF Fits
    <3> QED BY <3>1
  <2>2. CASE HashOf(a[y - 1]) > HashOf(e)
    <3>1. PICK s \in 0 .. y - 1 : Fits(a, y - 1, e, s)
      BY <1>2
    <3>2. \A k \in s .. y - 1 : k = y - 1 \/ k \in s .. (y - 1) - 1
      OBVIOUS
    <3>3. Fits(a, y, e, s)
      BY <2>2, <3>1, <3>2 DEF Fits
    <3> QED BY <3>1, <3>3
  <2> QED BY <2>0, <2>1, <2>2
<1> HIDE DEF T
<1>3. \A y \in 0 .. x : y \in T
  BY <1>1, <1>2, UpTo
<1>4. x \in T
  BY <1>3
<1> QED BY <1>4 DEF T

\* Inserting the pivot at its place makes the sorted prefix longer by one.
LEMMA InsertSorts ==
  ASSUME NEW n \in Nat, NEW inp, NEW a, NEW b, NEW x, Given(n, inp), Inserted(n, inp, a, x), x < n,
         NEW s \in 0 .. x, Fits(a, x, a[x], s),
         \A i \in 0 .. n - 1 : b[i] = IF i > x \/ i < s THEN a[i] ELSE IF i = s THEN a[x] ELSE a[i - 1]
  PROVE  Inserted(n, inp, b, x + 1)
<1>0. x \in 1 .. n /\ x + 1 \in 1 .. n /\ x \in 0 .. n - 1 /\ SameEntries(n, inp, a)
  BY DEF Inserted
<1>1. a[x] = inp[x] /\ IdOf(a[x]) = x
  BY <1>0 DEF Inserted, Given
<1>2. \A i \in 0 .. n - 1 : HashOf(a[i]) \in Nat /\ IdOf(a[i]) \in 0 .. n - 1
  BY <1>0, EntryFacts
<1>3. /\ \A i \in 0 .. n - 1 : (i > x \/ i < s) => b[i] = a[i]
      /\ b[s] = a[x]
      /\ \A i \in s + 1 .. x : b[i] = a[i - 1]
  BY <1>0
<1>4. SameEntries(n, inp, b)
  <2>1. ASSUME NEW i \in 0 .. n - 1 PROVE \E j \in 0 .. n - 1 : b[i] = inp[j]
    <3>1. \E k \in 0 .. n - 1 : b[i] = a[k]
      <4>1. CASE i > x \/ i < s
        BY <1>3, <4>1
      <4>2. CASE i = s
        BY <1>0, <1>3, <4>2
      <4>3. CASE i \in s + 1 .. x
        <5>1. i - 1 \in 0 .. n - 1 /\ b[i] = a[i - 1]
          BY <1>3, <4>3
        <5> QED BY <5>1
      <4> QED BY <1>0, <4>1, <4>2, <4>3
    <3> QED BY <1>0, <3>1 DEF SameEntries
  <2>2. ASSUME NEW j \in 0 .. n - 1 PROVE \E i \in 0 .. n - 1 : b[i] = inp[j]
    <3>1. PICK k \in 0 .. n - 1 : a[k] = inp[j]
      BY <1>0 DEF SameEntries
    <3>2. CASE k > x \/ k < s
      BY <1>3, <3>1, <3>2
    <3>3. CASE k = x
      BY <1>0, <1>3, <3>1, <3>3
    <3>4. CASE k \in s .. x - 1
      <4>1. k + 1 \in s + 1 .. x /\ k + 1 \in 0 .. n - 1 /\ (k + 1) - 1 = k
        BY <1>0, <3>4
      <4>2. b[k + 1] = a[k]
        BY <1>3, <4>1
      <4> QED BY <3>1, <4>1, <4>2
    <3> QED BY <1>0, <3>2, <3>3, <3>4
  <2> QED BY <2>1, <2>2 DEF SameEntries
<1>5. \A j \in x + 1 .. n - 1 : b[j] = inp[j]
  <2>1. \A j \in x + 1 .. n - 1 : j \in x .. n - 1 /\ j > x /\ j \in 0 .. n - 1
    BY <1>0
  <2> QED BY <1>3, <2>1 DEF Inserted
<1>6. ASSUME NEW i \in 0 .. (x + 1) - 1 PROVE IdOf(b[i]) < x + 1
  <2>1. \A k \in 0 .. x - 1 : IdOf(a[k]) < x
    BY DEF Inserted
  <2>2. CASE i < s
    <3>1. i \in 0 .. x - 1 /\ i \in 0 .. n - 1
      BY <1>0, <2>2
    <3>2. b[i] = a[i] /\ IdOf(a[i]) < x /\ IdOf(a[i]) \in Int
      BY <1>2, <1>3, <2>1, <2>2, <3>1
    <3> QED BY <1>0, <3>2
  <2>3. CASE i = s
    BY <1>0, <1>1, <1>3, <2>3
  <2>4. CASE i \in s + 1 .. x
    <3>1. i - 1 \in 0 .. x - 1 /\ i - 1 \in 0 .. n - 1
      BY <1>0, <2>4
    <3>2. b[i] = a[i - 1] /\ IdOf(a[i - 1]) < x /\ IdOf(a[i - 1]) \in Int
      BY <1>2, <1>3, <2>1, <2>4, <3>1
    <3> QED BY <1>0, <3>2
  <2> QED BY <1>0, <2>2, <2>3, <2>4
<1>7. ASSUME NEW i \in 0 .. (x + 1) - 1, NEW j \in 0 .. (x + 1) - 1, i < j PROVE Precedes(b[i], b[j])
  <2>0. i \in 0 .. n - 1 /\ j \in 0 .. n - 1 /\ i \in 0 .. x - 1
    BY <1>0, <1>7
  <2>1. \A k, l \in 0 .. x - 1 : k < l => Precedes(a[k], a[l])
    BY DEF Inserted
  <2>2. \A k \in 0 .. x - 1 : IdOf(a[k]) < x
    BY DEF Inserted
  <2>3. CASE j < s
    BY <1>0, <1>3, <1>7, <2>0, <2>1, <2>3
  <2>4. CASE j = s
    <3>1. b[i] = a[i] /\ b[j] = a[x]
      BY <1>3, <1>7, <2>0, <2>4
    <3>2. s - 1 \in 0 .. x - 1 /\ s > 0 /\ (i = s - 1 \/ i < s - 1)
      BY <1>0, <1>7, <2>0, <2>4
    <3>3. HashOf(a[s - 1]) <= HashOf(a[x])
      BY <3>2 DEF Fits
    <3>4. HashOf(a[i]) \in Nat /\ HashOf(a[s - 1]) \in Nat /\ HashOf(a[x]) \in Nat
      BY <1>0, <1>2, <2>0, <3>2
    <3>5. HashOf(a[i]) <= HashOf(a[s - 1])
      <4>1. CASE i = s - 1
        BY <3>4, <4>1
      <4>2. CASE i < s - 1
        BY <2>0, <2>1, <3>2, <3>4, <4>2 DEF Precedes
      <4> QED BY <3>2, <4>1, <4>2
    <3>6. IdOf(a[i]) < IdOf(a[x])
      BY <1>1, <2>0, <2>2
    <3> QED BY <3>1, <3>3, <3>4, <3>5, <3>6 DEF Precedes
  <2>5. CASE j > s
    <3>1. j \in s + 1 .. x /\ j - 1 \in 0 .. x - 1 /\ j - 1 \in s .. x - 1
      BY <1>0, <2>5
    <3>2. b[j] = a[j - 1]
      BY <1>3, <3>1
    <3>3. CASE i < s
      <4>1. b[i] = a[i] /\ i < j - 1
        BY <1>3, <2>0, <2>5, <3>3
      <4> QED BY <2>0, <2>1, <3>1, <3>2, <4>1
    <3>4. CASE i = s
      <4>1. HashOf(a[j - 1]) > HashOf(a[x])
        BY <3>1 DEF Fits
      <4>2. HashOf(a[j - 1]) \in Nat /\ HashOf(a[x]) \in Nat
        BY <1>0, <1>2, <3>1
      <4> QED BY <1>3, <3>2, <3>4, <4>1, <4>2 DEF Precedes
    <3>5. CASE i > s
      <4>1. i \in s + 1 .. x /\ i - 1 \in 0 .. x - 1 /\ i - 1 < j - 1
        BY <1>0, <1>7, <2>0, <3>5
      <4>2. b[i] = a[i - 1]
        BY <1>3, <4>1
      <4> QED BY <2>1, <3>1, <3>2, <4>1, <4>2
    <3> QED BY <3>3, <3>4, <3>5
  <2> QED BY <2>3, <2>4, <2>5
<1> QED BY <1>0, <1>4, <1>5, <1>6, <1>7 DEF Inserted

-----------------------------------------------------------------------------
(* The invariant of the sort *)

Src == arrays[Source(pass)]
Dst == arrays[Destination(pass)]
Keys == DigitsAt(count, Src, pass)

Counted(c, g, x, y) == \A d \in Digits : c[d] = HitCount(g, x, y, d)
Moved(o, g, n, y) == \A d \in Digits : o[d] = From(g, n, y, d)

\* Worker w has counted its chunk; it has scattered its entries before y.
ChunkCounted(w) == Told(w) /\ Counted(Counts(w), Keys, Chunk(w), Chunk(w + 1))
Scattered(w, y) ==
    /\ Told(w)
    /\ Moved(PositionsOf(w), Keys, count, y)
    /\ Placed(count, Keys, Src, Dst, Chunk(w), y)

Running(w) ==
    /\ State(w) # "none" => Told(w)
    /\ State(w) = "count" =>
          NextOf(w) \in Chunk(w) .. Chunk(w + 1) /\ Counted(Counts(w), Keys, Chunk(w), NextOf(w))
    /\ State(w) = "scatter" => NextOf(w) \in Chunk(w) .. Chunk(w + 1) /\ Scattered(w, NextOf(w))

\* What the place of the main thread says of the work of w.
Worked(w) ==
    /\ (pc \in {"create_count", "join_count"} /\ State(w) # "none") =>
          State(w) \in {"zero", "count", "done"} /\ (State(w) = "done" => ChunkCounted(w))
    /\ (pc \in {"create_scatter", "join_scatter"} /\ State(w) # "none") =>
          State(w) \in {"scatter", "done"} /\ (State(w) = "done" => Scattered(w, Chunk(w + 1)))
    /\ ((pc = "join_count" /\ w < index) \/ pc = "positions") => ChunkCounted(w)
    /\ (pc = "create_scatter" /\ w >= index) => Scattered(w, Chunk(w))
    /\ ((pc = "join_scatter" /\ w < index) \/ pc = "next_pass") => Scattered(w, Chunk(w + 1))

Sizes == count \in Nat /\ worker_count \in Nat /\ pass \in 0 .. Passes /\ Given(count, input)

Progress ==
    /\ pc = "start" => pass = 0 /\ \A i \in 0 .. count - 1 : arrays["entries"][i] = input[i]
    /\ pc = "insertion" => Inserted(count, input, arrays["entries"], index)
    /\ pc \in Parallel \cup {"serial"} => Arranged(count, input, Src, pass)
    /\ pc \in Parallel => pass < Passes /\ worker_count > 0
    /\ pc \in {"join_count", "join_scatter"} => index < worker_count
    /\ pc # "returned" => error = "none"
    /\ error = "ok" => Ordered

SortInv ==
    /\ Sizes
    /\ ArrayShape
    /\ ContextShape
    /\ Progress
    /\ \A w \in Workers : Running(w) /\ Worked(w)

\* The digits of the current pass.
LEMMA KeysKnown ==
  ASSUME Sizes, Arranged(count, input, Src, pass)
  PROVE  /\ Digital(Keys, count)
         /\ \A i \in 0 .. count - 1 : Keys[i] \in Digits /\ Keys[i] = DigitOf(HashOf(Src[i]), pass)
<1>1. PICK a : a = Src
  OBVIOUS
<1>2. SameEntries(count, input, a) /\ count \in Nat /\ pass \in 0 .. Passes /\ Given(count, input)
  BY <1>1 DEF Arranged, Sizes
<1>3. /\ Digital(DigitsAt(count, a, pass), count)
      /\ \A i \in 0 .. count - 1 : /\ DigitsAt(count, a, pass)[i] = DigitOf(HashOf(a[i]), pass)
                                   /\ DigitsAt(count, a, pass)[i] \in Digits
  BY <1>2, DigitsKnown
<1> QED BY <1>1, <1>3 DEF Keys

\* The chunks of the workers, in the state of the sort.
LEMMA Chunks ==
  ASSUME Sizes, worker_count > 0
  PROVE  /\ Chunk(0) = 0 /\ Chunk(worker_count) = count
         /\ \A w \in Workers : /\ w \in 0 .. worker_count /\ w + 1 \in 0 .. worker_count
                               /\ Chunk(w) \in 0 .. count /\ Chunk(w + 1) \in 0 .. count
                               /\ Chunk(w) <= Chunk(w + 1)
                               /\ RangeStart(w) = Chunk(w) /\ RangeEnd(w) = Chunk(w + 1)
         /\ \A v, w \in Workers : v < w => Chunk(v + 1) <= Chunk(w)
<1>0. count \in Nat /\ worker_count \in Nat
  BY DEF Sizes
<1>1. PICK k \in Nat : k = worker_count /\ k > 0
  BY <1>0
<1>2. /\ Part(count, k, 0) = 0 /\ Part(count, k, k) = count
      /\ \A v \in 0 .. k : Part(count, k, v) \in 0 .. count
      /\ \A u, v \in 0 .. k : u <= v => Part(count, k, u) <= Part(count, k, v)
  BY <1>0, <1>1, Parts
<1>3. \A v : Chunk(v) = Part(count, k, v)
  BY <1>1 DEF Chunk
<1>4. \A w \in Workers : w \in 0 .. k /\ w + 1 \in 0 .. k /\ w <= w + 1
  BY <1>1 DEF Workers
<1>5. \A v, w \in Workers : v < w => v + 1 <= w
  BY <1>1 DEF Workers
<1>6. \A w \in Workers : RangeStart(w) = Chunk(w) /\ RangeEnd(w) = Chunk(w + 1)
  BY <1>0, Ranges DEF Chunk
<1> QED BY <1>1, <1>2, <1>3, <1>4, <1>5, <1>6

(* What a step leaves alone of a worker's part. *)
LEMMA KeptWork ==
  ASSUME Sizes, NEW w \in Workers, UNCHANGED <<count, worker_count, pass>>, Src' = Src,
         contexts'[w] = contexts[w],
         \A y \in 0 .. count : Placed(count, Keys, Src, Dst, Chunk(w), y) => Placed(count, Keys, Src, Dst', Chunk(w), y)
  PROVE  /\ Keys' = Keys /\ Told(w)' = Told(w) /\ Counts(w)' = Counts(w)
         /\ Chunk(w)' = Chunk(w) /\ Chunk(w + 1)' = Chunk(w + 1)
         /\ ChunkCounted(w) => ChunkCounted(w)'
         /\ \A y \in 0 .. count :
               /\ Told(w) /\ Moved(PositionsOf(w), Keys, count, y) /\ Placed(count, Keys, Src, Dst, Chunk(w), y)
               => /\ Told(w)' /\ Moved(PositionsOf(w)', Keys', count', y)
                  /\ Placed(count', Keys', Src', Dst', Chunk(w)', y)
         /\ Scattered(w, Chunk(w)) => Scattered(w, Chunk(w))'
         /\ Scattered(w, Chunk(w + 1)) => Scattered(w, Chunk(w + 1))'
<1>0. Chunk(w) \in 0 .. count /\ Chunk(w + 1) \in 0 .. count
  <2>1. worker_count > 0
    BY DEF Sizes, Workers
  <2> QED BY <2>1, Chunks
<1>1. /\ Counts(w)' = Counts(w)
      /\ PositionsOf(w)' = PositionsOf(w) /\ Chunk(w)' = Chunk(w) /\ Chunk(w + 1)' = Chunk(w + 1)
  BY DEF Counts, PositionsOf, Chunk
<1>2. Keys' = Keys
  BY DEF Keys
<1>3. Told(w)' = Told(w)
  BY <1>1, Zenon DEF Told
<1>4. ChunkCounted(w) => ChunkCounted(w)'
  BY <1>1, <1>2, <1>3, Zenon DEF ChunkCounted
<1>5. ASSUME NEW y \in 0 .. count, Told(w), Moved(PositionsOf(w), Keys, count, y),
             Placed(count, Keys, Src, Dst, Chunk(w), y)
      PROVE  Told(w)' /\ Moved(PositionsOf(w)', Keys', count', y) /\ Placed(count', Keys', Src', Dst', Chunk(w)', y)
  <2>1. Placed(count, Keys, Src, Dst', Chunk(w), y)
    BY <1>5
  <2> QED BY <1>1, <1>2, <1>3, <1>5, <2>1, Zenon
<1>6. Scattered(w, Chunk(w)) => Scattered(w, Chunk(w))'
  BY <1>0, <1>1, <1>5, Zenon DEF Scattered
<1>7. Scattered(w, Chunk(w + 1)) => Scattered(w, Chunk(w + 1))'
  BY <1>0, <1>1, <1>5, Zenon DEF Scattered
<1> QED BY <1>1, <1>2, <1>3, <1>4, <1>5, <1>6, <1>7

\* A step that leaves a worker's thread and context alone keeps what it has done.
LEMMA KeptParts ==
  ASSUME Sizes, NEW w \in Workers, UNCHANGED <<count, worker_count, pass>>, Src' = Src,
         contexts'[w] = contexts[w], threads'[w] = threads[w],
         \A y \in 0 .. count : Placed(count, Keys, Src, Dst, Chunk(w), y) => Placed(count, Keys, Src, Dst', Chunk(w), y)
  PROVE  /\ State(w)' = State(w)
         /\ Running(w) => Running(w)'
<1>1. State(w)' = State(w) /\ NextOf(w)' = NextOf(w)
  BY DEF State, NextOf
<1>2. /\ Keys' = Keys /\ Told(w)' = Told(w) /\ Counts(w)' = Counts(w)
      /\ Chunk(w)' = Chunk(w) /\ Chunk(w + 1)' = Chunk(w + 1)
      /\ \A y \in 0 .. count :
            /\ Told(w) /\ Moved(PositionsOf(w), Keys, count, y) /\ Placed(count, Keys, Src, Dst, Chunk(w), y)
            => /\ Told(w)' /\ Moved(PositionsOf(w)', Keys', count', y)
               /\ Placed(count', Keys', Src', Dst', Chunk(w)', y)
  BY KeptWork
<1>3. Running(w) /\ State(w) = "scatter" => NextOf(w) \in 0 .. count /\ Scattered(w, NextOf(w))
  <2>1. worker_count > 0
    BY DEF Sizes, Workers
  <2>2. Chunk(w) \in 0 .. count /\ Chunk(w + 1) \in 0 .. count
    BY <2>1, Chunks
  <2> QED BY <2>2 DEF Running, Sizes
<1>4. Running(w) /\ State(w) = "scatter" => Scattered(w, NextOf(w))'
  BY <1>1, <1>2, <1>3, Zenon DEF Scattered
<1>5. Counted(Counts(w), Keys, Chunk(w), NextOf(w)) => Counted(Counts(w), Keys, Chunk(w), NextOf(w))'
  BY <1>1, <1>2, Zenon
<1>6. Running(w) => Running(w)'
  BY <1>1, <1>2, <1>4, <1>5, Zenon DEF Running
<1> QED BY <1>1, <1>6

\* So it keeps the worker's part of the invariant.
LEMMA Kept ==
  ASSUME Sizes, NEW w \in Workers, UNCHANGED <<count, worker_count, pass, pc, index>>, Src' = Src,
         contexts'[w] = contexts[w], threads'[w] = threads[w],
         \A y \in 0 .. count : Placed(count, Keys, Src, Dst, Chunk(w), y) => Placed(count, Keys, Src, Dst', Chunk(w), y),
         Running(w), Worked(w)
  PROVE  Running(w)' /\ Worked(w)'
<1>1. /\ State(w)' = State(w)
      /\ Running(w) => Running(w)'
      /\ ChunkCounted(w) => ChunkCounted(w)'
      /\ Scattered(w, Chunk(w)) => Scattered(w, Chunk(w))'
      /\ Scattered(w, Chunk(w + 1)) => Scattered(w, Chunk(w + 1))'
  BY KeptWork, KeptParts
<1>2. Worked(w)'
  BY <1>1, Zenon DEF Worked
<1> QED BY <1>1, <1>2

-----------------------------------------------------------------------------
(* The threads *)

\* Where the main thread is while thread v exists.
LEMMA AtWork ==
  ASSUME LifeInv, NEW v \in Workers, State(v) # "none"
  PROVE  /\ pc \in Parallel /\ pc \notin {"positions", "next_pass"}
         /\ pc \in {"create_count", "create_scatter"} => ~(v >= index)
         /\ pc \in {"join_count", "join_scatter"} => ~(v < index)
<1>1. v \in MayExist
  BY DEF LifeInv, Threads, State
<1>2. index \in Nat /\ worker_count \in Nat
  BY DEF LifeInv, Shape
<1>3. v \in Int
  BY <1>2 DEF Workers
<1> QED BY <1>1, <1>2, <1>3 DEF MayExist, Parallel

\* A step that sets one thread.
LEMMA ThreadSet ==
  ASSUME Shape, NEW v \in Workers, NEW s, NEW n, threads' = [threads EXCEPT ![v] = [state |-> s, next |-> n]]
  PROVE  /\ State(v)' = s /\ NextOf(v)' = n
         /\ \A w \in Workers : w # v => threads'[w] = threads[w]
<1>1. threads'[v] = [state |-> s, next |-> n] /\ \A w \in Workers : w # v => threads'[w] = threads[w]
  BY DEF Shape
<1> QED BY <1>1 DEF State, NextOf

(* The entry and the digit a running thread handles next. *)
LEMMA ItemIs ==
  ASSUME Sizes, Arranged(count, input, Src, pass), NEW v \in Workers, Told(v), NextOf(v) \in 0 .. count - 1
  PROVE  Item(v) = Src[NextOf(v)] /\ ItemDigit(v) = Keys[NextOf(v)] /\ Keys[NextOf(v)] \in Digits
<1>1. contexts[v].pass = pass
  BY DEF Told
<1>2. Item(v) = Src[NextOf(v)]
  BY <1>1, Zenon DEF Item, NextOf, Src
<1>3. ItemDigit(v) = DigitOf(HashOf(Item(v)), pass)
  BY <1>1, Zenon DEF ItemDigit, Digit, DigitOf, HashOf
<1>4. Keys[NextOf(v)] \in Digits /\ Keys[NextOf(v)] = DigitOf(HashOf(Src[NextOf(v)]), pass)
  BY KeysKnown
<1> QED BY <1>2, <1>3, <1>4, Zenon

(* A thread that runs finds its context filled in, and entries to sort.    *)
LEMMA RunFacts ==
  ASSUME LifeInv, SortInv, NEW v \in Workers, State(v) # "none"
  PROVE  /\ Sizes /\ Shape /\ ContextShape /\ ArrayShape
         /\ Told(v) /\ Running(v) /\ Worked(v)
         /\ Arranged(count, input, Src, pass) /\ pass < Passes /\ worker_count > 0
         /\ Chunk(v) \in 0 .. count /\ Chunk(v + 1) \in 0 .. count /\ Chunk(v) <= Chunk(v + 1)
         /\ pc \in Parallel
<1>1. pc \in Parallel
  BY AtWork
<1>2. Sizes /\ Shape /\ ContextShape /\ ArrayShape /\ Running(v) /\ Worked(v) /\ Progress
  BY DEF SortInv, LifeInv
<1>3. Told(v)
  BY <1>2 DEF Running
<1>4. Arranged(count, input, Src, pass) /\ pass < Passes /\ worker_count > 0
  BY <1>1, <1>2 DEF Progress
<1>5. Chunk(v) \in 0 .. count /\ Chunk(v + 1) \in 0 .. count /\ Chunk(v) <= Chunk(v + 1)
  BY <1>2, <1>4, Chunks
<1> QED BY <1>1, <1>2, <1>3, <1>4, <1>5

(* A step of thread v that keeps the entries, the other workers and its    *)
(* own part of the invariant keeps the invariant.                          *)
LEMMA ThreadKeeps ==
  ASSUME LifeInv, SortInv, NEW v \in Workers, State(v) # "none",
         UNCHANGED <<input_vars, main>>, ContextShape', ArrayShape', Src' = Src,
         \A w \in Workers : w # v => contexts'[w] = contexts[w] /\ threads'[w] = threads[w],
         \A w \in Workers, y \in 0 .. count : Placed(count, Keys, Src, Dst, Chunk(w), y)
                                 => Placed(count, Keys, Src, Dst', Chunk(w), y),
         Running(v)', Worked(v)'
  PROVE  SortInv'
<1>1. UNCHANGED <<count, worker_count, input, pass, pc, index, error>>
  BY DEF input_vars, main
<1>2. Workers' = Workers
  BY <1>1 DEF Workers
<1>3. ASSUME NEW w \in Workers PROVE Running(w)' /\ Worked(w)'
  <2>1. CASE w = v
    BY <2>1
  <2>2. CASE w # v
    <3>1. Running(w) /\ Worked(w)
      BY DEF SortInv
    <3>2. contexts'[w] = contexts[w] /\ threads'[w] = threads[w]
      BY <2>2
    <3>3. \A y \in 0 .. count : Placed(count, Keys, Src, Dst, Chunk(w), y) => Placed(count, Keys, Src, Dst', Chunk(w), y)
      OBVIOUS
    <3>4. Sizes
      BY DEF SortInv
    <3> QED BY <1>1, <3>1, <3>2, <3>3, <3>4, Kept
  <2> QED BY <2>1, <2>2
<1>4. Sizes'
  BY <1>1, Zenon DEF SortInv, Sizes
<1>5. pc \in Parallel /\ Progress /\ error = "none"
  BY AtWork DEF SortInv, Progress, Parallel
<1>6. Progress'
  BY <1>1, <1>5 DEF Progress, Parallel
<1> QED BY <1>2, <1>3, <1>4, <1>6 DEF SortInv

\* A thread clears its counts and has counted nothing yet.
LEMMA ZeroStep ==
  ASSUME LifeInv, SortInv, NEW v \in Workers, ZeroCounts(v)
  PROVE  SortInv'
<1>0. State(v) = "zero" /\ State(v) # "none" /\ UNCHANGED <<input_vars, main, arrays>>
  BY DEF ZeroCounts, State
<1>1. UNCHANGED <<count, worker_count, pass, pc, index>>
  BY <1>0 DEF input_vars, main
<1>2. /\ Sizes /\ Shape /\ ContextShape /\ ArrayShape /\ Told(v) /\ Worked(v)
      /\ Chunk(v) \in 0 .. count /\ Chunk(v + 1) \in 0 .. count /\ Chunk(v) <= Chunk(v + 1)
  BY <1>0, RunFacts
<1>3. /\ ContextShape'
      /\ contexts'[v] = Context(contexts[v].pass, contexts[v].start, contexts[v].end,
                                [d \in Digits |-> 0], PositionsOf(v))
      /\ \A w \in Workers : w # v => contexts'[w] = contexts[w]
  BY <1>2, ZeroCountsDoes
<1>4. /\ State(v)' = "count" /\ NextOf(v)' = contexts[v].start
      /\ \A w \in Workers : w # v => threads'[w] = threads[w]
  BY <1>2, ThreadSet DEF ZeroCounts
<1>5. ArrayShape' /\ Src' = Src /\ Dst' = Dst /\ Keys' = Keys
  BY <1>0, <1>1, <1>2 DEF ArrayShape, Src, Dst, Keys, Indices
<1>6. Chunk(v)' = Chunk(v) /\ Chunk(v + 1)' = Chunk(v + 1)
  BY <1>1 DEF Chunk
<1>7. Told(v)' /\ Counts(v)' = [d \in Digits |-> 0]
  <2>1. /\ contexts'[v].pass = contexts[v].pass /\ contexts'[v].start = contexts[v].start
        /\ contexts'[v].end = contexts[v].end /\ contexts'[v].counts = [d \in Digits |-> 0]
    BY <1>3, ContextFields
  <2> QED BY <1>1, <1>2, <1>6, <2>1 DEF Told, Counts
<1>8. NextOf(v)' = Chunk(v)
  BY <1>2, <1>4 DEF Told
<1>9. Counted(Counts(v)', Keys', Chunk(v)', NextOf(v)')
  <2>1. \A d : HitCount(Keys, Chunk(v), Chunk(v), d) = 0
    BY <1>2, HitNone
  <2> QED BY <1>5, <1>6, <1>7, <1>8, <2>1 DEF Counted
<1>10. NextOf(v)' \in Chunk(v)' .. Chunk(v + 1)'
  BY <1>2, <1>6, <1>8 DEF Sizes
<1>11. Running(v)'
  BY <1>4, <1>7, <1>9, <1>10 DEF Running
<1>12. Worked(v)'
  BY <1>0, <1>1, <1>2, <1>4, AtWork DEF Worked
<1>13. \A w \in Workers, y \in 0 .. count : Placed(count, Keys, Src, Dst, Chunk(w), y)
                               => Placed(count, Keys, Src, Dst', Chunk(w), y)
  BY <1>5
<1>14. \A w \in Workers : w # v => contexts'[w] = contexts[w] /\ threads'[w] = threads[w]
  BY <1>3, <1>4
<1> QED BY <1>0, <1>3, <1>5, <1>11, <1>12, <1>13, <1>14, ThreadKeeps

(* The thread's index after one more entry. *)
LEMMA NextIs ==
  ASSUME Shape, NEW v \in Workers, threads' = [threads EXCEPT ![v].next = @ + 1]
  PROVE  threads' = [threads EXCEPT ![v] = [state |-> State(v), next |-> NextOf(v) + 1]]
<1>1. threads[v] = [state |-> threads[v].state, next |-> threads[v].next]
  BY DEF Shape
<1>2. threads' = [threads EXCEPT ![v] = [threads[v] EXCEPT !.next = threads[v].next + 1]]
  BY DEF Shape
<1>3. [threads[v] EXCEPT !.next = threads[v].next + 1] = [state |-> threads[v].state, next |-> threads[v].next + 1]
  BY <1>1, FieldUpdate
<1>4. threads' = [threads EXCEPT ![v] = [state |-> threads[v].state, next |-> threads[v].next + 1]]
  BY <1>2, <1>3
<1> QED BY <1>4, Zenon DEF State, NextOf

\* A thread counts one entry of its chunk.
LEMMA CountStep ==
  ASSUME LifeInv, SortInv, NEW v \in Workers, Count(v)
  PROVE  SortInv'
<1>0. State(v) = "count" /\ State(v) # "none" /\ UNCHANGED <<input_vars, main, arrays>>
  BY DEF Count, State
<1>1. UNCHANGED <<count, worker_count, pass, pc, index>>
  BY <1>0 DEF input_vars, main
<1>2. /\ Sizes /\ Shape /\ ContextShape /\ ArrayShape /\ Told(v) /\ Running(v) /\ Worked(v)
      /\ Arranged(count, input, Src, pass)
      /\ Chunk(v) \in 0 .. count /\ Chunk(v + 1) \in 0 .. count /\ Chunk(v) <= Chunk(v + 1)
  BY <1>0, RunFacts
<1>3. /\ ContextShape'
      /\ contexts'[v] = Context(contexts[v].pass, contexts[v].start, contexts[v].end,
                                [Counts(v) EXCEPT ![ItemDigit(v)] = @ + 1], PositionsOf(v))
      /\ \A w \in Workers : w # v => contexts'[w] = contexts[w]
  BY <1>2, CountDoes
<1>4. /\ State(v)' = State(v) /\ NextOf(v)' = NextOf(v) + 1
      /\ \A w \in Workers : w # v => threads'[w] = threads[w]
  <2>1. threads' = [threads EXCEPT ![v] = [state |-> State(v), next |-> NextOf(v) + 1]]
    BY <1>2, NextIs DEF Count
  <2> QED BY <1>2, <2>1, ThreadSet
<1>5. ArrayShape' /\ Src' = Src /\ Dst' = Dst /\ Keys' = Keys
  BY <1>0, <1>1, <1>2 DEF ArrayShape, Src, Dst, Keys, Indices
<1>6. Chunk(v)' = Chunk(v) /\ Chunk(v + 1)' = Chunk(v + 1)
  BY <1>1 DEF Chunk
<1>7. Told(v)' /\ Counts(v)' = [Counts(v) EXCEPT ![ItemDigit(v)] = @ + 1]
  <2>1. /\ contexts'[v].pass = contexts[v].pass /\ contexts'[v].start = contexts[v].start
        /\ contexts'[v].end = contexts[v].end
        /\ contexts'[v].counts = [Counts(v) EXCEPT ![ItemDigit(v)] = @ + 1]
    BY <1>3, ContextFields
  <2> QED BY <1>1, <1>2, <1>6, <2>1 DEF Told, Counts
<1>8. /\ NextOf(v) \in Chunk(v) .. Chunk(v + 1)
      /\ Counted(Counts(v), Keys, Chunk(v), NextOf(v))
  BY <1>0, <1>2 DEF Running
<1>9. NextOf(v) < Chunk(v + 1)
  BY <1>2 DEF Count, Told, NextOf
<1>10. PICK n, x, y : /\ n = count /\ x = Chunk(v) /\ y = NextOf(v)
                      /\ n \in Nat /\ x \in 0 .. n /\ y \in 0 .. n - 1
                      /\ x <= y /\ y + 1 \in x .. Chunk(v + 1)
  BY <1>2, <1>8, <1>9 DEF Sizes
<1>11. ItemDigit(v) = Keys[y] /\ Keys[y] \in Digits
  <2>1. NextOf(v) \in 0 .. count - 1
    BY <1>10
  <2> QED BY <1>2, <1>10, <2>1, ItemIs
<1>12. Counted(Counts(v)', Keys, x, y + 1)
  <2>1. PICK c, k : c = Counts(v) /\ k = Keys[y]
    OBVIOUS
  <2>2. c = [d \in Digits |-> c[d]]
    BY <1>2, <2>1 DEF ContextShape, IsContext, Counts
  <2>3. Counts(v)' = [d \in Digits |-> IF d = k THEN c[d] + 1 ELSE c[d]]
    BY <1>7, <1>11, <2>1, <2>2
  <2>4. \A d \in Digits : c[d] = HitCount(Keys, x, y, d)
    BY <1>8, <1>10, <2>1 DEF Counted
  <2>5. \A d : HitCount(Keys, x, y + 1, d) =
                 IF Keys[y] = d THEN HitCount(Keys, x, y, d) + 1 ELSE HitCount(Keys, x, y, d)
    BY <1>10, HitNext
  <2> QED BY <2>1, <2>3, <2>4, <2>5 DEF Counted
<1>13. Counted(Counts(v)', Keys', Chunk(v)', NextOf(v)')
  BY <1>4, <1>5, <1>6, <1>10, <1>12
<1>14. NextOf(v)' \in Chunk(v)' .. Chunk(v + 1)'
  BY <1>4, <1>6, <1>10
<1>15. Running(v)'
  BY <1>0, <1>4, <1>7, <1>13, <1>14 DEF Running
<1>16. Worked(v)'
  BY <1>0, <1>1, <1>2, <1>4, AtWork DEF Worked
<1>17. \A w \in Workers, u \in 0 .. count : Placed(count, Keys, Src, Dst, Chunk(w), u)
                               => Placed(count, Keys, Src, Dst', Chunk(w), u)
  BY <1>5
<1>18. \A w \in Workers : w # v => contexts'[w] = contexts[w] /\ threads'[w] = threads[w]
  BY <1>3, <1>4
<1> QED BY <1>0, <1>3, <1>5, <1>15, <1>16, <1>17, <1>18, ThreadKeeps

\* A thread that has handled its chunk ends.
LEMMA ExitStep ==
  ASSUME LifeInv, SortInv, NEW v \in Workers, Exit(v)
  PROVE  SortInv'
<1>0. State(v) \in {"count", "scatter"} /\ State(v) # "none" /\ UNCHANGED <<input_vars, main, arrays, contexts>>
  BY DEF Exit, State
<1>1. UNCHANGED <<count, worker_count, pass, pc, index>>
  BY <1>0 DEF input_vars, main
<1>2. Sizes /\ Shape /\ ContextShape /\ ArrayShape /\ Told(v) /\ Running(v) /\ Worked(v)
  BY <1>0, RunFacts
<1>3. /\ State(v)' = "done"
      /\ \A w \in Workers : w # v => threads'[w] = threads[w]
  <2>1. threads[v] = [state |-> threads[v].state, next |-> threads[v].next]
    BY <1>2 DEF Shape
  <2>2. threads' = [threads EXCEPT ![v] = [threads[v] EXCEPT !.state = "done"]]
    BY <1>2 DEF Shape, Exit
  <2>3. [threads[v] EXCEPT !.state = "done"] = [state |-> "done", next |-> threads[v].next]
    BY <2>1, FieldUpdate
  <2>4. threads' = [threads EXCEPT ![v] = [state |-> "done", next |-> threads[v].next]]
    BY <2>2, <2>3
  <2> QED BY <1>2, <2>4, ThreadSet
<1>4. NextOf(v) = Chunk(v + 1)
  BY <1>2 DEF Exit, Told, NextOf
<1>5. State(v) = "count" => ChunkCounted(v)
  BY <1>2, <1>4 DEF Running, ChunkCounted
<1>6. State(v) = "scatter" => Scattered(v, Chunk(v + 1))
  BY <1>2, <1>4 DEF Running
<1>7. /\ Chunk(v)' = Chunk(v) /\ Chunk(v + 1)' = Chunk(v + 1) /\ Counts(v)' = Counts(v)
      /\ PositionsOf(v)' = PositionsOf(v)
  BY <1>0, <1>1 DEF Chunk, Counts, PositionsOf
<1>8. ArrayShape' /\ ContextShape' /\ Src' = Src /\ Dst' = Dst /\ Keys' = Keys
  BY <1>0, <1>1, <1>2 DEF ArrayShape, ContextShape, Src, Dst, Keys, Indices, Workers
<1>9. Told(v)'
  BY <1>0, <1>1, <1>2, <1>7 DEF Told
<1>10. Running(v)'
  BY <1>3, <1>9 DEF Running
<1>11. State(v) = "count" => ChunkCounted(v)'
  BY <1>5, <1>7, <1>8, <1>9, Zenon DEF ChunkCounted
<1>12. State(v) = "scatter" => Scattered(v, Chunk(v + 1))'
  BY <1>1, <1>6, <1>7, <1>8, <1>9, Zenon DEF Scattered
<1>13. Worked(v)'
  <2>1. pc \in {"create_count", "join_count"} => State(v) = "count"
    BY <1>0, <1>2 DEF Worked
  <2>2. pc \in {"create_scatter", "join_scatter"} => State(v) = "scatter"
    BY <1>0, <1>2 DEF Worked
  <2>3. /\ pc \notin {"positions", "next_pass"}
        /\ pc \in {"create_count", "create_scatter"} => ~(v >= index)
        /\ pc \in {"join_count", "join_scatter"} => ~(v < index)
    BY <1>0, AtWork
  <2> QED BY <1>1, <1>3, <1>11, <1>12, <2>1, <2>2, <2>3 DEF Worked
<1>14. \A w \in Workers, u \in 0 .. count : Placed(count, Keys, Src, Dst, Chunk(w), u)
                               => Placed(count, Keys, Src, Dst', Chunk(w), u)
  BY <1>8
<1>15. \A w \in Workers : w # v => contexts'[w] = contexts[w] /\ threads'[w] = threads[w]
  BY <1>0, <1>3
<1> QED BY <1>0, <1>8, <1>10, <1>13, <1>14, <1>15, ThreadKeeps

(* Writing one entry at its place keeps those already at theirs.           *)
LEMMA PlacedKept ==
  ASSUME NEW n \in Nat, NEW g, Digital(g, n), NEW a, NEW b, NEW c, NEW i \in 0 .. n - 1,
         c[Place(g, n, i)] = a[i],
         \A q \in 0 .. n - 1 : q # Place(g, n, i) => c[q] = b[q],
         NEW x \in 0 .. n, NEW y \in 0 .. n,
         Placed(n, g, a, b, x, y)
  PROVE  Placed(n, g, a, c, x, y)
<1> SUFFICES ASSUME NEW k \in x .. y - 1 PROVE c[Place(g, n, k)] = a[k]
  BY DEF Placed
<1>1. k \in 0 .. n - 1 /\ Place(g, n, k) \in 0 .. n - 1
  BY PlaceInside
<1>2. Place(g, n, k) = Place(g, n, i) => k = i
  BY <1>1, PlaceOrders
<1>3. b[Place(g, n, k)] = a[k]
  BY DEF Placed
<1> QED BY <1>1, <1>2, <1>3

(* The write of a scattering thread: entry y of the source at its place.   *)
LEMMA ScatterWrites ==
  ASSUME LifeInv, SortInv, NEW v \in Workers, Scatter(v)
  PROVE  /\ NextOf(v) \in 0 .. count - 1 /\ NextOf(v) \in Chunk(v) .. Chunk(v + 1)
         /\ NextOf(v) + 1 \in Chunk(v) .. Chunk(v + 1)
         /\ ItemDigit(v) = Keys[NextOf(v)] /\ Keys[NextOf(v)] \in Digits
         /\ ArrayShape' /\ Src' = Src
         /\ Dst'[Place(Keys, count, NextOf(v))] = Src[NextOf(v)]
         /\ \A q \in 0 .. count - 1 : q # Place(Keys, count, NextOf(v)) => Dst'[q] = Dst[q]
<1>0. State(v) = "scatter" /\ State(v) # "none" /\ UNCHANGED <<input_vars, main>>
  BY DEF Scatter, State
<1>1. UNCHANGED <<count, worker_count, pass>>
  BY <1>0 DEF input_vars, main
<1>2. /\ Sizes /\ ArrayShape /\ Told(v) /\ Running(v)
      /\ Arranged(count, input, Src, pass)
      /\ Chunk(v) \in 0 .. count /\ Chunk(v + 1) \in 0 .. count /\ Chunk(v) <= Chunk(v + 1)
  BY <1>0, RunFacts
<1>3. NextOf(v) \in Chunk(v) .. Chunk(v + 1) /\ Scattered(v, NextOf(v))
  BY <1>0, <1>2 DEF Running
<1>4. NextOf(v) < Chunk(v + 1)
  BY <1>2 DEF Scatter, Told, NextOf
<1>5. NextOf(v) \in 0 .. count - 1 /\ NextOf(v) + 1 \in Chunk(v) .. Chunk(v + 1) /\ count \in Nat
  BY <1>2, <1>3, <1>4 DEF Sizes
<1>6. Item(v) = Src[NextOf(v)] /\ ItemDigit(v) = Keys[NextOf(v)] /\ Keys[NextOf(v)] \in Digits
  BY <1>2, <1>5, ItemIs
<1>7. PICK n, i, d : n = count /\ i = NextOf(v) /\ d = Keys[i] /\ n \in Nat /\ i \in 0 .. n - 1 /\ d \in Digits
  BY <1>5, <1>6
<1>8. PositionsOf(v)[d] = From(Keys, n, i, d)
  BY <1>3, <1>7 DEF Scattered, Moved
<1>9. Digital(Keys, n)
  BY <1>2, <1>7, KeysKnown
<1>10. Place(Keys, n, i) = SmallerCount(Keys, n, Keys[i]) + HitCount(Keys, 0, i, Keys[i])
  BY <1>7, <1>9, PlaceIs
<1>11. PositionsOf(v)[d] = Place(Keys, n, i)
  BY <1>7, <1>8, <1>10 DEF From
<1>12. Place(Keys, n, i) \in 0 .. n - 1
  BY <1>7, <1>9, PlaceInside
<1>13. PICK q, b, x : q = Place(Keys, n, i) /\ b = Destination(pass) /\ x = Src[i]
  OBVIOUS
<1>14. contexts[v].pass = pass /\ contexts[v].positions = PositionsOf(v)
  BY <1>2 DEF Told, PositionsOf
<1>15. arrays' = [arrays EXCEPT ![Destination(contexts[v].pass)][contexts[v].positions[ItemDigit(v)]] = Item(v)]
  BY Zenon DEF Scatter
<1>16. arrays' = [arrays EXCEPT ![b][q] = x]
  <2>1. /\ Destination(contexts[v].pass) = b /\ Item(v) = x
        /\ contexts[v].positions[ItemDigit(v)] = q
    BY <1>6, <1>7, <1>11, <1>13, <1>14, Zenon
  <2> QED BY <1>15, <2>1, Zenon
<1>17. b \in ArrayNames /\ Source(pass) \in ArrayNames /\ Source(pass) # b
  BY <1>2, <1>13, Buffers DEF Sizes
<1>18. q \in Indices /\ Indices = 0 .. count - 1
  BY <1>7, <1>12, <1>13 DEF Indices
<1>19. /\ ArrayShape'
       /\ \A c \in ArrayNames : c # b => arrays'[c] = arrays[c]
       /\ arrays'[b][q] = x
       /\ \A k \in Indices : k # q => arrays'[b][k] = arrays[b][k]
  <2>1. count' = count
    BY <1>1
  <2>2. ArrayShape /\ Writes(b, q, x)
    BY <1>2, <1>16 DEF Writes
  <2> QED BY <1>17, <1>18, <2>1, <2>2, ArrayCell
<1>20. Src' = Src
  BY <1>1, <1>17, <1>19 DEF Src
<1>21. Dst' = arrays'[b] /\ Dst = arrays[b]
  BY <1>1, <1>13 DEF Dst
<1>22. Dst'[q] = x /\ \A k \in 0 .. count - 1 : k # q => Dst'[k] = Dst[k]
  BY <1>18, <1>19, <1>21
<1> QED BY <1>3, <1>5, <1>6, <1>7, <1>13, <1>19, <1>20, <1>22

\* A thread scatters one entry of its chunk.
LEMMA ScatterStep ==
  ASSUME LifeInv, SortInv, NEW v \in Workers, Scatter(v)
  PROVE  SortInv'
<1>0. State(v) = "scatter" /\ State(v) # "none" /\ UNCHANGED <<input_vars, main>>
  BY DEF Scatter, State
<1>1. UNCHANGED <<count, worker_count, pass, pc, index>>
  BY <1>0 DEF input_vars, main
<1>2. /\ Sizes /\ Shape /\ ContextShape /\ Told(v) /\ Running(v) /\ Worked(v)
      /\ Arranged(count, input, Src, pass) /\ worker_count > 0
      /\ Chunk(v) \in 0 .. count /\ Chunk(v + 1) \in 0 .. count /\ Chunk(v) <= Chunk(v + 1)
  BY <1>0, RunFacts
<1>3. /\ ContextShape'
      /\ contexts'[v] = Context(contexts[v].pass, contexts[v].start, contexts[v].end,
                                Counts(v), [PositionsOf(v) EXCEPT ![ItemDigit(v)] = @ + 1])
      /\ \A w \in Workers : w # v => contexts'[w] = contexts[w]
  BY <1>2, ScatterDoes
<1>4. /\ State(v)' = State(v) /\ NextOf(v)' = NextOf(v) + 1
      /\ \A w \in Workers : w # v => threads'[w] = threads[w]
  <2>1. threads' = [threads EXCEPT ![v] = [state |-> State(v), next |-> NextOf(v) + 1]]
    BY <1>2, NextIs DEF Scatter
  <2> QED BY <1>2, <2>1, ThreadSet
<1>5. /\ NextOf(v) \in 0 .. count - 1 /\ NextOf(v) \in Chunk(v) .. Chunk(v + 1)
      /\ NextOf(v) + 1 \in Chunk(v) .. Chunk(v + 1)
      /\ ItemDigit(v) = Keys[NextOf(v)] /\ Keys[NextOf(v)] \in Digits
      /\ ArrayShape' /\ Src' = Src
      /\ Dst'[Place(Keys, count, NextOf(v))] = Src[NextOf(v)]
      /\ \A q \in 0 .. count - 1 : q # Place(Keys, count, NextOf(v)) => Dst'[q] = Dst[q]
  BY ScatterWrites
<1>6. Chunk(v)' = Chunk(v) /\ Chunk(v + 1)' = Chunk(v + 1) /\ Keys' = Keys
  BY <1>1, <1>5 DEF Chunk, Keys
<1>7. Told(v)' /\ PositionsOf(v)' = [PositionsOf(v) EXCEPT ![ItemDigit(v)] = @ + 1]
  <2>1. /\ contexts'[v].pass = contexts[v].pass /\ contexts'[v].start = contexts[v].start
        /\ contexts'[v].end = contexts[v].end
        /\ contexts'[v].positions = [PositionsOf(v) EXCEPT ![ItemDigit(v)] = @ + 1]
    BY <1>3, ContextFields
  <2> QED BY <1>1, <1>2, <1>6, <2>1 DEF Told, PositionsOf
<1>8. Moved(PositionsOf(v), Keys, count, NextOf(v)) /\ Placed(count, Keys, Src, Dst, Chunk(v), NextOf(v))
  BY <1>0, <1>2 DEF Running, Scattered
<1>9. PICK n, i : n = count /\ i = NextOf(v) /\ n \in Nat /\ i \in 0 .. n - 1
  BY <1>2, <1>5 DEF Sizes
<1>10. Digital(Keys, n)
  BY <1>2, <1>9, KeysKnown
<1>11. Moved(PositionsOf(v)', Keys, n, i + 1)
  <2>1. PICK o, k : o = PositionsOf(v) /\ k = Keys[i]
    OBVIOUS
  <2>2. o = [d \in Digits |-> o[d]]
    BY <1>2, <2>1 DEF ContextShape, IsContext, PositionsOf
  <2>3. PositionsOf(v)' = [d \in Digits |-> IF d = k THEN o[d] + 1 ELSE o[d]]
    BY <1>5, <1>7, <1>9, <2>1, <2>2
  <2>4. \A d \in Digits : o[d] = From(Keys, n, i, d)
    BY <1>8, <1>9, <2>1 DEF Moved
  <2>5. ASSUME NEW d \in Digits
        PROVE  From(Keys, n, i + 1, d) = IF d = k THEN From(Keys, n, i, d) + 1 ELSE From(Keys, n, i, d)
    <3>1. 0 \in 0 .. n /\ 0 <= i /\ i \in 0 .. n
      BY <1>9
    <3>2. HitCount(Keys, 0, i + 1, d) =
            IF Keys[i] = d THEN HitCount(Keys, 0, i, d) + 1 ELSE HitCount(Keys, 0, i, d)
      BY <1>9, <3>1, HitNext
    <3>3. HitCount(Keys, 0, i, d) \in Nat /\ SmallerCount(Keys, n, d) \in Nat
      BY <1>9, <3>1, HitFacts, SmallerFacts
    <3> QED BY <2>1, <3>2, <3>3 DEF From
  <2> QED BY <2>3, <2>4, <2>5 DEF Moved
<1>12. \A w \in Workers, u \in 0 .. count : Placed(count, Keys, Src, Dst, Chunk(w), u)
                                              => Placed(count, Keys, Src, Dst', Chunk(w), u)
  <2> SUFFICES ASSUME NEW w \in Workers, NEW u \in 0 .. count, Placed(count, Keys, Src, Dst, Chunk(w), u)
               PROVE  Placed(count, Keys, Src, Dst', Chunk(w), u)
    OBVIOUS
  <2>1. PICK x, a, b, c : x = Chunk(w) /\ a = Src /\ b = Dst /\ c = Dst'
    OBVIOUS
  <2>2. x \in 0 .. n
    BY <1>2, <1>9, <2>1, Chunks
  <2>3. c[Place(Keys, n, i)] = a[i] /\ \A q \in 0 .. n - 1 : q # Place(Keys, n, i) => c[q] = b[q]
    BY <1>5, <1>9, <2>1
  <2>4. Placed(n, Keys, a, b, x, u) /\ u \in 0 .. n
    BY <1>9, <2>1
  <2>5. Placed(n, Keys, a, c, x, u)
    BY <1>9, <1>10, <2>2, <2>3, <2>4, PlacedKept
  <2> QED BY <1>9, <2>1, <2>5
<1>13. Placed(n, Keys, Src, Dst', Chunk(v), i + 1)
  <2>1. Placed(count, Keys, Src, Dst', Chunk(v), NextOf(v))
    <3>1. NextOf(v) \in 0 .. count
      BY <1>9
    <3> QED BY <1>8, <1>12, <3>1
  <2>2. Dst'[Place(Keys, n, i)] = Src[i]
    BY <1>5, <1>9
  <2>3. \A k \in Chunk(v) .. (i + 1) - 1 : k = i \/ k \in Chunk(v) .. i - 1
    BY <1>2, <1>9
  <2> QED BY <1>9, <2>1, <2>2, <2>3 DEF Placed
<1>14. Moved(PositionsOf(v)', Keys', count', NextOf(v)') /\ Placed(count', Keys', Src', Dst', Chunk(v)', NextOf(v)')
  BY <1>1, <1>4, <1>5, <1>6, <1>9, <1>11, <1>13
<1>15. Scattered(v, NextOf(v))' /\ NextOf(v)' \in Chunk(v)' .. Chunk(v + 1)'
  BY <1>4, <1>5, <1>6, <1>7, <1>14 DEF Scattered
<1>16. Running(v)'
  BY <1>0, <1>4, <1>7, <1>15 DEF Running
<1>17. Worked(v)'
  BY <1>0, <1>1, <1>2, <1>4, AtWork DEF Worked
<1>18. \A w \in Workers : w # v => contexts'[w] = contexts[w] /\ threads'[w] = threads[w]
  BY <1>3, <1>4
<1> QED BY <1>0, <1>3, <1>5, <1>12, <1>16, <1>17, <1>18, ThreadKeeps

-----------------------------------------------------------------------------
(* The main thread, in a pass *)

\* A step within a pass, of the main thread.
LEMMA SamePass ==
  ASSUME SortInv, UNCHANGED <<input_vars, arrays, pass, error>>, pc \in Parallel, pc' \in Parallel,
         pc' \in {"join_count", "join_scatter"} => index' < worker_count'
  PROVE  /\ UNCHANGED <<count, worker_count, pass>> /\ Workers' = Workers /\ Sizes
         /\ Src' = Src /\ Sizes' /\ ArrayShape' /\ Progress'
         /\ \A w \in Workers, y \in 0 .. count :
               Placed(count, Keys, Src, Dst, Chunk(w), y) => Placed(count, Keys, Src, Dst', Chunk(w), y)
<1>1. UNCHANGED <<count, worker_count, input, pass, arrays, error>>
  BY DEF input_vars
<1>2. Workers' = Workers /\ Src' = Src /\ Dst' = Dst /\ Indices' = Indices
  BY <1>1 DEF Workers, Src, Dst, Indices
<1>3. Sizes /\ Sizes'
  BY <1>1, Zenon DEF SortInv, Sizes
<1>4. ArrayShape'
  BY <1>1, <1>2, Zenon DEF SortInv, ArrayShape
<1>5. Progress /\ error = "none" /\ pc # "start" /\ pc' # "start" /\ pc' # "insertion"
  BY DEF SortInv, Progress, Parallel
<1>6. Progress'
  BY <1>1, <1>2, <1>5 DEF Progress
<1> QED BY <1>1, <1>2, <1>3, <1>4, <1>6

(* The counting thread of a worker is created with its chunk.              *)
LEMMA CreateCountStep ==
  ASSUME LifeInv, SortInv, CreateCount
  PROVE  SortInv'
<1>0. /\ pc = "create_count" /\ UNCHANGED <<input_vars, arrays, pass, error>>
      /\ index \in Workers /\ index \in Nat /\ worker_count \in Nat /\ index < worker_count
  BY DEF CreateCount, LifeInv, Shape, Workers
<1>1. /\ pc' \in Parallel /\ pc' \in {"create_count", "join_count", "unwind"} /\ pc \in Parallel
      /\ pc' = "join_count" => index' = 0
  BY <1>0 DEF CreateCount, Parallel
<1>2. worker_count' = worker_count
  BY <1>0 DEF input_vars
<1>3. /\ UNCHANGED <<count, worker_count, pass>> /\ Workers' = Workers /\ Sizes
      /\ Src' = Src /\ Sizes' /\ ArrayShape' /\ Progress'
      /\ \A w \in Workers, y \in 0 .. count :
            Placed(count, Keys, Src, Dst, Chunk(w), y) => Placed(count, Keys, Src, Dst', Chunk(w), y)
  <2>1. pc' \in {"join_count", "join_scatter"} => index' < worker_count'
    BY <1>0, <1>1, <1>2
  <2> QED BY <1>0, <1>1, <2>1, SamePass, ZenonT(30)
<1>4. ContextShape /\ Shape
  BY DEF SortInv, LifeInv
<1>5. PICK v \in Workers : v = index
  BY <1>0
<1>6. /\ ContextShape'
      /\ contexts'[v] = Context(pass, RangeStart(v), RangeEnd(v), Counts(v), PositionsOf(v))
      /\ \A w \in Workers : w # v => contexts'[w] = contexts[w]
  BY <1>0, <1>4, <1>5, CreateCountDoes
<1>7. State(v) = "none"
  <2>1. v >= index
    BY <1>0, <1>5
  <2> QED BY <1>0, <2>1, AtWork
<1>8. \/ State(v)' = "zero" /\ \A w \in Workers : w # v => threads'[w] = threads[w]
      \/ pc' = "unwind" /\ threads' = threads
  <2>1. CASE threads' = [threads EXCEPT ![index] = [state |-> "zero", next |-> 0]]
    <3>1. threads' = [threads EXCEPT ![v] = [state |-> "zero", next |-> 0]]
      BY <1>5, <2>1
    <3> QED BY <1>4, <3>1, ThreadSet
  <2> QED BY <2>1 DEF CreateCount
<1>9. Told(v)'
  <2>1. RangeStart(v) = Chunk(v) /\ RangeEnd(v) = Chunk(v + 1)
    <3>1. worker_count > 0
      BY <1>0, <1>3 DEF Sizes
    <3> QED BY <1>3, <3>1, Chunks
  <2>2. /\ contexts'[v].pass = pass /\ contexts'[v].start = Chunk(v)
        /\ contexts'[v].end = Chunk(v + 1)
    BY <1>6, <2>1, ContextFields
  <2> QED BY <1>3, <2>2 DEF Told, Chunk
<1>10. ASSUME NEW w \in Workers PROVE Running(w)' /\ Worked(w)'
  <2>1. CASE w = v
    <3>1. State(w)' \in {"none", "zero"}
      BY <1>7, <1>8, <2>1 DEF State
    <3>2. Running(w)'
      BY <1>9, <2>1, <3>1 DEF Running
    <3>3. State(w)' = "zero" \/ pc' = "unwind"
      BY <1>8, <2>1
    <3>4. ~(pc' = "join_count" /\ w < index')
      BY <1>1, <1>3 DEF Workers
    <3>5. Worked(w)'
      BY <1>1, <3>3, <3>4 DEF Worked
    <3> QED BY <3>2, <3>5
  <2>2. CASE w # v
    <3>1. contexts'[w] = contexts[w] /\ threads'[w] = threads[w]
      BY <1>6, <1>8, <2>2
    <3>2. Running(w) /\ Worked(w)
      BY DEF SortInv
    <3>3. \A y \in 0 .. count : Placed(count, Keys, Src, Dst, Chunk(w), y) => Placed(count, Keys, Src, Dst', Chunk(w), y)
      BY <1>3
    <3>4. State(w)' = State(w) /\ Running(w)'
      BY <1>3, <3>1, <3>2, <3>3, KeptParts
    <3>5. ChunkCounted(w) => ChunkCounted(w)'
      BY <1>3, <3>1, <3>3, KeptWork
    <3>6. ~(pc' = "join_count" /\ w < index')
      BY <1>1, <1>3 DEF Workers
    <3>7. Worked(w)'
      BY <1>0, <1>1, <3>2, <3>4, <3>5, <3>6 DEF Worked
    <3> QED BY <3>4, <3>7
  <2> QED BY <2>1, <2>2
<1> QED BY <1>3, <1>6, <1>10 DEF SortInv

\* A step of the main thread that touches one thread v and no context.
LEMMA OneThread ==
  ASSUME SortInv, UNCHANGED <<input_vars, arrays, contexts, pass, error>>, pc \in Parallel, pc' \in Parallel,
         pc' \in {"join_count", "join_scatter"} => index' < worker_count',
         NEW v \in Workers, \A w \in Workers : w # v => threads'[w] = threads[w],
         Running(v)', \A w \in Workers : Running(w)' => Worked(w)'
  PROVE  SortInv'
<1>1. /\ UNCHANGED <<count, worker_count, pass>> /\ Workers' = Workers /\ Sizes
      /\ Src' = Src /\ Sizes' /\ ArrayShape' /\ Progress'
      /\ \A w \in Workers, y \in 0 .. count :
            Placed(count, Keys, Src, Dst, Chunk(w), y) => Placed(count, Keys, Src, Dst', Chunk(w), y)
  BY SamePass, ZenonT(30)
<1>2. ASSUME NEW w \in Workers, w # v PROVE Running(w)'
  <2>1. contexts'[w] = contexts[w] /\ threads'[w] = threads[w] /\ Running(w)
    BY <1>2 DEF SortInv
  <2>2. \A y \in 0 .. count : Placed(count, Keys, Src, Dst, Chunk(w), y) => Placed(count, Keys, Src, Dst', Chunk(w), y)
    BY <1>1
  <2> QED BY <1>1, <2>1, <2>2, KeptParts
<1>3. \A w \in Workers : Running(w)' /\ Worked(w)'
  BY <1>2
<1>4. ContextShape'
  BY <1>1 DEF SortInv, ContextShape
<1> QED BY <1>1, <1>3, <1>4 DEF SortInv

\* What such a step keeps of the work of the workers.
LEMMA WorkStays ==
  ASSUME SortInv, UNCHANGED <<input_vars, arrays, contexts, pass>>, NEW w \in Workers
  PROVE  /\ Told(w)' = Told(w) /\ Chunk(w)' = Chunk(w) /\ Chunk(w + 1)' = Chunk(w + 1)
         /\ ChunkCounted(w) => ChunkCounted(w)'
         /\ Scattered(w, Chunk(w)) => Scattered(w, Chunk(w))'
         /\ Scattered(w, Chunk(w + 1)) => Scattered(w, Chunk(w + 1))'
<1>1. UNCHANGED <<count, worker_count, pass>> /\ Src' = Src /\ Dst' = Dst /\ Sizes
  BY DEF input_vars, Src, Dst, SortInv
<1>2. \A y \in 0 .. count : Placed(count, Keys, Src, Dst, Chunk(w), y) => Placed(count, Keys, Src, Dst', Chunk(w), y)
  BY <1>1
<1>3. contexts'[w] = contexts[w]
  OBVIOUS
<1> QED BY <1>1, <1>2, <1>3, KeptWork

\* The main thread joins one thread.
LEMMA JoinSet ==
  ASSUME Shape, NEW v \in Workers, v = index, NEW next, Join(next)
  PROVE  /\ State(v) = "done" /\ State(v)' = "none"
         /\ \A w \in Workers : w # v => threads'[w] = threads[w]
         /\ \/ index + 1 = worker_count /\ pc' = next /\ index' = 0
            \/ index + 1 # worker_count /\ pc' = pc /\ index' = index + 1
<1>1. threads[index].state = "done" /\ threads' = [threads EXCEPT ![index] = NoThread]
  BY DEF Join
<1>2. threads' = [threads EXCEPT ![v] = [state |-> "none", next |-> 0]]
  BY <1>1 DEF NoThread
<1>3. State(v)' = "none" /\ \A w \in Workers : w # v => threads'[w] = threads[w]
  BY <1>2, ThreadSet
<1>4. State(v) = "done"
  BY <1>1 DEF State
<1>5. \/ index + 1 = worker_count /\ pc' = next /\ index' = 0
      \/ index + 1 # worker_count /\ pc' = pc /\ index' = index + 1
  BY DEF Join
<1> QED BY <1>3, <1>4, <1>5

\* The main thread joins a counting thread.
LEMMA JoinCountStep ==
  ASSUME LifeInv, SortInv, JoinCount
  PROVE  SortInv'
<1>0. /\ pc = "join_count" /\ UNCHANGED <<input_vars, arrays, contexts, pass, error>>
      /\ index \in Nat /\ worker_count \in Nat /\ index < worker_count /\ worker_count' = worker_count
  BY DEF JoinCount, LifeInv, Shape, SortInv, Progress, input_vars
<1>1. PICK v \in Workers : v = index
  BY <1>0 DEF Workers
<1>2. /\ State(v) = "done" /\ State(v)' = "none"
      /\ \A w \in Workers : w # v => threads'[w] = threads[w]
      /\ \/ index + 1 = worker_count /\ pc' = "positions" /\ index' = 0
         \/ index + 1 # worker_count /\ pc' = pc /\ index' = index + 1
  BY <1>1, JoinSet DEF JoinCount, LifeInv
<1>3. ChunkCounted(v)
  BY <1>0, <1>2 DEF SortInv, Worked
<1>4. Running(v)'
  BY <1>2 DEF Running
<1>5. ASSUME NEW w \in Workers PROVE Worked(w)'
  <2>1. w \in Int /\ w <= worker_count - 1
    BY <1>0 DEF Workers
  <2>2. ChunkCounted(w) => ChunkCounted(w)'
    BY <1>0, WorkStays
  <2>3. Worked(w)
    BY DEF SortInv
  <2>4. w # v => State(w)' = State(w)
    BY <1>2 DEF State
  <2>5. (w < index \/ w = v) => ChunkCounted(w)'
    BY <1>0, <1>3, <2>2, <2>3 DEF Worked
  <2>6. (pc' = "join_count" /\ w < index') \/ pc' = "positions" => w < index \/ w = v
    BY <1>0, <1>1, <1>2, <2>1
  <2>7. pc' \in {"join_count", "positions"}
    BY <1>0, <1>2
  <2>8. State(w)' # "none" => State(w)' = State(w)
    BY <1>2, <2>4
  <2> QED BY <1>0, <2>2, <2>3, <2>5, <2>6, <2>7, <2>8 DEF Worked
<1>6. pc \in Parallel /\ pc' \in Parallel
  BY <1>0, <1>2 DEF Parallel
<1>7. pc' \in {"join_count", "join_scatter"} => index' < worker_count'
  BY <1>0, <1>2
<1> QED BY <1>0, <1>2, <1>4, <1>5, <1>6, <1>7, OneThread

\* The main thread joins a scattering thread.
LEMMA JoinScatterStep ==
  ASSUME LifeInv, SortInv, JoinScatter
  PROVE  SortInv'
<1>0. /\ pc = "join_scatter" /\ UNCHANGED <<input_vars, arrays, contexts, pass, error>>
      /\ index \in Nat /\ worker_count \in Nat /\ index < worker_count /\ worker_count' = worker_count
  BY DEF JoinScatter, LifeInv, Shape, SortInv, Progress, input_vars
<1>1. PICK v \in Workers : v = index
  BY <1>0 DEF Workers
<1>2. /\ State(v) = "done" /\ State(v)' = "none"
      /\ \A w \in Workers : w # v => threads'[w] = threads[w]
      /\ \/ index + 1 = worker_count /\ pc' = "next_pass" /\ index' = 0
         \/ index + 1 # worker_count /\ pc' = pc /\ index' = index + 1
  BY <1>1, JoinSet DEF JoinScatter, LifeInv
<1>3. Scattered(v, Chunk(v + 1))
  BY <1>0, <1>2 DEF SortInv, Worked
<1>4. Running(v)'
  BY <1>2 DEF Running
<1>5. ASSUME NEW w \in Workers PROVE Worked(w)'
  <2>1. w \in Int /\ w <= worker_count - 1
    BY <1>0 DEF Workers
  <2>2. Scattered(w, Chunk(w + 1)) => Scattered(w, Chunk(w + 1))'
    BY <1>0, WorkStays
  <2>3. Worked(w)
    BY DEF SortInv
  <2>4. w # v => State(w)' = State(w)
    BY <1>2 DEF State
  <2>5. (w < index \/ w = v) => Scattered(w, Chunk(w + 1))'
    BY <1>0, <1>3, <2>2, <2>3 DEF Worked
  <2>6. (pc' = "join_scatter" /\ w < index') \/ pc' = "next_pass" => w < index \/ w = v
    BY <1>0, <1>1, <1>2, <2>1
  <2>7. pc' \in {"join_scatter", "next_pass"}
    BY <1>0, <1>2
  <2>8. State(w)' # "none" => State(w)' = State(w)
    BY <1>2, <2>4
  <2> QED BY <1>0, <2>2, <2>3, <2>5, <2>6, <2>7, <2>8 DEF Worked
<1>6. pc \in Parallel /\ pc' \in Parallel
  BY <1>0, <1>2 DEF Parallel
<1>7. pc' \in {"join_count", "join_scatter"} => index' < worker_count'
  BY <1>0, <1>2
<1> QED BY <1>0, <1>2, <1>4, <1>5, <1>6, <1>7, OneThread

\* The main thread creates a scattering thread.
LEMMA CreateScatterStep ==
  ASSUME LifeInv, SortInv, CreateScatter
  PROVE  SortInv'
<1>0. /\ pc = "create_scatter" /\ UNCHANGED <<input_vars, arrays, contexts, pass, error>>
      /\ index \in Nat /\ worker_count \in Nat /\ index < worker_count /\ worker_count' = worker_count
      /\ Sizes
  BY DEF CreateScatter, LifeInv, Shape, SortInv, input_vars
<1>1. PICK v \in Workers : v = index
  BY <1>0 DEF Workers
<1>2. v >= index /\ State(v) = "none" /\ Scattered(v, Chunk(v))
  <2>1. v >= index
    BY <1>0, <1>1
  <2>2. State(v) = "none"
    BY <1>0, <2>1, AtWork
  <2> QED BY <1>0, <2>1, <2>2 DEF SortInv, Worked
<1>3. \/ /\ State(v)' = "scatter" /\ NextOf(v)' = contexts[v].start
         /\ \A w \in Workers : w # v => threads'[w] = threads[w]
         /\ \/ index + 1 = worker_count /\ pc' = "join_scatter" /\ index' = 0
            \/ index + 1 # worker_count /\ pc' = pc /\ index' = index + 1
      \/ pc' = "unwind" /\ threads' = threads
  <2>1. CASE threads' = [threads EXCEPT ![index] = [state |-> "scatter", next |-> contexts[index].start]]
    <3>1. threads' = [threads EXCEPT ![v] = [state |-> "scatter", next |-> contexts[v].start]]
      BY <1>1, <2>1
    <3>2. /\ State(v)' = "scatter" /\ NextOf(v)' = contexts[v].start
          /\ \A w \in Workers : w # v => threads'[w] = threads[w]
      BY <3>1, ThreadSet DEF LifeInv
    <3> QED BY <3>2 DEF CreateScatter
  <2> QED BY <2>1 DEF CreateScatter
<1>4. \A w \in Workers : /\ Chunk(w)' = Chunk(w) /\ Chunk(w + 1)' = Chunk(w + 1)
                         /\ Scattered(w, Chunk(w)) => Scattered(w, Chunk(w))'
                         /\ Scattered(w, Chunk(w + 1)) => Scattered(w, Chunk(w + 1))'
  BY <1>0, WorkStays
<1>5. Running(v)'
  <2>1. CASE pc' = "unwind" /\ threads' = threads
    BY <1>2, <2>1 DEF Running, State
  <2>2. CASE State(v)' = "scatter" /\ NextOf(v)' = contexts[v].start
    <3>1. NextOf(v)' = Chunk(v)'
      BY <1>2, <1>4, <2>2 DEF Scattered, Told
    <3>2. Chunk(v) \in 0 .. count /\ Chunk(v + 1) \in 0 .. count /\ Chunk(v) <= Chunk(v + 1)
      BY <1>0, Chunks
    <3>3. NextOf(v)' \in Chunk(v)' .. Chunk(v + 1)'
      BY <1>0, <1>4, <3>1, <3>2 DEF Sizes
    <3>4. Scattered(v, NextOf(v))' /\ Told(v)'
      BY <1>2, <1>4, <3>1, Zenon DEF Scattered
    <3> QED BY <2>2, <3>3, <3>4 DEF Running
  <2> QED BY <1>3, <2>1, <2>2
<1>6. ASSUME NEW w \in Workers PROVE Worked(w)'
  <2>1. w \in Int /\ 0 <= w
    BY <1>0 DEF Workers
  <2>2. Worked(w)
    BY DEF SortInv
  <2>3. CASE pc' = "unwind"
    BY <2>3 DEF Worked
  <2>4. CASE pc' # "unwind"
    <3>1. w # v => State(w)' = State(w)
      BY <1>3, <2>4 DEF State
    <3>2. pc' \in {"create_scatter", "join_scatter"}
      BY <1>0, <1>3, <2>4
    <3>3. ~(pc' = "join_scatter" /\ w < index')
      BY <1>0, <1>3, <2>1, <2>4
    <3>4. pc' = "create_scatter" /\ w >= index' => w >= index
      BY <1>0, <1>3, <2>1, <2>4
    <3>5. State(w)' = "scatter" \/ State(w)' = State(w)
      BY <1>3, <2>4, <3>1
    <3> QED BY <1>0, <1>4, <2>2, <3>2, <3>3, <3>4, <3>5 DEF Worked
  <2> QED BY <2>3, <2>4
<1>7. pc \in Parallel /\ pc' \in Parallel
  BY <1>0, <1>3 DEF Parallel
<1>8. pc' \in {"join_count", "join_scatter"} => index' < worker_count'
  BY <1>0, <1>3
<1>9. \A w \in Workers : w # v => threads'[w] = threads[w]
  BY <1>3
<1> QED BY <1>0, <1>5, <1>6, <1>7, <1>8, <1>9, OneThread

\* The write positions start where each chunk has scattered nothing.
LEMMA PositionsStep ==
  ASSUME LifeInv, SortInv, Positions
  PROVE  SortInv'
<1>0. /\ pc = "positions" /\ pc' = "create_scatter"
      /\ UNCHANGED <<input_vars, arrays, threads, pass, error>>
  BY DEF Positions
<1>1. pc \in Parallel /\ pc' \in Parallel /\ pc' \notin {"join_count", "join_scatter"}
  BY <1>0 DEF Parallel
<1>2. /\ UNCHANGED <<count, worker_count, pass>> /\ Workers' = Workers /\ Sizes
      /\ Src' = Src /\ Sizes' /\ ArrayShape' /\ Progress'
  BY <1>0, <1>1, SamePass, ZenonT(30)
<1>3. ContextShape /\ Arranged(count, input, Src, pass) /\ worker_count > 0
  BY <1>1 DEF SortInv, Progress
<1>4. /\ ContextShape'
      /\ \A w \in Workers :
           contexts'[w] = Context(contexts[w].pass, contexts[w].start, contexts[w].end,
                                  Counts(w), [d \in Digits |-> WritePosition(w, d)])
  BY <1>3, PositionsDoes
<1>5. \A w \in Workers : State(w)' = "none"
  BY <1>0, <1>1, AtWork DEF State
<1>6. \A w \in Workers : ChunkCounted(w)
  BY <1>0 DEF SortInv, Worked
<1>7. ASSUME NEW w \in Workers, NEW d \in Digits
      PROVE  WritePosition(w, d) = From(Keys, count, Chunk(w), d)
  <2>1. count \in Nat /\ worker_count \in Nat
    BY <1>2 DEF Sizes
  <2>2. PICK g : g = Keys
    OBVIOUS
  <2>3. \A i \in 0 .. count - 1 : g[i] \in Digits
    BY <1>2, <1>3, <2>2, KeysKnown
  <2>4. \A u \in Workers : CountedBy(u, g)
    BY <1>6, <2>2, Zenon DEF ChunkCounted, Counted, CountedBy, Counts, Chunk
  <2>5. WritePosition(w, d) = SmallerCount(g, count, d) + HitCount(g, 0, Part(count, worker_count, w), d)
    BY <1>3, <2>1, <2>3, <2>4, WritesFrom
  <2> QED BY <2>2, <2>5, Zenon DEF From, Chunk
<1>8. ASSUME NEW w \in Workers PROVE Running(w)' /\ Worked(w)'
  <2>1. /\ contexts'[w].pass = contexts[w].pass /\ contexts'[w].start = contexts[w].start
        /\ contexts'[w].end = contexts[w].end /\ contexts'[w].positions = [d \in Digits |-> WritePosition(w, d)]
    BY <1>4, ContextFields
  <2>2. Told(w)' /\ Chunk(w)' = Chunk(w)
    BY <1>2, <1>6, <2>1 DEF ChunkCounted, Told, Chunk
  <2>3. Keys' = Keys
    BY <1>2 DEF Keys
  <2>4. Moved(PositionsOf(w)', Keys', count', Chunk(w)')
    <3>1. \A d \in Digits : PositionsOf(w)'[d] = From(Keys, count, Chunk(w), d)
      BY <1>7, <2>1 DEF PositionsOf
    <3> QED BY <1>2, <2>2, <2>3, <3>1 DEF Moved
  <2>5. Placed(count', Keys', Src', Dst', Chunk(w)', Chunk(w)')
    <3>1. Chunk(w)' \in Int
      BY <1>2, <1>3, <2>2, Chunks
    <3> QED BY <3>1 DEF Placed
  <2>6. Scattered(w, Chunk(w))'
    BY <2>2, <2>4, <2>5 DEF Scattered
  <2> QED BY <1>0, <1>5, <2>6 DEF Running, Worked
<1> QED BY <1>2, <1>4, <1>8 DEF SortInv

\* A step to a place where no thread exists and no work is recorded.
LEMMA IdleStep ==
  ASSUME SortInv, UNCHANGED <<input_vars, contexts>>, \A w \in Workers : State(w)' = "none",
         pc' \in {"start", "insertion", "serial", "create_count", "returned"},
         pass' \in 0 .. Passes, ArrayShape', Progress'
  PROVE  SortInv'
<1>1. Workers' = Workers /\ UNCHANGED <<count, worker_count, input>>
  BY DEF Workers, input_vars
<1>2. Sizes'
  BY <1>1 DEF SortInv, Sizes
<1>3. ContextShape'
  BY <1>1 DEF SortInv, ContextShape
<1>4. \A w \in Workers : Running(w)' /\ Worked(w)'
  BY DEF Running, Worked
<1> QED BY <1>1, <1>2, <1>3, <1>4 DEF SortInv

(* Once every worker has scattered its chunk, every entry is at its place. *)
LEMMA AllPlaced ==
  ASSUME Sizes, worker_count > 0, \A w \in Workers : Scattered(w, Chunk(w + 1))
  PROVE  Placed(count, Keys, Src, Dst, 0, count)
<1>0. worker_count \in Nat /\ count \in Nat
  BY DEF Sizes
<1>1. PICK n, k, g, a, b : /\ n = count /\ k = worker_count /\ g = Keys /\ a = Src /\ b = Dst
                           /\ n \in Nat /\ k \in Nat /\ k > 0
  BY <1>0
<1> DEFINE T == {v \in 0 .. k : Placed(n, g, a, b, 0, Part(n, k, v))}
<1>2. /\ Part(n, k, 0) = 0 /\ Part(n, k, k) = n
      /\ \A v \in 0 .. k : Part(n, k, v) \in 0 .. n
      /\ \A u, v \in 0 .. k : u <= v => Part(n, k, u) <= Part(n, k, v)
  BY <1>1, Parts
<1>3. 0 \in T
  BY <1>1, <1>2 DEF Placed
<1>4. ASSUME NEW v \in 1 .. k, v - 1 \in T PROVE v \in T
  <2>1. v - 1 \in Workers /\ (v - 1) + 1 = v
    BY <1>1 DEF Workers
  <2>2. Placed(count, Keys, Src, Dst, Chunk(v - 1), Chunk((v - 1) + 1))
    BY <2>1 DEF Scattered
  <2>3. Placed(n, g, a, b, Part(n, k, v - 1), Part(n, k, v))
    BY <1>1, <2>1, <2>2 DEF Chunk
  <2>4. Placed(n, g, a, b, 0, Part(n, k, v - 1))
    BY <1>4
  <2>5. PICK x, y : x = Part(n, k, v - 1) /\ y = Part(n, k, v) /\ x \in 0 .. n /\ y \in 0 .. n
    BY <1>1, <1>2
  <2>6. \A i \in 0 .. y - 1 : i \in 0 .. x - 1 \/ i \in x .. y - 1
    BY <2>5
  <2>7. Placed(n, g, a, b, 0, y)
    BY <2>3, <2>4, <2>5, <2>6 DEF Placed
  <2> QED BY <1>1, <2>5, <2>7
<1> HIDE DEF T
<1>5. \A v \in 0 .. k : v \in T
  BY <1>1, <1>3, <1>4, UpTo
<1>6. k \in T
  BY <1>1, <1>5
<1> QED BY <1>1, <1>2, <1>6 DEF T

\* When all have scattered, the other array is arranged by one digit more.
LEMMA NextPassStep ==
  ASSUME LifeInv, SortInv, NextPass
  PROVE  SortInv'
<1>0. /\ pc = "next_pass" /\ pass' = pass + 1 /\ UNCHANGED <<input_vars, arrays, contexts, threads>>
      /\ \/ pass + 1 = Passes /\ pc' = "returned" /\ error' = "ok"
         \/ pass + 1 # Passes /\ pc' = "create_count" /\ error' = error
  BY DEF NextPass, Return
<1>1. pc \in Parallel
  BY <1>0 DEF Parallel
<1>2. /\ Sizes /\ ArrayShape /\ Progress /\ Arranged(count, input, Src, pass) /\ pass < Passes
      /\ worker_count > 0 /\ error = "none"
      /\ \A w \in Workers : Scattered(w, Chunk(w + 1))
  BY <1>0, <1>1 DEF SortInv, Progress, Worked
<1>3. UNCHANGED <<count, worker_count, input>>
  BY <1>0 DEF input_vars
<1>4. \A w \in Workers : State(w)' = "none"
  BY <1>0, <1>1, AtWork DEF State
<1>5. pass \in 0 .. Passes /\ pass + 1 \in 0 .. Passes
  BY <1>2, SortAssumption DEF Sizes
<1>6. Arranged(count, input, Dst, pass + 1)
  <2>1. Placed(count, Keys, Src, Dst, 0, count)
    BY <1>2, AllPlaced
  <2>2. PICK n, inp, a, b, p : n = count /\ inp = input /\ a = Src /\ b = Dst /\ p = pass
    OBVIOUS
  <2>3. Placed(n, DigitsAt(n, a, p), a, b, 0, n)
    BY <2>1, <2>2 DEF Keys
  <2>4. n \in Nat /\ Given(n, inp) /\ p \in 0 .. Passes /\ p < Passes /\ Arranged(n, inp, a, p)
    BY <1>2, <2>2 DEF Sizes
  <2>5. Arranged(n, inp, b, p + 1)
    BY <2>3, <2>4, PassSorts
  <2> QED BY <2>2, <2>5
<1>7. Src' = Dst
  <2>1. Source(pass + 1) = Destination(pass)
    BY <1>5, Buffers
  <2> QED BY <1>0, <2>1 DEF Src, Dst
<1>8. Arranged(count', input', Src', pass')
  BY <1>0, <1>3, <1>6, <1>7
<1>9. pass + 1 = Passes => Ordered'
  <2>1. ASSUME pass + 1 = Passes PROVE Arranged(count, input, arrays["entries"], Passes)
    <3>1. Src' = arrays["entries"]
      BY <1>0, <2>1, Buffers DEF Src
    <3> QED BY <1>6, <1>7, <2>1, <3>1
  <2>2. pass + 1 = Passes => Ordered
    BY <1>2, <2>1, ArrangedLast DEF Sizes
  <2>3. Ordered' = Ordered
    BY <1>0, <1>3 DEF Ordered, Indices
  <2> QED BY <2>2, <2>3
<1>10. Progress'
  <2>1. pass + 1 # Passes => pass' < Passes
    BY <1>0, <1>5, SortAssumption
  <2>2. pass + 1 # Passes => error' = "none"
    BY <1>0, <1>2
  <2> QED BY <1>0, <1>2, <1>3, <1>8, <1>9, <2>1, <2>2 DEF Progress, Parallel
<1>11. ArrayShape'
  BY <1>0, <1>2, <1>3 DEF ArrayShape, Indices
<1>12. pc' \in {"start", "insertion", "serial", "create_count", "returned"} /\ pass' \in 0 .. Passes
  BY <1>0, <1>5
<1> QED BY <1>0, <1>4, <1>10, <1>11, <1>12, IdleStep

\* After a failed creation the sort returns its error.
LEMMA UnwindStep ==
  ASSUME LifeInv, SortInv, Unwind
  PROVE  SortInv'
<1>0. pc = "unwind" /\ UNCHANGED <<input_vars, arrays, contexts, pass>>
  BY DEF Unwind
<1>1. pc \in Parallel
  BY <1>0 DEF Parallel
<1>2. UNCHANGED <<count, worker_count, input>> /\ Workers' = Workers
  BY <1>0 DEF input_vars, Workers
<1>3. /\ Sizes /\ ArrayShape /\ ContextShape /\ Progress /\ Arranged(count, input, Src, pass)
      /\ pass < Passes /\ worker_count > 0 /\ error = "none" /\ Shape
  BY <1>0, <1>1 DEF SortInv, Progress, LifeInv
<1>4. \/ pc' = pc /\ error' = error
      \/ pc' = "returned" /\ error' = "internal"
  BY DEF Unwind, Return
<1>5. ASSUME NEW w \in Workers PROVE threads'[w] = threads[w] \/ State(w)' = "none"
  <2>1. CASE threads' = [threads EXCEPT ![index] = NoThread]
    <3>1. CASE w = index
      BY <1>3, <2>1, <3>1 DEF State, NoThread, Shape
    <3>2. CASE w # index
      BY <1>3, <2>1, <3>2 DEF Shape
    <3> QED BY <3>1, <3>2
  <2> QED BY <2>1 DEF Unwind
<1>6. Src' = Src /\ Dst' = Dst /\ Indices' = Indices
  BY <1>0, <1>2 DEF Src, Dst, Indices
<1>7. ASSUME NEW w \in Workers PROVE Running(w)' /\ Worked(w)'
  <2>1. CASE State(w)' = "none"
    BY <1>0, <1>4, <2>1 DEF Running, Worked
  <2>2. CASE threads'[w] = threads[w]
    <3>1. Running(w)
      BY DEF SortInv
    <3>2. \A y \in 0 .. count : Placed(count, Keys, Src, Dst, Chunk(w), y) => Placed(count, Keys, Src, Dst', Chunk(w), y)
      BY <1>6
    <3>3. Running(w)'
      BY <1>0, <1>2, <1>3, <1>6, <2>2, <3>1, <3>2, KeptParts
    <3> QED BY <1>0, <1>4, <3>3 DEF Worked
  <2> QED BY <1>5, <2>1, <2>2
<1>8. Sizes' /\ ArrayShape' /\ ContextShape'
  BY <1>0, <1>2, <1>3, <1>6 DEF Sizes, ArrayShape, ContextShape
<1>9. Progress'
  BY <1>0, <1>2, <1>3, <1>4, <1>6 DEF Progress, Parallel
<1> QED BY <1>2, <1>7, <1>8, <1>9 DEF SortInv

-----------------------------------------------------------------------------
(* The main thread, outside a parallel sort *)

\* No thread exists there.
LEMMA Alone ==
  ASSUME LifeInv, pc \notin Parallel, UNCHANGED <<input_vars, threads>>
  PROVE  \A w \in Workers : State(w)' = "none"
<1>1. \A w \in Workers : State(w) = "none"
  BY AtWork
<1> QED BY <1>1 DEF State

\* The choice of the algorithm.
LEMMA StartStep ==
  ASSUME LifeInv, SortInv, Start
  PROVE  SortInv'
<1>0. /\ pc = "start" /\ UNCHANGED <<input_vars, arrays, contexts, threads, pass, limit>>
      /\ \/ count < 2 /\ pc' = "returned" /\ error' = "ok"
         \/ pc' = "returned" /\ error' = "oom"
         \/ count >= 2 /\ pc' = "insertion" /\ index' = 1 /\ error' = error
         \/ pc' = "serial" /\ error' = error
         \/ worker_count >= 2 /\ pc' = "create_count" /\ error' = error
  BY DEF Start, Return
<1>1. UNCHANGED <<count, worker_count, input, arrays, pass>>
  BY <1>0 DEF input_vars
<1>2. /\ Sizes /\ ArrayShape /\ Progress /\ pass = 0 /\ error = "none"
      /\ \A i \in 0 .. count - 1 : arrays["entries"][i] = input[i]
  BY <1>0 DEF SortInv, Progress
<1>3. PICK n, inp, a : n = count /\ inp = input /\ a = arrays["entries"] /\ n \in Nat
  BY <1>2 DEF Sizes
<1>4. Given(n, inp) /\ \A i \in 0 .. n - 1 : a[i] = inp[i]
  BY <1>2, <1>3 DEF Sizes
<1>5. SameEntries(n, inp, a) /\ Arranged(n, inp, a, 0)
  BY <1>3, <1>4, ArrangedFirst
<1>6. Src' = a /\ Arranged(count', input', Src', pass')
  <2>1. Source(0) = "entries"
    BY Buffers
  <2>2. Src' = a
    BY <1>1, <1>2, <1>3, <2>1 DEF Src
  <2> QED BY <1>1, <1>2, <1>3, <1>5, <2>2
<1>7. count >= 2 => Inserted(count', input', arrays'["entries"], 1)
  <2>1. ASSUME n >= 2 PROVE Inserted(n, inp, a, 1)
    <3>1. 1 \in 1 .. n
      BY <1>3, <2>1
    <3>2. \A j \in 1 .. n - 1 : a[j] = inp[j]
      BY <1>3, <1>4
    <3>3. \A i \in 0 .. 1 - 1 : IdOf(a[i]) < 1
      <4>1. IdOf(a[0]) = 0
        BY <1>3, <1>4, <2>1 DEF Given
      <4>2. \A i \in 0 .. 1 - 1 : i = 0
        OBVIOUS
      <4> QED BY <4>1, <4>2
    <3>4. \A i, j \in 0 .. 1 - 1 : i < j => Precedes(a[i], a[j])
      OBVIOUS
    <3> QED BY <1>5, <3>1, <3>2, <3>3, <3>4 DEF Inserted
  <2> QED BY <1>1, <1>3, <2>1
<1>8. count < 2 => Ordered'
  <2>1. ASSUME count < 2 PROVE Ordered
    <3>1. count \in Nat
      BY <1>3
    <3>2. \A i, j \in 0 .. count - 1 : i < j => Precedes(arrays["entries"][i], arrays["entries"][j])
      BY <2>1, <3>1
    <3>3. SameEntries(count, input, arrays["entries"])
      BY <1>3, <1>5
    <3> QED BY <3>1, <3>2, <3>3, OrderedIs
  <2>2. Ordered' = Ordered
    BY <1>1 DEF Ordered, Indices
  <2> QED BY <2>1, <2>2
<1>9. ArrayShape'
  BY <1>1, <1>2 DEF ArrayShape, Indices
<1>10. pass' \in 0 .. Passes /\ pass' < Passes
  BY <1>1, <1>2, SortAssumption
<1>11. Progress'
  <2>1. CASE pc' = "returned"
    BY <1>0, <1>8, <2>1 DEF Progress, Parallel
  <2>2. CASE pc' = "insertion"
    BY <1>0, <1>2, <1>7, <2>2 DEF Progress, Parallel
  <2>3. CASE pc' = "serial"
    BY <1>0, <1>2, <1>6, <2>3 DEF Progress, Parallel
  <2>4. CASE pc' = "create_count"
    <3>1. worker_count' > 0
      BY <1>0, <1>1, <1>2, <2>4 DEF Sizes
    <3> QED BY <1>0, <1>2, <1>6, <1>10, <2>4, <3>1 DEF Progress, Parallel
  <2> QED BY <1>0, <2>1, <2>2, <2>3, <2>4
<1>12. \A w \in Workers : State(w)' = "none"
  <2>1. pc \notin Parallel
    BY <1>0 DEF Parallel
  <2> QED BY <1>0, <2>1, Alone
<1> QED BY <1>0, <1>9, <1>10, <1>11, <1>12, IdleStep

\* One pivot of the insertion sort.
LEMMA InsertPivotStep ==
  ASSUME LifeInv, SortInv, InsertPivot
  PROVE  SortInv'
<1>0. /\ pc = "insertion" /\ index < count /\ index' = index + 1
      /\ UNCHANGED <<input_vars, allocated, contexts, threads, pc, pass, limit, error>>
  BY DEF InsertPivot
<1>1. UNCHANGED <<count, worker_count, input, pass>>
  BY <1>0 DEF input_vars
<1>2. /\ Sizes /\ ArrayShape /\ Progress /\ error = "none"
      /\ Inserted(count, input, arrays["entries"], index)
  BY <1>0 DEF SortInv, Progress
<1>3. PICK n, inp, a, x : n = count /\ inp = input /\ a = arrays["entries"] /\ x = index /\ n \in Nat
  BY <1>2 DEF Sizes
<1>4. Given(n, inp) /\ Inserted(n, inp, a, x) /\ x < n /\ x \in 1 .. n
  BY <1>0, <1>2, <1>3 DEF Sizes, Inserted
<1>5. x \in 0 .. n /\ x \in 0 .. n - 1
  BY <1>3, <1>4
<1>6. PICK s : s = Slot(a[x])
  OBVIOUS
<1>7. s \in 0 .. x /\ Fits(a, x, a[x], s)
  <2>1. \A i \in 0 .. n - 1 : HashOf(a[i]) \in Nat
    BY <1>3, <1>4, EntryFacts DEF Inserted
  <2>2. HashOf(a[x]) \in Nat
    BY <1>5, <2>1
  <2>3. PICK e : e = a[x]
    OBVIOUS
  <2>4. \E j \in 0 .. x : Fits(a, x, e, j)
    BY <1>3, <1>5, <2>1, <2>2, <2>3, SlotExists
  <2>5. Slot(e) = CHOOSE j \in 0 .. x : Fits(a, x, e, j)
    BY <1>3, Zenon DEF Slot, Fits, HashOf
  <2> QED BY <1>6, <2>3, <2>4, <2>5
<1> DEFINE f == [i \in Indices |-> IF i > x \/ i < s THEN a[i] ELSE IF i = s THEN a[x] ELSE a[i - 1]]
<1>8. arrays' = [arrays EXCEPT !["entries"] = f]
  BY <1>3, <1>6, Zenon DEF InsertPivot
<1>9. f = [i \in Indices |-> f[i]]
  OBVIOUS
<1>10. \A i \in 0 .. n - 1 : f[i] = IF i > x \/ i < s THEN a[i] ELSE IF i = s THEN a[x] ELSE a[i - 1]
  BY <1>3 DEF Indices
<1> HIDE DEF f
<1>11. ArrayShape' /\ arrays'["entries"] = f
  <2>1. "entries" \in ArrayNames
    BY DEF ArrayNames
  <2>2. count' = count
    BY <1>1
  <2> QED BY <1>2, <1>8, <1>9, <2>1, <2>2, ArrayWhole
<1>12. Inserted(n, inp, f, x + 1)
  BY <1>3, <1>4, <1>7, <1>10, InsertSorts
<1>13. Progress'
  <2>1. Inserted(count', input', arrays'["entries"], index')
    BY <1>0, <1>1, <1>3, <1>11, <1>12
  <2> QED BY <1>0, <1>2, <2>1 DEF Progress, Parallel
<1>14. \A w \in Workers : State(w)' = "none"
  <2>1. pc \notin Parallel
    BY <1>0 DEF Parallel
  <2> QED BY <1>0, <2>1, Alone
<1>15. pass' \in 0 .. Passes
  BY <1>1, <1>2 DEF Sizes
<1> QED BY <1>0, <1>11, <1>13, <1>14, <1>15, IdleStep

\* The insertion sort ends with every entry inserted.
LEMMA InsertionDoneStep ==
  ASSUME LifeInv, SortInv, InsertionDone
  PROVE  SortInv'
<1>0. /\ pc = "insertion" /\ index = count /\ pc' = "returned" /\ error' = "ok"
      /\ UNCHANGED <<input_vars, arrays, contexts, threads, pass>>
  BY DEF InsertionDone, Return
<1>1. UNCHANGED <<count, worker_count, input, pass, arrays>>
  BY <1>0 DEF input_vars
<1>2. Sizes /\ ArrayShape /\ Inserted(count, input, arrays["entries"], count)
  BY <1>0 DEF SortInv, Progress
<1>3. Ordered
  BY <1>2, OrderedIs DEF Inserted, Sizes
<1>4. Ordered'
  BY <1>1, <1>3 DEF Ordered, Indices
<1>5. Progress'
  BY <1>0, <1>4 DEF Progress, Parallel
<1>6. ArrayShape'
  BY <1>1, <1>2 DEF ArrayShape, Indices
<1>7. \A w \in Workers : State(w)' = "none"
  <2>1. pc \notin Parallel
    BY <1>0 DEF Parallel
  <2> QED BY <1>0, <2>1, Alone
<1>8. pass' \in 0 .. Passes
  BY <1>1, <1>2 DEF Sizes
<1> QED BY <1>0, <1>5, <1>6, <1>7, <1>8, IdleStep

(* The prefix sums of the serial pass are the places of a stable sort.     *)
LEMMA SerialPlaces ==
  ASSUME Sizes, Arranged(count, input, Src, pass), NEW i \in Indices
  PROVE  SerialPosition(Src, i) = Place(Keys, count, i)
<1>1. PICK a, n, g : a = Src /\ n = count /\ g = Keys
  OBVIOUS
<1>2. \A k \in 0 .. n - 1 : g[k] = DigitOf(HashOf(a[k]), pass)
  BY <1>1, KeysKnown
<1>3. \A k \in 0 .. n - 1 : g[k] = Digit(a[k], pass)
  BY <1>2, Zenon DEF Digit, DigitOf, HashOf
<1>4. Indices = 0 .. n - 1
  BY <1>1 DEF Indices
<1> DEFINE S == {k \in Indices : \/ Digit(a[k], pass) < Digit(a[i], pass)
                                 \/ Digit(a[k], pass) = Digit(a[i], pass) /\ k < i}
<1>5. SerialPosition(a, i) = Cardinality(S)
  BY Zenon DEF SerialPosition
<1>6. ASSUME NEW k \in 0 .. n - 1 PROVE k \in S <=> Goes(g, k, i)
  <2>1. PICK x, y : x = Digit(a[k], pass) /\ y = Digit(a[i], pass)
    OBVIOUS
  <2>2. g[k] = x /\ g[i] = y
    BY <1>3, <1>4, <2>1
  <2>3. k \in S <=> x < y \/ (x = y /\ k < i)
    BY <1>4, <2>1, Zenon
  <2> QED BY <2>2, <2>3, Zenon DEF Goes
<1>7. S \subseteq 0 .. n - 1
  BY <1>4
<1> HIDE DEF S
<1>8. S = Earlier(g, n, i)
  BY <1>6, <1>7 DEF Earlier
<1> QED BY <1>1, <1>5, <1>8, Zenon DEF Place

\* One pass of the serial radix sort.
LEMMA SerialPassStep ==
  ASSUME LifeInv, SortInv, SerialPass
  PROVE  SortInv'
<1>0. /\ pc = "serial" /\ pass < Passes /\ pass' = pass + 1
      /\ UNCHANGED <<input_vars, allocated, contexts, threads, pc, index, limit, error>>
  BY DEF SerialPass
<1>1. UNCHANGED <<count, worker_count, input>>
  BY <1>0 DEF input_vars
<1>2. /\ Sizes /\ ArrayShape /\ Progress /\ error = "none" /\ Arranged(count, input, Src, pass)
  BY <1>0 DEF SortInv, Progress
<1>3. PICK n, inp, a, p, b : /\ n = count /\ inp = input /\ a = Src /\ p = pass /\ b = Destination(pass)
                             /\ n \in Nat /\ p \in 0 .. Passes /\ p < Passes
  BY <1>0, <1>2 DEF Sizes
<1>4. Given(n, inp) /\ Arranged(n, inp, a, p) /\ Indices = 0 .. n - 1
  BY <1>2, <1>3 DEF Sizes, Indices
<1> DEFINE f == [q \in Indices |-> Src[CHOOSE i \in Indices : SerialPosition(Src, i) = q]]
<1>5. arrays' = [arrays EXCEPT ![Destination(pass)] = f]
  BY Zenon DEF SerialPass, Src
<1>6. f = [q \in Indices |-> f[q]] /\ \A q \in Indices : f[q] = Src[CHOOSE i \in Indices : SerialPosition(Src, i) = q]
  OBVIOUS
<1> HIDE DEF f
<1>7. PICK g : g = Keys
  OBVIOUS
<1>8. Digital(g, n) /\ \A i \in Indices : SerialPosition(Src, i) = Place(g, n, i)
  BY <1>2, <1>3, <1>7, KeysKnown, SerialPlaces
<1>9. ASSUME NEW i \in 0 .. n - 1 PROVE f[Place(g, n, i)] = a[i]
  <2>1. PICK q : q = Place(g, n, i) /\ q \in Indices
    BY <1>3, <1>4, <1>8, PlaceInside
  <2>2. \A k \in Indices : SerialPosition(Src, k) = q => k = i
    BY <1>3, <1>4, <1>8, <2>1, PlaceOrders
  <2>3. i \in Indices /\ SerialPosition(Src, i) = q
    BY <1>4, <1>8, <2>1
  <2>4. (CHOOSE k \in Indices : SerialPosition(Src, k) = q) = i
    BY <2>2, <2>3
  <2> QED BY <1>3, <1>6, <2>1, <2>4
<1>10. Placed(n, DigitsAt(n, a, p), a, f, 0, n)
  <2>1. DigitsAt(n, a, p) = g
    BY <1>3, <1>7 DEF Keys
  <2> QED BY <1>9, <2>1 DEF Placed
<1>11. Arranged(n, inp, f, p + 1)
  BY <1>3, <1>4, <1>10, PassSorts
<1>12. ArrayShape' /\ arrays'[b] = f
  <2>1. b \in ArrayNames /\ count' = count
    BY <1>1, <1>3, Buffers
  <2>2. arrays' = [arrays EXCEPT ![b] = f]
    BY <1>3, <1>5
  <2>3. f = [q \in Indices |-> f[q]]
    BY <1>6
  <2> QED BY <1>2, <2>1, <2>2, <2>3, ArrayWhole
<1>13. Src' = f
  <2>1. Source(p + 1) = Destination(p)
    BY <1>3, Buffers
  <2> QED BY <1>0, <1>3, <1>12, <2>1 DEF Src
<1>14. Progress'
  <2>1. Arranged(count', input', Src', pass')
    BY <1>0, <1>1, <1>3, <1>11, <1>13
  <2> QED BY <1>0, <1>2, <2>1 DEF Progress, Parallel
<1>15. \A w \in Workers : State(w)' = "none"
  <2>1. pc \notin Parallel
    BY <1>0 DEF Parallel
  <2> QED BY <1>0, <2>1, Alone
<1>16. pass' \in 0 .. Passes
  BY <1>0, <1>3, SortAssumption
<1> QED BY <1>0, <1>12, <1>14, <1>15, <1>16, IdleStep

\* The serial radix sort ends after its last pass.
LEMMA SerialDoneStep ==
  ASSUME LifeInv, SortInv, SerialDone
  PROVE  SortInv'
<1>0. /\ pc = "serial" /\ pass = Passes /\ pc' = "returned" /\ error' = "ok"
      /\ UNCHANGED <<input_vars, arrays, contexts, threads, pass>>
  BY DEF SerialDone, Return
<1>1. UNCHANGED <<count, worker_count, input, pass, arrays>>
  BY <1>0 DEF input_vars
<1>2. Sizes /\ ArrayShape /\ Arranged(count, input, Src, pass)
  BY <1>0 DEF SortInv, Progress
<1>3. Arranged(count, input, arrays["entries"], Passes)
  BY <1>0, <1>2, Buffers DEF Src
<1>4. Ordered
  BY <1>2, <1>3, ArrangedLast DEF Sizes
<1>5. Ordered'
  BY <1>1, <1>4 DEF Ordered, Indices
<1>6. Progress'
  BY <1>0, <1>5 DEF Progress, Parallel
<1>7. ArrayShape'
  BY <1>1, <1>2 DEF ArrayShape, Indices
<1>8. \A w \in Workers : State(w)' = "none"
  <2>1. pc \notin Parallel
    BY <1>0 DEF Parallel
  <2> QED BY <1>0, <2>1, Alone
<1>9. pass' \in 0 .. Passes
  BY <1>1, <1>2 DEF Sizes
<1> QED BY <1>0, <1>6, <1>7, <1>8, <1>9, IdleStep

\* A step that changes nothing.
LEMMA SortStutter == ASSUME SortInv, UNCHANGED vars PROVE SortInv'
<1>0. /\ UNCHANGED <<count, worker_count, input, arrays, contexts, threads, pc, pass, index, error>>
  BY DEF vars, input_vars, main
<1>1. /\ Workers' = Workers /\ Indices' = Indices /\ Src' = Src /\ Dst' = Dst /\ Sizes /\ Sizes'
      /\ ArrayShape' /\ ContextShape'
  BY <1>0 DEF SortInv, Sizes, ArrayShape, ContextShape, Workers, Indices, Src, Dst
<1>4. Ordered' = Ordered
  BY <1>0, <1>1 DEF Ordered
<1>2. Progress'
  BY <1>0, <1>1, <1>4, Zenon DEF SortInv, Progress
<1>3. ASSUME NEW w \in Workers PROVE Running(w)' /\ Worked(w)'
  <2>1. contexts'[w] = contexts[w] /\ threads'[w] = threads[w] /\ Running(w) /\ Worked(w)
    BY <1>0 DEF SortInv
  <2>2. \A y \in 0 .. count : Placed(count, Keys, Src, Dst, Chunk(w), y) => Placed(count, Keys, Src, Dst', Chunk(w), y)
    BY <1>1
  <2> QED BY <1>0, <1>1, <2>1, <2>2, Kept
<1> QED BY <1>1, <1>2, <1>3 DEF SortInv

\* No step of the main thread or of a worker breaks the invariant.
LEMMA SortStep == LifeInv /\ SortInv /\ [Next]_vars => SortInv'
<1> SUFFICES ASSUME LifeInv, SortInv, [Next]_vars
             PROVE  SortInv'
  OBVIOUS
<1>1. CASE Main
  BY <1>1, StartStep, InsertPivotStep, InsertionDoneStep, SerialPassStep, SerialDoneStep, CreateCountStep,
     JoinCountStep, PositionsStep, CreateScatterStep, JoinScatterStep, NextPassStep, UnwindStep, Zenon DEF Main
<1>2. CASE \E w \in Workers : Thread(w)
  BY <1>2, ZeroStep, CountStep, ScatterStep, ExitStep, Zenon DEF Thread
<1>3. CASE UNCHANGED vars
  BY <1>3, SortStutter
<1> QED BY <1>1, <1>2, <1>3 DEF Next, Returned

\* The invariant holds when the sort is called.
LEMMA SortInit == Init => SortInv
<1> SUFFICES ASSUME Init
             PROVE  SortInv
  OBVIOUS
<1>1. /\ count \in Nat /\ worker_count \in Nat /\ pass = 0 /\ pc = "start" /\ error = "none"
      /\ pass \in 0 .. Passes /\ Indices = 0 .. count - 1 /\ Workers = 0 .. worker_count - 1
  BY SortAssumption DEF Init, Indices, Workers
<1>2. PICK h \in [0 .. count - 1 -> Hashes] : input = [i \in 0 .. count - 1 |-> [hash |-> h[i], id |-> i]]
  BY DEF Init
<1>3. Given(count, input)
  <2>1. ASSUME NEW i \in 0 .. count - 1 PROVE HashOf(input[i]) \in Hashes /\ IdOf(input[i]) = i
    <3>1. h[i] \in Hashes
      OBVIOUS
    <3>2. input[i] = [hash |-> h[i], id |-> i]
      BY <1>2
    <3> QED BY <3>1, <3>2 DEF HashOf, IdOf
  <2> QED BY <2>1 DEF Given
<1>4. arrays = [b \in {"entries", "scratch"} |->
                    IF b = "entries" THEN input ELSE [i \in 0 .. count - 1 |-> Garbage]]
  BY DEF Init
<1>5. arrays["entries"] = input /\ arrays["scratch"] = [i \in 0 .. count - 1 |-> Garbage]
  BY <1>4
<1>6. ArrayShape
  <2>1. input = [i \in Indices |-> input[i]]
    BY <1>1, <1>2
  <2>2. arrays["scratch"] = [i \in Indices |-> arrays["scratch"][i]]
    BY <1>1, <1>5
  <2>3. arrays = [b \in ArrayNames |-> arrays[b]]
    BY <1>4 DEF ArrayNames
  <2> QED BY <1>5, <2>1, <2>2, <2>3 DEF ArrayShape, ArrayNames
<1>7. contexts = [w \in Workers |-> NoContext]
  BY <1>1 DEF Init
<1>8. ContextShape
  <2> DEFINE z == [d \in Digits |-> 0]
  <2>1. NoContext = Context(0, 0, 0, z, z) /\ z = [d \in Digits |-> z[d]]
    BY DEF NoContext, Context
  <2> HIDE DEF z
  <2>2. IsContext(NoContext)
    BY <2>1, ContextFields DEF IsContext
  <2> QED BY <1>7, <2>2 DEF ContextShape
<1>9. \A w \in Workers : State(w) = "none"
  BY <1>1 DEF Init, State, NoThread
<1>10. \A w \in Workers : Running(w) /\ Worked(w)
  BY <1>1, <1>9 DEF Running, Worked
<1>11. Progress
  BY <1>1, <1>5 DEF Progress, Parallel
<1>12. Sizes
  BY <1>1, <1>3 DEF Sizes
<1> QED BY <1>6, <1>8, <1>10, <1>11, <1>12 DEF SortInv

\* The invariant holds in every reachable state.
LEMMA SortAlways == Spec => [](LifeInv /\ SortInv)
<1>1. Init => LifeInv /\ SortInv
  BY LifeInit, SortInit
<1>2. LifeInv /\ SortInv /\ [Next]_vars => (LifeInv /\ SortInv)'
  BY LifeStep, SortStep
<1> QED BY <1>1, <1>2, PTL DEF Spec

\* The invariant says what a sort that returns ok has done.
LEMMA SortedImplied == SortInv => SortedStably
  BY DEF SortInv, Progress, SortedStably, Ordered

(***************************************************************************)
(* bc_hrbl_writer_pending_sort_by_hash leaves the pending entries ordered  *)
(* by hash and, among equal hashes, in the order they were added, with     *)
(* none lost or doubled, whenever it returns ok: whichever algorithm it    *)
(* takes, and however its threads interleave.                              *)
(***************************************************************************)
THEOREM SortIsStable == Spec => []SortedStably
  BY SortAlways, SortedImplied, PTL

-----------------------------------------------------------------------------
(* The positions thread w has still to write: of each digit, those between *)
(* what it has written and the end of its part of the bucket.              *)
LEMMA TargetsAre ==
  ASSUME LifeInv, SortInv, NEW w \in Workers, State(w) = "scatter", NEW q \in Targets(w)
  PROVE  \E d \in Digits : q \in Int /\ From(Keys, count, NextOf(w), d) <= q
                                       /\ q < From(Keys, count, Chunk(w + 1), d)
<1>0. State(w) # "none"
  OBVIOUS
<1>1. /\ Sizes /\ Told(w) /\ Running(w) /\ Arranged(count, input, Src, pass)
      /\ Chunk(w) \in 0 .. count /\ Chunk(w + 1) \in 0 .. count
  BY <1>0, RunFacts
<1>2. NextOf(w) \in Chunk(w) .. Chunk(w + 1) /\ Scattered(w, NextOf(w))
  BY <1>1 DEF Running
<1>3. PICK n, x, y, g, a : /\ n = count /\ x = NextOf(w) /\ y = Chunk(w + 1) /\ g = Keys /\ a = Src
                           /\ n \in Nat /\ x \in 0 .. n /\ y \in 0 .. n /\ x <= y
  BY <1>1, <1>2 DEF Sizes
<1> DEFINE R(d) == {i \in threads[w].next .. contexts[w].end - 1 :
                      Digit(arrays[Source(contexts[w].pass)][i], contexts[w].pass) = d}
           first(d) == contexts[w].positions[d]
<1>4. PICK d \in Digits : q \in first(d) .. first(d) + Cardinality(R(d)) - 1
  BY Zenon DEF Targets
<1>5. Digital(g, n) /\ \A i \in 0 .. n - 1 : g[i] = DigitOf(HashOf(a[i]), pass)
  BY <1>1, <1>3, KeysKnown
<1>6. contexts[w].pass = pass /\ contexts[w].end = y /\ threads[w].next = x
  BY <1>1, <1>3 DEF Told, NextOf
<1>7. ASSUME NEW i \in x .. y - 1 PROVE i \in R(d) <=> g[i] = d
  <2>1. i \in 0 .. n - 1
    BY <1>3
  <2>2. Digit(arrays[Source(contexts[w].pass)][i], contexts[w].pass) = g[i]
    BY <1>3, <1>5, <1>6, <2>1, Zenon DEF Digit, DigitOf, HashOf, Src
  <2>3. i \in threads[w].next .. contexts[w].end - 1
    BY <1>6
  <2> QED BY <2>2, <2>3, Zenon
<1>8. R(d) \subseteq x .. y - 1
  BY <1>6
<1> HIDE DEF R
<1>9. R(d) = Hits(g, x, y, d)
  BY <1>7, <1>8 DEF Hits
<1>10. first(d) = From(g, n, x, d)
  BY <1>2, <1>3 DEF Scattered, Moved, PositionsOf
<1>11. d \in Int
  BY SortAssumption DEF Digits
<1>12. /\ From(g, n, x, d) \in 0 .. n
       /\ From(g, n, y, d) = From(g, n, x, d) + HitCount(g, x, y, d) /\ HitCount(g, x, y, d) \in Nat
  BY <1>3, <1>5, <1>11, FromFacts
<1>13. PICK f, h, t : f = From(g, n, x, d) /\ h = HitCount(g, x, y, d) /\ t = From(g, n, y, d)
  OBVIOUS
<1>14. q \in f .. f + h - 1
  BY <1>4, <1>9, <1>10, <1>13 DEF HitCount
<1>15. q \in Int /\ f <= q /\ q < t
  BY <1>12, <1>13, <1>14
<1> QED BY <1>3, <1>13, <1>15

\* What two running threads have still to write is disjoint.
LEMMA DisjointImplied == LifeInv /\ SortInv => ScattersDisjoint
<1> SUFFICES ASSUME LifeInv, SortInv, NEW v \in Workers, NEW w \in Workers,
                    threads[v].state = "scatter", threads[w].state = "scatter"
             PROVE  /\ Targets(v) \subseteq Indices
                    /\ v # w => Targets(v) \cap Targets(w) = {}
  BY DEF ScattersDisjoint
<1>1. State(v) = "scatter" /\ State(w) = "scatter" /\ State(v) # "none" /\ State(w) # "none"
  BY DEF State
<1>2. /\ Sizes /\ Running(v) /\ Arranged(count, input, Src, pass) /\ worker_count > 0
      /\ Chunk(v) \in 0 .. count /\ Chunk(v + 1) \in 0 .. count
  BY <1>1, RunFacts
<1>3. Running(w) /\ Chunk(w) \in 0 .. count /\ Chunk(w + 1) \in 0 .. count
  BY <1>1, RunFacts
<1>4. PICK n, g, i, j, k, l : /\ n = count /\ g = Keys /\ i = NextOf(v) /\ j = Chunk(v + 1)
                              /\ k = NextOf(w) /\ l = Chunk(w + 1)
  OBVIOUS
<1>5. i \in Chunk(v) .. j /\ k \in Chunk(w) .. l
  BY <1>1, <1>2, <1>3, <1>4 DEF Running
<1>6. n \in Nat /\ i \in 0 .. n /\ j \in 0 .. n /\ i <= j /\ k \in 0 .. n /\ l \in 0 .. n /\ k <= l
  BY <1>2, <1>3, <1>4, <1>5 DEF Sizes
<1>7. Digital(g, n) /\ Digits \subseteq Int
  BY <1>2, <1>4, KeysKnown, SortAssumption DEF Digits
<1>8. \A q \in Targets(v) : \E d \in Digits : q \in Int /\ From(g, n, i, d) <= q /\ q < From(g, n, j, d)
  BY <1>1, <1>4, TargetsAre
<1>9. \A q \in Targets(w) : \E d \in Digits : q \in Int /\ From(g, n, k, d) <= q /\ q < From(g, n, l, d)
  BY <1>1, <1>4, TargetsAre
<1>10. ASSUME NEW q \in Targets(v) PROVE q \in Indices
  <2>1. PICK d \in Digits : q \in Int /\ From(g, n, i, d) <= q /\ q < From(g, n, j, d)
    BY <1>8
  <2>2. d \in Int
    BY <1>7
  <2>3. From(g, n, i, d) \in 0 .. n
    BY <1>6, <1>7, <2>2, FromFacts
  <2>4. From(g, n, j, d) \in 0 .. n
    BY <1>6, <1>7, <2>2, FromFacts
  <2>5. q \in 0 .. n - 1
    BY <1>6, <2>1, <2>3, <2>4
  <2> QED BY <1>4, <2>5 DEF Indices
<1>11. ASSUME v # w, NEW q \in Targets(v), q \in Targets(w) PROVE FALSE
  <2>1. PICK c \in Digits : q \in Int /\ From(g, n, i, c) <= q /\ q < From(g, n, j, c)
    BY <1>8
  <2>2. PICK d \in Digits : From(g, n, k, d) <= q /\ q < From(g, n, l, d)
    BY <1>9, <1>11
  <2>3. j <= k \/ l <= i
    <3>1. v < w \/ w < v
      BY <1>2, <1>11 DEF Workers, Sizes
    <3>2. CASE v < w
      <4>1. j <= Chunk(w)
        BY <1>2, <1>4, <3>2, Chunks
      <4> QED BY <1>3, <1>5, <1>6, <4>1
    <3>3. CASE w < v
      <4>1. l <= Chunk(v)
        BY <1>2, <1>4, <3>3, Chunks
      <4> QED BY <1>2, <1>5, <1>6, <4>1
    <3> QED BY <3>1, <3>2, <3>3
  <2>4. c \in Int /\ d \in Int
    BY <1>7
  <2>5. ~(From(g, n, k, d) <= q /\ q < From(g, n, l, d))
    BY <1>6, <1>7, <2>1, <2>3, <2>4, Apart
  <2> QED BY <2>2, <2>5
<1> QED BY <1>10, <1>11

(***************************************************************************)
(* Threads that scatter at the same time write within the destination      *)
(* array and never at the same place: the positions the main thread        *)
(* computed from the counts leave each chunk a part of each bucket to      *)
(* itself, and no thread passes the end of its part.                       *)
(***************************************************************************)
THEOREM ScatterNeverRaces == Spec => []ScattersDisjoint
  BY SortAlways, DisjointImplied, PTL
=============================================================================
