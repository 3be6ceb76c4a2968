-------------------------- MODULE StringPoolProofs --------------------------
(***************************************************************************)
(* The string pool for every set of strings, every hash function and every *)
(* initial capacity: the table never fills up, no string is stored twice,  *)
(* the strings tile the buffer, and an intern returns the place of its own *)
(* string.                                                                 *)
(***************************************************************************)
EXTENDS StringPool, FiniteSetTheorems, SequenceTheorems, TLAPS

\* j lies on the way from a to p, p excluded, going round the table.
Between(a, j, p) ==
    IF a <= p THEN a <= j /\ j < p ELSE a <= j \/ j < p

\* The string being interned is stored but not yet indexed.
TailPending == pc \in {"grow", "rehash", "place", "relocate", "insert"}
Enlarged == pc \in {"rehash", "place", "relocate", "insert"}
Moving == pc \in {"rehash", "place"}

\* A string of the pool whose home is a is reached from a through occupied slots.
ChainTo(a, p) == \A j \in Positions(capacity) : Between(a, j, p) => slots[j] # Empty

Shape ==
    /\ hash_of \in [Strings -> HashValues]
    /\ entries \in Seq([string : Strings, offset : Nat])
    /\ size \in Nat
    /\ capacity \in Nat \ {0}
    /\ slots_used \in Nat
    /\ slots \in [Positions(capacity) -> 0 .. slots_used]
    /\ Len(entries) = IF TailPending THEN slots_used + 1 ELSE slots_used
    /\ pc # "idle" => cur \in Strings
    /\ pc \in {"probe", "store", "place", "relocate", "insert"} => pos \in Positions(capacity)
    /\ pc \in {"idle", "probe", "store", "grow", "rehash", "place", "relocate", "insert"}

Load ==
    /\ 4 * slots_used < 3 * capacity
    /\ Enlarged => 4 * (slots_used + 1) < 3 * capacity

Injective ==
    \A p, q \in Positions(capacity) : slots[p] = slots[q] /\ slots[p] # Empty => p = q

Chains ==
    \A p \in Positions(capacity) :
        slots[p] # Empty => ChainTo(Home(SlotString(slots[p]), capacity), p)

Complete ==
    ~Moving => \A e \in 1 .. slots_used : \E p \in Positions(capacity) : slots[p] = e

Search ==
    /\ pc = "probe" =>
         \A j \in Positions(capacity) :
            Between(Home(cur, capacity), j, pos) =>
               slots[j] # Empty /\ SlotString(slots[j]) # cur
    /\ pc = "store" => \A e \in 1 .. slots_used : SlotString(e) # cur
    /\ TailPending => SlotString(slots_used + 1) = cur
    /\ pc \in {"store", "insert"} => slots[pos] = Empty
    /\ pc \in {"store", "relocate", "insert"} => ChainTo(Home(cur, capacity), pos)

Move ==
    Moving =>
        /\ capacity = 2 * OldCapacity
        /\ OldCapacity \in Nat
        /\ next_old \in 0 .. OldCapacity
        /\ old_slots \in [Positions(OldCapacity) -> 0 .. slots_used]
        /\ \A p, q \in Positions(OldCapacity) :
              old_slots[p] = old_slots[q] /\ old_slots[p] # Empty => p = q
        /\ \A e \in 1 .. slots_used : \E q \in Positions(OldCapacity) : old_slots[q] = e
        /\ \A p \in Positions(capacity) :
              slots[p] # Empty => \E q \in Positions(next_old) : old_slots[q] = slots[p]
        /\ \A q \in Positions(next_old) :
              old_slots[q] # Empty => \E p \in Positions(capacity) : slots[p] = old_slots[q]
        /\ pc = "place" =>
              /\ next_old < OldCapacity
              /\ old_slots[next_old] # Empty
              /\ ChainTo(Home(SlotString(old_slots[next_old]), capacity), pos)

(* The inductive invariant of the pool while it is in use. *)
PoolInv ==
    /\ Live => Shape /\ Load /\ Injective /\ Chains /\ Complete /\ Search /\ Move
    /\ NoStringTwice

-----------------------------------------------------------------------------
(* A home position is a position of the table. *)
LEMMA HomeInTable ==
  ASSUME hash_of \in [Strings -> HashValues], NEW s \in Strings, NEW c \in Nat \ {0}
  PROVE  Home(s, c) \in Positions(c)
<1>1. Mark(hash_of[s]) \in Nat
  BY StringsAssumption DEF Mark
<1> QED BY <1>1 DEF Home, Positions

(* A probe step stays in the table and passes exactly one slot. *)
LEMMA ProbeStep ==
  ASSUME NEW c \in Nat \ {0}, NEW h \in Positions(c), NEW p \in Positions(c)
  PROVE  /\ StepTo(p, c) \in Positions(c)
         /\ \A j \in Positions(c) : Between(h, j, StepTo(p, c)) => Between(h, j, p) \/ j = p
  BY DEF Positions, StepTo, Between

(* Of two different slots one comes first, starting from any home. *)
LEMMA ProbeOrder ==
  ASSUME NEW c \in Nat, NEW h \in Positions(c), NEW p \in Positions(c), NEW q \in Positions(c), p # q
  PROVE  Between(h, p, q) \/ Between(h, q, p)
  BY DEF Positions, Between

(* Nothing lies between a home and itself. *)
LEMMA ProbeStart == \A h \in Int, j \in Int : ~Between(h, j, h)
  BY DEF Between

(* A table with fewer entries than slots has an empty slot. *)
LEMMA TableNotFull ==
  ASSUME NEW c \in Nat, NEW k \in Nat, k < c,
         NEW t \in [Positions(c) -> 0 .. k],
         \A p, q \in Positions(c) : t[p] = t[q] /\ t[p] # Empty => p = q
  PROVE  \E p \in Positions(c) : t[p] = Empty
<1> SUFFICES ASSUME \A p \in Positions(c) : t[p] # Empty PROVE FALSE
  OBVIOUS
<1>1. t \in [Positions(c) -> 1 .. k]
  BY DEF Empty
<1>2. IsFiniteSet(1 .. k) /\ Cardinality(1 .. k) = k
  BY FS_Interval
<1>3. IsFiniteSet(Positions(c)) /\ Cardinality(Positions(c)) = c
  <2>1. 0 \in Int /\ c - 1 \in Int
    OBVIOUS
  <2>2. IsFiniteSet(0 .. c - 1) /\ Cardinality(0 .. c - 1) = IF 0 > c - 1 THEN 0 ELSE (c - 1) - 0 + 1
    BY <2>1, FS_Interval
  <2> QED BY <2>2 DEF Positions
<1>4. \E p, q \in Positions(c) : p # q /\ t[p] = t[q]
  BY <1>1, <1>2, <1>3, FS_PigeonHole
<1> QED BY <1>4

-----------------------------------------------------------------------------
(* Steps that leave the strings and the table alone. *)
LEMMA TableUntouched ==
  ASSUME Shape, Injective, Chains, NoStringTwice, UNCHANGED <<hash_of, entries, table>>
  PROVE  /\ Injective' /\ Chains' /\ NoStringTwice'
         /\ \A a, p : ChainTo(a, p)' <=> ChainTo(a, p)
         /\ \A s, c : Home(s, c)' = Home(s, c)
         /\ \A e : SlotString(e)' = SlotString(e)
<1>1. UNCHANGED <<hash_of, entries, slots, capacity, slots_used>>
  BY DEF table
<1>2. /\ \A s, c : Home(s, c)' = Home(s, c)
      /\ \A e : SlotString(e)' = SlotString(e)
  BY <1>1 DEF Home, SlotString
<1>3. \A a, p : ChainTo(a, p)' <=> ChainTo(a, p)
  BY <1>1 DEF ChainTo
<1>4. Injective' /\ NoStringTwice'
  BY <1>1 DEF Injective, NoStringTwice
<1>5. Chains'
  BY <1>1, <1>2, <1>3 DEF Chains, Home, SlotString, ChainTo
<1> QED BY <1>2, <1>3, <1>4, <1>5

(* The phases of the pool, spelled out once for the steps below. *)
LEMMA Phases ==
  /\ pc \in {"idle", "probe", "store"} => Live /\ ~TailPending /\ ~Enlarged /\ ~Moving
  /\ pc = "grow" => Live /\ TailPending /\ ~Enlarged /\ ~Moving
  /\ pc \in {"rehash", "place"} => Live /\ TailPending /\ Enlarged /\ Moving
  /\ pc \in {"relocate", "insert"} => Live /\ TailPending /\ Enlarged /\ ~Moving
  /\ pc \in {"failed", "destroyed"} => ~Live
  BY DEF Live, TailPending, Enlarged, Moving

(* The same of the next state. *)
LEMMA PhasesNext ==
  /\ pc' \in {"idle", "probe", "store"} => Live' /\ ~TailPending' /\ ~Enlarged' /\ ~Moving'
  /\ pc' = "grow" => Live' /\ TailPending' /\ ~Enlarged' /\ ~Moving'
  /\ pc' \in {"rehash", "place"} => Live' /\ TailPending' /\ Enlarged' /\ Moving'
  /\ pc' \in {"relocate", "insert"} => Live' /\ TailPending' /\ Enlarged' /\ ~Moving'
  /\ pc' \in {"failed", "destroyed"} => ~Live'
  BY DEF Live, TailPending, Enlarged, Moving

(* Rounding a size up to a multiple of four gives a size. *)
LEMMA AlignedSize == \A n \in Nat : AlignUp4(n) \in Nat
  BY DEF AlignUp4

(* A new intern starts probing at the home of its string. *)
LEMMA InternKeeps == ASSUME PoolInv, NEW s \in Strings, Intern(s) PROVE PoolInv'
<1>1. /\ pc = "idle" /\ pc' = "probe" /\ cur' = s /\ pos' = Home(s, capacity)
      /\ UNCHANGED <<hash_of, entries, size, table, rehash>>
  BY DEF Intern, store
<1>2. /\ Live /\ ~TailPending /\ ~Enlarged /\ ~Moving
      /\ Live' /\ ~TailPending' /\ ~Enlarged' /\ ~Moving'
  BY <1>1, Phases, PhasesNext
<1>3. Shape /\ Load /\ Injective /\ Chains /\ Complete /\ Search /\ Move /\ NoStringTwice
  BY <1>2 DEF PoolInv
<1>4. UNCHANGED <<slots, capacity, slots_used>>
  BY <1>1 DEF table
<1>5. Injective' /\ Chains' /\ NoStringTwice' /\ \A t, c : Home(t, c)' = Home(t, c)
  BY <1>1, <1>3, TableUntouched
<1>6. Home(s, capacity) \in Positions(capacity)
  BY <1>3, HomeInTable DEF Shape
<1>7. Shape'
  BY <1>1, <1>2, <1>3, <1>4, <1>6 DEF Shape
<1>8. Load' /\ Complete' /\ Move'
  BY <1>1, <1>2, <1>3, <1>4 DEF Load, Complete, Move
<1>9. Search'
  <2>1. Home(cur, capacity)' = Home(s, capacity)
    BY <1>1, <1>4 DEF Home
  <2>2. \A j \in Positions(capacity) : ~Between(Home(s, capacity), j, Home(s, capacity))
    BY <1>6, <1>3, ProbeStart DEF Positions, Shape
  <2>3. \A j \in Positions(capacity)' : ~Between(Home(cur, capacity)', j, pos')
    BY <2>1, <2>2, <1>1, <1>4 DEF Positions
  <2> QED BY <2>3, <1>1, <1>2 DEF Search
<1> QED BY <1>5, <1>7, <1>8, <1>9 DEF PoolInv

(* A hit returns an offset and touches nothing. *)
LEMMA ProbeHitKeeps == ASSUME PoolInv, ProbeHit PROVE PoolInv'
<1>1. pc = "probe" /\ pc' = "idle" /\ UNCHANGED <<hash_of, entries, size, table, rehash, cur, pos>>
  BY DEF ProbeHit, store
<1>2. /\ Live /\ ~TailPending /\ ~Enlarged /\ ~Moving
      /\ Live' /\ ~TailPending' /\ ~Enlarged' /\ ~Moving'
  BY <1>1, Phases, PhasesNext
<1>3. Shape /\ Load /\ Injective /\ Chains /\ Complete /\ Search /\ Move /\ NoStringTwice
  BY <1>2 DEF PoolInv
<1>4. UNCHANGED <<slots, capacity, slots_used>>
  BY <1>1 DEF table
<1>5. Injective' /\ Chains' /\ NoStringTwice'
  BY <1>1, <1>3, TableUntouched
<1>6. Shape'
  BY <1>1, <1>2, <1>3, <1>4 DEF Shape
<1>7. Load' /\ Complete' /\ Move' /\ Search'
  BY <1>1, <1>2, <1>3, <1>4 DEF Load, Complete, Move, Search
<1> QED BY <1>5, <1>6, <1>7 DEF PoolInv

(* Passing an occupied slot that holds another string. *)
LEMMA ProbeNextKeeps == ASSUME PoolInv, ProbeNext PROVE PoolInv'
<1>1. /\ pc = "probe" /\ pc' = "probe" /\ pos' = StepTo(pos, capacity)
      /\ slots[pos] # Empty /\ ~Matches(slots[pos])
      /\ UNCHANGED <<hash_of, entries, size, table, rehash, cur>>
  BY DEF ProbeNext, store
<1>2. /\ Live /\ ~TailPending /\ ~Enlarged /\ ~Moving
      /\ Live' /\ ~TailPending' /\ ~Enlarged' /\ ~Moving'
  BY <1>1, Phases, PhasesNext
<1>3. Shape /\ Load /\ Injective /\ Chains /\ Complete /\ Search /\ Move /\ NoStringTwice
  BY <1>2 DEF PoolInv
<1>4. UNCHANGED <<slots, capacity, slots_used>>
  BY <1>1 DEF table
<1>5. Injective' /\ Chains' /\ NoStringTwice' /\ (\A t, c : Home(t, c)' = Home(t, c))
      /\ \A e : SlotString(e)' = SlotString(e)
  BY <1>1, <1>3, TableUntouched
<1>p. capacity \in Nat \ {0} /\ pos \in Positions(capacity) /\ cur \in Strings
  BY <1>1, <1>3 DEF Shape
<1>h. Home(cur, capacity) \in Positions(capacity)
  BY <1>p, <1>3, HomeInTable DEF Shape
<1>6. /\ pos' \in Positions(capacity)
      /\ \A j \in Positions(capacity) :
            Between(Home(cur, capacity), j, pos') => Between(Home(cur, capacity), j, pos) \/ j = pos
  BY <1>1, <1>p, <1>h, ProbeStep
<1>7. Shape'
  BY <1>1, <1>2, <1>3, <1>4, <1>6 DEF Shape
<1>8. Load' /\ Complete' /\ Move'
  BY <1>1, <1>2, <1>3, <1>4 DEF Load, Complete, Move
<1>9. Search'
  <2>1. SlotString(slots[pos]) # cur
    BY <1>1 DEF Matches
  <2>2. \A j \in Positions(capacity) :
          Between(Home(cur, capacity), j, pos') => slots[j] # Empty /\ SlotString(slots[j]) # cur
    BY <1>1, <1>3, <1>6, <2>1 DEF Search
  <2>3. Home(cur, capacity)' = Home(cur, capacity)
    BY <1>1, <1>4 DEF Home
  <2>4. \A j \in Positions(capacity)' :
          Between(Home(cur, capacity)', j, pos') => slots'[j] # Empty /\ (entries'[slots'[j]].string) # cur'
    BY <2>2, <2>3, <1>1, <1>4 DEF Positions, SlotString
  <2> QED BY <2>4, <1>1, <1>2 DEF Search, SlotString
<1> QED BY <1>5, <1>7, <1>8, <1>9 DEF PoolInv

(* An empty slot ends the probe: the string is nowhere in the table. *)
LEMMA ProbeEndKeeps == ASSUME PoolInv, ProbeEnd PROVE PoolInv'
<1>1. /\ pc = "probe" /\ pc' \in {"store", "failed"} /\ slots[pos] = Empty
      /\ UNCHANGED <<hash_of, entries, size, table, rehash, cur, pos>>
  BY DEF ProbeEnd, Fail, store
<1>2. /\ Live /\ ~TailPending /\ ~Enlarged /\ ~Moving
      /\ ~TailPending' /\ ~Enlarged' /\ ~Moving'
  BY <1>1, Phases, PhasesNext DEF TailPending, Enlarged, Moving
<1>3. Shape /\ Load /\ Injective /\ Chains /\ Complete /\ Search /\ Move /\ NoStringTwice
  BY <1>2 DEF PoolInv
<1>4. UNCHANGED <<slots, capacity, slots_used>>
  BY <1>1 DEF table
<1>5. Injective' /\ Chains' /\ NoStringTwice' /\ (\A t, c : Home(t, c)' = Home(t, c))
  BY <1>1, <1>3, TableUntouched
<1>6. CASE pc' = "failed"
  BY <1>5, <1>6, PhasesNext DEF PoolInv
<1>7. CASE pc' = "store"
  <2>0. capacity \in Nat \ {0} /\ pos \in Positions(capacity) /\ cur \in Strings
        /\ hash_of \in [Strings -> HashValues]
    BY <1>1, <1>3 DEF Shape
  <2>h. Home(cur, capacity) \in Positions(capacity)
    BY <2>0, HomeInTable
  <2>1. \A e \in 1 .. slots_used : SlotString(e) # cur
    <3> SUFFICES ASSUME NEW e \in 1 .. slots_used, SlotString(e) = cur PROVE FALSE
      OBVIOUS
    <3>1. PICK k \in Positions(capacity) : slots[k] = e
      BY <1>2, <1>3 DEF Complete
    <3>2. k # pos /\ slots[k] # Empty
      BY <1>1, <3>1 DEF Empty
    <3>3. ~Between(Home(cur, capacity), k, pos)
      BY <1>1, <1>3, <3>1 DEF Search
    <3>4. ~Between(Home(cur, capacity), pos, k)
      BY <1>1, <1>3, <2>0, <3>1, <3>2 DEF Chains, ChainTo
    <3> QED BY <3>2, <3>3, <3>4, <2>0, <2>h, ProbeOrder
  <2>2. Shape'
    BY <1>1, <1>2, <1>3, <1>4, <1>7 DEF Shape
  <2>3. Load' /\ Complete' /\ Move'
    BY <1>1, <1>2, <1>3, <1>4 DEF Load, Complete, Move
  <2>4. ChainTo(Home(cur, capacity), pos)
    BY <1>1, <1>3 DEF Search, ChainTo
  <2>5. ChainTo(Home(cur, capacity), pos)'
    BY <2>4, <1>1, <1>4 DEF ChainTo, Home
  <2>6. \A e \in 1 .. slots_used' : SlotString(e)' # cur'
    BY <2>1, <1>1, <1>4 DEF SlotString
  <2>7. Search'
    BY <2>5, <2>6, <1>1, <1>2, <1>4, <1>7 DEF Search, SlotString
  <2>8. Live'
    BY <1>7, PhasesNext
  <2> QED BY <1>5, <2>2, <2>3, <2>7 DEF PoolInv
<1> QED BY <1>1, <1>6, <1>7

(* A fresh string is stored: the table does not know it yet. *)
LEMMA StoreKeeps == ASSUME PoolInv, Store PROVE PoolInv'
<1>1. /\ pc = "store" /\ UNCHANGED <<hash_of, slots, capacity, slots_used, cur, pos, old_slots, next_old>>
  BY DEF Store, table, rehash
<1>2. Live /\ ~TailPending /\ ~Enlarged /\ ~Moving
  BY <1>1, Phases
<1>3. Shape /\ Load /\ Injective /\ Chains /\ Complete /\ Search /\ Move /\ NoStringTwice
  BY <1>2 DEF PoolInv
<1>4. CASE pc' = "failed" /\ UNCHANGED entries
  BY <1>3, <1>4, PhasesNext DEF PoolInv, NoStringTwice
<1>5. CASE /\ entries' = Append(entries, [string |-> cur, offset |-> size])
           /\ size \in Nat /\ size' \in Nat
           /\ pc' = IF NeedsGrowth THEN "grow" ELSE "insert"
  <2>0. /\ capacity \in Nat \ {0} /\ slots_used \in Nat /\ cur \in Strings
        /\ entries \in Seq([string : Strings, offset : Nat]) /\ Len(entries) = slots_used
        /\ slots \in [Positions(capacity) -> 0 .. slots_used]
        /\ pos \in Positions(capacity) /\ hash_of \in [Strings -> HashValues]
    BY <1>1, <1>2, <1>3 DEF Shape
  <2>1. pc' \in {"grow", "insert"} /\ Live' /\ TailPending' /\ ~Moving'
    BY <1>5, PhasesNext DEF Live, TailPending, Moving
  <2>2. /\ entries' \in Seq([string : Strings, offset : Nat])
        /\ Len(entries') = slots_used + 1
        /\ \A e \in 1 .. slots_used : entries'[e] = entries[e]
        /\ entries'[slots_used + 1] = [string |-> cur, offset |-> size]
    <3>1. [string |-> cur, offset |-> size] \in [string : Strings, offset : Nat]
      BY <1>5, <2>0
    <3> QED BY <1>5, <2>0, <3>1
  <2>3. entries'[slots_used + 1].string = cur
    BY <2>2
  <2>4. Shape'
    BY <1>1, <1>5, <2>0, <2>1, <2>2 DEF Shape
  <2>5. Load'
    BY <1>1, <1>3, <1>5, <2>0, PhasesNext DEF Load, NeedsGrowth, Enlarged
  <2>6. Injective' /\ Complete' /\ Move'
    BY <1>1, <1>2, <1>3, <2>1 DEF Injective, Complete, Move
  <2>7. Chains'
    <3>1. \A p \in Positions(capacity) : slots[p] # Empty => slots[p] \in 1 .. slots_used
      BY <2>0 DEF Empty
    <3>2. \A p \in Positions(capacity) : slots[p] # Empty =>
             (Home(entries'[slots[p]].string, capacity)) = Home(SlotString(slots[p]), capacity)
      BY <3>1, <2>2 DEF SlotString
    <3>3. ASSUME NEW p \in Positions(capacity), slots[p] # Empty
          PROVE  ChainTo(Home(SlotString(slots[p]), capacity), p)'
      <4>1. ChainTo(Home(SlotString(slots[p]), capacity), p)
        BY <1>3, <3>3 DEF Chains
      <4> QED BY <4>1, <3>2, <3>3, <1>1 DEF ChainTo, Home, SlotString
    <3> QED BY <3>3, <1>1 DEF Chains
  <2>8. Search'
    <3>1. SlotString(slots_used + 1)' = cur'
      BY <2>3, <1>1 DEF SlotString
    <3>2. slots'[pos'] = Empty
      BY <1>1, <1>3 DEF Search
    <3>3. ChainTo(Home(cur, capacity), pos)'
      BY <1>1, <1>3 DEF Search, ChainTo, Home
    <3> QED BY <2>1, <3>1, <3>2, <3>3 DEF Search
  <2>9. NoStringTwice'
    <3>1. \A e \in 1 .. slots_used : entries[e].string # cur
      BY <1>1, <1>3 DEF Search, SlotString
    <3>2. \A e, f \in 1 .. slots_used : entries[e].string = entries[f].string => e = f
      BY <1>3, <2>0 DEF NoStringTwice
    <3>3. DOMAIN entries' = 1 .. (slots_used + 1)
      BY <2>2
    <3>4. \A e \in 1 .. (slots_used + 1) : e = slots_used + 1 \/ e \in 1 .. slots_used
      BY <2>0
    <3> QED BY <3>1, <3>2, <3>3, <3>4, <2>2, <2>3 DEF NoStringTwice
  <2> QED BY <2>4, <2>5, <2>6, <2>7, <2>8, <2>9 DEF PoolInv
<1>6. size \in Nat /\ AlignUp4(size + StoredSize(cur)) \in Nat
  <2>1. size \in Nat /\ cur \in Strings
    BY <1>1, <1>3 DEF Shape
  <2>2. size + StoredSize(cur) \in Nat
    BY <2>1, StringsAssumption DEF StoredSize
  <2> QED BY <2>1, <2>2, AlignedSize
<1> QED BY <1>4, <1>5, <1>6 DEF Store, Fail

(* The table doubles, empty, with the old one to be moved; or memory is    *)
(* short and the entry is taken back.                                      *)
LEMMA GrowKeeps == ASSUME PoolInv, Grow PROVE PoolInv'
<1>1. pc = "grow" /\ UNCHANGED <<hash_of, size, slots_used, cur, pos>>
  BY DEF Grow
<1>2. Live /\ TailPending /\ ~Enlarged /\ ~Moving
  BY <1>1, Phases
<1>3. Shape /\ Load /\ Injective /\ Chains /\ Complete /\ Search /\ Move /\ NoStringTwice
  BY <1>2 DEF PoolInv
<1>0. /\ capacity \in Nat \ {0} /\ slots_used \in Nat /\ cur \in Strings
      /\ entries \in Seq([string : Strings, offset : Nat]) /\ Len(entries) = slots_used + 1
      /\ slots \in [Positions(capacity) -> 0 .. slots_used]
  BY <1>1, <1>2, <1>3 DEF Shape
<1>4. CASE entries' = SubSeq(entries, 1, Len(entries) - 1) /\ pc' = "failed"
  <2>1. /\ DOMAIN entries' = 1 .. slots_used
        /\ \A e \in 1 .. slots_used : entries'[e] = entries[e]
    BY <1>0, <1>4
  <2>2. \A e \in 1 .. slots_used : e \in DOMAIN entries
    BY <1>0
  <2>3. NoStringTwice'
    BY <1>3, <2>1, <2>2 DEF NoStringTwice
  <2> QED BY <1>4, <2>3, PhasesNext DEF PoolInv
<1>5. CASE /\ old_slots' = slots /\ next_old' = 0 /\ capacity' = 2 * capacity
           /\ slots' = [p \in Positions(2 * capacity) |-> Empty]
           /\ pc' = "rehash" /\ UNCHANGED entries
  <2>1. Live' /\ TailPending' /\ Enlarged' /\ Moving'
    BY <1>5, PhasesNext
  <2>2. OldCapacity' = capacity
    BY <1>0, <1>5 DEF OldCapacity
  <2>3. capacity' \in Nat \ {0} /\ slots' \in [Positions(capacity') -> 0 .. slots_used]
    BY <1>0, <1>5 DEF Empty
  <2>4. Shape'
    BY <1>0, <1>1, <1>3, <1>5, <2>1, <2>3 DEF Shape
  <2>5. Load'
    BY <1>0, <1>1, <1>3, <1>5 DEF Load
  <2>6. Injective' /\ Chains' /\ Complete' /\ NoStringTwice'
    BY <1>3, <1>5, <2>1 DEF Injective, Chains, Complete, NoStringTwice
  <2>7. Search'
    BY <1>1, <1>2, <1>3, <1>5 DEF Search, SlotString
  <2>8. Move'
    <3>1. Positions(0) = {}
      BY DEF Positions
    <3>2. \A e \in 1 .. slots_used : \E q \in Positions(capacity) : slots[q] = e
      BY <1>2, <1>3 DEF Complete
    <3>3. \A p, q \in Positions(capacity) : slots[p] = slots[q] /\ slots[p] # Empty => p = q
      BY <1>3 DEF Injective
    <3>4. /\ capacity' = 2 * OldCapacity' /\ OldCapacity' \in Nat /\ next_old' \in 0 .. OldCapacity'
          /\ old_slots' \in [Positions(OldCapacity') -> 0 .. slots_used']
      BY <1>0, <1>1, <1>5, <2>2
    <3>5. /\ \A p \in Positions(capacity') : slots'[p] = Empty
          /\ Positions(next_old') = {} /\ pc' # "place"
      BY <1>5, <3>1
    <3>6. \A e \in 1 .. slots_used' : \E q \in Positions(OldCapacity') : old_slots'[q] = e
      BY <1>1, <1>5, <2>2, <3>2
    <3>7. \A p, q \in Positions(OldCapacity') :
              old_slots'[p] = old_slots'[q] /\ old_slots'[p] # Empty => p = q
      BY <1>5, <2>2, <3>3
    <3> QED BY <3>4, <3>5, <3>6, <3>7 DEF Move
  <2> QED BY <2>4, <2>5, <2>6, <2>7, <2>8 DEF PoolInv
<1> QED BY <1>4, <1>5 DEF Grow, Fail

(* Empty slots of the old table are skipped. *)
LEMMA RehashSkipKeeps == ASSUME PoolInv, RehashSkip PROVE PoolInv'
<1>1. /\ pc = "rehash" /\ pc' = "rehash" /\ next_old' = next_old + 1
      /\ next_old < OldCapacity /\ old_slots[next_old] = Empty
      /\ UNCHANGED <<hash_of, entries, size, table, cur, pos, old_slots>>
  BY DEF RehashSkip, store
<1>2. /\ Live /\ TailPending /\ Enlarged /\ Moving /\ Live' /\ TailPending' /\ Enlarged' /\ Moving'
  BY <1>1, Phases, PhasesNext
<1>3. Shape /\ Load /\ Injective /\ Chains /\ Complete /\ Search /\ Move /\ NoStringTwice
  BY <1>2 DEF PoolInv
<1>4. UNCHANGED <<slots, capacity, slots_used, OldCapacity>>
  BY <1>1 DEF table, OldCapacity
<1>5. Injective' /\ Chains' /\ NoStringTwice'
  BY <1>1, <1>3, TableUntouched
<1>6. Shape'
  BY <1>1, <1>2, <1>3, <1>4 DEF Shape
<1>7. Load' /\ Complete' /\ Search'
  BY <1>1, <1>2, <1>3, <1>4 DEF Load, Complete, Search, SlotString
<1>8. Move'
  <2>1. next_old \in Nat /\ OldCapacity \in Nat
    BY <1>2, <1>3 DEF Move
  <2>2. \A q \in Positions(next_old + 1) : q = next_old \/ q \in Positions(next_old)
    BY <2>1 DEF Positions
  <2>3. \A q \in Positions(next_old) : q \in Positions(next_old + 1)
    BY <2>1 DEF Positions
  <2> QED BY <1>1, <1>2, <1>3, <1>4, <2>1, <2>2, <2>3 DEF Move
<1> QED BY <1>5, <1>6, <1>7, <1>8 DEF PoolInv

(* An entry of the old table is taken to its home in the new one. *)
LEMMA RehashTakeKeeps == ASSUME PoolInv, RehashTake PROVE PoolInv'
<1>1. /\ pc = "rehash" /\ pc' = "place" /\ pos' = Home(SlotString(old_slots[next_old]), capacity)
      /\ next_old < OldCapacity /\ old_slots[next_old] # Empty
      /\ UNCHANGED <<hash_of, entries, size, table, cur, old_slots, next_old>>
  BY DEF RehashTake, store, rehash
<1>2. /\ Live /\ TailPending /\ Enlarged /\ Moving /\ Live' /\ TailPending' /\ Enlarged' /\ Moving'
  BY <1>1, Phases, PhasesNext
<1>3. Shape /\ Load /\ Injective /\ Chains /\ Complete /\ Search /\ Move /\ NoStringTwice
  BY <1>2 DEF PoolInv
<1>4. UNCHANGED <<slots, capacity, slots_used, OldCapacity>>
  BY <1>1 DEF table, OldCapacity
<1>5. Injective' /\ Chains' /\ NoStringTwice'
  BY <1>1, <1>3, TableUntouched
<1>s. SlotString(old_slots[next_old]) \in Strings
  <2>1. next_old \in Positions(OldCapacity)
    BY <1>1, <1>2, <1>3 DEF Move, Positions
  <2>2. old_slots[next_old] \in 1 .. slots_used
    BY <1>1, <1>2, <1>3, <2>1 DEF Move, Empty, Shape
  <2>3. old_slots[next_old] \in 1 .. Len(entries)
    BY <1>2, <1>3, <2>2 DEF Shape
  <2>4. entries[old_slots[next_old]] \in [string : Strings, offset : Nat]
    <3>1. PICK e : e = old_slots[next_old]
      OBVIOUS
    <3>2. e \in 1 .. Len(entries) /\ entries \in Seq([string : Strings, offset : Nat])
      BY <1>3, <2>3, <3>1 DEF Shape
    <3>3. entries[e] \in [string : Strings, offset : Nat]
      BY <3>2, ElementOfSeq
    <3> QED BY <3>1, <3>3
  <2> QED BY <2>4 DEF SlotString
<1>h. pos' \in Positions(capacity)
  BY <1>1, <1>3, <1>s, HomeInTable DEF Shape
<1>6. Shape'
  BY <1>1, <1>2, <1>3, <1>4, <1>h DEF Shape
<1>7. Load' /\ Complete' /\ Search'
  BY <1>1, <1>2, <1>3, <1>4 DEF Load, Complete, Search, SlotString
<1>8. Move'
  <2>1. \A j \in Positions(capacity) : ~Between(pos', j, pos')
    BY <1>h, <1>3, ProbeStart DEF Positions, Shape
  <2>2. ChainTo(Home(SlotString(old_slots[next_old]), capacity), pos)'
    BY <2>1, <1>1, <1>4 DEF ChainTo, Home, SlotString
  <2> QED BY <1>1, <1>2, <1>3, <1>4, <2>2 DEF Move
<1> QED BY <1>5, <1>6, <1>7, <1>8 DEF PoolInv

(* Looking for a free slot for an entry of the old table. *)
LEMMA PlaceNextKeeps == ASSUME PoolInv, PlaceNext PROVE PoolInv'
<1>1. /\ pc = "place" /\ pc' = "place" /\ pos' = StepTo(pos, capacity) /\ slots[pos] # Empty
      /\ UNCHANGED <<hash_of, entries, size, table, cur, old_slots, next_old>>
  BY DEF PlaceNext, store, rehash
<1>2. /\ Live /\ TailPending /\ Enlarged /\ Moving /\ Live' /\ TailPending' /\ Enlarged' /\ Moving'
  BY <1>1, Phases, PhasesNext
<1>3. Shape /\ Load /\ Injective /\ Chains /\ Complete /\ Search /\ Move /\ NoStringTwice
  BY <1>2 DEF PoolInv
<1>4. UNCHANGED <<slots, capacity, slots_used, OldCapacity>>
  BY <1>1 DEF table, OldCapacity
<1>5. Injective' /\ Chains' /\ NoStringTwice'
  BY <1>1, <1>3, TableUntouched
<1>p. capacity \in Nat \ {0} /\ pos \in Positions(capacity)
  BY <1>1, <1>3 DEF Shape
<1>e. PICK e : e = old_slots[next_old]
  OBVIOUS
<1>s. SlotString(e) \in Strings
  <2>1. next_old \in Positions(OldCapacity)
    BY <1>1, <1>2, <1>3 DEF Move, Positions
  <2>2. e \in 1 .. slots_used
    BY <1>1, <1>2, <1>3, <1>e, <2>1 DEF Move, Empty, Shape
  <2>3. e \in 1 .. Len(entries) /\ entries \in Seq([string : Strings, offset : Nat])
    BY <1>2, <1>3, <2>2 DEF Shape
  <2>4. entries[e] \in [string : Strings, offset : Nat]
    BY <2>3, ElementOfSeq
  <2> QED BY <2>4 DEF SlotString
<1>h. Home(SlotString(e), capacity) \in Positions(capacity)
  BY <1>3, <1>s, HomeInTable DEF Shape
<1>6. /\ pos' \in Positions(capacity)
      /\ \A j \in Positions(capacity) :
            Between(Home(SlotString(e), capacity), j, pos')
              => Between(Home(SlotString(e), capacity), j, pos) \/ j = pos
  BY <1>1, <1>p, <1>h, ProbeStep
<1>7. Shape'
  BY <1>1, <1>2, <1>3, <1>4, <1>6 DEF Shape
<1>8. Load' /\ Complete' /\ Search'
  BY <1>1, <1>2, <1>3, <1>4 DEF Load, Complete, Search, SlotString
<1>9. Move'
  <2>1. ChainTo(Home(SlotString(e), capacity), pos)
    BY <1>1, <1>2, <1>3, <1>e DEF Move
  <2>2. \A j \in Positions(capacity) :
           Between(Home(SlotString(e), capacity), j, pos') => slots[j] # Empty
    BY <1>1, <1>6, <2>1 DEF ChainTo
  <2>3. ChainTo(Home(SlotString(old_slots[next_old]), capacity), pos)'
    BY <2>2, <1>1, <1>4, <1>e DEF ChainTo, Home, SlotString
  <2> QED BY <1>1, <1>2, <1>3, <1>4, <2>3 DEF Move
<1> QED BY <1>5, <1>7, <1>8, <1>9 DEF PoolInv

(* Filling an empty slot at the end of a chain keeps every chain. *)
LEMMA FillKeepsChains ==
  ASSUME Shape, Injective, Chains, NEW e \in 1 .. slots_used + 1,
         pos \in Positions(capacity), slots[pos] = Empty,
         ChainTo(Home(SlotString(e), capacity), pos),
         \A p \in Positions(capacity) : slots[p] # e,
         slots' = [slots EXCEPT ![pos] = e],
         UNCHANGED <<hash_of, entries, capacity>>
  PROVE  Injective' /\ Chains'
<1>1. slots \in [Positions(capacity) -> 0 .. slots_used] /\ slots_used \in Nat
  BY DEF Shape
<1>2. /\ slots'[pos] = e /\ e # Empty
      /\ \A p \in Positions(capacity) : p # pos => slots'[p] = slots[p]
  BY <1>1 DEF Empty
<1>3. Injective'
  BY <1>2 DEF Injective
<1>4. \A a, p : ChainTo(a, p) => ChainTo(a, p)'
  BY <1>2 DEF ChainTo
<1>5. ASSUME NEW p \in Positions(capacity), slots'[p] # Empty
      PROVE  ChainTo(Home(SlotString(slots[p]), capacity), p)'
  <2>1. PICK f : f = slots'[p]
    OBVIOUS
  <2>2. ChainTo(Home(SlotString(f), capacity), p)
    BY <1>2, <1>5, <2>1 DEF Chains
  <2>3. PICK h : h = Home(SlotString(f), capacity)
    OBVIOUS
  <2>4. ChainTo(h, p)'
    BY <2>2, <2>3, <1>4
  <2>5. Home(SlotString(slots[p]), capacity)' = h
    BY <2>1, <2>3 DEF Home, SlotString
  <2> QED BY <2>4, <2>5 DEF ChainTo
<1>6. Chains'
  BY <1>5 DEF Chains
<1> QED BY <1>3, <1>6

(* An entry of the old table lands in a free slot of the new one. *)
LEMMA PlaceEndKeeps == ASSUME PoolInv, PlaceEnd PROVE PoolInv'
<1>1. /\ pc = "place" /\ pc' = "rehash" /\ slots[pos] = Empty
      /\ slots' = [slots EXCEPT ![pos] = old_slots[next_old]] /\ next_old' = next_old + 1
      /\ UNCHANGED <<hash_of, entries, size, capacity, slots_used, cur, pos, old_slots, OldCapacity>>
  BY DEF PlaceEnd, store, OldCapacity
<1>2. /\ Live /\ TailPending /\ Enlarged /\ Moving /\ Live' /\ TailPending' /\ Enlarged' /\ Moving'
  BY <1>1, Phases, PhasesNext
<1>3. Shape /\ Load /\ Injective /\ Chains /\ Complete /\ Search /\ Move /\ NoStringTwice
  BY <1>2 DEF PoolInv
<1>4. PICK e : e = old_slots[next_old]
  OBVIOUS
<1>p. /\ capacity \in Nat \ {0} /\ pos \in Positions(capacity) /\ slots_used \in Nat
      /\ slots \in [Positions(capacity) -> 0 .. slots_used]
  BY <1>1, <1>3 DEF Shape
<1>m. /\ next_old \in Nat /\ OldCapacity \in Nat /\ next_old < OldCapacity
      /\ next_old \in Positions(OldCapacity)
      /\ old_slots \in [Positions(OldCapacity) -> 0 .. slots_used]
  BY <1>1, <1>2, <1>3 DEF Move, Positions
<1>e. e \in 1 .. slots_used /\ e \in 1 .. slots_used + 1 /\ e \in 0 .. slots_used
  BY <1>1, <1>2, <1>3, <1>4, <1>m, <1>p DEF Move, Empty
<1>n. /\ \A q \in Positions(next_old + 1) : q = next_old \/ q \in Positions(next_old)
      /\ \A q \in Positions(next_old) : q \in Positions(next_old + 1) /\ q \in Positions(OldCapacity) /\ q # next_old
      /\ next_old \in Positions(next_old + 1)
  BY <1>m DEF Positions
<1>5. \A p \in Positions(capacity) : slots[p] # e
  <2> SUFFICES ASSUME NEW p \in Positions(capacity), slots[p] = e PROVE FALSE
    OBVIOUS
  <2>1. PICK q \in Positions(next_old) : old_slots[q] = e
    BY <1>2, <1>3, <1>e DEF Move, Empty
  <2>2. q = next_old
    BY <2>1, <1>2, <1>3, <1>4, <1>e, <1>m, <1>n DEF Move, Empty
  <2> QED BY <2>2, <1>n
<1>6. Injective' /\ Chains'
  <2>1. ChainTo(Home(SlotString(e), capacity), pos)
    BY <1>1, <1>2, <1>3, <1>4 DEF Move
  <2>2. slots' = [slots EXCEPT ![pos] = e]
    BY <1>1, <1>4
  <2> QED BY <2>1, <2>2, <1>1, <1>3, <1>5, <1>e, <1>p, FillKeepsChains
<1>7. Shape'
  BY <1>1, <1>2, <1>3, <1>4, <1>e, <1>p DEF Shape
<1>8. Load' /\ Complete' /\ Search' /\ NoStringTwice'
  BY <1>1, <1>2, <1>3 DEF Load, Complete, Search, SlotString, NoStringTwice
<1>s. /\ slots'[pos] = e /\ \A p \in Positions(capacity) : p # pos => slots'[p] = slots[p]
  BY <1>1, <1>4, <1>p
<1>9. Move'
  <2>1. \A p \in Positions(capacity) :
           slots'[p] # Empty => \E q \in Positions(next_old + 1) : old_slots[q] = slots'[p]
    <3> SUFFICES ASSUME NEW p \in Positions(capacity), slots'[p] # Empty
                 PROVE  \E q \in Positions(next_old + 1) : old_slots[q] = slots'[p]
      OBVIOUS
    <3>1. CASE p = pos
      BY <3>1, <1>s, <1>n, <1>4
    <3>2. CASE p # pos
      BY <3>2, <1>s, <1>n, <1>2, <1>3 DEF Move
    <3> QED BY <3>1, <3>2
  <2>2. \A q \in Positions(next_old + 1) :
           old_slots[q] # Empty => \E p \in Positions(capacity) : slots'[p] = old_slots[q]
    <3> SUFFICES ASSUME NEW q \in Positions(next_old + 1), old_slots[q] # Empty
                 PROVE  \E p \in Positions(capacity) : slots'[p] = old_slots[q]
      OBVIOUS
    <3>1. CASE q = next_old
      BY <3>1, <1>s, <1>p, <1>4
    <3>2. CASE q \in Positions(next_old)
      <4>1. PICK p \in Positions(capacity) : slots[p] = old_slots[q]
        BY <3>2, <1>2, <1>3 DEF Move
      <4>2. p # pos
        BY <4>1, <1>1
      <4> QED BY <4>1, <4>2, <1>s
    <3> QED BY <3>1, <3>2, <1>n
  <2>3. /\ capacity' = 2 * OldCapacity' /\ OldCapacity' \in Nat
        /\ next_old' \in 0 .. OldCapacity'
        /\ old_slots' \in [Positions(OldCapacity') -> 0 .. slots_used']
        /\ pc' # "place"
    BY <1>1, <1>2, <1>3, <1>m DEF Move
  <2>4. /\ \A p, q \in Positions(OldCapacity') :
              old_slots'[p] = old_slots'[q] /\ old_slots'[p] # Empty => p = q
        /\ \A f \in 1 .. slots_used' : \E q \in Positions(OldCapacity') : old_slots'[q] = f
    BY <1>1, <1>2, <1>3 DEF Move
  <2> QED BY <2>1, <2>2, <2>3, <2>4, <1>1 DEF Move
<1> QED BY <1>6, <1>7, <1>8, <1>9 DEF PoolInv

(* The whole old table has been moved: the new one is complete. *)
LEMMA RehashDoneKeeps == ASSUME PoolInv, RehashDone PROVE PoolInv'
<1>1. /\ pc = "rehash" /\ pc' = "relocate" /\ next_old = OldCapacity /\ pos' = Home(cur, capacity)
      /\ UNCHANGED <<hash_of, entries, size, table, cur>>
  BY DEF RehashDone, store
<1>2. /\ Live /\ TailPending /\ Enlarged /\ Moving /\ Live' /\ TailPending' /\ Enlarged' /\ ~Moving'
  BY <1>1, Phases, PhasesNext
<1>3. Shape /\ Load /\ Injective /\ Chains /\ Complete /\ Search /\ Move /\ NoStringTwice
  BY <1>2 DEF PoolInv
<1>4. UNCHANGED <<slots, capacity, slots_used>>
  BY <1>1 DEF table
<1>5. Injective' /\ Chains' /\ NoStringTwice'
  BY <1>1, <1>3, TableUntouched
<1>h. pos' \in Positions(capacity) /\ capacity \in Nat \ {0}
  BY <1>1, <1>3, HomeInTable DEF Shape
<1>6. Shape'
  BY <1>1, <1>2, <1>3, <1>4, <1>h DEF Shape
<1>7. Load' /\ Move'
  BY <1>1, <1>2, <1>3, <1>4 DEF Load, Move
<1>8. Complete'
  <2>1. \A f \in 1 .. slots_used : f # Empty /\ \E q \in Positions(next_old) : old_slots[q] = f
    BY <1>1, <1>2, <1>3 DEF Move, Empty
  <2>2. \A f \in 1 .. slots_used : \E p \in Positions(capacity) : slots[p] = f
    BY <2>1, <1>2, <1>3 DEF Move
  <2> QED BY <2>2, <1>4 DEF Complete
<1>9. Search'
  <2>1. \A j \in Positions(capacity) : ~Between(pos', j, pos')
    BY <1>h, ProbeStart DEF Positions
  <2>2. ChainTo(Home(cur, capacity), pos)'
    BY <2>1, <1>1, <1>4 DEF ChainTo, Home
  <2> QED BY <1>1, <1>2, <1>3, <1>4, <2>2 DEF Search, SlotString
<1> QED BY <1>5, <1>6, <1>7, <1>8, <1>9 DEF PoolInv

(* Looking for a free slot for the new string in the enlarged table. *)
LEMMA RelocateNextKeeps == ASSUME PoolInv, RelocateNext PROVE PoolInv'
<1>1. /\ pc = "relocate" /\ pc' = "relocate" /\ pos' = StepTo(pos, capacity) /\ slots[pos] # Empty
      /\ UNCHANGED <<hash_of, entries, size, table, cur, rehash>>
  BY DEF RelocateNext, store
<1>2. /\ Live /\ TailPending /\ Enlarged /\ ~Moving /\ Live' /\ TailPending' /\ Enlarged' /\ ~Moving'
  BY <1>1, Phases, PhasesNext
<1>3. Shape /\ Load /\ Injective /\ Chains /\ Complete /\ Search /\ Move /\ NoStringTwice
  BY <1>2 DEF PoolInv
<1>4. UNCHANGED <<slots, capacity, slots_used>>
  BY <1>1 DEF table
<1>5. Injective' /\ Chains' /\ NoStringTwice'
  BY <1>1, <1>3, TableUntouched
<1>p. capacity \in Nat \ {0} /\ pos \in Positions(capacity) /\ cur \in Strings
  BY <1>1, <1>3 DEF Shape
<1>h. Home(cur, capacity) \in Positions(capacity)
  BY <1>p, <1>3, HomeInTable DEF Shape
<1>6. /\ pos' \in Positions(capacity)
      /\ \A j \in Positions(capacity) :
            Between(Home(cur, capacity), j, pos') => Between(Home(cur, capacity), j, pos) \/ j = pos
  BY <1>1, <1>p, <1>h, ProbeStep
<1>7. Shape'
  BY <1>1, <1>2, <1>3, <1>4, <1>6 DEF Shape
<1>8. Load' /\ Complete' /\ Move'
  BY <1>1, <1>2, <1>3, <1>4 DEF Load, Complete, Move
<1>9. Search'
  <2>1. ChainTo(Home(cur, capacity), pos)
    BY <1>1, <1>3 DEF Search
  <2>2. \A j \in Positions(capacity) : Between(Home(cur, capacity), j, pos') => slots[j] # Empty
    BY <1>1, <1>6, <2>1 DEF ChainTo
  <2>3. ChainTo(Home(cur, capacity), pos)'
    BY <2>2, <1>1, <1>4 DEF ChainTo, Home
  <2> QED BY <1>1, <1>2, <1>3, <1>4, <2>3 DEF Search, SlotString
<1> QED BY <1>5, <1>7, <1>8, <1>9 DEF PoolInv

(* A free slot is found for the new string. *)
LEMMA RelocateEndKeeps == ASSUME PoolInv, RelocateEnd PROVE PoolInv'
<1>1. /\ pc = "relocate" /\ pc' = "insert" /\ slots[pos] = Empty
      /\ UNCHANGED <<hash_of, entries, size, table, cur, pos, rehash>>
  BY DEF RelocateEnd, store
<1>2. /\ Live /\ TailPending /\ Enlarged /\ ~Moving /\ Live' /\ TailPending' /\ Enlarged' /\ ~Moving'
  BY <1>1, Phases, PhasesNext
<1>3. Shape /\ Load /\ Injective /\ Chains /\ Complete /\ Search /\ Move /\ NoStringTwice
  BY <1>2 DEF PoolInv
<1>4. UNCHANGED <<slots, capacity, slots_used>>
  BY <1>1 DEF table
<1>5. Injective' /\ Chains' /\ NoStringTwice'
  BY <1>1, <1>3, TableUntouched
<1>6. Shape'
  BY <1>1, <1>2, <1>3, <1>4 DEF Shape
<1>7. Load' /\ Complete' /\ Move'
  BY <1>1, <1>2, <1>3, <1>4 DEF Load, Complete, Move
<1>8. ChainTo(Home(cur, capacity), pos)'
  BY <1>1, <1>3, <1>4 DEF Search, ChainTo, Home
<1>9. Search'
  BY <1>1, <1>2, <1>3, <1>4, <1>8 DEF Search, SlotString
<1> QED BY <1>5, <1>6, <1>7, <1>9 DEF PoolInv

(* The new string is indexed. *)
LEMMA InsertKeeps == ASSUME PoolInv, Insert PROVE PoolInv'
<1>1. /\ pc = "insert" /\ pc' = "idle" /\ slots' = [slots EXCEPT ![pos] = Len(entries)]
      /\ slots_used' = slots_used + 1
      /\ UNCHANGED <<hash_of, entries, size, capacity, cur, pos, rehash>>
  BY DEF Insert, store
<1>2. /\ Live /\ TailPending /\ Enlarged /\ ~Moving /\ Live' /\ ~TailPending' /\ ~Enlarged' /\ ~Moving'
  BY <1>1, Phases, PhasesNext
<1>3. Shape /\ Load /\ Injective /\ Chains /\ Complete /\ Search /\ Move /\ NoStringTwice
  BY <1>2 DEF PoolInv
<1>p. /\ capacity \in Nat \ {0} /\ pos \in Positions(capacity) /\ slots_used \in Nat
      /\ slots \in [Positions(capacity) -> 0 .. slots_used] /\ Len(entries) = slots_used + 1
  BY <1>1, <1>2, <1>3 DEF Shape
<1>4. PICK e : e = slots_used + 1
  OBVIOUS
<1>5. /\ e \in 1 .. slots_used + 1 /\ slots' = [slots EXCEPT ![pos] = e]
      /\ \A p \in Positions(capacity) : slots[p] # e
  BY <1>1, <1>4, <1>p
<1>6. slots[pos] = Empty /\ ChainTo(Home(SlotString(e), capacity), pos)
  <2>1. SlotString(e) = cur
    BY <1>2, <1>3, <1>4 DEF Search
  <2> QED BY <2>1, <1>1, <1>3 DEF Search
<1>7. Injective' /\ Chains'
  BY <1>1, <1>3, <1>5, <1>6, <1>p, FillKeepsChains
<1>8. slots' \in [Positions(capacity) -> 0 .. slots_used + 1]
  <2>1. slots \in [Positions(capacity) -> 0 .. slots_used + 1]
    BY <1>p
  <2> QED BY <2>1, <1>5, <1>p
<1>9. Shape'
  BY <1>1, <1>2, <1>3, <1>8, <1>p DEF Shape
<1>10. Load' /\ Move' /\ NoStringTwice' /\ Search'
  BY <1>1, <1>2, <1>3 DEF Load, Move, NoStringTwice, Search
<1>11. Complete'
  <2>1. \A f \in 1 .. slots_used + 1 : \E p \in Positions(capacity) : slots'[p] = f
    <3> SUFFICES ASSUME NEW f \in 1 .. slots_used + 1
                 PROVE  \E p \in Positions(capacity) : slots'[p] = f
      OBVIOUS
    <3>1. CASE f = e
      BY <3>1, <1>5, <1>p
    <3>2. CASE f # e
      <4>1. f \in 1 .. slots_used
        BY <3>2, <1>4, <1>p
      <4>2. PICK p \in Positions(capacity) : slots[p] = f
        BY <4>1, <1>2, <1>3 DEF Complete
      <4>3. p # pos
        BY <4>1, <4>2, <1>6, <1>p DEF Empty
      <4> QED BY <4>2, <4>3, <1>5, <1>p
    <3> QED BY <3>1, <3>2
  <2> QED BY <2>1, <1>1 DEF Complete
<1> QED BY <1>7, <1>9, <1>10, <1>11 DEF PoolInv

(* destroy empties the pool. *)
LEMMA DestroyKeeps == ASSUME Destroy PROVE PoolInv'
<1>1. pc' = "destroyed" /\ entries' = <<>>
  BY DEF Destroy
<1>2. NoStringTwice'
  BY <1>1 DEF NoStringTwice
<1> QED BY <1>1, <1>2, PhasesNext DEF PoolInv

-----------------------------------------------------------------------------
(* A new pool satisfies the invariant. *)
LEMMA InitPoolInv == Init => PoolInv
<1> SUFFICES ASSUME Init PROVE PoolInv
  OBVIOUS
<1>1. pc = "idle" /\ Live /\ ~TailPending /\ ~Enlarged /\ ~Moving
  BY Phases DEF Init
<1>2. /\ capacity \in Nat \ {0} /\ slots_used = 0 /\ entries = <<>> /\ size = 0
      /\ slots = [p \in Positions(capacity) |-> Empty] /\ hash_of \in [Strings -> HashValues]
  BY StringsAssumption DEF Init
<1>3. entries \in Seq([string : Strings, offset : Nat]) /\ Len(entries) = 0
  BY <1>2
<1>4. Shape
  BY <1>1, <1>2, <1>3 DEF Shape, Empty
<1>5. Load /\ Injective /\ Chains /\ Complete /\ Move /\ Search
  BY <1>1, <1>2 DEF Load, Injective, Chains, Complete, Move, Search
<1>6. NoStringTwice
  BY <1>2 DEF NoStringTwice
<1> QED BY <1>4, <1>5, <1>6 DEF PoolInv

(* Every step of the pool preserves the invariant. *)
LEMMA NextPoolInv == PoolInv /\ [Next]_vars => PoolInv'
<1> SUFFICES ASSUME PoolInv, [Next]_vars PROVE PoolInv'
  OBVIOUS
<1>1. ASSUME NEW s \in Strings, Intern(s) PROVE PoolInv'
  BY <1>1, InternKeeps
<1>2. CASE Step
  BY <1>2, ProbeHitKeeps, ProbeNextKeeps, ProbeEndKeeps, StoreKeeps, GrowKeeps, RehashSkipKeeps,
     RehashTakeKeeps, PlaceNextKeeps, PlaceEndKeeps, RehashDoneKeeps, RelocateNextKeeps,
     RelocateEndKeeps, InsertKeeps DEF Step
<1>3. CASE Destroy
  BY <1>3, DestroyKeeps
<1>4. CASE UNCHANGED vars
  <2>1. UNCHANGED <<hash_of, entries, size, slots, capacity, slots_used, pc, cur, pos, old_slots, next_old>>
    BY <1>4 DEF vars, store, table, rehash
  <2>2. NoStringTwice'
    BY <2>1 DEF PoolInv, NoStringTwice
  <2>3. Live' <=> Live
    BY <2>1 DEF Live
  <2>4. CASE Live
    <3>1. Shape /\ Load /\ Injective /\ Chains /\ Complete /\ Search /\ Move
      BY <2>4 DEF PoolInv
    <3>2. Shape' /\ Load' /\ Injective' /\ Complete'
      BY <2>1, <3>1 DEF Shape, Load, Injective, Complete, TailPending, Enlarged, Moving
    <3>3. Chains'
      BY <2>1, <3>1 DEF Chains, ChainTo, Home, SlotString
    <3>4. Search'
      BY <2>1, <3>1 DEF Search, TailPending, ChainTo, Home, SlotString
    <3>5. Move'
      BY <2>1, <3>1 DEF Move, Moving, OldCapacity, ChainTo, Home, SlotString
    <3> QED BY <2>2, <3>2, <3>3, <3>4, <3>5 DEF PoolInv
  <2> QED BY <2>2, <2>3, <2>4 DEF PoolInv
<1> QED BY <1>1, <1>2, <1>3, <1>4 DEF Next

(* No string is ever stored twice: the deduplication the format relies on. *)
THEOREM PoolStoresOnce == Spec => []NoStringTwice
<1>1. PoolInv => NoStringTwice
  BY DEF PoolInv
<1> QED BY <1>1, InitPoolInv, NextPoolInv, PTL DEF Spec

(* The table always has an empty slot, so every probe loop can end. *)
THEOREM PoolNeverFull == Spec => []ProbeCanStop
<1>1. PoolInv => ProbeCanStop
  <2> SUFFICES ASSUME PoolInv, Live PROVE \E p \in Positions(capacity) : slots[p] = Empty
    BY DEF ProbeCanStop
  <2>1. /\ capacity \in Nat /\ slots_used \in Nat /\ slots \in [Positions(capacity) -> 0 .. slots_used]
        /\ \A p, q \in Positions(capacity) : slots[p] = slots[q] /\ slots[p] # Empty => p = q
    BY DEF PoolInv, Shape, Injective
  <2>2. slots_used < capacity
    BY <2>1 DEF PoolInv, Load
  <2> QED BY <2>1, <2>2, TableNotFull
<1> QED BY <1>1, InitPoolInv, NextPoolInv, PTL DEF Spec

-----------------------------------------------------------------------------
(* The buffer, and the offsets that are returned *)

\* An offset is tested against the limit before its string is stored; a result
\* is only there between two interns.
Offsets ==
    /\ pc = "store" => size <= MaxOffset
    /\ Live => \A i \in DOMAIN entries : entries[i].offset <= MaxOffset
    /\ result # NoOffset => pc = "idle"

BufferInv == PoolInv /\ StringsTileBuffer /\ Offsets /\ ResultIsOwnString

\* A string stored at offset o has its place up to limit.
Tile(o, s, limit) ==
    /\ o % 4 = 0
    /\ o + StoredSize(s) <= limit
    /\ limit - (o + StoredSize(s)) < 4

Limit(i) == IF i = Len(entries) THEN size ELSE entries[i + 1].offset

LEMMA TilesBuffer ==
    StringsTileBuffer <=>
        (Live => /\ size % 4 = 0
                 /\ \A i \in DOMAIN entries : Tile(entries[i].offset, entries[i].string, Limit(i)))
  BY Zenon DEF StringsTileBuffer, Tile, Limit

(* Rounding up to a multiple of four adds less than four. *)
LEMMA AlignUpTight ==
    \A n \in Nat : AlignUp4(n) \in Nat /\ AlignUp4(n) % 4 = 0 /\ n <= AlignUp4(n) /\ AlignUp4(n) < n + 4
  BY DEF AlignUp4

LEMMA InitBuffer == Init => BufferInv
<1> SUFFICES ASSUME Init PROVE BufferInv
  OBVIOUS
<1>1. DOMAIN entries = {} /\ size = 0 /\ pc = "idle" /\ result = NoOffset
  BY DEF Init
<1>2. PoolInv
  BY InitPoolInv
<1> QED
  BY <1>1, <1>2 DEF BufferInv, StringsTileBuffer, Offsets, ResultIsOwnString

(* A string is stored behind the last one. *)
LEMMA StoreTiles == ASSUME BufferInv, Store PROVE StringsTileBuffer' /\ Offsets' /\ ResultIsOwnString'
<1>0. pc = "store" /\ Live /\ Shape /\ result = NoOffset /\ UNCHANGED cur
  BY DEF Store, Live, BufferInv, PoolInv, Offsets
<1>1. CASE pc' = "failed" /\ result' = NoOffset
  BY <1>1 DEF StringsTileBuffer, Offsets, ResultIsOwnString, Live
<1>2. CASE /\ entries' = Append(entries, [string |-> cur, offset |-> size])
           /\ size' = AlignUp4(size + StoredSize(cur))
           /\ pc' \in {"grow", "insert"} /\ UNCHANGED result
  <2> DEFINE n == Len(entries)
  <2>1. /\ entries \in Seq([string : Strings, offset : Nat]) /\ n \in Nat
        /\ size \in Nat /\ cur \in Strings /\ Length[cur] \in Nat /\ MaxOffset \in Nat
    BY <1>0, StringsAssumption DEF Shape
  <2>2. /\ Len(entries') = n + 1
        /\ \A i \in 1 .. n : entries'[i] = entries[i]
        /\ entries'[n + 1] = [string |-> cur, offset |-> size]
        /\ DOMAIN entries' = 1 .. n + 1 /\ DOMAIN entries = 1 .. n
    BY <1>2, <2>1
  <2>3. size % 4 = 0
    BY <1>0 DEF BufferInv, StringsTileBuffer
  <2>4. StoredSize(cur) = 4 + Length[cur] /\ size + StoredSize(cur) \in Nat
    BY <2>1 DEF StoredSize
  <2>5. size' % 4 = 0 /\ Tile(size, cur, size')
    <3> DEFINE m == size + StoredSize(cur)
    <3>1. size' = AlignUp4(m) /\ m \in Nat
      BY <1>2, <2>4
    <3> HIDE DEF m
    <3>2. size' \in Nat /\ size' % 4 = 0 /\ m <= size' /\ size' < m + 4
      BY <3>1, AlignUpTight, Zenon
    <3>3. size' - m < 4
      BY <3>1, <3>2
    <3> QED BY <2>3, <3>2, <3>3 DEF Tile, m
  <2>6. ASSUME NEW i \in 1 .. n + 1
        PROVE  Tile(entries'[i].offset, entries'[i].string, Limit(i)')
    <3>1. CASE i = n + 1
      <4>1. Limit(i)' = size'
        BY <2>2, <3>1 DEF Limit
      <4>2. entries'[i].offset = size /\ entries'[i].string = cur
        BY <2>2, <3>1
      <4> QED BY <2>5, <4>1, <4>2
    <3>2. CASE i \in 1 .. n
      <4>0. Tile(entries[i].offset, entries[i].string, Limit(i))
        BY <1>0, <2>2, <3>2, TilesBuffer, Zenon DEF BufferInv
      <4>1. i + 1 \in 1 .. n + 1 /\ i # n + 1 /\ (i # n => i + 1 \in 1 .. n)
        BY <2>1, <3>2
      <4>2. Limit(i)' = entries'[i + 1].offset
        BY <2>2, <4>1, Zenon DEF Limit
      <4>3. CASE i = n
        <5>1. entries'[i + 1].offset = size /\ Limit(i) = size
          BY <2>2, <4>3 DEF Limit
        <5>2. Limit(i)' = Limit(i)
          BY <4>2, <5>1
        <5> QED BY <2>2, <3>2, <4>0, <5>2
      <4>4. CASE i # n
        <5>1. entries'[i + 1] = entries[i + 1]
          BY <2>2, <4>1, <4>4, Zenon
        <5>2. Limit(i)' = Limit(i)
          BY <4>2, <4>4, <5>1 DEF Limit
        <5> QED BY <2>2, <3>2, <4>0, <5>2
      <4> QED BY <4>3, <4>4
    <3> QED BY <2>1, <3>1, <3>2
  <2>7. StringsTileBuffer'
    <3>1. (size % 4 = 0)'
      BY <2>5
    <3>2. (\A i \in DOMAIN entries : Tile(entries[i].offset, entries[i].string, Limit(i)))'
      BY <2>2, <2>6, Zenon DEF Tile, StoredSize
    <3> QED BY <3>1, <3>2, TilesBuffer, PTL
  <2>8. Offsets'
    <3>1. size <= MaxOffset /\ \A i \in 1 .. n : entries[i].offset <= MaxOffset
      BY <1>0, <2>2 DEF BufferInv, Offsets
    <3>2. \A i \in 1 .. n + 1 : entries'[i].offset <= MaxOffset
      <4> SUFFICES ASSUME NEW i \in 1 .. n + 1 PROVE entries'[i].offset <= MaxOffset
        OBVIOUS
      <4>1. i = n + 1 \/ i \in 1 .. n
        BY <2>1
      <4> QED BY <2>2, <3>1, <4>1
    <3> QED BY <1>0, <1>2, <2>2, <3>2 DEF Offsets
  <2> QED BY <1>0, <1>2, <2>7, <2>8 DEF ResultIsOwnString
<1> QED BY <1>1, <1>2 DEF Store, Fail

(* Of the other steps none touches the buffer of a pool in use. *)
LEMMA NextBuffer == BufferInv /\ [Next]_vars => BufferInv'
<1> SUFFICES ASSUME BufferInv, [Next]_vars PROVE BufferInv'
  OBVIOUS
<1>1. PoolInv'
  BY NextPoolInv DEF BufferInv
<1>2. ASSUME UNCHANGED <<entries, size>>, Live' => Live PROVE StringsTileBuffer'
  BY <1>2 DEF BufferInv, StringsTileBuffer, StoredSize
<1>3. ASSUME UNCHANGED <<entries, size>>, Live' => Live, pc' # "store", result' = NoOffset
      PROVE  Offsets' /\ ResultIsOwnString'
  BY <1>3 DEF BufferInv, Offsets, ResultIsOwnString
<1>4. CASE UNCHANGED vars
  BY <1>1, <1>4 DEF vars, store, BufferInv, StringsTileBuffer, StoredSize, Offsets,
     ResultIsOwnString, Live
<1>5. ASSUME NEW s \in Strings, Intern(s) PROVE BufferInv'
  BY <1>1, <1>2, <1>3, <1>5 DEF Intern, store, Live, BufferInv
<1>6. CASE ProbeHit
  <2>1. /\ pc = "probe" /\ pc' = "idle" /\ UNCHANGED <<entries, size, cur>>
        /\ slots[pos] # Empty /\ Matches(slots[pos]) /\ result' = entries[slots[pos]].offset
    BY <1>6 DEF ProbeHit, store
  <2>2. Live /\ Live' /\ Shape
    BY <2>1 DEF Live, BufferInv, PoolInv
  <2>3. slots[pos] \in DOMAIN entries
    <3>1. slots[pos] \in 0 .. slots_used /\ Len(entries) = slots_used /\ slots_used \in Nat
      BY <2>1, <2>2 DEF Shape, TailPending
    <3> QED BY <2>1, <2>2, <3>1 DEF Shape, Empty
  <2>4. entries[slots[pos]].string = cur
    BY <2>1 DEF Matches, SlotString
  <2>5. Offsets' /\ ResultIsOwnString'
    BY <2>1, <2>2, <2>3, <2>4 DEF BufferInv, Offsets, ResultIsOwnString
  <2> QED BY <1>1, <1>2, <2>1, <2>2, <2>5 DEF BufferInv
<1>7. CASE ProbeNext
  <2>1. pc = "probe" /\ UNCHANGED <<entries, size, pc, result>> /\ result = NoOffset
    BY <1>7 DEF ProbeNext, store, BufferInv, Offsets
  <2> QED BY <1>1, <1>2, <1>3, <2>1 DEF BufferInv, Live
<1>8. CASE ProbeEnd
  <2>1. pc = "probe" /\ UNCHANGED <<entries, size>> /\ result = NoOffset /\ result' = NoOffset
    BY <1>8 DEF ProbeEnd, Fail, store, BufferInv, Offsets
  <2>2. \/ pc' = "failed"
        \/ size <= MaxOffset /\ pc' = "store"
    BY <1>8 DEF ProbeEnd, Fail
  <2>3. Offsets' /\ ResultIsOwnString'
    BY <2>1, <2>2 DEF BufferInv, Offsets, ResultIsOwnString, Live
  <2> QED BY <1>1, <1>2, <2>1, <2>3 DEF BufferInv, Live
<1>9. CASE Store
  BY <1>1, <1>9, StoreTiles DEF BufferInv
<1>10. CASE Grow
  <2>1. pc = "grow" /\ result = NoOffset /\ UNCHANGED size
    BY <1>10 DEF Grow, BufferInv, Offsets
  <2>2. CASE pc' = "failed" /\ result' = NoOffset
    BY <1>1, <2>2 DEF BufferInv, StringsTileBuffer, Offsets, ResultIsOwnString, Live
  <2>3. CASE UNCHANGED <<entries, result>> /\ pc' = "rehash"
    BY <1>1, <1>2, <1>3, <2>1, <2>3 DEF BufferInv, Live
  <2> QED BY <1>10, <2>2, <2>3 DEF Grow, Fail
<1>11. CASE RehashSkip \/ RehashTake \/ PlaceNext \/ PlaceEnd \/ RehashDone \/ RelocateNext
            \/ RelocateEnd
  <2>1. /\ pc \in {"rehash", "place", "relocate"} /\ UNCHANGED <<entries, size, result>>
        /\ pc' \in {"rehash", "place", "relocate", "insert"}
    BY <1>11 DEF RehashSkip, RehashTake, PlaceNext, PlaceEnd, RehashDone, RelocateNext,
       RelocateEnd, store
  <2>2. result = NoOffset
    BY <2>1 DEF BufferInv, Offsets
  <2> QED BY <1>1, <1>2, <1>3, <2>1, <2>2 DEF BufferInv, Live
<1>12. CASE Insert
  <2>1. /\ pc = "insert" /\ pc' = "idle" /\ UNCHANGED <<entries, size, cur>>
        /\ result' = entries[Len(entries)].offset
    BY <1>12 DEF Insert, store
  <2>2. Live /\ Live' /\ Shape /\ Search
    BY <2>1 DEF Live, BufferInv, PoolInv
  <2>3. Len(entries) = slots_used + 1 /\ slots_used \in Nat /\ entries[slots_used + 1].string = cur
    BY <2>1, <2>2 DEF Shape, Search, TailPending, SlotString
  <2>4. Len(entries) \in DOMAIN entries /\ entries[Len(entries)].string = cur
    BY <2>2, <2>3 DEF Shape
  <2>5. Offsets' /\ ResultIsOwnString'
    BY <2>1, <2>2, <2>4 DEF BufferInv, Offsets, ResultIsOwnString
  <2> QED BY <1>1, <1>2, <2>1, <2>2, <2>5 DEF BufferInv
<1>13. CASE Destroy
  <2>1. pc' = "destroyed" /\ result' = NoOffset
    BY <1>13 DEF Destroy
  <2> QED BY <1>1, <2>1 DEF BufferInv, StringsTileBuffer, Offsets, ResultIsOwnString, Live
<1> QED
  BY <1>4, <1>5, <1>6, <1>7, <1>8, <1>9, <1>10, <1>11, <1>12, <1>13 DEF Next, Step

LEMMA BufferInvariant == Spec => []BufferInv
<1> QED
  BY InitBuffer, NextBuffer, PTL DEF Spec

(* The strings of a pool in use lie behind one another in its buffer, each *)
(* at a multiple of four, with less than four bytes of padding between.    *)
THEOREM PoolTilesBuffer == Spec => []StringsTileBuffer
<1>1. BufferInv => StringsTileBuffer
  BY DEF BufferInv
<1> QED
  BY <1>1, BufferInvariant, PTL

(* intern returns the offset at which its own string is stored, and one    *)
(* that a 32-bit reference can hold.                                       *)
THEOREM InternReturnsItsString == Spec => []ResultIsOwnString
<1>1. BufferInv => ResultIsOwnString
  BY DEF BufferInv
<1> QED
  BY <1>1, BufferInvariant, PTL
=============================================================================
