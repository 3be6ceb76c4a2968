----------------------------- MODULE StringPool -----------------------------
(***************************************************************************)
(* The string pool of the encoder                                          *)
(* (src/src/writer/bc_hrbl_writer_encoder.c): every key and string value   *)
(* of a document is interned into one buffer of length-prefixed, 4-aligned *)
(* strings, found again through an open-addressing hash table that doubles *)
(* when it is three quarters full.                                         *)
(*                                                                         *)
(* Each loop iteration of intern_with_hash and slots_grow is one step, so  *)
(* that the end of the probe loops is a property and not an assumption.    *)
(* A slot holds the 1-based index of its entry, 0 when empty; the hash the *)
(* C slot caches is that of its entry's string.                            *)
(***************************************************************************)
EXTENDS Integers, Sequences, FiniteSets

CONSTANTS
    Strings,          \* distinct byte strings
    NoString,         \* none of them
    Length,           \* their lengths in bytes
    HashValues,       \* values the 64-bit hash takes on them
    NonZeroMark,      \* BC_HRBL_ENCODER_POOL_HASH_NONZERO: replaces hash 0
    InitialCapacity,  \* slots of a new pool, 512 in the code
    MaxOffset         \* UINT32_MAX: the largest offset a reference can hold

ASSUME StringsAssumption ==
    /\ NoString \notin Strings
    /\ Length \in [Strings -> Nat]
    /\ HashValues \subseteq Nat
    /\ NonZeroMark \in Nat \ {0}
    /\ InitialCapacity \in Nat \ {0}
    /\ MaxOffset \in Nat

VARIABLES
    hash_of,      \* the hash function, any one
    entries,      \* stored strings in order: [string, offset]
    size,         \* bytes used in the buffer
    slots,        \* position -> entry index, 0 when empty
    capacity,     \* slots_capacity
    slots_used,
    pc,           \* where intern_with_hash is
    cur,          \* the string being interned
    pos,          \* the slot being looked at
    old_slots,    \* table being rehashed, capacity \div 2 positions
    next_old,     \* next position of old_slots to move
    result        \* offset returned by the last successful intern

table == <<slots, capacity, slots_used>>
store == <<entries, size>>
rehash == <<old_slots, next_old>>
vars == <<hash_of, store, table, pc, cur, pos, rehash, result>>

NoOffset == -1
Empty == 0
Positions(c) == 0 .. c - 1

\* Mutant: the sum is cut, not rounded up, to a multiple of four.
AlignDown4(n) == (n \div 4) * 4

AlignUp4(n) == ((n + 3) \div 4) * 4
StoredSize(s) == 4 + Length[s]

Mark(h) == IF h = 0 THEN NonZeroMark ELSE h

\* The capacity is a power of two: the mask of the code is the modulus here.
Home(s, c) == Mark(hash_of[s]) % c

\* Mutant: the last position is never left.
StepToSaturates(p, c) == IF p + 1 = c THEN p ELSE p + 1

StepTo(p, c) == IF p + 1 = c THEN 0 ELSE p + 1

SlotString(e) == entries[e].string

\* Mutant: equal hashes are taken for equal strings.
MatchesByHash(e) == Mark(hash_of[SlotString(e)]) = Mark(hash_of[cur])

Matches(e) ==
    /\ Mark(hash_of[SlotString(e)]) = Mark(hash_of[cur])
    /\ SlotString(e) = cur

-----------------------------------------------------------------------------
Init ==
    /\ hash_of \in [Strings -> HashValues]
    /\ entries = <<>>
    /\ size = 0
    /\ capacity = InitialCapacity
    /\ slots = [p \in Positions(InitialCapacity) |-> Empty]
    /\ slots_used = 0
    /\ pc = "idle"
    /\ cur = NoString
    /\ pos = 0
    /\ old_slots = <<>>
    /\ next_old = 0
    /\ result = NoOffset

\* Every failure makes the serializer destroy the pool.
Fail ==
    /\ pc' = "failed"
    /\ result' = NoOffset

Intern(s) ==
    /\ pc = "idle"
    /\ cur' = s
    /\ pos' = Home(s, capacity)
    /\ pc' = "probe"
    /\ result' = NoOffset
    /\ UNCHANGED <<hash_of, store, table, rehash>>

ProbeHit ==
    /\ pc = "probe"
    /\ slots[pos] # Empty
    /\ Matches(slots[pos])
    /\ result' = entries[slots[pos]].offset
    /\ pc' = "idle"
    /\ UNCHANGED <<hash_of, store, table, cur, pos, rehash>>

ProbeNext ==
    /\ pc = "probe"
    /\ slots[pos] # Empty
    /\ ~Matches(slots[pos])
    /\ pos' = StepTo(pos, capacity)
    /\ UNCHANGED <<hash_of, store, table, pc, cur, rehash, result>>

ProbeEnd ==
    /\ pc = "probe"
    /\ slots[pos] = Empty
    /\ \/ size > MaxOffset /\ Fail
       \/ size <= MaxOffset /\ pc' = "store" /\ UNCHANGED result
    /\ UNCHANGED <<hash_of, store, table, cur, pos, rehash>>

\* Mutant: the table only grows once every slot is taken.
NeedsGrowthWhenFull == slots_used = capacity

NeedsGrowth == (slots_used + 1) * 4 >= capacity * 3

\* Length prefix, bytes and padding, then the entry.  Out of memory while
\* appending the first, the second or the third leaves a torn buffer.
Store ==
    /\ pc = "store"
    /\ \/ /\ entries' = Append(entries, [string |-> cur, offset |-> size])
          /\ size' = AlignUp4(size + StoredSize(cur))
          /\ pc' = IF NeedsGrowth THEN "grow" ELSE "insert"
          /\ UNCHANGED result
       \/ /\ size' \in {size, size + 4, size + StoredSize(cur), AlignUp4(size + StoredSize(cur))}
          /\ Fail
          /\ UNCHANGED entries
    /\ UNCHANGED <<hash_of, table, cur, pos, rehash>>

Grow ==
    /\ pc = "grow"
    /\ \/ /\ old_slots' = slots
          /\ next_old' = 0
          /\ capacity' = 2 * capacity
          /\ slots' = [p \in Positions(2 * capacity) |-> Empty]
          /\ pc' = "rehash"
          /\ UNCHANGED <<entries, result>>
       \/ /\ entries' = SubSeq(entries, 1, Len(entries) - 1)
          /\ Fail
          /\ UNCHANGED <<rehash, slots, capacity>>
    /\ UNCHANGED <<hash_of, size, slots_used, cur, pos>>

OldCapacity == capacity \div 2

RehashSkip ==
    /\ pc = "rehash"
    /\ next_old < OldCapacity
    /\ old_slots[next_old] = Empty
    /\ next_old' = next_old + 1
    /\ UNCHANGED <<hash_of, store, table, pc, cur, pos, old_slots, result>>

\* Mutant: the new place of an entry is looked for from its old position.
RehashTakeInPlace ==
    /\ pc = "rehash"
    /\ next_old < OldCapacity
    /\ old_slots[next_old] # Empty
    /\ pos' = next_old
    /\ pc' = "place"
    /\ UNCHANGED <<hash_of, store, table, cur, rehash, result>>

RehashTake ==
    /\ pc = "rehash"
    /\ next_old < OldCapacity
    /\ old_slots[next_old] # Empty
    /\ pos' = Home(SlotString(old_slots[next_old]), capacity)
    /\ pc' = "place"
    /\ UNCHANGED <<hash_of, store, table, cur, rehash, result>>

PlaceNext ==
    /\ pc = "place"
    /\ slots[pos] # Empty
    /\ pos' = StepTo(pos, capacity)
    /\ UNCHANGED <<hash_of, store, table, pc, cur, rehash, result>>

PlaceEnd ==
    /\ pc = "place"
    /\ slots[pos] = Empty
    /\ slots' = [slots EXCEPT ![pos] = old_slots[next_old]]
    /\ next_old' = next_old + 1
    /\ pc' = "rehash"
    /\ UNCHANGED <<hash_of, store, capacity, slots_used, cur, pos, old_slots, result>>

RehashDone ==
    /\ pc = "rehash"
    /\ next_old = OldCapacity
    /\ old_slots' = <<>>
    /\ next_old' = 0
    /\ pos' = Home(cur, capacity)
    /\ pc' = "relocate"
    /\ UNCHANGED <<hash_of, store, table, cur, result>>

RelocateNext ==
    /\ pc = "relocate"
    /\ slots[pos] # Empty
    /\ pos' = StepTo(pos, capacity)
    /\ UNCHANGED <<hash_of, store, table, pc, cur, rehash, result>>

RelocateEnd ==
    /\ pc = "relocate"
    /\ slots[pos] = Empty
    /\ pc' = "insert"
    /\ UNCHANGED <<hash_of, store, table, cur, pos, rehash, result>>

Insert ==
    /\ pc = "insert"
    /\ slots' = [slots EXCEPT ![pos] = Len(entries)]
    /\ slots_used' = slots_used + 1
    /\ result' = entries[Len(entries)].offset
    /\ pc' = "idle"
    /\ UNCHANGED <<hash_of, store, capacity, cur, pos, rehash>>

\* After a failure, or once the document is serialized.
Destroy ==
    /\ pc \in {"idle", "failed"}
    /\ pc' = "destroyed"
    /\ entries' = <<>>
    /\ size' = 0
    /\ slots' = <<>>
    /\ capacity' = 0
    /\ slots_used' = 0
    /\ cur' = NoString
    /\ pos' = 0
    /\ result' = NoOffset
    /\ old_slots' = <<>>
    /\ next_old' = 0
    /\ UNCHANGED hash_of

Step ==
    \/ ProbeHit \/ ProbeNext \/ ProbeEnd
    \/ Store
    \/ Grow
    \/ RehashSkip \/ RehashTake \/ PlaceNext \/ PlaceEnd \/ RehashDone
    \/ RelocateNext \/ RelocateEnd
    \/ Insert

Next ==
    \/ \E s \in Strings : Intern(s)
    \/ Step
    \/ Destroy

Spec == Init /\ [][Next]_vars

\* One thread runs the pool: a started intern goes on.
FairSpec == Spec /\ WF_vars(Step)

-----------------------------------------------------------------------------
Live == pc \notin {"failed", "destroyed"}

(* The fields of the pool hold values of their types. *)
TypeOK ==
    /\ hash_of \in [Strings -> HashValues]
    /\ entries \in Seq([string : Strings, offset : Nat])
    /\ size \in Nat
    /\ capacity \in Nat
    /\ slots \in [Positions(capacity) -> 0 .. Len(entries)] \/ ~Live
    /\ slots_used \in Nat
    /\ pc \in {"idle", "probe", "store", "grow", "rehash", "place", "relocate", "insert",
               "failed", "destroyed"}
    /\ cur \in Strings \cup {NoString}
    /\ pos \in Positions(capacity) \/ ~Live
    /\ next_old \in Nat
    /\ result \in Nat \cup {NoOffset}

Occupied == {p \in Positions(capacity) : slots[p] # Empty}

(* intern never stores a string twice, whatever hashes collide and however *)
(* often the table has been rehashed: the strings of the pool are unique,  *)
(* and with them the key offsets that entries of equal keys share.         *)
NoStringTwice ==
    \A i, j \in DOMAIN entries : entries[i].string = entries[j].string => i = j

(* The probe loops of intern_with_hash and slots_grow always have an empty *)
(* slot to stop at: the table is never full.                               *)
ProbeCanStop == Live => \E p \in Positions(capacity) : slots[p] = Empty

(* The strings tile the buffer: each starts at a multiple of four where    *)
(* the previous one ended, so that no reference equals the                 *)
(* POOL_OFFSET_NONE sentinel and no two strings overlap.                   *)
StringsTileBuffer ==
    Live =>
        /\ size % 4 = 0
        /\ \A i \in DOMAIN entries :
              LET end == entries[i].offset + StoredSize(entries[i].string)
                  limit == IF i = Len(entries) THEN size ELSE entries[i + 1].offset
              IN  /\ entries[i].offset % 4 = 0
                  /\ end <= limit
                  /\ limit - end < 4

(* A successful intern returns the offset at which its own string is       *)
(* stored, and that offset fits the 32-bit field of a reference.           *)
ResultIsOwnString ==
    result # NoOffset =>
        /\ result <= MaxOffset
        /\ \E i \in DOMAIN entries : entries[i].offset = result /\ entries[i].string = cur

(* Every intern ends, in success or failure, through any number of probes, *)
(* moves and relocations.                                                  *)
InternEnds == (pc = "probe") ~> (pc \in {"idle", "failed"})
=============================================================================
