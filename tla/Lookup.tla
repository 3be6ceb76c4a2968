------------------------------- MODULE Lookup -------------------------------
(***************************************************************************)
(* Finding a key among the entries of the root index or of a block         *)
(* (src/src/reader/bc_hrbl_reader.c): a binary search on the hash, and     *)
(* around the hit, when its key is another one of the same hash, a linear  *)
(* probe to the left and then to the right.  One step per loop iteration.  *)
(*                                                                         *)
(* The entries are those of a written image: they ascend by hash (property *)
(* EntriesSearchable of RoundTrip) and each carries the hash of its key.   *)
(* Equal keys may occur several times, the writer does not refuse them.    *)
(***************************************************************************)
EXTENDS Integers

CONSTANTS
    Keys,        \* keys of entries, and keys looked for
    HashValues,  \* values the 64-bit hash takes on them
    MaxEntries   \* bound: entries of one index

ASSUME LookupAssumption ==
    /\ HashValues \subseteq Nat
    /\ MaxEntries \in Nat

VARIABLES
    hash_of,      \* the hash function, any one
    entry_count,
    entries,      \* key of each entry, 0 .. entry_count - 1
    key,          \* key looked for
    pc,
    low, high,    \* bounds of the binary search
    mid,          \* its last probe, index of the linear probe
    left, right,  \* cursors of the linear probe
    found         \* index of the entry returned, or NotFound

vars == <<hash_of, entry_count, entries, key, pc, low, high, mid, left, right, found>>
given == <<hash_of, entry_count, entries, key>>

NotFound == -1
Index == 0 .. entry_count - 1
Hash(i) == hash_of[entries[i]]
Target == hash_of[key]

Init ==
    /\ hash_of \in [Keys -> HashValues]
    /\ entry_count \in 0 .. MaxEntries
    /\ entries \in [0 .. entry_count - 1 -> Keys]
    /\ \A i, j \in Index : i < j => Hash(i) <= Hash(j)
    /\ key \in Keys
    /\ pc = "search"
    /\ low = 0
    /\ high = entry_count
    /\ mid = 0
    /\ left = 0
    /\ right = 0
    /\ found = NotFound

Return(i) ==
    /\ found' = i
    /\ pc' = "returned"

\* read_entry refuses to read past the end of the image: Index is inside it.
Middle == low + (high - low) \div 2

\* Mutant: the lower bound moves to the probe, not past it.
SearchHigherStays ==
    /\ pc = "search"
    /\ low < high
    /\ Hash(Middle) < Target
    /\ mid' = Middle
    /\ low' = Middle
    /\ UNCHANGED <<given, pc, high, left, right, found>>

SearchHigher ==
    /\ pc = "search"
    /\ low < high
    /\ Hash(Middle) < Target
    /\ mid' = Middle
    /\ low' = Middle + 1
    /\ UNCHANGED <<given, pc, high, left, right, found>>

SearchLower ==
    /\ pc = "search"
    /\ low < high
    /\ Hash(Middle) > Target
    /\ mid' = Middle
    /\ high' = Middle
    /\ UNCHANGED <<given, pc, low, left, right, found>>

SearchHit ==
    /\ pc = "search"
    /\ low < high
    /\ Hash(Middle) = Target
    /\ mid' = Middle
    /\ \/ /\ entries[Middle] = key
          /\ Return(Middle)
          /\ UNCHANGED left
       \/ /\ entries[Middle] # key
          /\ pc' = "left"
          /\ left' = Middle
          /\ UNCHANGED found
    /\ UNCHANGED <<given, low, high, right>>

SearchFails ==
    /\ pc = "search"
    /\ low >= high
    /\ Return(NotFound)
    /\ UNCHANGED <<given, low, high, mid, left, right>>

\* Mutant: the probe ends at the first entry of another key.
ProbeLeftGivesUp ==
    /\ pc = "left"
    /\ left >= 0
    /\ Hash(left) = Target
    /\ \/ /\ entries[left] = key
          /\ Return(left)
          /\ UNCHANGED right
       \/ /\ entries[left] # key
          /\ pc' = "right"
          /\ right' = mid + 1
          /\ UNCHANGED found
    /\ UNCHANGED <<given, low, high, mid, left>>

ProbeLeft ==
    /\ pc = "left"
    /\ left >= 0
    /\ Hash(left) = Target
    /\ \/ /\ entries[left] = key
          /\ Return(left)
          /\ UNCHANGED left
       \/ /\ entries[left] # key
          /\ left' = left - 1
          /\ UNCHANGED <<pc, found>>
    /\ UNCHANGED <<given, low, high, mid, right>>

ProbeLeftEnds ==
    /\ pc = "left"
    /\ ~(left >= 0 /\ Hash(left) = Target)
    /\ pc' = "right"
    /\ right' = mid + 1
    /\ UNCHANGED <<given, low, high, mid, left, found>>

ProbeRight ==
    /\ pc = "right"
    /\ right < entry_count
    /\ Hash(right) = Target
    /\ \/ /\ entries[right] = key
          /\ Return(right)
          /\ UNCHANGED right
       \/ /\ entries[right] # key
          /\ right' = right + 1
          /\ UNCHANGED <<pc, found>>
    /\ UNCHANGED <<given, low, high, mid, left>>

ProbeRightEnds ==
    /\ pc = "right"
    /\ ~(right < entry_count /\ Hash(right) = Target)
    /\ Return(NotFound)
    /\ UNCHANGED <<given, low, high, mid, left, right>>

Step ==
    \/ SearchHigher \/ SearchLower \/ SearchHit \/ SearchFails
    \/ ProbeLeft \/ ProbeLeftEnds \/ ProbeRight \/ ProbeRightEnds

\* The caller has its answer.
Returned == pc = "returned" /\ UNCHANGED vars

Next == Step \/ Returned

Spec == Init /\ [][Next]_vars

\* The lookup is a loop in one thread.
FairSpec == Spec /\ WF_vars(Step)

-----------------------------------------------------------------------------
(* The cursors stay where the code's integers and the entries allow.       *)
TypeOK ==
    /\ pc \in {"search", "left", "right", "returned"}
    /\ low \in 0 .. entry_count
    /\ high \in 0 .. entry_count
    /\ mid \in 0 .. entry_count
    /\ left \in -1 .. entry_count
    /\ right \in 0 .. entry_count
    /\ found \in -1 .. entry_count - 1

(* A lookup answers with an entry of the key if there is one, and reports  *)
(* absence only if there is none, however the hashes of other keys fall    *)
(* together with its own and wherever the binary search lands among them.  *)
AnswerCorrect ==
    pc = "returned" =>
        IF \E i \in Index : entries[i] = key
        THEN found \in Index /\ entries[found] = key
        ELSE found = NotFound

(* Every lookup comes to an answer.                                        *)
LookupEnds == <>(pc = "returned")
=============================================================================
