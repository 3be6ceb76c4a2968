------------------------------ MODULE RoundTrip ------------------------------
(***************************************************************************)
(* The encoder and the reader together: what serialize_to_buffer writes,   *)
(* the reader gives back and the verifier accepts.                         *)
(***************************************************************************)
EXTENDS Serialize

CONSTANTS
    Malformed,    \* the strings that are not UTF-8: the writer takes any bytes
    RootCountMax  \* BC_HRBL_ROOT_COUNT_MAX: 2^64 by the size of a root entry, more
                  \* than there is memory for

ASSUME RoundTripAssumption ==
    /\ Malformed \subseteq Strings
    /\ RootCountMax \in Nat
    /\ MaxNodes <= RootCountMax

R == INSTANCE Reader WITH Measure <- LAMBDA s : Length[s],
                          WellFormed <- LAMBDA s : s \notin Malformed

Written == pc = "returned" /\ error = "ok"

\* Nodes in the order in which a block, or the root index, stores them.
ByHash(p) ==
    LET entry(i) == [hash |-> hash_of[tree.key[i]], node |-> i]
        c == Children(p)
    IN  Sorted([k \in DOMAIN c |-> entry(c[k])])

\* The value of a node as the tree has it.
TreeValue(root) ==
    LET value[i \in Nodes] ==
        LET kind == tree.kind[i]
        IN  CASE kind = "null" -> <<"null">>
              [] kind = "int64" -> <<"int64", i>>
              [] kind = "string" -> <<"string", tree.text[i]>>
              [] kind = "array" -> <<"array", [k \in DOMAIN Children(i) |-> value[Children(i)[k]]]>>
              [] kind = "block" ->
                    <<"block", [k \in DOMAIN ByHash(i) |->
                        LET c == ByHash(i)[k].node
                        IN  <<[tag |-> "text", text |-> tree.key[c]], value[c]>>]>>
    IN  value[root]

TreeRoots ==
    [k \in DOMAIN Roots |->
        LET i == ByHash(0)[k].node
        IN  <<[tag |-> "text", text |-> tree.key[i]], TreeValue(i)>>]

(* A written image opens and reads back as the tree it was made from:      *)
(* every key, value and nesting, elements of arrays in order and entries   *)
(* of blocks by hash, over all collisions of the hash.                     *)
ReadsBack == Written => R!Opens(image) /\ R!ReadRoots(image) = TreeRoots

(* The entries of every block and of the root index ascend by hash: the    *)
(* order the binary search of the reader relies on.                        *)
EntriesSearchable ==
    Written =>
        LET Ascending(s) == \A j, k \in DOMAIN s : j < k => s[j] <= s[k]
        IN  /\ Ascending([k \in DOMAIN image.roots |-> image.roots[k].hash])
            /\ \A o \in DOMAIN image.nodes :
                  R!KindAt(image, o) = "block" => Ascending(R!BlockHashes(image, o))

(* The verifier accepts a written image, but for two things the writer     *)
(* does not refuse: a string that is not UTF-8, and two root keys of equal *)
(* hash.                                                                   *)
VerifyAccepts ==
    Written =>
        R!VerifyBuffer(image) =
            IF DOMAIN pool.at \cap Malformed # {} THEN "bad_utf8"
            ELSE IF \E j, k \in DOMAIN Roots : j # k /\ hash_of[tree.key[Roots[j]]] = hash_of[tree.key[Roots[k]]]
            THEN "duplicate_key"
            ELSE "ok"

(* What BC_HRBL_WRITER_ERROR_FILE_SIZE_OVERFLOW_4GB ("file size exceeds 4  *)
(* GiB") announces: a file too large for 32-bit references is refused.     *)
FileSizeOverflowRefused == Written => image.size <= RefLimit
=============================================================================
