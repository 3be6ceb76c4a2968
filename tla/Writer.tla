------------------------------- MODULE Writer -------------------------------
(***************************************************************************)
(* The streaming document builder (src/src/writer/bc_hrbl_writer.c).  The  *)
(* caller issues set_*, append_*, begin_*, end_* and finalize; the writer  *)
(* keeps an intrusive linked tree of nodes carved from an arena.           *)
(*                                                                         *)
(* Node identities are the arena's allocation order.  The root list of the *)
(* C structure (root_first, root_last, root_count) is the list of scope    *)
(* Root, so that first_child[Root] is root_first, and so on; a NULL        *)
(* current_scope is Root.                                                  *)
(***************************************************************************)
EXTENDS Integers, FiniteSets

CONSTANTS
    MaxNodes,     \* bound on the nodes one writer allocates
    Keys,         \* distinct non-empty keys
    Values,       \* payloads of numbers and non-empty strings
    PlainKinds,   \* leaf kinds without payload: null, true, false
    NumberKinds,  \* leaf kinds with a fixed-size payload
    SerializeErrors  \* codes serialize_to_buffer can report

ASSUME MaxNodesAssumption == MaxNodes \in Nat \ {0}

ASSUME KindsAssumption ==
    /\ {"none", "block", "array", "string"} \cap (PlainKinds \cup NumberKinds) = {}
    /\ "root" \notin PlainKinds \cup NumberKinds
    /\ PlainKinds \cap NumberKinds = {}

ASSUME NamesAssumption ==
    /\ {"null", "null_with_length", "empty", "huge", "unset"} \cap Keys = {}
    /\ {"zero", "empty", "huge"} \cap Values = {}

Root == 0
None == 0
NodeId == 1 .. MaxNodes
ScopeId == 0 .. MaxNodes

ContainerKinds == {"block", "array"}
Kinds == {"none", "string"} \cup ContainerKinds \cup PlainKinds \cup NumberKinds

\* (pointer, length) pairs a caller can pass as a key: NULL with length 0,
\* NULL with a length, a pointer with length 0, a length above UINT32_MAX.
KeyArgs == Keys \cup {"null", "null_with_length", "empty", "huge"}

\* A key as stored: "unset" is the zeroed node (length 0, hash 0), "empty" a
\* key of length 0 whose hash was computed.
StoredKeys == Keys \cup {"unset", "empty"}

StringArgs == Values \cup {"empty", "huge"}
StoredValues == Values \cup {"zero", "empty"}

ErrorCodes == {"ok", "unclosed_scope", "construction", "internal"} \cup SerializeErrors

VARIABLES
    phase,          \* "absent", "live" between create and destroy, "gone"
    used,           \* nodes the arena has handed out
    kind, key, value,
    parent, first_child, last_child, next_sibling, child_count,
    current_scope,
    error_flag,
    last_error,
    delivered       \* what the last finalize returned

payload == <<kind, key, value>>
links == <<parent, first_child, last_child, next_sibling, child_count>>
status == <<phase, last_error, delivered>>
vars == <<used, payload, links, current_scope, error_flag, status>>

-----------------------------------------------------------------------------
\* Memory fresh from the arena is zeroed, so an unused node is all zero.
Init ==
    /\ phase = "absent"
    /\ used = 0
    /\ kind = [n \in NodeId |-> "none"]
    /\ key = [n \in NodeId |-> "unset"]
    /\ value = [n \in NodeId |-> "zero"]
    /\ parent = [n \in NodeId |-> None]
    /\ first_child = [s \in ScopeId |-> None]
    /\ last_child = [s \in ScopeId |-> None]
    /\ next_sibling = [n \in NodeId |-> None]
    /\ child_count = [s \in ScopeId |-> 0]
    /\ current_scope = Root
    /\ error_flag = FALSE
    /\ last_error = "ok"
    /\ delivered = "nothing"

\* When an allocation of create fails nothing is left behind: no step.
Create ==
    /\ phase = "absent"
    /\ phase' = "live"
    /\ UNCHANGED <<used, payload, links, current_scope, error_flag, last_error, delivered>>

\* The arena and the writer go back to the pool.
Destroy ==
    /\ phase = "live"
    /\ phase' = "gone"
    /\ used' = 0
    /\ kind' = [n \in NodeId |-> "none"]
    /\ key' = [n \in NodeId |-> "unset"]
    /\ value' = [n \in NodeId |-> "zero"]
    /\ parent' = [n \in NodeId |-> None]
    /\ first_child' = [s \in ScopeId |-> None]
    /\ last_child' = [s \in ScopeId |-> None]
    /\ next_sibling' = [n \in NodeId |-> None]
    /\ child_count' = [s \in ScopeId |-> 0]
    /\ current_scope' = Root
    /\ error_flag' = FALSE
    /\ last_error' = "ok"
    /\ delivered' = "nothing"

-----------------------------------------------------------------------------
\* Mutant: the tail pointer is only set for the first child.
AppendToScopeStaleTail(n) ==
    LET s == current_scope IN
    /\ parent' = [parent EXCEPT ![n] = s]
    /\ IF first_child[s] = None
         THEN /\ first_child' = [first_child EXCEPT ![s] = n]
              /\ last_child' = [last_child EXCEPT ![s] = n]
              /\ UNCHANGED next_sibling
         ELSE /\ next_sibling' = [next_sibling EXCEPT ![last_child[s]] = n]
              /\ UNCHANGED <<first_child, last_child>>
    /\ child_count' = [child_count EXCEPT ![s] = @ + 1]

AppendToScope(n) ==
    LET s == current_scope IN
    /\ parent' = [parent EXCEPT ![n] = s]
    /\ first_child' = IF first_child[s] = None
                        THEN [first_child EXCEPT ![s] = n]
                        ELSE first_child
    /\ next_sibling' = IF first_child[s] = None
                         THEN next_sibling
                         ELSE [next_sibling EXCEPT ![last_child[s]] = n]
    /\ last_child' = [last_child EXCEPT ![s] = n]
    /\ child_count' = [child_count EXCEPT ![s] = @ + 1]

KindOf(s) == IF s = Root THEN "root" ELSE kind[s]

\* Mutant: the scope of a keyed call is not looked at.
ExpectAnyScope == TRUE

ExpectKeyedScope == KindOf(current_scope) \in {"root", "block"}
ExpectIndexedScope == KindOf(current_scope) = "array"

ScopeAdmits(require_key) ==
    IF require_key THEN ExpectKeyedScope ELSE ExpectIndexedScope

KeyAccepted(k) == k \notin {"null_with_length", "huge"}
StoredKey(k) == IF k \in Keys THEN k ELSE "empty"

\* The arena returns node n; out of memory is a separate disjunct below.
AllocNode(n) ==
    /\ used < MaxNodes
    /\ n = used + 1
    /\ used' = n

Fail == error_flag' = TRUE

\* Mutant: reporting the failure clears it.
RefusedOnce ==
    /\ error_flag
    /\ error_flag' = FALSE
    /\ UNCHANGED <<used, payload, links, current_scope, status>>

\* A call on a writer that has already failed returns false at once.
Refused == error_flag /\ UNCHANGED vars

\* set_key fails on a refused (pointer, length) pair, or when the arena
\* cannot hold the copy of a non-empty key; the node is already allocated.
SetKeyFails(k, n, kd) ==
    /\ AllocNode(n)
    /\ ~KeyAccepted(k) \/ k \in Keys
    /\ kind' = [kind EXCEPT ![n] = kd]
    /\ UNCHANGED <<key, value, links>>

AddLeaf(n, k, kd, require_key) ==
    /\ ~error_flag
    /\ ScopeAdmits(require_key)
    /\ require_key => KeyAccepted(k)
    /\ AllocNode(n)
    /\ kind' = [kind EXCEPT ![n] = kd]
    /\ key' = IF require_key THEN [key EXCEPT ![n] = StoredKey(k)] ELSE key
    /\ AppendToScope(n)
    /\ UNCHANGED <<current_scope, status>>

AddLeafFails(k, kd, require_key) ==
    /\ ~error_flag
    /\ \/ ~ScopeAdmits(require_key) /\ UNCHANGED <<used, payload, links>>
       \/ ScopeAdmits(require_key) /\ UNCHANGED <<used, payload, links>> \* node: out of memory
       \/ /\ ScopeAdmits(require_key)
          /\ require_key
          /\ \E n \in NodeId : SetKeyFails(k, n, kd)
    /\ Fail
    /\ UNCHANGED <<current_scope, status>>

-----------------------------------------------------------------------------
\* set_null, set_bool (require_key) and append_null, append_bool.
AddPlain(k, kd, require_key) ==
    /\ phase = "live"
    /\ \/ Refused
       \/ AddLeafFails(k, kd, require_key)
       \/ /\ \E n \in NodeId : AddLeaf(n, k, kd, require_key)
          /\ UNCHANGED <<value, error_flag>>

\* The payload is stored afterwards, through the last child of the scope.
AddNumber(k, kd, v, require_key) ==
    /\ phase = "live"
    /\ \/ Refused
       \/ AddLeafFails(k, kd, require_key)
       \/ /\ \E n \in NodeId : AddLeaf(n, k, kd, require_key)
          /\ value' = [value EXCEPT ![last_child'[current_scope]] = v]
          /\ UNCHANGED error_flag

\* The length check precedes everything; the copy of the string follows the
\* linking of its node, so running out of memory there leaves a linked node.
AddString(k, v, require_key) ==
    /\ phase = "live"
    /\ \/ v = "huge" /\ Fail /\ UNCHANGED <<used, payload, links, current_scope, status>>
       \/ v # "huge" /\ Refused
       \/ v # "huge" /\ AddLeafFails(k, "string", require_key)
       \/ /\ v # "huge"
          /\ \E n \in NodeId : AddLeaf(n, k, "string", require_key)
          /\ \/ /\ value' = [value EXCEPT ![last_child'[current_scope]] = v]
                /\ UNCHANGED error_flag
             \/ v # "empty" /\ Fail /\ UNCHANGED value \* copy: out of memory

ContainerKeyAccepted(k) ==
    IF ExpectIndexedScope THEN k = "null" ELSE k # "null_with_length"

\* A container keyed by NULL keeps the zeroed key, hash included.
BeginContainer(k, kd) ==
    LET copies_key == ~ExpectIndexedScope /\ k # "null" IN
    /\ phase = "live"
    /\ \/ Refused
       \/ /\ ~error_flag
          /\ \/ ~ContainerKeyAccepted(k) /\ UNCHANGED <<used, payload, links>>
             \/ ContainerKeyAccepted(k) /\ UNCHANGED <<used, payload, links>> \* node: out of memory
             \/ /\ ContainerKeyAccepted(k)
                /\ copies_key
                /\ \E n \in NodeId : SetKeyFails(k, n, kd)
          /\ Fail
          /\ UNCHANGED <<current_scope, status>>
       \/ /\ ~error_flag
          /\ ContainerKeyAccepted(k)
          /\ copies_key => KeyAccepted(k)
          /\ \E n \in NodeId :
                /\ AllocNode(n)
                /\ kind' = [kind EXCEPT ![n] = kd]
                /\ key' = IF copies_key THEN [key EXCEPT ![n] = StoredKey(k)] ELSE key
                /\ AppendToScope(n)
                /\ current_scope' = n
          /\ UNCHANGED <<value, error_flag, status>>

EndContainer(expected_kind) ==
    /\ phase = "live"
    /\ \/ Refused
       \/ /\ ~error_flag
          /\ KindOf(current_scope) # expected_kind
          /\ Fail
          /\ UNCHANGED <<used, payload, links, current_scope, status>>
       \/ /\ ~error_flag
          /\ KindOf(current_scope) = expected_kind
          /\ current_scope' = parent[current_scope]
          /\ UNCHANGED <<used, payload, links, error_flag, status>>

\* Mutant: finalize does not ask whether a container is still open.
FinalizeIgnoringScope ==
    /\ phase = "live"
    /\ \/ /\ error_flag
          /\ last_error' = "construction"
          /\ delivered' = "refusal"
       \/ /\ ~error_flag
          /\ delivered' = "document"
          /\ UNCHANGED last_error
    /\ UNCHANGED <<phase, used, payload, links, current_scope, error_flag>>

\* serialize_to_buffer (module Serialize) either succeeds or reports a code,
\* "ok" standing for a failure that left the code unset.
FinalizeToBuffer ==
    /\ phase = "live"
    /\ \/ /\ error_flag
          /\ last_error' = "construction"
          /\ delivered' = "refusal"
       \/ /\ ~error_flag
          /\ current_scope # Root
          /\ last_error' = "unclosed_scope"
          /\ delivered' = "refusal"
       \/ /\ ~error_flag
          /\ current_scope = Root
          /\ \E e \in SerializeErrors \cup {"ok"} :
                last_error' = IF e = "ok" THEN "internal" ELSE e
          /\ delivered' = "refusal"
       \/ /\ ~error_flag
          /\ current_scope = Root
          /\ delivered' = "document"
          /\ UNCHANGED last_error
    /\ UNCHANGED <<phase, used, payload, links, current_scope, error_flag>>

\* append_* calls carry no key.
LeafKeyArgs(require_key) == IF require_key THEN KeyArgs ELSE {"null"}

Next ==
    \/ Create
    \/ Destroy
    \/ \E rk \in BOOLEAN : \E k \in LeafKeyArgs(rk), kd \in PlainKinds :
          AddPlain(k, kd, rk)
    \/ \E rk \in BOOLEAN : \E k \in LeafKeyArgs(rk), kd \in NumberKinds, v \in Values :
          AddNumber(k, kd, v, rk)
    \/ \E rk \in BOOLEAN : \E k \in LeafKeyArgs(rk), v \in StringArgs :
          AddString(k, v, rk)
    \/ \E k \in KeyArgs, kd \in ContainerKinds : BeginContainer(k, kd)
    \/ \E kd \in ContainerKinds : EndContainer(kd)
    \/ FinalizeToBuffer

Spec == Init /\ [][Next]_vars

-----------------------------------------------------------------------------
(* The fields of the writer and of its nodes hold values of their C types. *)
TypeOK ==
    /\ phase \in {"absent", "live", "gone"}
    /\ used \in 0 .. MaxNodes
    /\ kind \in [NodeId -> Kinds]
    /\ key \in [NodeId -> StoredKeys]
    /\ value \in [NodeId -> StoredValues]
    /\ parent \in [NodeId -> ScopeId]
    /\ first_child \in [ScopeId -> ScopeId]
    /\ last_child \in [ScopeId -> ScopeId]
    /\ next_sibling \in [NodeId -> ScopeId]
    /\ child_count \in [ScopeId -> Nat]
    /\ current_scope \in ScopeId
    /\ error_flag \in BOOLEAN
    /\ last_error \in ErrorCodes
    /\ delivered \in {"nothing", "document", "refusal"}

Built == 1 .. used
Children(s) == {n \in Built : parent[n] = s}

\* Depth-first order: whatever was allocated after a node's parent and before
\* the node lies inside that parent.
Preorder ==
    \A m \in Built : \A x \in Built :
        parent[m] < x /\ x < m => parent[x] >= parent[m]

ParentsPrecede == \A n \in Built : parent[n] < n

ParentsAreContainers ==
    \A n \in Built : parent[n] = Root \/ kind[parent[n]] \in ContainerKinds

ScopeIsOpen ==
    /\ current_scope <= used
    /\ current_scope # Root => kind[current_scope] \in ContainerKinds
    /\ \A x \in Built : x > current_scope => parent[x] >= current_scope

ListHeads ==
    \A s \in 0 .. used :
        \/ Children(s) = {} /\ first_child[s] = None /\ last_child[s] = None
        \/ /\ first_child[s] \in Children(s)
           /\ last_child[s] \in Children(s)
           /\ \A n \in Children(s) : first_child[s] <= n /\ n <= last_child[s]

ListSteps ==
    \A n \in Built :
        \/ n = last_child[parent[n]] /\ next_sibling[n] = None
        \/ /\ next_sibling[n] \in Children(parent[n])
           /\ n < next_sibling[n]
           /\ \A m \in Children(parent[n]) : n < m => next_sibling[n] <= m

ListCounts == \A s \in 0 .. used : child_count[s] = Cardinality(Children(s))

(* While no call has failed, the linked lists of append_to_scope hold      *)
(* exactly the nodes of each scope in the order of the calls, the child    *)
(* counts used to size the encoded blocks are the lengths of those lists,  *)
(* and the open scope is on the rightmost path of a depth-first tree, so   *)
(* that root_last / last_child, through which set_int64 and the others     *)
(* store their payload, is the node just added.                            *)
TreeIsDocument ==
    ~error_flag =>
        /\ ParentsPrecede
        /\ ParentsAreContainers
        /\ Preorder
        /\ ScopeIsOpen
        /\ ListHeads
        /\ ListSteps
        /\ ListCounts

(* The keys of the children follow their scope: an array element carries   *)
(* no key, a leaf of a block or of the root has one that set_key accepted. *)
KeysFollowScope ==
    ~error_flag =>
        \A n \in Built :
            /\ KindOf(parent[n]) = "array" => key[n] = "unset"
            /\ KindOf(parent[n]) # "array" /\ kind[n] \notin ContainerKinds
                 => key[n] # "unset"

(* The first failed call is final: error_flag stays up and the tree is     *)
(* never touched again before destroy, so no later finalize can hand over  *)
(* a document with a hole in it.                                           *)
FailureIsFinal ==
    [][error_flag /\ phase' = "live" =>
         /\ error_flag'
         /\ UNCHANGED <<used, payload, links, current_scope>>
         /\ (delivered' = "document" => delivered = "document")]_vars

(* test_last_error_ok_after_successful_finalize: last_error is OK after a  *)
(* finalize that succeeded.                                                *)
LastErrorOkAfterSuccessfulFinalize ==
    delivered = "document" => last_error = "ok"
=============================================================================
