---------------------------- MODULE WriterProofs ----------------------------
(***************************************************************************)
(* For every number of nodes, every set of keys, values and kinds: the     *)
(* writer's tree is the document its calls built, its keys follow the      *)
(* scopes, and every call is a step of the abstract document.              *)
(*                                                                         *)
(* Then the JSON conversion, which drives this writer, for every JSON text *)
(* and every use the caller makes of its writer before and after: a        *)
(* conversion that succeeds has added exactly the text, one that fails     *)
(* leaves a writer it has not touched or one that has failed for good, and *)
(* nothing of json-c is held after the call.                               *)
(***************************************************************************)
EXTENDS WriterDocument, TreesProofs, FiniteSetTheorems, ConvertJson

\* Memory the arena has not handed out yet is zeroed.
UnusedIsZeroed ==
    ~error_flag =>
        /\ \A n \in NodeId : n > used => next_sibling[n] = None
        /\ \A s \in ScopeId :
              s > used => first_child[s] = None /\ last_child[s] = None /\ child_count[s] = 0

(* The inductive strengthening of TreeIsDocument. *)
TreeInv == TypeOK /\ TreeIsDocument /\ UnusedIsZeroed

USE DEF None, Root

-----------------------------------------------------------------------------
(* The initial state has the types of the C fields. *)
LEMMA InitTypeOK == Init => TypeOK
<1> SUFFICES ASSUME Init PROVE TypeOK
  OBVIOUS
<1>1. 0 \in ScopeId /\ MaxNodes \in Nat
  BY MaxNodesAssumption DEF ScopeId
<1>2. /\ kind \in [NodeId -> Kinds]
      /\ key \in [NodeId -> StoredKeys]
      /\ value \in [NodeId -> StoredValues]
  BY DEF Init, Kinds, StoredKeys, StoredValues
<1>3. /\ parent \in [NodeId -> ScopeId]
      /\ first_child \in [ScopeId -> ScopeId]
      /\ last_child \in [ScopeId -> ScopeId]
      /\ next_sibling \in [NodeId -> ScopeId]
      /\ child_count \in [ScopeId -> Nat]
  BY <1>1 DEF Init
<1>4. used \in 0 .. MaxNodes /\ current_scope \in ScopeId
  BY <1>1 DEF Init
<1>5. phase \in {"absent", "live", "gone"} /\ error_flag \in BOOLEAN
        /\ last_error \in ErrorCodes /\ delivered \in {"nothing", "document", "refusal"}
  BY DEF Init, ErrorCodes
<1> QED BY <1>2, <1>3, <1>4, <1>5 DEF TypeOK

(* Linking a fresh node into the current scope keeps the link fields typed. *)
LEMMA AppendTypeOK ==
  ASSUME TypeOK, NEW n \in NodeId, AppendToScope(n)
  PROVE  /\ parent' \in [NodeId -> ScopeId]
         /\ first_child' \in [ScopeId -> ScopeId]
         /\ last_child' \in [ScopeId -> ScopeId]
         /\ next_sibling' \in [NodeId -> ScopeId]
         /\ child_count' \in [ScopeId -> Nat]
         /\ last_child'[current_scope] = n
<1>1. MaxNodes \in Nat /\ n \in ScopeId /\ current_scope \in ScopeId /\ n # None
  BY MaxNodesAssumption DEF TypeOK, NodeId, ScopeId
<1>2. parent' \in [NodeId -> ScopeId]
  BY <1>1 DEF TypeOK, AppendToScope
<1>3. first_child' \in [ScopeId -> ScopeId]
  BY <1>1 DEF TypeOK, AppendToScope
<1>4. last_child' \in [ScopeId -> ScopeId] /\ last_child'[current_scope] = n
  BY <1>1 DEF TypeOK, AppendToScope
<1>5. next_sibling' \in [NodeId -> ScopeId]
  BY <1>1 DEF TypeOK, AppendToScope
<1>6. child_count' \in [ScopeId -> Nat]
  BY <1>1 DEF TypeOK, AppendToScope
<1> QED BY <1>2, <1>3, <1>4, <1>5, <1>6

-----------------------------------------------------------------------------
(* Appending a fresh node to the current scope, and possibly opening it,   *)
(* preserves the tree invariant: the core of add_leaf and begin_container. *)
LEMMA AppendKeepsTree ==
  ASSUME TypeOK, TreeIsDocument, UnusedIsZeroed, ~error_flag,
         NEW n \in NodeId, AllocNode(n),
         NEW kd, kind' = [kind EXCEPT ![n] = kd],
         AppendToScope(n),
         \/ current_scope' = current_scope
         \/ current_scope' = n /\ kd \in ContainerKinds
  PROVE  TreeIsDocument' /\ UnusedIsZeroed'
<1>s. PICK s : s = current_scope
  OBVIOUS
<1> DEFINE KidsP(t) == {m \in Built' : parent'[m] = t}
<1>0. MaxNodes \in Nat /\ used \in Nat /\ n \in Nat /\ used' = n /\ n = used + 1 /\ n <= MaxNodes
  BY MaxNodesAssumption DEF TypeOK, AllocNode, NodeId
<1>00. s <= used /\ s \in Nat
  <2>1. s \in 0 .. MaxNodes
    BY <1>s DEF TypeOK, ScopeId
  <2>2. s <= used
    BY <1>s DEF TreeIsDocument, ScopeIsOpen
  <2> QED BY <2>1, <2>2, <1>0
<1>t. /\ used \in Nat /\ MaxNodes \in Nat /\ n \in Nat /\ n = used + 1 /\ n <= MaxNodes
      /\ used' = n /\ s \in Nat /\ s <= used
      /\ \A t : t \in ScopeId <=> t \in Nat /\ t <= MaxNodes
      /\ \A m : m \in NodeId <=> m \in Nat /\ 0 < m /\ m <= MaxNodes
  BY <1>0, <1>00 DEF NodeId, ScopeId
<1>b. \A m : m \in Built <=> m \in Nat /\ 0 < m /\ m <= used
  BY <1>t DEF Built
<1>b2. \A m : m \in Built' <=> m \in Nat /\ 0 < m /\ m <= n
  BY <1>t DEF Built
<1>p. /\ \A m \in Built : m \in NodeId /\ parent'[m] = parent[m] /\ parent[m] \in Nat /\ parent[m] < m
      /\ parent'[n] = s
      /\ n \notin Built /\ n \in Built'
      /\ \A m \in Built' : m = n \/ m \in Built
  <2>1. parent \in [NodeId -> ScopeId]
    BY DEF TypeOK
  <2>2. parent' = [parent EXCEPT ![n] = s]
    BY <1>s DEF AppendToScope
  <2>3. \A m \in Built : parent[m] < m
    BY DEF TreeIsDocument, ParentsPrecede
  <2> QED BY <1>t, <1>b, <1>b2, <2>1, <2>2, <2>3
<1>k. \A m \in Built : kind'[m] = kind[m]
  BY <1>t, <1>b, <1>p DEF TypeOK
<1>k2. kind'[n] = kd
  BY DEF TypeOK
<1>c. /\ \A t : t # s => KidsP(t) = Children(t)
      /\ KidsP(s) = Children(s) \cup {n}
      /\ \A m \in Children(s) : m \in Nat /\ m < n
      /\ Children(n) = {}
  <2>2. \A t : t # s => KidsP(t) = Children(t)
    BY <1>p, <1>b, <1>b2, <1>t DEF Children
  <2>3. KidsP(s) = Children(s) \cup {n}
    BY <1>p, <1>b, <1>b2, <1>t DEF Children
  <2>4. \A m \in Children(s) : m \in Nat /\ m < n
    BY <1>b, <1>t DEF Children
  <2>5. Children(n) = {}
    BY <1>b, <1>p, <1>t DEF Children
  <2> QED BY <2>2, <2>3, <2>4, <2>5
<1> HIDE DEF KidsP
<1>1. ParentsPrecede'
  BY <1>p, <1>t DEF ParentsPrecede
<1>2. ParentsAreContainers'
  <2>1. \A m \in Built : parent[m] = Root \/ (parent[m] \in Built /\ kind[parent[m]] \in ContainerKinds)
    BY <1>b, <1>p, <1>t DEF TreeIsDocument, ParentsAreContainers
  <2>2. s = Root \/ (s \in Built /\ kind[s] \in ContainerKinds)
    BY <1>b, <1>t, <1>s DEF TreeIsDocument, ScopeIsOpen
  <2> QED BY <1>p, <1>k, <2>1, <2>2 DEF ParentsAreContainers
<1>3. Preorder'
  <2>1. \A m, x \in Built : parent[m] < x /\ x < m => parent[x] >= parent[m]
    BY DEF TreeIsDocument, Preorder
  <2>2. \A x \in Built : x > s => parent[x] >= s
    BY <1>s DEF TreeIsDocument, ScopeIsOpen
  <2>3. SUFFICES ASSUME NEW m \in Built', NEW x \in Built', parent'[m] < x, x < m
                 PROVE  parent'[x] >= parent'[m]
    BY DEF Preorder
  <2>4. x \in Built
    BY <2>3, <1>b, <1>b2, <1>t
  <2>5. CASE m = n
    BY <2>2, <2>3, <2>4, <2>5, <1>p, <1>b, <1>t
  <2>6. CASE m \in Built
    BY <2>1, <2>3, <2>4, <2>6, <1>p
  <2> QED BY <2>5, <2>6, <1>p
<1>4. ScopeIsOpen'
  <2>1. \A x \in Built : x > s => parent[x] >= s
    BY <1>s DEF TreeIsDocument, ScopeIsOpen
  <2>2. s = Root \/ (s \in Built /\ kind[s] \in ContainerKinds)
    BY <1>b, <1>t, <1>s DEF TreeIsDocument, ScopeIsOpen
  <2>3. CASE current_scope' = s
    BY <2>1, <2>2, <2>3, <1>p, <1>k, <1>t, <1>b, <1>b2 DEF ScopeIsOpen
  <2>4. CASE current_scope' = n /\ kd \in ContainerKinds
    BY <2>4, <1>p, <1>k2, <1>t, <1>b2 DEF ScopeIsOpen
  <2> QED BY <2>3, <2>4, <1>s
<1>f. /\ first_child' = IF first_child[s] = None THEN [first_child EXCEPT ![s] = n] ELSE first_child
      /\ last_child' = [last_child EXCEPT ![s] = n]
      /\ next_sibling' = IF first_child[s] = None THEN next_sibling
                         ELSE [next_sibling EXCEPT ![last_child[s]] = n]
      /\ child_count' = [child_count EXCEPT ![s] = @ + 1]
      /\ first_child \in [ScopeId -> ScopeId] /\ last_child \in [ScopeId -> ScopeId]
      /\ next_sibling \in [NodeId -> ScopeId] /\ child_count \in [ScopeId -> Nat]
  BY <1>s DEF AppendToScope, TypeOK
<1>h. \A t \in 0 .. used :
        \/ Children(t) = {} /\ first_child[t] = None /\ last_child[t] = None
        \/ /\ first_child[t] \in Children(t)
           /\ last_child[t] \in Children(t)
           /\ \A m \in Children(t) : first_child[t] <= m /\ m <= last_child[t]
  BY DEF TreeIsDocument, ListHeads
<1>z. /\ first_child[n] = None /\ last_child[n] = None /\ next_sibling[n] = None /\ child_count[n] = 0
      /\ n \in ScopeId /\ s \in ScopeId
  BY <1>t DEF UnusedIsZeroed
<1>5. ListHeads'
  <2> SUFFICES ASSUME NEW t \in 0 .. n
               PROVE  \/ KidsP(t) = {} /\ first_child'[t] = None /\ last_child'[t] = None
                      \/ /\ first_child'[t] \in KidsP(t)
                         /\ last_child'[t] \in KidsP(t)
                         /\ \A m \in KidsP(t) : first_child'[t] <= m /\ m <= last_child'[t]
    BY <1>t DEF ListHeads, Children, KidsP
  <2>1. CASE t = n
    <3>1. n # s /\ KidsP(n) = {}
      BY <1>t, <1>c
    <3>2. first_child'[n] = None /\ last_child'[n] = None
      BY <3>1, <1>f, <1>z
    <3> QED BY <2>1, <3>1, <3>2
  <2>2. CASE t # n /\ t # s
    <3>1. t \in ScopeId /\ t \in 0 .. used /\ KidsP(t) = Children(t)
      BY <2>2, <1>t, <1>c
    <3>2. first_child'[t] = first_child[t] /\ last_child'[t] = last_child[t]
      BY <2>2, <3>1, <1>f, <1>z
    <3> QED BY <3>1, <3>2, <1>h
  <2>3. CASE t = s
    <3>1. CASE Children(s) = {} /\ first_child[s] = None
      BY <3>1, <2>3, <1>t, <1>c, <1>f, <1>z
    <3>2. CASE first_child[s] \in Children(s) /\ \A m \in Children(s) : first_child[s] <= m
      BY <3>2, <2>3, <1>t, <1>c, <1>f, <1>z, <1>b DEF Children
    <3> QED BY <3>1, <3>2, <1>h, <1>t
  <2> QED BY <2>1, <2>2, <2>3
<1>6. ListSteps'
  <2>1. \A m \in Built :
        \/ m = last_child[parent[m]] /\ next_sibling[m] = None
        \/ /\ next_sibling[m] \in Children(parent[m])
           /\ m < next_sibling[m]
           /\ \A q \in Children(parent[m]) : m < q => next_sibling[m] <= q
    BY DEF TreeIsDocument, ListSteps
  <2> SUFFICES ASSUME NEW m \in Built'
               PROVE  \/ m = last_child'[parent'[m]] /\ next_sibling'[m] = None
                      \/ /\ next_sibling'[m] \in KidsP(parent'[m])
                         /\ m < next_sibling'[m]
                         /\ \A q \in KidsP(parent'[m]) : m < q => next_sibling'[m] <= q
    BY DEF ListSteps, Children, KidsP
  <2>l. \/ Children(s) = {} /\ first_child[s] = None
        \/ /\ first_child[s] # None /\ last_child[s] \in Children(s) /\ last_child[s] \in Built
           /\ parent[last_child[s]] = s /\ \A q \in Children(s) : q <= last_child[s]
    BY <1>h, <1>t, <1>b DEF Children
  <2>2. CASE m = n
    BY <2>2, <2>l, <1>p, <1>f, <1>z, <1>t
  <2>3. CASE m \in Built /\ parent[m] # s
    <3>1. next_sibling'[m] = next_sibling[m]
      BY <2>3, <2>l, <1>f, <1>p
    <3>2. parent'[m] = parent[m] /\ parent[m] \in ScopeId
      BY <2>3, <1>p, <1>t
    <3>3. last_child'[parent[m]] = last_child[parent[m]]
      BY <2>3, <3>2, <1>f
    <3>4. KidsP(parent'[m]) = Children(parent[m])
      BY <2>3, <3>2, <1>c
    <3> QED BY <3>1, <3>2, <3>3, <3>4, <2>1, <2>3
  <2>4. CASE m \in Built /\ parent[m] = s
    <3>0. m \in Children(s) /\ parent'[m] = s
      BY <2>4, <1>p DEF Children
    <3>00. KidsP(parent'[m]) = Children(s) \cup {n}
      BY <3>0, <1>c
    <3>1. CASE m = last_child[s]
      <4>1. next_sibling'[m] = n
        BY <3>0, <3>1, <2>l, <1>f, <1>p, <2>4
      <4>2. \A q \in Children(s) : ~(m < q)
        BY <3>1, <2>l, <3>0, <1>b, <2>4, <1>c
      <4>3. m < n
        BY <3>0, <1>c
      <4> QED BY <4>1, <4>2, <4>3, <3>00, <1>t
    <3>2. CASE m # last_child[s]
      <4>1. next_sibling'[m] = next_sibling[m]
        BY <3>2, <2>l, <1>f, <1>p, <2>4
      <4>2. /\ next_sibling[m] \in Children(s)
            /\ m < next_sibling[m]
            /\ \A q \in Children(s) : m < q => next_sibling[m] <= q
        BY <2>1, <2>4, <3>2
      <4>3. next_sibling[m] <= n
        BY <4>2, <1>c, <1>t
      <4> QED BY <4>1, <4>2, <4>3, <3>00
    <3> QED BY <3>1, <3>2
  <2> QED BY <2>2, <2>3, <2>4, <1>p
<1>7. ListCounts'
  <2>1. \A t \in 0 .. used : child_count[t] = Cardinality(Children(t))
    BY DEF TreeIsDocument, ListCounts
  <2>2. IsFiniteSet(Children(s))
    <3>1. IsFiniteSet(1 .. used)
      BY <1>t, FS_Interval
    <3> QED BY <3>1, FS_Subset DEF Children, Built
  <2>3. Cardinality(Children(s) \cup {n}) = Cardinality(Children(s)) + 1
    <3>1. n \notin Children(s)
      BY <1>c, <1>t
    <3> QED BY <2>2, <3>1, FS_AddElement
  <2>4. Cardinality(Children(n)) = 0
    BY <1>c, FS_EmptySet
  <2> SUFFICES ASSUME NEW t \in 0 .. n PROVE child_count'[t] = Cardinality(KidsP(t))
    BY <1>t DEF ListCounts, Children, KidsP
  <2>5. CASE t = s
    <3>1. child_count'[s] = child_count[s] + 1
      BY <1>f, <1>z
    <3>2. child_count[s] = Cardinality(Children(s))
      BY <2>1, <1>t
    <3>3. KidsP(s) = Children(s) \cup {n}
      BY <1>c
    <3> QED BY <2>3, <2>5, <3>1, <3>2, <3>3
  <2>6. CASE t # s /\ t # n
    <3>1. t \in ScopeId /\ t \in 0 .. used /\ KidsP(t) = Children(t)
      BY <2>6, <1>t, <1>c
    <3>2. child_count'[t] = child_count[t]
      BY <2>6, <3>1, <1>f, <1>z
    <3> QED BY <3>1, <3>2, <2>1
  <2>7. CASE t = n
    <3>1. child_count'[n] = child_count[n]
      BY <1>t, <1>f, <1>z
    <3>2. KidsP(n) = Children(n)
      BY <1>t, <1>c
    <3> QED BY <2>7, <3>1, <3>2, <2>4, <1>z
  <2> QED BY <2>5, <2>6, <2>7
<1>8. /\ \A m \in NodeId : m > used' => next_sibling'[m] = None
      /\ \A t \in ScopeId : t > used' =>
            first_child'[t] = None /\ last_child'[t] = None /\ child_count'[t] = 0
  <2>1. /\ \A m \in NodeId : m > used => next_sibling[m] = None
        /\ \A t \in ScopeId : t > used =>
              first_child[t] = None /\ last_child[t] = None /\ child_count[t] = 0
    BY DEF UnusedIsZeroed
  <2>2. first_child[s] # None => last_child[s] \in Built
    BY <1>h, <1>t DEF Children
  <2> QED BY <2>1, <2>2, <1>t, <1>f, <1>b
<1> QED BY <1>1, <1>2, <1>3, <1>4, <1>5, <1>6, <1>7, <1>8 DEF TreeIsDocument, UnusedIsZeroed

-----------------------------------------------------------------------------
(* The key a set_* or begin_* call stores is a stored key. *)
LEMMA StoredKeyType == \A k : StoredKey(k) \in StoredKeys
  BY DEF StoredKey, StoredKeys

(* add_leaf that succeeds keeps every field typed and leaves its node last. *)
LEMMA AddLeafTypeOK ==
  ASSUME TypeOK, NEW n \in NodeId, NEW k, NEW kd \in Kinds, NEW rk, AddLeaf(n, k, kd, rk)
  PROVE  /\ used' \in 0 .. MaxNodes
         /\ kind' \in [NodeId -> Kinds]
         /\ key' \in [NodeId -> StoredKeys]
         /\ parent' \in [NodeId -> ScopeId]
         /\ first_child' \in [ScopeId -> ScopeId]
         /\ last_child' \in [ScopeId -> ScopeId]
         /\ next_sibling' \in [NodeId -> ScopeId]
         /\ child_count' \in [ScopeId -> Nat]
         /\ UNCHANGED <<phase, current_scope, last_error, delivered>>
         /\ last_child'[current_scope] = n
<1>1. AppendToScope(n)
  BY DEF AddLeaf
<1>2. used' \in 0 .. MaxNodes
  BY MaxNodesAssumption DEF AddLeaf, AllocNode, NodeId
<1>3. kind' \in [NodeId -> Kinds]
  BY DEF AddLeaf, TypeOK
<1>4. key' \in [NodeId -> StoredKeys]
  BY StoredKeyType DEF AddLeaf, TypeOK
<1>5. UNCHANGED <<phase, current_scope, last_error, delivered>>
  BY DEF AddLeaf, status
<1> QED BY <1>1, <1>2, <1>3, <1>4, <1>5, AppendTypeOK

(* A failing set_key leaves a typed, unlinked node. *)
LEMMA SetKeyFailsTypeOK ==
  ASSUME TypeOK, NEW n \in NodeId, NEW k, NEW kd \in Kinds, SetKeyFails(k, n, kd),
         Fail, UNCHANGED <<current_scope, status>>
  PROVE  TypeOK'
<1>1. used' \in 0 .. MaxNodes
  BY MaxNodesAssumption DEF SetKeyFails, AllocNode, NodeId
<1>2. kind' \in [NodeId -> Kinds]
  BY DEF SetKeyFails, TypeOK
<1>3. UNCHANGED <<key, value, parent, first_child, last_child, next_sibling, child_count>>
  BY DEF SetKeyFails, links
<1>4. UNCHANGED <<current_scope, phase, last_error, delivered>> /\ error_flag' = TRUE
  BY DEF status, Fail
<1> QED BY <1>1, <1>2, <1>3, <1>4 DEF TypeOK

(* A call that only raises error_flag keeps every field typed. *)
LEMMA FailTypeOK ==
  ASSUME TypeOK, Fail, UNCHANGED <<used, payload, links, current_scope, status>>
  PROVE  TypeOK'
<1>1. UNCHANGED <<used, kind, key, value, parent, first_child, last_child, next_sibling,
                  child_count, current_scope, phase, last_error, delivered>>
  BY DEF payload, links, status
<1>2. error_flag' = TRUE
  BY DEF Fail
<1> QED BY <1>1, <1>2 DEF TypeOK

(* A step that changes nothing keeps the type and the tree invariant. *)
LEMMA StutterKeeps ==
  ASSUME UNCHANGED vars
  PROVE  (TypeOK => TypeOK') /\ (TreeIsDocument => TreeIsDocument')
         /\ (UnusedIsZeroed => UnusedIsZeroed')
<1>1. UNCHANGED <<used, kind, key, value, parent, first_child, last_child, next_sibling,
                  child_count, current_scope, error_flag, phase, last_error, delivered>>
  BY DEF vars, payload, links, status
<1>2. TypeOK => TypeOK'
  BY <1>1 DEF TypeOK
<1>3. TreeIsDocument => TreeIsDocument'
  BY <1>1 DEF TreeIsDocument, ParentsPrecede, ParentsAreContainers, Preorder, ScopeIsOpen,
              ListHeads, ListSteps, ListCounts, Children, Built
<1>4. UnusedIsZeroed => UnusedIsZeroed'
  BY <1>1 DEF UnusedIsZeroed
<1> QED BY <1>2, <1>3, <1>4

(* add_leaf that fails keeps every field typed. *)
LEMMA AddLeafFailsTypeOK ==
  ASSUME TypeOK, NEW k, NEW kd \in Kinds, NEW rk, AddLeafFails(k, kd, rk)
  PROVE  TypeOK'
<1>1. Fail /\ UNCHANGED <<current_scope, status>>
  BY DEF AddLeafFails
<1>2. CASE UNCHANGED <<used, payload, links>>
  BY <1>1, <1>2, FailTypeOK
<1>3. CASE \E n \in NodeId : SetKeyFails(k, n, kd)
  BY <1>1, <1>3, SetKeyFailsTypeOK
<1> QED BY <1>2, <1>3 DEF AddLeafFails

(* Once error_flag is up the tree promises nothing. *)
LEMMA FailedTree == error_flag' = TRUE => TreeIsDocument' /\ UnusedIsZeroed'
  BY DEF TreeIsDocument, UnusedIsZeroed

(* The kinds of the calls are kinds of nodes. *)
LEMMA CallKinds ==
  /\ \A kd \in PlainKinds \cup NumberKinds \cup ContainerKinds : kd \in Kinds
  /\ "string" \in Kinds
  BY DEF Kinds

(* Every leaf that add_leaf links keeps the tree invariant. *)
LEMMA AddLeafKeepsTree ==
  ASSUME TreeInv, NEW n \in NodeId, NEW k, NEW kd, NEW rk, AddLeaf(n, k, kd, rk)
  PROVE  TreeIsDocument' /\ UnusedIsZeroed'
<1>1. /\ TypeOK /\ TreeIsDocument /\ UnusedIsZeroed /\ ~error_flag
      /\ AllocNode(n) /\ kind' = [kind EXCEPT ![n] = kd] /\ AppendToScope(n)
      /\ current_scope' = current_scope
  BY DEF TreeInv, AddLeaf
<1> QED BY <1>1, AppendKeepsTree

(* set_null, set_bool, append_null and append_bool. *)
LEMMA AddPlainKeeps ==
  ASSUME TreeInv, NEW k, NEW kd \in PlainKinds, NEW rk, AddPlain(k, kd, rk)
  PROVE  TreeInv'
<1>0. TypeOK /\ kd \in Kinds
  BY CallKinds DEF TreeInv
<1>1. CASE Refused
  BY <1>1, StutterKeeps DEF Refused, TreeInv
<1>2. CASE AddLeafFails(k, kd, rk)
  BY <1>0, <1>2, AddLeafFailsTypeOK, FailedTree DEF TreeInv, AddLeafFails, Fail
<1>3. CASE (\E n \in NodeId : AddLeaf(n, k, kd, rk)) /\ UNCHANGED <<value, error_flag>>
  <2>1. PICK n \in NodeId : AddLeaf(n, k, kd, rk)
    BY <1>3
  <2>2. TreeIsDocument' /\ UnusedIsZeroed'
    BY <2>1, AddLeafKeepsTree
  <2>3. value' = value /\ error_flag' = error_flag
    BY <1>3
  <2>4. TypeOK'
    BY <1>0, <2>1, <2>3, AddLeafTypeOK DEF TypeOK
  <2> QED BY <2>2, <2>4 DEF TreeInv
<1> QED BY <1>1, <1>2, <1>3 DEF AddPlain

(* set_int64 and its siblings: the payload goes to the node just linked. *)
LEMMA AddNumberKeeps ==
  ASSUME TreeInv, NEW k, NEW kd \in NumberKinds, NEW v \in Values, NEW rk, AddNumber(k, kd, v, rk)
  PROVE  TreeInv'
<1>0. TypeOK /\ kd \in Kinds /\ v \in StoredValues
  BY CallKinds DEF TreeInv, StoredValues
<1>1. CASE Refused
  BY <1>1, StutterKeeps DEF Refused, TreeInv
<1>2. CASE AddLeafFails(k, kd, rk)
  BY <1>0, <1>2, AddLeafFailsTypeOK, FailedTree DEF TreeInv, AddLeafFails, Fail
<1>3. CASE /\ \E n \in NodeId : AddLeaf(n, k, kd, rk)
           /\ value' = [value EXCEPT ![last_child'[current_scope]] = v]
           /\ UNCHANGED error_flag
  <2>1. PICK n \in NodeId : AddLeaf(n, k, kd, rk)
    BY <1>3
  <2>2. TreeIsDocument' /\ UnusedIsZeroed'
    BY <2>1, AddLeafKeepsTree
  <2>3. value' \in [NodeId -> StoredValues] /\ error_flag' = error_flag
    BY <1>0, <1>3 DEF TypeOK
  <2>4. TypeOK'
    BY <1>0, <2>1, <2>3, AddLeafTypeOK DEF TypeOK
  <2> QED BY <2>2, <2>4 DEF TreeInv
<1> QED BY <1>1, <1>2, <1>3 DEF AddNumber

(* set_string and append_string, with the copy that can run out of memory. *)
LEMMA AddStringKeeps ==
  ASSUME TreeInv, NEW k, NEW v \in StringArgs, NEW rk, AddString(k, v, rk)
  PROVE  TreeInv'
<1>0. TypeOK /\ "string" \in Kinds
  BY CallKinds DEF TreeInv
<1>1. CASE v = "huge" /\ Fail /\ UNCHANGED <<used, payload, links, current_scope, status>>
  BY <1>0, <1>1, FailTypeOK, FailedTree DEF TreeInv, Fail
<1>2. CASE Refused
  BY <1>2, StutterKeeps DEF Refused, TreeInv
<1>3. CASE AddLeafFails(k, "string", rk)
  BY <1>0, <1>3, AddLeafFailsTypeOK, FailedTree DEF TreeInv, AddLeafFails, Fail
<1>4. CASE /\ v # "huge"
           /\ \E n \in NodeId : AddLeaf(n, k, "string", rk)
           /\ \/ /\ value' = [value EXCEPT ![last_child'[current_scope]] = v]
                 /\ UNCHANGED error_flag
              \/ v # "empty" /\ Fail /\ UNCHANGED value
  <2>1. PICK n \in NodeId : AddLeaf(n, k, "string", rk)
    BY <1>4
  <2>2. TreeIsDocument' /\ UnusedIsZeroed'
    BY <2>1, AddLeafKeepsTree
  <2>3. v \in StoredValues
    BY <1>4 DEF StringArgs, StoredValues
  <2>4. value' \in [NodeId -> StoredValues]
    BY <1>0, <1>4, <2>3 DEF TypeOK
  <2>5. error_flag' \in BOOLEAN
    BY <1>0, <1>4 DEF TypeOK, Fail
  <2>6. TypeOK'
    BY <1>0, <2>1, <2>4, <2>5, AddLeafTypeOK DEF TypeOK
  <2> QED BY <2>2, <2>6 DEF TreeInv
<1> QED BY <1>1, <1>2, <1>3, <1>4 DEF AddString

(* begin_block and begin_array. *)
LEMMA BeginContainerKeeps ==
  ASSUME TreeInv, NEW k, NEW kd \in ContainerKinds, BeginContainer(k, kd)
  PROVE  TreeInv'
<1> DEFINE copies_key == ~ExpectIndexedScope /\ k # "null"
<1>0. TypeOK /\ TreeIsDocument /\ UnusedIsZeroed /\ kd \in Kinds
  BY CallKinds DEF TreeInv
<1>1. CASE Refused
  BY <1>1, StutterKeeps DEF Refused, TreeInv
<1>2. CASE /\ \/ UNCHANGED <<used, payload, links>>
              \/ \E n \in NodeId : SetKeyFails(k, n, kd)
           /\ Fail
           /\ UNCHANGED <<current_scope, status>>
  BY <1>0, <1>2, FailTypeOK, SetKeyFailsTypeOK, FailedTree DEF TreeInv, Fail
<1>3. ASSUME ~error_flag,
             NEW n \in NodeId,
             AllocNode(n),
             kind' = [kind EXCEPT ![n] = kd],
             key' = IF copies_key THEN [key EXCEPT ![n] = StoredKey(k)] ELSE key,
             AppendToScope(n),
             current_scope' = n,
             UNCHANGED <<value, error_flag, status>>
      PROVE  TreeInv'
  <2>1. TreeIsDocument' /\ UnusedIsZeroed'
    BY <1>0, <1>3, AppendKeepsTree
  <2>2. used' \in 0 .. MaxNodes /\ current_scope' \in ScopeId
    BY <1>3, MaxNodesAssumption DEF AllocNode, NodeId, ScopeId
  <2>3. kind' \in [NodeId -> Kinds]
    BY <1>0, <1>3 DEF TypeOK
  <2>4. key' \in [NodeId -> StoredKeys]
    BY <1>0, <1>3, StoredKeyType DEF TypeOK
  <2>5. UNCHANGED <<value, error_flag, phase, last_error, delivered>>
    BY <1>3 DEF status
  <2>6. TypeOK'
    BY <1>0, <1>3, <2>2, <2>3, <2>4, <2>5, AppendTypeOK DEF TypeOK
  <2> QED BY <2>1, <2>6 DEF TreeInv
<1> QED BY <1>1, <1>2, <1>3 DEF BeginContainer

(* end_block and end_array: the parent of an open scope is open. *)
LEMMA EndContainerKeeps ==
  ASSUME TreeInv, NEW kd \in ContainerKinds, EndContainer(kd)
  PROVE  TreeInv'
<1>0. TypeOK /\ TreeIsDocument /\ UnusedIsZeroed
  BY DEF TreeInv
<1>1. CASE Refused
  BY <1>1, StutterKeeps DEF Refused, TreeInv
<1>2. CASE Fail /\ UNCHANGED <<used, payload, links, current_scope, status>>
  BY <1>0, <1>2, FailTypeOK, FailedTree DEF TreeInv, Fail
<1>3. CASE /\ ~error_flag
           /\ KindOf(current_scope) = kd
           /\ current_scope' = parent[current_scope]
           /\ UNCHANGED <<used, payload, links, error_flag, status>>
  <2>1. UNCHANGED <<used, kind, key, value, parent, first_child, last_child, next_sibling,
                    child_count, error_flag, phase, last_error, delivered>>
    BY <1>3 DEF payload, links, status
  <2>2. PICK s : s = current_scope
    OBVIOUS
  <2>3. MaxNodes \in Nat /\ used \in Nat /\ used <= MaxNodes /\ s \in Nat /\ s # 0 /\ s <= used
    <3>1. s # 0
      BY <1>3, <2>2 DEF KindOf, ContainerKinds
    <3>2. s \in 0 .. MaxNodes /\ used \in 0 .. MaxNodes
      BY <1>0, <2>2 DEF TypeOK, ScopeId
    <3>3. s <= used
      BY <1>0, <1>3, <2>2 DEF TreeIsDocument, ScopeIsOpen
    <3> QED BY <3>1, <3>2, <3>3, MaxNodesAssumption
  <2>4. s \in Built /\ s \in NodeId
    BY <2>3 DEF Built, NodeId
  <2>5. parent[s] \in ScopeId /\ parent[s] \in Nat
    BY <1>0, <2>3, <2>4 DEF TypeOK, ScopeId
  <2>6. TypeOK'
    BY <1>0, <1>3, <2>1, <2>2, <2>5 DEF TypeOK
  <2>7. parent[s] < s /\ (parent[s] = Root \/ kind[parent[s]] \in ContainerKinds)
    BY <1>0, <1>3, <2>4 DEF TreeIsDocument, ParentsPrecede, ParentsAreContainers
  <2>8. \A x \in Built : x > parent[s] => parent[x] >= parent[s]
    <3> SUFFICES ASSUME NEW x \in Built, x > parent[s] PROVE parent[x] >= parent[s]
      OBVIOUS
    <3>1. x \in Nat /\ x \in NodeId /\ parent[x] \in Nat
      <4>1. x \in Nat /\ x \in NodeId
        BY <2>3 DEF Built, NodeId
      <4>2. parent[x] \in ScopeId
        BY <1>0, <4>1 DEF TypeOK
      <4> QED BY <4>1, <4>2, <2>3 DEF ScopeId
    <3>2. CASE x < s
      BY <1>0, <1>3, <2>4, <3>2 DEF TreeIsDocument, Preorder
    <3>3. CASE x = s
      BY <3>3, <2>5
    <3>4. CASE x > s
      <4>1. parent[x] >= s
        BY <1>0, <1>3, <2>2, <3>4 DEF TreeIsDocument, ScopeIsOpen
      <4> QED BY <4>1, <3>1, <2>3, <2>5, <2>7
    <3> QED BY <3>1, <3>2, <3>3, <3>4, <2>3
  <2>9. ScopeIsOpen'
    BY <1>3, <2>1, <2>2, <2>3, <2>5, <2>7, <2>8 DEF ScopeIsOpen, Built
  <2>10. TreeIsDocument'
    BY <1>0, <1>3, <2>1, <2>9 DEF TreeIsDocument, ParentsPrecede, ParentsAreContainers, Preorder,
              ListHeads, ListSteps, ListCounts, Children, Built
  <2>11. UnusedIsZeroed'
    BY <1>0, <2>1 DEF UnusedIsZeroed
  <2> QED BY <2>6, <2>10, <2>11 DEF TreeInv
<1> QED BY <1>1, <1>2, <1>3 DEF EndContainer

(* A step that touches neither the tree nor error_flag keeps the tree. *)
LEMMA TreeUntouched ==
  ASSUME TreeInv, UNCHANGED <<used, payload, links, current_scope, error_flag>>
  PROVE  TreeIsDocument' /\ UnusedIsZeroed'
<1>1. UNCHANGED <<used, kind, parent, first_child, last_child, next_sibling, child_count,
                  current_scope, error_flag>>
  BY DEF payload, links
<1> QED
  BY <1>1 DEF TreeInv, TreeIsDocument, ParentsPrecede, ParentsAreContainers, Preorder, ScopeIsOpen,
              ListHeads, ListSteps, ListCounts, Children, Built, UnusedIsZeroed

(* finalize_to_buffer reads the tree and records an outcome. *)
LEMMA FinalizeKeeps ==
  ASSUME TreeInv, FinalizeToBuffer
  PROVE  TreeInv'
<1>1. UNCHANGED <<phase, used, payload, links, current_scope, error_flag>>
  BY DEF FinalizeToBuffer
<1>2. delivered' \in {"nothing", "document", "refusal"}
  BY DEF FinalizeToBuffer
<1>3. last_error' \in ErrorCodes
  BY DEF FinalizeToBuffer, ErrorCodes, TreeInv, TypeOK
<1>4. UNCHANGED <<phase, used, kind, key, value, parent, first_child, last_child, next_sibling,
                  child_count, current_scope, error_flag>>
  BY <1>1 DEF payload, links
<1>5. TypeOK'
  BY <1>2, <1>3, <1>4 DEF TreeInv, TypeOK
<1> QED BY <1>1, <1>5, TreeUntouched DEF TreeInv

(* A tree with no node satisfies the invariant: after create and destroy. *)
LEMMA EmptyTree ==
  ASSUME used = 0, current_scope = Root,
         first_child = [s \in ScopeId |-> None],
         last_child = [s \in ScopeId |-> None],
         next_sibling = [n \in NodeId |-> None],
         child_count = [s \in ScopeId |-> 0]
  PROVE  TreeIsDocument /\ UnusedIsZeroed
<1>1. Built = {} /\ \A t : Children(t) = {}
  BY DEF Built, Children
<1>2. ParentsPrecede /\ ParentsAreContainers /\ Preorder /\ ListSteps
  BY <1>1 DEF ParentsPrecede, ParentsAreContainers, Preorder, ListSteps
<1>3. ScopeIsOpen
  BY <1>1 DEF ScopeIsOpen
<1>4. \A s \in 0 .. used : s = 0 /\ s \in ScopeId
  BY MaxNodesAssumption DEF ScopeId
<1>5. ListHeads
  BY <1>1, <1>4 DEF ListHeads
<1>6. ListCounts
  BY <1>1, <1>4, FS_EmptySet DEF ListCounts
<1>7. UnusedIsZeroed
  BY DEF UnusedIsZeroed
<1> QED BY <1>2, <1>3, <1>5, <1>6, <1>7 DEF TreeIsDocument

(* destroy returns every node to the arena. *)
LEMMA DestroyKeeps ==
  ASSUME Destroy
  PROVE  TreeInv'
<1>1. TreeIsDocument' /\ UnusedIsZeroed'
  <2>1. Built' = {} /\ \A t : {n \in Built' : parent'[n] = t} = {}
    BY DEF Destroy, Built
  <2>2. ParentsPrecede' /\ ParentsAreContainers' /\ Preorder' /\ ListSteps'
    BY <2>1 DEF ParentsPrecede, ParentsAreContainers, Preorder, ListSteps
  <2>3. ScopeIsOpen'
    BY <2>1 DEF ScopeIsOpen, Destroy
  <2>4. used' = 0 /\ \A s \in 0 .. used' : s = 0 /\ s \in ScopeId
    BY MaxNodesAssumption DEF ScopeId, Destroy
  <2>5. ListHeads'
    BY <2>1, <2>4 DEF ListHeads, Children, Destroy
  <2>6. ListCounts'
    BY <2>1, <2>4, FS_EmptySet DEF ListCounts, Children, Destroy
  <2>7. UnusedIsZeroed'
    BY DEF UnusedIsZeroed, Destroy
  <2> QED BY <2>2, <2>3, <2>5, <2>6, <2>7 DEF TreeIsDocument
<1>2. 0 \in ScopeId /\ 0 \in 0 .. MaxNodes
  BY MaxNodesAssumption DEF ScopeId
<1>3. /\ kind' \in [NodeId -> Kinds]
      /\ key' \in [NodeId -> StoredKeys]
      /\ value' \in [NodeId -> StoredValues]
  BY DEF Destroy, Kinds, StoredKeys, StoredValues
<1>4. /\ parent' \in [NodeId -> ScopeId]
      /\ first_child' \in [ScopeId -> ScopeId]
      /\ last_child' \in [ScopeId -> ScopeId]
      /\ next_sibling' \in [NodeId -> ScopeId]
      /\ child_count' \in [ScopeId -> Nat]
  BY <1>2 DEF Destroy
<1>5. /\ phase' \in {"absent", "live", "gone"} /\ used' \in 0 .. MaxNodes
      /\ current_scope' \in ScopeId /\ error_flag' \in BOOLEAN
      /\ last_error' \in ErrorCodes /\ delivered' \in {"nothing", "document", "refusal"}
  BY <1>2 DEF Destroy, ErrorCodes
<1>6. TypeOK'
  BY <1>3, <1>4, <1>5 DEF TypeOK
<1> QED BY <1>1, <1>6 DEF TreeInv

(* The invariant holds initially: the inductive base. *)
LEMMA InitTreeInv == Init => TreeInv
  BY InitTypeOK, EmptyTree DEF TreeInv, Init

(* Every call of the API preserves the invariant: the inductive step. *)
LEMMA NextTreeInv == TreeInv /\ [Next]_vars => TreeInv'
<1> SUFFICES ASSUME TreeInv, [Next]_vars PROVE TreeInv'
  OBVIOUS
<1>1. CASE Create
  <2>1. UNCHANGED <<used, payload, links, current_scope, error_flag>> /\ phase' = "live"
        /\ UNCHANGED <<last_error, delivered>>
    BY <1>1 DEF Create
  <2>2. TypeOK'
    BY <2>1 DEF TreeInv, TypeOK, payload, links
  <2> QED BY <2>1, <2>2, TreeUntouched DEF TreeInv
<1>2. CASE Destroy
  BY <1>2, DestroyKeeps
<1>3. ASSUME NEW rk \in BOOLEAN, NEW k \in LeafKeyArgs(rk), NEW kd \in PlainKinds, AddPlain(k, kd, rk)
      PROVE  TreeInv'
  BY <1>3, AddPlainKeeps
<1>4. ASSUME NEW rk \in BOOLEAN, NEW k \in LeafKeyArgs(rk), NEW kd \in NumberKinds,
             NEW v \in Values, AddNumber(k, kd, v, rk)
      PROVE  TreeInv'
  BY <1>4, AddNumberKeeps
<1>5. ASSUME NEW rk \in BOOLEAN, NEW k \in LeafKeyArgs(rk), NEW v \in StringArgs, AddString(k, v, rk)
      PROVE  TreeInv'
  BY <1>5, AddStringKeeps
<1>6. ASSUME NEW k \in KeyArgs, NEW kd \in ContainerKinds, BeginContainer(k, kd)
      PROVE  TreeInv'
  BY <1>6, BeginContainerKeeps
<1>7. ASSUME NEW kd \in ContainerKinds, EndContainer(kd)
      PROVE  TreeInv'
  BY <1>7, EndContainerKeeps
<1>8. CASE FinalizeToBuffer
  BY <1>8, FinalizeKeeps
<1>9. CASE UNCHANGED vars
  BY <1>9, StutterKeeps DEF TreeInv
<1> QED BY <1>1, <1>2, <1>3, <1>4, <1>5, <1>6, <1>7, <1>8, <1>9 DEF Next

(* The fields of the writer keep their C types in every behaviour. *)
THEOREM TypeCorrect == Spec => []TypeOK
<1>1. TreeInv => TypeOK
  BY DEF TreeInv
<1> QED BY <1>1, InitTreeInv, NextTreeInv, PTL DEF Spec

(* In every behaviour the linked tree is the document the calls built.     *)
THEOREM TreeCorrect == Spec => []TreeIsDocument
<1>1. TreeInv => TreeIsDocument
  BY DEF TreeInv
<1> QED BY <1>1, InitTreeInv, NextTreeInv, PTL DEF Spec

(* No call after the first failed one changes the tree or revives the writer. *)
THEOREM FailureFinal == Spec => FailureIsFinal
<1> DEFINE Final == error_flag /\ phase' = "live" =>
                      /\ error_flag'
                      /\ UNCHANGED <<used, payload, links, current_scope>>
                      /\ (delivered' = "document" => delivered = "document")
<1>1. [Next]_vars => [Final]_vars
  <2> SUFFICES ASSUME [Next]_vars, error_flag, phase' = "live"
               PROVE  /\ error_flag'
                      /\ UNCHANGED <<used, payload, links, current_scope>>
                      /\ (delivered' = "document" => delivered = "document")
    OBVIOUS
  <2>0. ASSUME UNCHANGED vars
        PROVE  /\ error_flag'
               /\ UNCHANGED <<used, payload, links, current_scope>>
               /\ (delivered' = "document" => delivered = "document")
    BY <2>0 DEF vars, status
  <2>1. CASE Create
    BY <2>1 DEF Create
  <2>2. CASE Destroy
    BY <2>2 DEF Destroy
  <2>3. ASSUME NEW rk \in BOOLEAN, NEW k, NEW kd, AddPlain(k, kd, rk)
        PROVE  UNCHANGED vars
    BY <2>3 DEF AddPlain, Refused, AddLeafFails, AddLeaf
  <2>4. ASSUME NEW rk \in BOOLEAN, NEW k, NEW kd, NEW v, AddNumber(k, kd, v, rk)
        PROVE  UNCHANGED vars
    BY <2>4 DEF AddNumber, Refused, AddLeafFails, AddLeaf
  <2>5. ASSUME NEW rk \in BOOLEAN, NEW k, NEW v, AddString(k, v, rk)
        PROVE  /\ error_flag'
               /\ UNCHANGED <<used, payload, links, current_scope, delivered>>
    BY <2>5 DEF AddString, Refused, AddLeafFails, AddLeaf, Fail, vars, status
  <2>6. ASSUME NEW k, NEW kd, BeginContainer(k, kd)
        PROVE  UNCHANGED vars
    BY <2>6 DEF BeginContainer, Refused
  <2>7. ASSUME NEW kd, EndContainer(kd)
        PROVE  UNCHANGED vars
    BY <2>7 DEF EndContainer, Refused
  <2>8. CASE FinalizeToBuffer
    BY <2>8 DEF FinalizeToBuffer
  <2> QED BY <2>0, <2>1, <2>2, <2>3, <2>4, <2>5, <2>6, <2>7, <2>8 DEF Next
<1> QED BY <1>1, PTL DEF Spec, FailureIsFinal

-----------------------------------------------------------------------------
(* What a call does to the document *)

\* A call that succeeds links one node behind the last child of the scope.
Appended(n, kd) ==
    /\ ~error_flag
    /\ UNCHANGED <<error_flag, delivered>>
    /\ AllocNode(n)
    /\ kind' = [kind EXCEPT ![n] = kd]
    /\ AppendToScope(n)
    /\ current_scope' = IF kd \in ContainerKinds THEN n ELSE current_scope
    /\ \A m \in NodeId : m # n => key'[m] = key[m] /\ value'[m] = value[m]
    /\ KindOf(current_scope) = "array" => key'[n] = key[n]
    /\ KindOf(current_scope) # "array" /\ kd \notin ContainerKinds => key'[n] # "unset"

Voided == error_flag' = TRUE /\ UNCHANGED delivered

Closed ==
    /\ ~error_flag
    /\ current_scope # Root
    /\ current_scope' = parent[current_scope]
    /\ UNCHANGED <<used, payload, links, error_flag, delivered>>

Answered ==
    /\ delivered' \in {"document", "refusal"}
    /\ delivered' = "document" => ~error_flag /\ current_scope = Root
    /\ UNCHANGED <<used, payload, links, current_scope, error_flag>>

Idle == UNCHANGED <<used, payload, links, current_scope, error_flag, delivered>>

LEMMA AddLeafAppends ==
  ASSUME TreeInv, NEW n \in NodeId, NEW k, NEW kd, kd \notin ContainerKinds, NEW rk \in BOOLEAN,
         AddLeaf(n, k, kd, rk), UNCHANGED error_flag,
         \A m \in NodeId : m # n => value'[m] = value[m]
  PROVE  Appended(n, kd)
<1>1. /\ ~error_flag /\ AllocNode(n) /\ kind' = [kind EXCEPT ![n] = kd] /\ AppendToScope(n)
      /\ UNCHANGED <<current_scope, delivered>>
      /\ key' = IF rk THEN [key EXCEPT ![n] = StoredKey(k)] ELSE key
      /\ ScopeAdmits(rk)
  BY DEF AddLeaf, status
<1>2. key \in [NodeId -> StoredKeys]
  BY DEF TreeInv, TypeOK
<1>3. StoredKey(k) # "unset"
  BY NamesAssumption DEF StoredKey
<1>4. CASE rk = TRUE
  <2>1. KindOf(current_scope) \in {"root", "block"} /\ key' = [key EXCEPT ![n] = StoredKey(k)]
    BY <1>1, <1>4 DEF ScopeAdmits, ExpectKeyedScope
  <2> QED BY <1>1, <1>2, <1>3, <2>1 DEF Appended
<1>5. CASE rk = FALSE
  <2>1. KindOf(current_scope) = "array" /\ key' = key
    BY <1>1, <1>5 DEF ScopeAdmits, ExpectIndexedScope
  <2> QED BY <1>1, <2>1 DEF Appended
<1> QED BY <1>4, <1>5

(* Every call of the API does one of five things to the document. *)
LEMMA StepKinds ==
  ASSUME TreeInv, Next
  PROVE  \/ \E n \in NodeId : \E kd : Appended(n, kd)
         \/ Voided \/ Closed \/ Answered \/ Idle \/ Destroy
<1>0. /\ TypeOK /\ value \in [NodeId -> StoredValues] /\ key \in [NodeId -> StoredKeys]
      /\ error_flag \in BOOLEAN
  BY DEF TreeInv, TypeOK
<1>r. ASSUME Refused PROVE Idle
  BY <1>r DEF Refused, vars, status, Idle
<1>f. ASSUME NEW k, NEW kd, NEW rk, AddLeafFails(k, kd, rk) PROVE Voided
  BY <1>f DEF AddLeafFails, Fail, status, Voided
<1>1. CASE Create
  BY <1>1 DEF Create, Idle
<1>3. ASSUME NEW rk \in BOOLEAN, NEW k \in LeafKeyArgs(rk), NEW kd \in PlainKinds, AddPlain(k, kd, rk)
      PROVE  (\E n \in NodeId : Appended(n, kd)) \/ Voided \/ Idle
  <2>1. kd \notin ContainerKinds
    BY KindsAssumption DEF ContainerKinds
  <2>2. ASSUME NEW n \in NodeId, AddLeaf(n, k, kd, rk), UNCHANGED <<value, error_flag>>
        PROVE  Appended(n, kd)
    BY <2>1, <2>2, AddLeafAppends
  <2> QED BY <1>3, <1>r, <1>f, <2>2 DEF AddPlain
<1>4. ASSUME NEW rk \in BOOLEAN, NEW k \in LeafKeyArgs(rk), NEW kd \in NumberKinds,
             NEW v \in Values, AddNumber(k, kd, v, rk)
      PROVE  (\E n \in NodeId : Appended(n, kd)) \/ Voided \/ Idle
  <2>1. kd \notin ContainerKinds
    BY KindsAssumption DEF ContainerKinds
  <2>2. ASSUME NEW n \in NodeId, AddLeaf(n, k, kd, rk), UNCHANGED error_flag,
               value' = [value EXCEPT ![last_child'[current_scope]] = v]
        PROVE  Appended(n, kd)
    <3>1. last_child'[current_scope] = n
      BY <1>0, <2>2, AppendTypeOK DEF AddLeaf
    <3>2. \A m \in NodeId : m # n => value'[m] = value[m]
      BY <1>0, <2>2, <3>1
    <3> QED BY <2>1, <2>2, <3>2, AddLeafAppends
  <2> QED BY <1>4, <1>r, <1>f, <2>2 DEF AddNumber
<1>5. ASSUME NEW rk \in BOOLEAN, NEW k \in LeafKeyArgs(rk), NEW v \in StringArgs, AddString(k, v, rk)
      PROVE  (\E n \in NodeId : Appended(n, "string")) \/ Voided \/ Idle
  <2>1. "string" \notin ContainerKinds
    BY DEF ContainerKinds
  <2>2. ASSUME NEW n \in NodeId, AddLeaf(n, k, "string", rk), UNCHANGED error_flag,
               value' = [value EXCEPT ![last_child'[current_scope]] = v]
        PROVE  Appended(n, "string")
    <3>1. last_child'[current_scope] = n
      BY <1>0, <2>2, AppendTypeOK DEF AddLeaf
    <3>2. \A m \in NodeId : m # n => value'[m] = value[m]
      BY <1>0, <2>2, <3>1
    <3> QED BY <2>1, <2>2, <3>2, AddLeafAppends
  <2>3. ASSUME NEW n \in NodeId, AddLeaf(n, k, "string", rk), Fail PROVE Voided
    BY <2>3 DEF AddLeaf, status, Fail, Voided
  <2>4. ASSUME Fail, UNCHANGED status PROVE Voided
    BY <2>4 DEF status, Fail, Voided
  <2> QED BY <1>5, <1>r, <1>f, <2>2, <2>3, <2>4 DEF AddString
<1>6. ASSUME NEW k \in KeyArgs, NEW kd \in ContainerKinds, BeginContainer(k, kd)
      PROVE  (\E n \in NodeId : Appended(n, kd)) \/ Voided \/ Idle
  <2> DEFINE copies_key == ~ExpectIndexedScope /\ k # "null"
  <2>1. ASSUME ~error_flag,
               NEW n \in NodeId,
               AllocNode(n),
               kind' = [kind EXCEPT ![n] = kd],
               key' = IF copies_key THEN [key EXCEPT ![n] = StoredKey(k)] ELSE key,
               AppendToScope(n),
               current_scope' = n,
               UNCHANGED <<value, error_flag, status>>
        PROVE  Appended(n, kd)
    <3>1. UNCHANGED <<value, error_flag, delivered>>
      BY <2>1 DEF status
    <3>2. \A m \in NodeId : m # n => key'[m] = key[m]
      BY <1>0, <2>1
    <3>3. KindOf(current_scope) = "array" => key' = key
      BY <2>1 DEF ExpectIndexedScope
    <3> QED BY <2>1, <3>1, <3>2, <3>3 DEF Appended
  <2>2. ASSUME Fail, UNCHANGED <<current_scope, status>> PROVE Voided
    BY <2>2 DEF status, Fail, Voided
  <2> QED BY <1>6, <1>r, <2>1, <2>2 DEF BeginContainer
<1>7. ASSUME NEW kd \in ContainerKinds, EndContainer(kd)
      PROVE  Closed \/ Voided \/ Idle
  <2>1. ASSUME Fail, UNCHANGED status PROVE Voided
    BY <2>1 DEF status, Fail, Voided
  <2>2. ASSUME ~error_flag, KindOf(current_scope) = kd, current_scope' = parent[current_scope],
               UNCHANGED <<used, payload, links, error_flag, status>>
        PROVE  Closed
    <3>1. current_scope # Root
      BY <2>2 DEF KindOf, ContainerKinds
    <3> QED BY <2>2, <3>1 DEF status, Closed
  <2> QED BY <1>7, <1>r, <2>1, <2>2 DEF EndContainer
<1>8. CASE FinalizeToBuffer
  BY <1>8 DEF FinalizeToBuffer, Answered
<1> QED BY <1>1, <1>3, <1>4, <1>5, <1>6, <1>7, <1>8 DEF Next

-----------------------------------------------------------------------------
(* Keys follow the scopes *)

\* A node that is not yet handed out has no key and no parent.
UnusedIsBare ==
    ~error_flag => \A n \in NodeId : n > used => key[n] = "unset" /\ parent[n] = None

KeysInv == TreeInv /\ KeysFollowScope /\ UnusedIsBare

\* The nodes and what they hold are as before, but for the new one.
LEMMA AppendedNode ==
  ASSUME TreeInv, NEW n \in NodeId, NEW kd, Appended(n, kd)
  PROVE  /\ used \in Nat /\ n = used + 1 /\ used' = n /\ n \notin Built
         /\ Built' = Built \cup {n}
         /\ current_scope \in Nat /\ current_scope <= used
         /\ parent'[n] = current_scope /\ kind'[n] = kd
         /\ \A m \in NodeId : m # n => parent'[m] = parent[m] /\ kind'[m] = kind[m]
         /\ \A m \in Built : m \in NodeId /\ m # n /\ parent[m] \in Nat /\ parent[m] < m
         /\ KindOf(current_scope) = (IF current_scope = Root THEN "root" ELSE kind'[current_scope])
<1>1. /\ TypeOK /\ ParentsPrecede /\ ScopeIsOpen
      /\ AllocNode(n) /\ kind' = [kind EXCEPT ![n] = kd]
      /\ parent' = [parent EXCEPT ![n] = current_scope]
  BY DEF TreeInv, TreeIsDocument, Appended, AppendToScope
<1>2. /\ MaxNodes \in Nat /\ used \in Nat /\ used < MaxNodes /\ n = used + 1 /\ used' = n
      /\ current_scope \in Nat /\ current_scope <= used
  BY <1>1, MaxNodesAssumption DEF TypeOK, AllocNode, ScopeId, ScopeIsOpen
<1>3. Built' = Built \cup {n} /\ n \notin Built
  BY <1>2 DEF Built
<1>4. kind \in [NodeId -> Kinds] /\ parent \in [NodeId -> ScopeId]
  BY <1>1 DEF TypeOK
<1>5. /\ parent'[n] = current_scope /\ kind'[n] = kd
      /\ \A m \in NodeId : m # n => parent'[m] = parent[m] /\ kind'[m] = kind[m]
  BY <1>1, <1>4
<1>6. \A m \in Built : m \in NodeId /\ m # n /\ parent[m] \in Nat /\ parent[m] < m
  BY <1>1, <1>2, <1>4 DEF Built, NodeId, ScopeId, ParentsPrecede
<1>7. current_scope # Root => current_scope \in NodeId /\ current_scope # n
  BY <1>2 DEF NodeId
<1> QED BY <1>2, <1>3, <1>5, <1>6, <1>7 DEF KindOf

LEMMA AppendedKeepsKeys ==
  ASSUME KeysInv, NEW n \in NodeId, NEW kd, Appended(n, kd)
  PROVE  KeysFollowScope' /\ UnusedIsBare'
<1>0. /\ TreeInv /\ ~error_flag /\ UNCHANGED error_flag
      /\ \A m \in NodeId : m # n => key'[m] = key[m]
      /\ KindOf(current_scope) = "array" => key'[n] = key[n]
      /\ KindOf(current_scope) # "array" /\ kd \notin ContainerKinds => key'[n] # "unset"
  BY DEF KeysInv, Appended
<1>1. \A m \in NodeId : m > used => key[m] = "unset" /\ parent[m] = None
  BY <1>0 DEF KeysInv, UnusedIsBare
<1>2. UnusedIsBare'
  BY <1>0, <1>1, AppendedNode DEF UnusedIsBare, NodeId
<1>3. key[n] = "unset"
  BY <1>0, <1>1, AppendedNode
<1> DEFINE K(x) == IF x = Root THEN "root" ELSE kind'[x]
<1>4. ASSUME NEW m \in Built'
      PROVE  /\ K(parent'[m]) = "array" => key'[m] = "unset"
             /\ K(parent'[m]) # "array" /\ kind'[m] \notin ContainerKinds => key'[m] # "unset"
  <2>1. CASE m = n
    <3>1. K(parent'[m]) = KindOf(current_scope) /\ kind'[m] = kd
      BY <1>0, <2>1, AppendedNode
    <3> QED BY <1>0, <1>3, <2>1, <3>1
  <2>2. CASE m \in Built
    <3>1. m \in NodeId /\ m # n /\ parent'[m] = parent[m] /\ kind'[m] = kind[m] /\ key'[m] = key[m]
      BY <1>0, <2>2, AppendedNode
    <3>2. parent[m] # Root => parent[m] \in NodeId /\ parent[m] # n
      BY <1>0, <2>2, <3>1, AppendedNode, MaxNodesAssumption DEF NodeId, Built
    <3>3. K(parent'[m]) = KindOf(parent[m])
      BY <1>0, <3>1, <3>2, AppendedNode DEF KindOf
    <3>4. /\ KindOf(parent[m]) = "array" => key[m] = "unset"
          /\ KindOf(parent[m]) # "array" /\ kind[m] \notin ContainerKinds => key[m] # "unset"
      BY <1>0, <2>2 DEF KeysInv, KeysFollowScope
    <3> QED BY <3>1, <3>3, <3>4
  <2> QED BY <1>0, <2>1, <2>2, AppendedNode
<1>5. KeysFollowScope'
  BY <1>4 DEF KeysFollowScope, KindOf
<1> QED BY <1>2, <1>5

LEMMA DestroyClears ==
  ASSUME Destroy
  PROVE  /\ Built' = {} /\ used' = 0 /\ error_flag' = FALSE
         /\ key' = [n \in NodeId |-> "unset"] /\ parent' = [n \in NodeId |-> None]
  BY DEF Destroy, Built

LEMMA NextKeysInv == KeysInv /\ [Next]_vars => KeysInv'
<1> SUFFICES ASSUME KeysInv, [Next]_vars PROVE KeysInv'
  OBVIOUS
<1>1. TreeInv /\ TreeInv'
  BY NextTreeInv DEF KeysInv
<1>2. ASSUME UNCHANGED <<used, payload, links, error_flag>> PROVE KeysFollowScope' /\ UnusedIsBare'
  BY <1>2 DEF KeysInv, payload, links, KeysFollowScope, UnusedIsBare, Built, KindOf
<1>3. ASSUME Voided PROVE KeysFollowScope' /\ UnusedIsBare'
  BY <1>3 DEF Voided, KeysFollowScope, UnusedIsBare
<1>4. ASSUME Destroy PROVE KeysFollowScope' /\ UnusedIsBare'
  BY <1>4, DestroyClears DEF KeysFollowScope, UnusedIsBare
<1>5. CASE UNCHANGED vars
  BY <1>1, <1>2, <1>5 DEF vars, KeysInv
<1> QED
  BY <1>1, <1>2, <1>3, <1>4, <1>5, StepKinds, AppendedKeepsKeys DEF KeysInv, Closed, Answered, Idle

LEMMA InitKeysInv == Init => KeysInv
  BY InitTreeInv DEF Init, KeysInv, KeysFollowScope, UnusedIsBare, Built

LEMMA KeysInvariant == Spec => []KeysInv
<1> QED
  BY InitKeysInv, NextKeysInv, PTL DEF Spec

(* In every behaviour an array element has no key, and a leaf of a block or *)
(* of the root has one.                                                     *)
THEOREM KeysCorrect == Spec => []KeysFollowScope
<1>1. KeysInv => KeysFollowScope
  BY DEF KeysInv
<1> QED BY <1>1, KeysInvariant, PTL

-----------------------------------------------------------------------------
(* The lists and the path that the refinement mapping follows *)

\* What ListFrom and PathTo are, as functions of the links they follow.
ListOf(next) ==
    CHOOSE f : f = [n \in ScopeId |-> IF n = None THEN <<>> ELSE <<n>> \o f[next[n]]]

PathOf(up) ==
    CHOOSE f : f = [s \in ScopeId |-> IF s = Root THEN <<>> ELSE Append(f[up[s]], s)]

Lists(f, next) ==
    /\ f \in [ScopeId -> Seq(NodeId)]
    /\ f[None] = <<>>
    /\ \A n \in NodeId : f[n] = <<n>> \o f[next[n]]

Paths(f, up) ==
    /\ f \in [ScopeId -> Seq(NodeId)]
    /\ f[Root] = <<>>
    /\ \A n \in NodeId : f[n] = Append(f[up[n]], n)

LEMMA MappingIs ==
    /\ ListFrom = ListOf(next_sibling) /\ ListFrom' = ListOf(next_sibling')
    /\ PathTo = PathOf(parent) /\ PathTo' = PathOf(parent')
  BY DEF ListFrom, ListOf, PathTo, PathOf

LEMMA Scopes ==
    /\ MaxNodes \in Nat
    /\ \A s : s \in ScopeId <=> s \in Nat /\ s <= MaxNodes
    /\ \A n : n \in NodeId <=> n \in Nat /\ n # 0 /\ n <= MaxNodes
  BY MaxNodesAssumption DEF ScopeId, NodeId

(* Links that only lead to later nodes define one function of lists. *)
LEMMA ListsUnique ==
  ASSUME NEW next \in [NodeId -> ScopeId],
         \A n \in NodeId : next[n] = None \/ next[n] > n,
         NEW g, Lists(g, next)
  PROVE  ListOf(next) = g
<1> DEFINE Eq(f) == f = [n \in ScopeId |-> IF n = None THEN <<>> ELSE <<n>> \o f[next[n]]]
<1>1. Eq(g)
  <2> DEFINE h == [n \in ScopeId |-> IF n = None THEN <<>> ELSE <<n>> \o g[next[n]]]
  <2>1. \A n \in ScopeId : h[n] = g[n]
    BY Scopes DEF Lists
  <2> QED BY <2>1 DEF Lists
<1>2. ASSUME NEW f, Eq(f) PROVE f = g
  <2>0. /\ f = [n \in ScopeId |-> f[n]] /\ f[None] = <<>>
        /\ \A n \in NodeId : f[n] = <<n>> \o f[next[n]]
    <3> HIDE DEF Eq
    <3>1. f = [n \in ScopeId |-> IF n = None THEN <<>> ELSE <<n>> \o f[next[n]]]
      BY <1>2 DEF Eq
    <3> DEFINE e(n) == IF n = None THEN <<>> ELSE <<n>> \o f[next[n]]
    <3>2. f = [n \in ScopeId |-> e(n)]
      BY <3>1
    <3> HIDE DEF e
    <3>3. DOMAIN f = ScopeId /\ \A n \in ScopeId : f[n] = e(n)
      BY <3>2
    <3>4. f = [n \in ScopeId |-> f[n]]
      BY <3>2, <3>3
    <3>5. None \in ScopeId /\ \A n \in NodeId : n \in ScopeId /\ n # None
      BY Scopes
    <3> QED BY <3>3, <3>4, <3>5, Zenon DEF e
  <2> DEFINE T == {k \in Nat : \E n \in ScopeId : k = MaxNodes - n /\ f[n] # g[n]}
  <2>1. ASSUME T # {} PROVE FALSE
    <3>1. PICK k \in T : \A j \in T : k <= j
      BY <2>1, LeastNat
    <3>2. PICK n \in ScopeId : k = MaxNodes - n /\ f[n] # g[n]
      BY <3>1
    <3>3. n \in NodeId
      BY <2>0, <3>2, Scopes DEF Lists
    <3>4. next[n] \in ScopeId /\ f[next[n]] # g[next[n]]
      BY <2>0, <3>2, <3>3 DEF Lists
    <3>5. next[n] \in Nat /\ next[n] <= MaxNodes /\ next[n] > n /\ n \in Nat
      BY <2>0, <3>3, <3>4, Scopes DEF Lists
    <3>6. MaxNodes - next[n] \in T
      BY <3>4, <3>5, Scopes
    <3>7. MaxNodes - n <= MaxNodes - next[n]
      BY <3>1, <3>2, <3>6
    <3> QED BY <3>5, <3>7, Scopes
  <2>2. \A n \in ScopeId : f[n] = g[n]
    <3> SUFFICES ASSUME NEW n \in ScopeId, f[n] # g[n] PROVE FALSE
      OBVIOUS
    <3>1. MaxNodes - n \in T
      BY Scopes
    <3> QED BY <2>1, <3>1
  <2> HIDE DEF Eq, T
  <2> QED BY <2>0, <2>2 DEF Lists
<1> HIDE DEF Eq
<1>3. ListOf(next) = CHOOSE f : Eq(f)
  BY DEF ListOf, Eq
<1> QED BY <1>1, <1>2, <1>3

(* Parents that precede their children define one function of paths. *)
LEMMA PathsUnique ==
  ASSUME NEW up \in [NodeId -> ScopeId],
         \A n \in NodeId : up[n] < n,
         NEW g, Paths(g, up)
  PROVE  PathOf(up) = g
<1> DEFINE Eq(f) == f = [s \in ScopeId |-> IF s = Root THEN <<>> ELSE Append(f[up[s]], s)]
<1>1. Eq(g)
  <2> DEFINE h == [s \in ScopeId |-> IF s = Root THEN <<>> ELSE Append(g[up[s]], s)]
  <2>1. \A n \in ScopeId : h[n] = g[n]
    BY Scopes DEF Paths
  <2> QED BY <2>1 DEF Paths
<1>2. ASSUME NEW f, Eq(f) PROVE f = g
  <2>0. /\ f = [n \in ScopeId |-> f[n]] /\ f[Root] = <<>>
        /\ \A n \in NodeId : f[n] = Append(f[up[n]], n)
    <3> HIDE DEF Eq
    <3>1. f = [s \in ScopeId |-> IF s = Root THEN <<>> ELSE Append(f[up[s]], s)]
      BY <1>2 DEF Eq
    <3> DEFINE e(s) == IF s = Root THEN <<>> ELSE Append(f[up[s]], s)
    <3>2. f = [s \in ScopeId |-> e(s)]
      BY <3>1
    <3> HIDE DEF e
    <3>3. DOMAIN f = ScopeId /\ \A n \in ScopeId : f[n] = e(n)
      BY <3>2
    <3>4. f = [n \in ScopeId |-> f[n]]
      BY <3>2, <3>3
    <3>5. None \in ScopeId /\ \A n \in NodeId : n \in ScopeId /\ n # None
      BY Scopes
    <3> QED BY <3>3, <3>4, <3>5, Zenon DEF e
  <2> DEFINE T == {n \in ScopeId : f[n] # g[n]}
  <2>1. ASSUME T # {} PROVE FALSE
    <3>1. PICK n \in T : \A j \in T : n <= j
      BY <2>1, LeastNat, Scopes
    <3>2. n \in NodeId
      BY <2>0, <3>1, Scopes DEF Paths
    <3>3. up[n] \in T /\ up[n] < n
      BY <2>0, <3>1, <3>2 DEF Paths
    <3> QED BY <3>1, <3>2, <3>3, Scopes
  <2>2. \A n \in ScopeId : f[n] = g[n]
    BY <2>1
  <2> HIDE DEF Eq, T
  <2> QED BY <2>0, <2>2 DEF Paths
<1> HIDE DEF Eq
<1>3. PathOf(up) = CHOOSE f : Eq(f)
  BY DEF PathOf, Eq
<1> QED BY <1>1, <1>2, <1>3

(* Siblings follow and parents precede a node, handed out or not. *)
LinksOrdered ==
    /\ next_sibling \in [NodeId -> ScopeId] /\ parent \in [NodeId -> ScopeId]
    /\ \A n \in NodeId : next_sibling[n] = None \/ next_sibling[n] > n
    /\ \A n \in NodeId : parent[n] < n

LEMMA LinkOrder == KeysInv /\ ~error_flag => LinksOrdered
<1> SUFFICES ASSUME KeysInv, ~error_flag PROVE LinksOrdered
  OBVIOUS
<1>1. /\ next_sibling \in [NodeId -> ScopeId] /\ parent \in [NodeId -> ScopeId]
      /\ used \in Nat /\ ParentsPrecede /\ ListSteps
      /\ \A n \in NodeId : n > used => next_sibling[n] = None /\ parent[n] = None
  BY MaxNodesAssumption DEF KeysInv, TreeInv, TypeOK, TreeIsDocument, UnusedIsZeroed, UnusedIsBare
<1>2. \A n \in NodeId : n \in Nat /\ n > 0 /\ (n \in Built \/ n > used)
  BY <1>1, Scopes DEF Built
<1>3. \A n \in NodeId : parent[n] < n
  BY <1>1, <1>2 DEF ParentsPrecede
<1>4. \A n \in NodeId : next_sibling[n] = None \/ next_sibling[n] > n
  <2> SUFFICES ASSUME NEW n \in NodeId, n \in Built, next_sibling[n] # None
               PROVE  next_sibling[n] > n
    BY <1>1, <1>2
  <2>1. n < next_sibling[n]
    BY <1>1 DEF ListSteps
  <2> QED BY <1>1, <1>2, <2>1, Scopes
<1> QED BY <1>1, <1>3, <1>4 DEF LinksOrdered

MappingInv ==
    ~error_flag => Lists(ListFrom, next_sibling) /\ Paths(PathTo, parent)

(* Linking a node behind the last child puts it at the end of the list of  *)
(* the open scope, and of no other.                                        *)
LEMMA AppendedLists ==
  ASSUME KeysInv, KeysInv', MappingInv, NEW n \in NodeId, NEW kd, Appended(n, kd)
  PROVE  /\ Lists(ListFrom', next_sibling')
         /\ \A t \in ScopeId : t # current_scope =>
               ListFrom'[first_child'[t]] = ListFrom[first_child[t]]
         /\ ListFrom'[first_child'[current_scope]]
               = Append(ListFrom[first_child[current_scope]], n)
<1>s. PICK s : s = current_scope
  OBVIOUS
<1>0. /\ TreeInv /\ ~error_flag /\ ~error_flag' /\ AppendToScope(n)
  BY DEF KeysInv, Appended
<1>1. /\ Lists(ListFrom, next_sibling)
      /\ ListFrom \in [ScopeId -> Seq(NodeId)] /\ ListFrom[None] = <<>>
      /\ \A m \in NodeId : ListFrom[m] = <<m>> \o ListFrom[next_sibling[m]]
  BY <1>0 DEF MappingInv, Lists
<1>2. /\ used \in Nat /\ n = used + 1 /\ s \in Nat /\ s <= used /\ s \in ScopeId
      /\ \A m \in Built : m \in NodeId /\ m # n /\ parent[m] \in Nat /\ parent[m] < m
      /\ \A m \in NodeId : m \in Built \/ m > used
      /\ \A m \in ScopeId : m \in 0 .. used \/ m > used
      /\ \A m \in Built : m <= used
  BY <1>s, <1>0, AppendedNode, Scopes DEF Built
<1>3. /\ next_sibling \in [NodeId -> ScopeId] /\ first_child \in [ScopeId -> ScopeId]
      /\ next_sibling' = IF first_child[s] = None
                           THEN next_sibling
                           ELSE [next_sibling EXCEPT ![last_child[s]] = n]
      /\ first_child' = IF first_child[s] = None
                          THEN [first_child EXCEPT ![s] = n]
                          ELSE first_child
  BY <1>s, <1>0 DEF AppendToScope, TreeInv, TypeOK
<1>4. /\ \A m \in NodeId : m > used => next_sibling[m] = None
      /\ \A t \in ScopeId : t > used => first_child[t] = None
      /\ next_sibling[n] = None
  BY <1>0, <1>2 DEF TreeInv, UnusedIsZeroed
<1>5. \A t \in 0 .. used :
        \/ Children(t) = {} /\ first_child[t] = None
        \/ /\ first_child[t] \in Children(t) /\ last_child[t] \in Children(t)
           /\ \A m \in Children(t) : m <= last_child[t]
  BY <1>0 DEF TreeInv, TreeIsDocument, ListHeads
<1>6. \A m \in Built : \/ m = last_child[parent[m]] /\ next_sibling[m] = None
                       \/ next_sibling[m] \in Children(parent[m])
  BY <1>0 DEF TreeInv, TreeIsDocument, ListSteps
<1>7. \A t, m : m \in Children(t) <=> m \in Built /\ parent[m] = t
  BY DEF Children
<1> DEFINE g == [m \in ScopeId |-> IF m \in Children(s) THEN Append(ListFrom[m], n) ELSE ListFrom[m]]
<1>8. g \in [ScopeId -> Seq(NodeId)]
  BY <1>1
<1>9. g[None] = <<>> /\ None \notin Children(s)
  <2>1. None \in ScopeId /\ None \notin NodeId
    BY Scopes
  <2>2. None \notin Children(s)
    BY <1>2, <1>7, <2>1
  <2> QED BY <1>1, <2>1, <2>2
<1>10. /\ n \notin Children(s) /\ g[n] = <<n>>
  <2>1. n \notin Children(s) /\ n \in ScopeId
    BY <1>2, <1>7, Scopes
  <2>2. ListFrom[n] = <<n>> \o <<>>
    BY <1>1, <1>4
  <2> QED BY <2>1, <2>2
<1>h. \A m \in ScopeId : g[m] = IF m \in Children(s) THEN Append(ListFrom[m], n) ELSE ListFrom[m]
  OBVIOUS
<1> HIDE DEF g
<1>11. ASSUME NEW m \in NodeId PROVE g[m] = <<m>> \o g[next_sibling'[m]]
  <2>0. m \in ScopeId /\ next_sibling[m] \in ScopeId /\ ListFrom[m] = <<m>> \o ListFrom[next_sibling[m]]
    BY <1>1, <1>3, Scopes
  <2>1. CASE m \in Children(s) /\ m = last_child[s]
    <3>1. next_sibling[m] = None
      <4>1. m \in Built /\ parent[m] = s /\ m \in Nat
        BY <1>2, <1>7, <2>1, Scopes
      <4>2. CASE next_sibling[m] \in Children(s)
        <5>1. m < next_sibling[m] /\ next_sibling[m] <= m
          <6>1. next_sibling[m] # None
            BY <1>9, <4>2
          <6>2. next_sibling[m] > m
            BY <1>0, <6>1, LinkOrder DEF LinksOrdered
          <6>3. next_sibling[m] <= last_child[s]
            BY <1>2, <1>5, <4>2
          <6> QED BY <2>0, <2>1, <4>1, <6>2, <6>3, Scopes
        <5> QED BY <2>0, <4>1, <5>1, Scopes
      <4> QED BY <1>6, <4>1, <4>2
    <3>2. first_child[s] # None
      <4>1. first_child[s] \in Children(s)
        BY <1>2, <1>5, <2>1
      <4> QED BY <1>9, <4>1
    <3>3. next_sibling'[m] = n
      BY <1>3, <2>1, <3>2
    <3>4. ListFrom[m] = <<m>>
      <4>1. <<m>> \o <<>> = <<m>>
        OBVIOUS
      <4> QED BY <1>1, <2>0, <3>1, <4>1
    <3>5. g[m] = Append(<<m>>, n)
      BY <1>h, <2>0, <2>1, <3>4
    <3>6. Append(<<m>>, n) = <<m>> \o <<n>>
      OBVIOUS
    <3> QED BY <1>10, <3>3, <3>5, <3>6
  <2>2. CASE m \in Children(s) /\ m # last_child[s]
    <3>1. next_sibling'[m] = next_sibling[m]
      BY <1>3, <2>2
    <3>2. next_sibling[m] \in Children(s)
      BY <1>6, <1>7, <2>2
    <3>3. g[next_sibling[m]] = Append(ListFrom[next_sibling[m]], n)
      BY <1>h, <2>0, <3>2
    <3>4. g[m] = Append(<<m>> \o ListFrom[next_sibling[m]], n)
      BY <1>h, <2>0, <2>2
    <3>5. ListFrom[next_sibling[m]] \in Seq(NodeId)
      BY <1>1, <2>0
    <3>6. \A q \in Seq(NodeId) : Append(<<m>> \o q, n) = <<m>> \o Append(q, n)
      OBVIOUS
    <3> QED BY <3>1, <3>3, <3>4, <3>5, <3>6
  <2>3. CASE m \notin Children(s)
    <3>1. next_sibling[m] \notin Children(s)
      BY <1>2, <1>4, <1>6, <1>7, <1>9, <2>3
    <3>2. next_sibling'[m] = next_sibling[m]
      BY <1>2, <1>3, <1>5, <1>9, <2>3
    <3> QED BY <1>h, <2>0, <2>3, <3>1, <3>2
  <2> QED BY <2>1, <2>2, <2>3
<1>12. Lists(g, next_sibling')
  BY <1>8, <1>9, <1>11 DEF Lists
<1>13. ListFrom' = g
  <2>1. /\ next_sibling' \in [NodeId -> ScopeId]
        /\ \A m \in NodeId : next_sibling'[m] = None \/ next_sibling'[m] > m
    <3>1. LinksOrdered'
      BY <1>0, LinkOrder, PTL
    <3> QED BY <3>1 DEF LinksOrdered
  <2> QED BY <1>12, <2>1, ListsUnique, MappingIs
<1>14. ASSUME NEW t \in ScopeId, t # s PROVE g[first_child'[t]] = ListFrom[first_child[t]]
  <2>1. first_child'[t] = first_child[t] /\ first_child[t] \in ScopeId
    BY <1>2, <1>3, <1>14
  <2>2. first_child[t] \notin Children(s)
    BY <1>2, <1>4, <1>5, <1>7, <1>9, <1>14
  <2> QED BY <1>h, <2>1, <2>2
<1>15. g[first_child'[s]] = Append(ListFrom[first_child[s]], n)
  <2>1. CASE first_child[s] = None
    <3>1. first_child'[s] = n
      BY <1>2, <1>3, <2>1
    <3>2. Append(<<>>, n) = <<n>>
      OBVIOUS
    <3> QED BY <1>1, <1>10, <2>1, <3>1, <3>2
  <2>2. CASE first_child[s] # None
    <3>1. first_child'[s] = first_child[s] /\ first_child[s] \in Children(s)
      BY <1>2, <1>3, <1>5, <2>2
    <3> QED BY <1>h, <1>2, <1>3, <3>1
  <2> QED BY <2>1, <2>2
<1> QED BY <1>s, <1>12, <1>13, <1>14, <1>15

(* The path to a new node is the path to the open scope and the node. *)
LEMMA AppendedPaths ==
  ASSUME KeysInv, KeysInv', MappingInv, NEW n \in NodeId, NEW kd, Appended(n, kd)
  PROVE  /\ Paths(PathTo', parent')
         /\ PathTo'[current_scope] = PathTo[current_scope]
         /\ PathTo'[n] = Append(PathTo[current_scope], n)
<1>s. PICK s : s = current_scope
  OBVIOUS
<1>0. /\ TreeInv /\ ~error_flag /\ ~error_flag'
  BY DEF KeysInv, Appended
<1>1. /\ PathTo \in [ScopeId -> Seq(NodeId)] /\ PathTo[Root] = <<>>
      /\ \A m \in NodeId : PathTo[m] = Append(PathTo[parent[m]], m)
  BY <1>0 DEF MappingInv, Paths
<1>2. /\ used \in Nat /\ n = used + 1 /\ s \in Nat /\ s <= used /\ s \in ScopeId /\ s # n
      /\ parent'[n] = s
      /\ \A m \in NodeId : m # n => parent'[m] = parent[m]
      /\ n \in ScopeId /\ n # Root
  BY <1>s, <1>0, AppendedNode, Scopes
<1>3. \A m \in NodeId : parent[m] \in ScopeId /\ (m # n => parent[m] # n)
  <2> SUFFICES ASSUME NEW m \in NodeId, m # n, parent[m] = n PROVE FALSE
    BY <1>0, LinkOrder DEF LinksOrdered
  <2>1. parent[m] < m
    BY <1>0, LinkOrder DEF LinksOrdered
  <2>2. m > used
    BY <1>2, <2>1, Scopes
  <2> QED BY <1>0, <1>2, <2>2 DEF KeysInv, UnusedIsBare
<1> DEFINE g == [PathTo EXCEPT ![n] = Append(PathTo[s], n)]
<1>4. g \in [ScopeId -> Seq(NodeId)]
  BY <1>1, <1>2
<1>5. g[n] = Append(PathTo[s], n) /\ \A m \in ScopeId : m # n => g[m] = PathTo[m]
  BY <1>1, <1>2
<1> HIDE DEF g
<1>6. g[Root] = <<>>
  <2>1. Root \in ScopeId /\ Root # n
    BY <1>2, Scopes
  <2> QED BY <1>1, <1>5, <2>1
<1>7. ASSUME NEW m \in NodeId PROVE g[m] = Append(g[parent'[m]], m)
  <2>1. CASE m = n
    BY <1>2, <1>5, <2>1
  <2>2. CASE m # n
    <3>1. parent'[m] = parent[m] /\ parent[m] # n /\ parent[m] \in ScopeId /\ m \in ScopeId
      BY <1>2, <1>3, <2>2, Scopes
    <3> QED BY <1>1, <1>5, <2>2, <3>1
  <2> QED BY <2>1, <2>2
<1>8. Paths(g, parent')
  BY <1>4, <1>6, <1>7 DEF Paths
<1>9. PathTo' = g
  <2>1. parent' \in [NodeId -> ScopeId] /\ \A m \in NodeId : parent'[m] < m
    <3>1. LinksOrdered'
      BY <1>0, LinkOrder, PTL
    <3> QED BY <3>1 DEF LinksOrdered
  <2> QED BY <1>8, <2>1, PathsUnique, MappingIs
<1> QED BY <1>s, <1>2, <1>5, <1>8, <1>9

(* In an empty tree every list and every path is that of the node alone. *)
LEMMA ZeroMapping ==
  ASSUME NEW zero, zero = [n \in NodeId |-> None]
  PROVE  /\ Lists(ListOf(zero), zero) /\ Paths(PathOf(zero), zero)
         /\ ListOf(zero)[None] = <<>> /\ PathOf(zero)[Root] = <<>>
<1> DEFINE z == [n \in ScopeId |-> IF n = None THEN <<>> ELSE <<n>>]
<1>1. /\ None \in ScopeId /\ zero \in [NodeId -> ScopeId]
      /\ \A n \in NodeId : n \in ScopeId /\ n # None /\ zero[n] = None /\ zero[n] < n
      /\ \A n \in ScopeId : n # None => n \in NodeId
  BY Scopes
<1>2. z \in [ScopeId -> Seq(NodeId)] /\ z[None] = <<>> /\ \A n \in NodeId : z[n] = <<n>>
  BY <1>1
<1> HIDE DEF z
<1>3. \A n : <<n>> \o <<>> = <<n>> /\ Append(<<>>, n) = <<n>>
  OBVIOUS
<1>4. Lists(z, zero) /\ Paths(z, zero)
  BY <1>1, <1>2, <1>3 DEF Lists, Paths
<1>5. ListOf(zero) = z /\ PathOf(zero) = z
  BY <1>1, <1>4, ListsUnique, PathsUnique
<1> QED BY <1>2, <1>4, <1>5

LEMMA DestroyMapping ==
  ASSUME Destroy
  PROVE  /\ Lists(ListFrom', next_sibling') /\ Paths(PathTo', parent')
         /\ ListFrom'[None] = <<>> /\ PathTo'[Root] = <<>>
<1>1. next_sibling' = [n \in NodeId |-> None] /\ parent' = [n \in NodeId |-> None]
  BY DEF Destroy
<1> QED BY <1>1, ZeroMapping, MappingIs

LEMMA InitMapping ==
  ASSUME Init
  PROVE  MappingInv /\ ListFrom[None] = <<>> /\ PathTo[Root] = <<>>
<1>1. next_sibling = [n \in NodeId |-> None] /\ parent = [n \in NodeId |-> None]
  BY DEF Init
<1> QED BY <1>1, ZeroMapping, MappingIs DEF MappingInv

DocumentInv == KeysInv /\ MappingInv

LEMMA NextDocumentInv == DocumentInv /\ [Next]_vars => DocumentInv'
<1> SUFFICES ASSUME DocumentInv, [Next]_vars PROVE MappingInv'
  BY NextKeysInv DEF DocumentInv
<1>1. KeysInv /\ KeysInv' /\ TreeInv /\ MappingInv
  BY NextKeysInv DEF DocumentInv, KeysInv
<1>2. ASSUME UNCHANGED <<links, error_flag>> PROVE MappingInv'
  <2>1. UNCHANGED <<next_sibling, parent, error_flag>>
    BY <1>2 DEF links
  <2>2. ListFrom' = ListFrom /\ PathTo' = PathTo
    BY <2>1, MappingIs
  <2> QED BY <1>1, <2>1, <2>2 DEF MappingInv, Lists, Paths
<1>3. ASSUME NEW n \in NodeId, NEW kd, Appended(n, kd) PROVE MappingInv'
  BY <1>1, <1>3, AppendedLists, AppendedPaths DEF MappingInv
<1>4. ASSUME Voided PROVE MappingInv'
  BY <1>4 DEF Voided, MappingInv
<1>5. ASSUME Destroy PROVE MappingInv'
  BY <1>5, DestroyMapping DEF MappingInv
<1>6. CASE UNCHANGED vars
  BY <1>2, <1>6 DEF vars
<1> QED
  BY <1>1, <1>2, <1>3, <1>4, <1>5, <1>6, StepKinds DEF Closed, Answered, Idle

-----------------------------------------------------------------------------
(* The writer implements the document, step by step *)

(* The innermost open container of the document is the writer's scope. *)
LEMMA TopIsScope ==
  ASSUME DocumentInv, ~error_flag
  PROVE  /\ Doc!Top = current_scope
         /\ DocStack \in Seq(NodeId)
         /\ DocStack = <<>> <=> current_scope = Root
         /\ current_scope # Root =>
               DocStack = Append(PathTo[parent[current_scope]], current_scope)
                 /\ PathTo[parent[current_scope]] \in Seq(NodeId)
<1>1. /\ PathTo \in [ScopeId -> Seq(NodeId)] /\ PathTo[Root] = <<>>
      /\ \A m \in NodeId : PathTo[m] = Append(PathTo[parent[m]], m)
  BY DEF DocumentInv, MappingInv, Paths
<1>2. /\ current_scope \in ScopeId /\ DocStack = PathTo[current_scope]
      /\ current_scope # Root => current_scope \in NodeId /\ parent[current_scope] \in ScopeId
  <2>1. current_scope \in ScopeId /\ parent \in [NodeId -> ScopeId]
    BY DEF DocumentInv, KeysInv, TreeInv, TypeOK
  <2> QED BY <2>1, Scopes DEF DocStack
<1>3. \A q \in Seq(NodeId), m \in NodeId : Append(q, m) # <<>> /\ Append(q, m)[Len(Append(q, m))] = m
  OBVIOUS
<1>4. CASE current_scope = Root
  BY <1>1, <1>2, <1>4 DEF Doc!Top
<1>5. CASE current_scope # Root
  <2>1. /\ DocStack = Append(PathTo[parent[current_scope]], current_scope)
        /\ PathTo[parent[current_scope]] \in Seq(NodeId)
    BY <1>1, <1>2, <1>5
  <2>2. DocStack # <<>> /\ DocStack[Len(DocStack)] = current_scope
    BY <1>2, <1>3, <1>5, <2>1
  <2> QED BY <1>1, <1>2, <1>5, <2>1, <2>2 DEF Doc!Top
<1> QED BY <1>4, <1>5

(* A call that succeeds places its item, and opens it if it is a container. *)
LEMMA AppendedPlaces ==
  ASSUME DocumentInv, DocumentInv', NEW n \in NodeId, NEW kd, Appended(n, kd)
  PROVE  Doc!Place(n)
<1>0. /\ KeysInv /\ KeysInv' /\ TreeInv /\ TypeOK' /\ MappingInv
      /\ ~error_flag /\ error_flag' = error_flag /\ ~error_flag' /\ UNCHANGED delivered
      /\ current_scope' = IF kd \in ContainerKinds THEN n ELSE current_scope
      /\ \A m \in NodeId : m # n => key'[m] = key[m] /\ value'[m] = value[m]
  BY DEF DocumentInv, KeysInv, TreeInv, Appended
<1>1. /\ n \notin Built /\ Built' = Built \cup {n} /\ kind'[n] = kd
      /\ \A m \in Built : m \in NodeId /\ m # n /\ kind'[m] = kind[m]
  BY <1>0, AppendedNode
<1>2. /\ DocContent = [m \in Built |-> [kind |-> kind[m], key |-> key[m], value |-> value[m]]]
      /\ DocContent' = [m \in Built' |-> [kind |-> kind'[m], key |-> key'[m], value |-> value'[m]]]
  BY <1>0 DEF DocContent
<1>3. /\ DOMAIN DocContent = Built /\ DOMAIN DocContent' = Built \cup {n}
      /\ \A m \in Built : DocContent'[m] = DocContent[m]
      /\ DocContent'[n] = [kind |-> kd, key |-> key'[n], value |-> value'[n]]
  BY <1>0, <1>1, <1>2
<1>4. DocContent'[n] \in Contents
  <2>1. kind'[n] \in Kinds /\ key'[n] \in StoredKeys /\ value'[n] \in StoredValues
    BY <1>0 DEF TypeOK
  <2> QED BY <1>1, <1>3, <2>1 DEF Contents
<1>5. DocChildren' = [DocChildren EXCEPT ![Doc!Top] = Append(@, n)]
  <2>1. Doc!Top = current_scope /\ current_scope \in ScopeId
    BY <1>0, TopIsScope DEF TreeInv, TypeOK
  <2>2. /\ DocChildren = [t \in ScopeId |-> ListFrom[first_child[t]]]
        /\ DocChildren' = [t \in ScopeId |-> ListFrom'[first_child'[t]]]
    BY <1>0 DEF DocChildren
  <2>3. \A t \in ScopeId :
           DocChildren'[t] = IF t = current_scope THEN Append(DocChildren[t], n) ELSE DocChildren[t]
    BY <1>0, <2>2, AppendedLists
  <2> QED BY <2>1, <2>2, <2>3
<1>6. DocStack' = IF kd \in ContainerKinds THEN Append(DocStack, n) ELSE DocStack
  BY <1>0, AppendedPaths DEF DocStack
<1>7. DocContent'[n].kind = kd
  BY <1>3
<1> QED
  BY <1>0, <1>1, <1>3, <1>4, <1>5, <1>6, <1>7 DEF Doc!Place, Doc!Placed, OpensScope

LEMMA UntouchedMapping ==
  ASSUME UNCHANGED <<used, payload, links, error_flag>>
  PROVE  DocContent' = DocContent /\ DocChildren' = DocChildren
<1>1. UNCHANGED <<used, kind, key, value, next_sibling, parent, first_child, error_flag>>
  BY DEF payload, links
<1>2. ListFrom' = ListFrom
  BY <1>1, MappingIs
<1> QED BY <1>1, <1>2 DEF DocContent, DocChildren, Built

LEMMA ClosedCloses ==
  ASSUME DocumentInv, Closed
  PROVE  Doc!Close
<1>1. /\ ~error_flag /\ error_flag' = error_flag /\ current_scope # Root
      /\ current_scope' = parent[current_scope] /\ UNCHANGED <<delivered, parent>>
  BY DEF Closed, links
<1>2. DocContent' = DocContent /\ DocChildren' = DocChildren
  BY UntouchedMapping DEF Closed
<1>3. DocStack' = PathTo[parent[current_scope]]
  <2>1. PathTo' = PathTo
    BY <1>1, MappingIs
  <2> QED BY <1>1, <2>1 DEF DocStack
<1>4. /\ DocStack = Append(PathTo[parent[current_scope]], current_scope)
      /\ PathTo[parent[current_scope]] \in Seq(NodeId) /\ DocStack # <<>>
  BY <1>1, TopIsScope
<1>5. current_scope \in NodeId
  BY <1>1, Scopes DEF DocumentInv, KeysInv, TreeInv, TypeOK
<1>6. \A q \in Seq(NodeId), m \in NodeId : SubSeq(Append(q, m), 1, Len(Append(q, m)) - 1) = q
  OBVIOUS
<1>7. DocStack' = SubSeq(DocStack, 1, Len(DocStack) - 1)
  BY <1>3, <1>4, <1>5, <1>6
<1> QED BY <1>1, <1>2, <1>4, <1>7 DEF Doc!Close

LEMMA DestroyDiscards == ASSUME Destroy PROVE Doc!Discard
<1>1. /\ error_flag' = FALSE /\ delivered' = "nothing" /\ current_scope' = Root /\ used' = 0
      /\ first_child' = [s \in ScopeId |-> None]
  BY DEF Destroy
<1>2. ListFrom'[None] = <<>> /\ PathTo'[Root] = <<>>
  BY DestroyMapping
<1>3. DocContent' = <<>>
  BY <1>1 DEF DocContent, Built
<1>4. DocChildren' = [s \in ScopeId |-> <<>>] /\ DocStack' = <<>>
  BY <1>1, <1>2 DEF DocChildren, DocStack
<1> QED BY <1>1, <1>3, <1>4 DEF Doc!Discard

LEMMA InitRefines == Init => Doc!Init
<1> SUFFICES ASSUME Init PROVE Doc!Init
  OBVIOUS
<1>1. /\ error_flag = FALSE /\ delivered = "nothing" /\ current_scope = Root /\ used = 0
      /\ first_child = [s \in ScopeId |-> None]
  BY DEF Init
<1>2. DocContent = <<>>
  BY <1>1 DEF DocContent, Built
<1>3. DocChildren = [s \in ScopeId |-> <<>>] /\ DocStack = <<>>
  BY <1>1, InitMapping DEF DocChildren, DocStack
<1> QED BY <1>1, <1>2, <1>3 DEF Doc!Init

LEMMA StepRefines == DocumentInv /\ DocumentInv' /\ [Next]_vars => [Doc!Next]_(Doc!dvars)
<1> SUFFICES ASSUME DocumentInv, DocumentInv', [Next]_vars
             PROVE  Doc!Next \/ UNCHANGED Doc!dvars
  OBVIOUS
<1>0. TreeInv /\ error_flag \in BOOLEAN
  BY DEF DocumentInv, KeysInv, TreeInv, TypeOK
<1>1. ASSUME NEW n \in NodeId, NEW kd, Appended(n, kd) PROVE Doc!Next
  BY <1>1, AppendedPlaces DEF Doc!Next
<1>2. ASSUME Voided PROVE Doc!Next
  <2>1. Doc!Reject
    BY <1>2 DEF Voided, Doc!Reject, DocContent, DocChildren, DocStack
  <2> QED BY <2>1 DEF Doc!Next
<1>3. ASSUME Closed PROVE Doc!Next
  BY <1>3, ClosedCloses DEF Doc!Next
<1>4. ASSUME UNCHANGED <<used, payload, links, current_scope, error_flag>>
      PROVE  DocContent' = DocContent /\ DocChildren' = DocChildren /\ DocStack' = DocStack
  <2>1. UNCHANGED <<parent, current_scope, error_flag>>
    BY <1>4 DEF links
  <2>2. PathTo' = PathTo
    BY <2>1, MappingIs
  <2> QED BY <1>4, <2>1, <2>2, UntouchedMapping DEF DocStack
<1>5. ASSUME Answered PROVE Doc!Next
  <2>1. PICK r \in {"document", "refusal"} : delivered' = r
    BY <1>5 DEF Answered
  <2>2. r = "document" => ~error_flag /\ DocStack = <<>>
    BY <1>5, <2>1, TopIsScope DEF Answered
  <2>3. Doc!Finalize(r)
    BY <1>4, <1>5, <2>1, <2>2 DEF Answered, Doc!Finalize
  <2> QED BY <2>3 DEF Doc!Next
<1>6. ASSUME Idle PROVE UNCHANGED Doc!dvars
  BY <1>4, <1>6 DEF Idle, Doc!dvars
<1>7. ASSUME Destroy PROVE Doc!Next
  BY <1>7, DestroyDiscards DEF Doc!Next
<1>8. CASE UNCHANGED vars
  BY <1>6, <1>8 DEF vars, status, Idle
<1> QED BY <1>0, <1>1, <1>2, <1>3, <1>5, <1>6, <1>7, <1>8, StepKinds

(* The writer implements the abstract document: whatever calls are made,   *)
(* with whatever failures, each of them places one item at the end of the  *)
(* innermost open container, closes it, voids the document, answers a      *)
(* finalize or changes nothing.                                            *)
THEOREM WriterRefinesDocument == Spec => ImplementsDocument
<1>1. Init => DocumentInv
  BY InitKeysInv, InitMapping DEF DocumentInv
<1>2. Spec => []DocumentInv
  BY <1>1, NextDocumentInv, PTL DEF Spec
<1> QED
  BY <1>2, InitRefines, StepRefines, PTL DEF Spec, ImplementsDocument, Doc!Spec


-----------------------------------------------------------------------------
(* Trees and the frames of the emitters                                    *)

\* The parts of a JSON text t and of a sequence of frames.
Size(t) == t.size
Up(t, i) == t.parent[i]
Kids(t, p) == t.children[p]
Count(t, p) == Len(t.children[p])
IsContainer(t, i) == t.kind[i] \in ContainerKinds
Depth(fs) == Len(fs)
Node(fs, k) == fs[k].node
Done(fs, k) == fs[k].done

\* What the proofs use of the shape of a JSON text.
Tree(t) ==
    /\ Size(t) \in Nat
    /\ \A i \in 1 .. Size(t) : Up(t, i) \in 0 .. Size(t) /\ Up(t, i) < i
    /\ \A i, x \in 1 .. Size(t) : Up(t, i) < x /\ x < i => Up(t, x) >= Up(t, i)
    /\ \A i \in 1 .. Size(t) : Up(t, i) # 0 => IsContainer(t, Up(t, i))
    /\ \A p \in 0 .. Size(t) : Count(t, p) \in Nat
    /\ \A p \in 0 .. Size(t) : \A j \in 1 .. Count(t, p) :
          Kids(t, p)[j] \in 1 .. Size(t) /\ Up(t, Kids(t, p)[j]) = p
    /\ \A p \in 0 .. Size(t) : \A j, k \in 1 .. Count(t, p) :
          j < k => Kids(t, p)[j] < Kids(t, p)[k]
    /\ \A i \in 1 .. Size(t) : \E j \in 1 .. Count(t, Up(t, i)) : Kids(t, Up(t, i))[j] = i

FrameSet == [node : Int, done : Nat]

\* The children of frame k that have been begun: all done, and the one whose
\* own frame is open.
Begun(fs, k) == Done(fs, k) + IF k < Depth(fs) THEN 1 ELSE 0

\* The first e values of t have been emitted, and fs are the containers that
\* are still open: every value to come hangs below one of them or below
\* another value to come.
OpenFrames(t, fs, e) ==
    /\ Depth(fs) \in Nat /\ Depth(fs) > 0 /\ Node(fs, 1) = 0
    /\ \A k \in 1 .. Depth(fs) : Node(fs, k) \in 0 .. e /\ Done(fs, k) \in Nat
    /\ \A k \in 1 .. Depth(fs) : Node(fs, k) # 0 => IsContainer(t, Node(fs, k))
    /\ \A j, k \in 1 .. Depth(fs) : j < k => Node(fs, j) < Node(fs, k)
    /\ \A k \in 2 .. Depth(fs) : Up(t, Node(fs, k)) = Node(fs, k - 1)
    /\ \A k \in 1 .. Depth(fs) : Begun(fs, k) <= Count(t, Node(fs, k))
    /\ \A k \in 1 .. Depth(fs) : \A j \in 1 .. Count(t, Node(fs, k)) :
          Kids(t, Node(fs, k))[j] <= e <=> j <= Begun(fs, k)
    /\ \A i \in 1 .. Size(t) :
          i > e /\ Up(t, i) <= e => \E k \in 1 .. Depth(fs) : Node(fs, k) = Up(t, i)

\* The innermost frame.
LEMMA Innermost ==
  ASSUME NEW t, NEW e \in Nat, NEW fs, OpenFrames(t, fs, e)
  PROVE  /\ Depth(fs) \in Nat /\ Depth(fs) \in 1 .. Depth(fs)
         /\ Node(fs, Depth(fs)) \in 0 .. e /\ Done(fs, Depth(fs)) \in Nat
         /\ \A k \in 1 .. Depth(fs) :
               Node(fs, k) \in 0 .. e /\ (Node(fs, k) >= Node(fs, Depth(fs)) => k = Depth(fs))
         /\ Begun(fs, Depth(fs)) = Done(fs, Depth(fs))
<1>1. Depth(fs) \in Nat /\ Depth(fs) > 0 /\ Depth(fs) \in 1 .. Depth(fs)
  BY DEF OpenFrames
<1>2. \A k \in 1 .. Depth(fs) : Node(fs, k) \in 0 .. e /\ Done(fs, k) \in Nat
  BY DEF OpenFrames
<1>3. \A k \in 1 .. Depth(fs) : k < Depth(fs) => Node(fs, k) < Node(fs, Depth(fs))
  BY <1>1 DEF OpenFrames
<1>4. \A k \in 1 .. Depth(fs) : Node(fs, k) >= Node(fs, Depth(fs)) => k = Depth(fs)
  BY <1>1, <1>2, <1>3
<1>5. Begun(fs, Depth(fs)) = Done(fs, Depth(fs))
  BY <1>1, <1>2 DEF Begun
<1> QED BY <1>1, <1>2, <1>4, <1>5

(* The next value to emit is the first one not emitted: the emitters go    *)
(* through the text in the order in which the writer numbers its nodes.    *)
LEMMA NextValue ==
  ASSUME NEW t, Tree(t), NEW e \in Nat, e <= Size(t), NEW fs, OpenFrames(t, fs, e),
         NEW p, Node(fs, Depth(fs)) = p, NEW d, Done(fs, Depth(fs)) = d,
         d # Count(t, p)
  PROVE  /\ d + 1 \in 1 .. Count(t, p) /\ d \in Nat /\ p \in 0 .. e
         /\ Kids(t, p)[d + 1] = e + 1 /\ e + 1 \in 1 .. Size(t) /\ Up(t, e + 1) = p
<1>0. Size(t) \in Nat
  BY DEF Tree
<1>1. /\ Depth(fs) \in 1 .. Depth(fs) /\ p \in 0 .. e /\ d \in Nat
      /\ \A k \in 1 .. Depth(fs) : Node(fs, k) >= p => k = Depth(fs)
      /\ Begun(fs, Depth(fs)) = d
  BY Innermost
<1>2. p \in 0 .. Size(t) /\ Count(t, p) \in Nat
  BY <1>0, <1>1 DEF Tree
<1>3. d <= Count(t, p) /\ \A j \in 1 .. Count(t, p) : Kids(t, p)[j] <= e <=> j <= d
  BY <1>1 DEF OpenFrames
<1>4. d + 1 \in 1 .. Count(t, p)
  BY <1>1, <1>2, <1>3
<1> DEFINE v == Kids(t, p)[d + 1]
<1>5. v \in 1 .. Size(t) /\ Up(t, v) = p
  BY <1>2, <1>4 DEF Tree
<1>6. v > e
  BY <1>0, <1>1, <1>3, <1>4, <1>5
<1>7. e + 1 \in 1 .. Size(t)
  BY <1>0, <1>5, <1>6
<1>8. Up(t, e + 1) \in 0 .. e
  BY <1>0, <1>7 DEF Tree
<1>9. PICK k \in 1 .. Depth(fs) : Node(fs, k) = Up(t, e + 1)
  BY <1>0, <1>7, <1>8 DEF OpenFrames
<1>10. Up(t, e + 1) = p
  <2>1. CASE v = e + 1
    BY <1>5, <2>1
  <2>2. CASE v # e + 1
    <3>1. p < e + 1 /\ e + 1 < v
      BY <1>0, <1>1, <1>5, <1>6, <2>2
    <3> HIDE DEF v
    <3>2. Up(t, e + 1) >= p
      BY <1>5, <1>7, <3>1 DEF Tree
    <3>3. k = Depth(fs)
      BY <1>1, <1>9, <3>2
    <3> QED BY <1>9, <3>3
  <2> QED BY <2>1, <2>2
<1>11. PICK j \in 1 .. Count(t, p) : Kids(t, p)[j] = e + 1
  BY <1>2, <1>7, <1>10 DEF Tree
<1>12. ~(j <= d)
  BY <1>0, <1>3, <1>11
<1>13. ~(d + 1 < j)
  <2> SUFFICES ASSUME d + 1 < j PROVE FALSE
    OBVIOUS
  <2>1. v < e + 1
    BY <1>2, <1>4, <1>11 DEF Tree
  <2> QED BY <1>0, <1>5, <1>6, <2>1
<1>14. j = d + 1
  BY <1>1, <1>2, <1>12, <1>13
<1> QED BY <1>1, <1>4, <1>7, <1>10, <1>11, <1>14

(* All is done: nothing is left of the text. *)
LEMMA AllDone ==
  ASSUME NEW t, Tree(t), NEW e \in Nat, e <= Size(t), NEW fs, OpenFrames(t, fs, e),
         Node(fs, Depth(fs)) = 0, Done(fs, Depth(fs)) = Count(t, 0)
  PROVE  e = Size(t)
<1>0. Size(t) \in Nat /\ 0 \in 0 .. Size(t)
  BY DEF Tree
<1>1. /\ Depth(fs) \in 1 .. Depth(fs) /\ Begun(fs, Depth(fs)) = Count(t, 0)
      /\ \A k \in 1 .. Depth(fs) : Node(fs, k) \in 0 .. e /\ (Node(fs, k) >= 0 => k = Depth(fs))
  BY Innermost
<1> SUFFICES ASSUME e # Size(t) PROVE FALSE
  OBVIOUS
<1>2. e + 1 \in 1 .. Size(t) /\ e + 1 > e
  BY <1>0
<1>3. Up(t, e + 1) \in 0 .. e
  BY <1>0, <1>2 DEF Tree
<1>4. PICK k \in 1 .. Depth(fs) : Node(fs, k) = Up(t, e + 1)
  BY <1>0, <1>2, <1>3 DEF OpenFrames
<1>5. Up(t, e + 1) = 0
  BY <1>1, <1>3, <1>4
<1>6. PICK j \in 1 .. Count(t, 0) : Kids(t, 0)[j] = e + 1
  BY <1>0, <1>2, <1>5 DEF Tree
<1>7. Kids(t, 0)[j] <= e <=> j <= Count(t, 0)
  BY <1>1 DEF OpenFrames
<1>8. Count(t, 0) \in Nat
  BY <1>0 DEF Tree
<1> QED BY <1>0, <1>6, <1>7, <1>8

(* The first frame, before anything is emitted. *)
LEMMA FirstFrame ==
  ASSUME NEW t, Tree(t), NEW fs, Depth(fs) = 1, Node(fs, 1) = 0, Done(fs, 1) = 0
  PROVE  OpenFrames(t, fs, 0)
<1>1. Size(t) \in Nat /\ Count(t, 0) \in Nat /\ Begun(fs, 1) = 0
  BY DEF Tree, Begun
<1>2. \A j \in 1 .. Count(t, 0) : ~(Kids(t, 0)[j] <= 0) /\ ~(j <= 0)
  BY <1>1 DEF Tree
<1>3. \A i \in 1 .. Size(t) : Up(t, i) <= 0 => Up(t, i) = 0
  BY <1>1 DEF Tree
<1> QED BY <1>1, <1>2, <1>3 DEF OpenFrames

(* The next value turns up in no frame but the innermost. *)
LEMMA OtherFrames ==
  ASSUME NEW t, Tree(t), NEW e \in Nat, e <= Size(t), NEW fs, OpenFrames(t, fs, e),
         Done(fs, Depth(fs)) # Count(t, Node(fs, Depth(fs)))
  PROVE  /\ \A k \in 1 .. Depth(fs) : \A j \in 1 .. Count(t, Node(fs, k)) :
               k # Depth(fs) => (Kids(t, Node(fs, k))[j] <= e + 1 <=> j <= Begun(fs, k))
         /\ \A j \in 1 .. Count(t, Node(fs, Depth(fs))) :
               Kids(t, Node(fs, Depth(fs)))[j] <= e + 1 <=> j <= Done(fs, Depth(fs)) + 1
<1> DEFINE p == Node(fs, Depth(fs))
           d == Done(fs, Depth(fs))
<1>1. /\ d + 1 \in 1 .. Count(t, p) /\ d \in Nat /\ p \in 0 .. e
      /\ Kids(t, p)[d + 1] = e + 1 /\ e + 1 \in 1 .. Size(t) /\ Up(t, e + 1) = p
  BY NextValue
<1>2. Size(t) \in Nat
  BY DEF Tree
<1>3. ASSUME NEW k \in 1 .. Depth(fs), NEW j \in 1 .. Count(t, Node(fs, k)), k # Depth(fs)
      PROVE  Kids(t, Node(fs, k))[j] <= e + 1 <=> j <= Begun(fs, k)
  <2>0. /\ Node(fs, k) \in 0 .. e /\ Node(fs, Depth(fs)) \in 0 .. e
        /\ Node(fs, k) >= Node(fs, Depth(fs)) => k = Depth(fs)
    BY Innermost
  <2>1. Node(fs, k) \in 0 .. Size(t) /\ Node(fs, k) # p
    BY <1>2, <1>3, <2>0
  <2>2. Kids(t, Node(fs, k))[j] \in 1 .. Size(t) /\ Up(t, Kids(t, Node(fs, k))[j]) = Node(fs, k)
    BY <2>1 DEF Tree
  <2>3. Kids(t, Node(fs, k))[j] # e + 1
    BY <1>1, <2>1, <2>2
  <2>4. Kids(t, Node(fs, k))[j] <= e <=> j <= Begun(fs, k)
    BY DEF OpenFrames
  <2> QED BY <2>2, <2>3, <2>4
<1>4. ASSUME NEW j \in 1 .. Count(t, p) PROVE Kids(t, p)[j] <= e + 1 <=> j <= d + 1
  <2> HIDE DEF p, d
  <2>1. /\ p \in 0 .. Size(t) /\ Count(t, p) \in Nat
        /\ \A x, y \in 1 .. Count(t, p) : x < y => Kids(t, p)[x] < Kids(t, p)[y]
        /\ Kids(t, p)[j] \in 1 .. Size(t)
    BY <1>1, <1>2 DEF Tree
  <2>2. j < d + 1 => Kids(t, p)[j] < e + 1
    BY <1>1, <2>1
  <2>3. d + 1 < j => e + 1 < Kids(t, p)[j]
    BY <1>1, <2>1
  <2>4. j = d + 1 => Kids(t, p)[j] = e + 1
    BY <1>1
  <2> QED BY <1>1, <2>1, <2>2, <2>3, <2>4
<1> QED BY <1>3, <1>4

\* The innermost frame has gone on to its next value.
Advanced(fs, gs) ==
    /\ Depth(gs) = Depth(fs)
    /\ \A k \in 1 .. Depth(fs) :
          /\ Node(gs, k) = Node(fs, k)
          /\ Done(gs, k) = IF k = Depth(fs) THEN Done(fs, k) + 1 ELSE Done(fs, k)

(* A leaf has been emitted. *)
LEMMA LeafEmitted ==
  ASSUME NEW t, Tree(t), NEW e \in Nat, e <= Size(t), NEW fs, OpenFrames(t, fs, e),
         Done(fs, Depth(fs)) # Count(t, Node(fs, Depth(fs))),
         ~IsContainer(t, e + 1),
         NEW gs, Advanced(fs, gs)
  PROVE  OpenFrames(t, gs, e + 1)
<1> DEFINE L == Depth(fs)
<1>1. /\ Depth(gs) = L /\ L \in Nat /\ L > 0 /\ L \in 1 .. L
      /\ \A k \in 1 .. L : Node(gs, k) = Node(fs, k) /\ Node(fs, k) \in 0 .. e
      /\ \A k \in 1 .. L : Done(gs, k) = IF k = L THEN Done(fs, k) + 1 ELSE Done(fs, k)
  BY Innermost DEF Advanced
<1>2. \A k \in 1 .. L : Done(fs, k) \in Nat
  BY DEF OpenFrames
<1>3. /\ Begun(gs, L) = Done(fs, L) + 1
      /\ \A k \in 1 .. L : k # L => Begun(gs, k) = Begun(fs, k)
  BY <1>1, <1>2 DEF Begun
<1>4. /\ Depth(gs) \in Nat /\ Depth(gs) > 0 /\ Node(gs, 1) = 0
      /\ \A k \in 1 .. Depth(gs) : Node(gs, k) \in 0 .. e + 1 /\ Done(gs, k) \in Nat
  <2>1. 1 \in 1 .. L /\ Node(fs, 1) = 0
    BY <1>1 DEF OpenFrames
  <2>2. ASSUME NEW k \in 1 .. L PROVE Node(gs, k) \in 0 .. e + 1 /\ Done(gs, k) \in Nat
    BY <1>1, <1>2
  <2> QED BY <1>1, <2>1, <2>2
<1>5. \A k \in 1 .. Depth(gs) : Node(gs, k) # 0 => IsContainer(t, Node(gs, k))
  BY <1>1 DEF OpenFrames
<1>6. \A j, k \in 1 .. Depth(gs) : j < k => Node(gs, j) < Node(gs, k)
  BY <1>1 DEF OpenFrames
<1>7. \A k \in 2 .. Depth(gs) : Up(t, Node(gs, k)) = Node(gs, k - 1)
  <2> SUFFICES ASSUME NEW k \in 2 .. L PROVE Up(t, Node(gs, k)) = Node(gs, k - 1)
    BY <1>1
  <2>1. k \in 1 .. L /\ k - 1 \in 1 .. L
    BY <1>1
  <2>2. Up(t, Node(fs, k)) = Node(fs, k - 1)
    BY DEF OpenFrames
  <2> QED BY <1>1, <2>1, <2>2
<1>8. \A k \in 1 .. Depth(gs) : Begun(gs, k) <= Count(t, Node(gs, k))
  <2>1. Done(fs, L) + 1 <= Count(t, Node(fs, L))
    <3>1. Done(fs, L) + 1 \in 1 .. Count(t, Node(fs, L))
      BY NextValue
    <3> QED BY <3>1
  <2>2. \A k \in 1 .. L : Begun(fs, k) <= Count(t, Node(fs, k))
    BY DEF OpenFrames
  <2> QED BY <1>1, <1>3, <2>1, <2>2
<1>9. \A k \in 1 .. Depth(gs) : \A j \in 1 .. Count(t, Node(gs, k)) :
         Kids(t, Node(gs, k))[j] <= e + 1 <=> j <= Begun(gs, k)
  BY <1>1, <1>3, OtherFrames
<1>10. ASSUME NEW i \in 1 .. Size(t), i > e + 1, Up(t, i) <= e + 1
       PROVE  \E k \in 1 .. Depth(gs) : Node(gs, k) = Up(t, i)
  <2>1. Up(t, i) \in Nat /\ Up(t, i) # e + 1
    BY DEF Tree
  <2>2. i > e /\ Up(t, i) <= e
    BY <1>10, <2>1
  <2>3. PICK k \in 1 .. Depth(fs) : Node(fs, k) = Up(t, i)
    BY <2>2 DEF OpenFrames
  <2> QED BY <1>1, <2>3
<1> QED BY <1>4, <1>5, <1>6, <1>7, <1>8, <1>9, <1>10 DEF OpenFrames

(* A container has been begun: it is the innermost frame now. *)
LEMMA ContainerOpened ==
  ASSUME NEW t, Tree(t), NEW e \in Nat, e <= Size(t), NEW fs, OpenFrames(t, fs, e),
         Done(fs, Depth(fs)) # Count(t, Node(fs, Depth(fs))),
         IsContainer(t, e + 1),
         NEW gs, Depth(gs) = Depth(fs) + 1,
         \A k \in 1 .. Depth(fs) : Node(gs, k) = Node(fs, k) /\ Done(gs, k) = Done(fs, k),
         Node(gs, Depth(fs) + 1) = e + 1, Done(gs, Depth(fs) + 1) = 0
  PROVE  OpenFrames(t, gs, e + 1)
<1> DEFINE L == Depth(fs)
<1>0. /\ e + 1 \in 1 .. Size(t) /\ Up(t, e + 1) = Node(fs, L)
      /\ Done(fs, L) + 1 <= Count(t, Node(fs, L)) /\ Size(t) \in Nat
  <2>1. Done(fs, L) + 1 \in 1 .. Count(t, Node(fs, L)) /\ e + 1 \in 1 .. Size(t) /\ Up(t, e + 1) = Node(fs, L)
    BY NextValue
  <2> QED BY <2>1 DEF Tree
<1>1. /\ L \in Nat /\ L > 0 /\ L \in 1 .. L
      /\ \A k \in 1 .. L : Node(fs, k) \in 0 .. e
      /\ \A k \in 1 .. L + 1 : k \in 1 .. L \/ k = L + 1
  <2>1. L \in Nat /\ L \in 1 .. L /\ \A k \in 1 .. L : Node(fs, k) \in 0 .. e
    BY Innermost
  <2> QED BY <2>1
<1>2. \A k \in 1 .. L : Done(fs, k) \in Nat
  BY DEF OpenFrames
<1>3. /\ Begun(gs, L + 1) = 0 /\ Begun(gs, L) = Done(fs, L) + 1
      /\ \A k \in 1 .. L : k # L => Begun(gs, k) = Begun(fs, k)
  BY <1>1, <1>2 DEF Begun
<1>4. /\ Depth(gs) \in Nat /\ Depth(gs) > 0 /\ Node(gs, 1) = 0
      /\ \A k \in 1 .. Depth(gs) : Node(gs, k) \in 0 .. e + 1 /\ Done(gs, k) \in Nat
  <2>1. 1 \in 1 .. L /\ Node(fs, 1) = 0
    BY <1>1 DEF OpenFrames
  <2>2. ASSUME NEW k \in 1 .. L PROVE Node(gs, k) \in 0 .. e + 1 /\ Done(gs, k) \in Nat
    BY <1>1, <1>2
  <2> QED BY <1>1, <2>1, <2>2
<1>5. \A k \in 1 .. Depth(gs) : Node(gs, k) # 0 => IsContainer(t, Node(gs, k))
  BY <1>1 DEF OpenFrames
<1>6. \A j, k \in 1 .. Depth(gs) : j < k => Node(gs, j) < Node(gs, k)
  <2> SUFFICES ASSUME NEW j \in 1 .. L + 1, NEW k \in 1 .. L + 1, j < k
               PROVE  Node(gs, j) < Node(gs, k)
    OBVIOUS
  <2>1. j \in 1 .. L
    BY <1>1
  <2>2. CASE k \in 1 .. L
    BY <2>1, <2>2 DEF OpenFrames
  <2>3. CASE k = L + 1
    BY <1>1, <2>1, <2>3
  <2> QED BY <1>1, <2>2, <2>3
<1>7. \A k \in 2 .. Depth(gs) : Up(t, Node(gs, k)) = Node(gs, k - 1)
  <2> SUFFICES ASSUME NEW k \in 2 .. L + 1 PROVE Up(t, Node(gs, k)) = Node(gs, k - 1)
    OBVIOUS
  <2>1. k - 1 \in 1 .. L
    BY <1>1
  <2>2. CASE k \in 2 .. L
    <3>1. Up(t, Node(fs, k)) = Node(fs, k - 1) /\ k \in 1 .. L
      BY <2>2 DEF OpenFrames
    <3> QED BY <2>1, <3>1
  <2>3. CASE k = L + 1
    <3>1. k - 1 = L
      BY <1>1, <2>3
    <3> QED BY <1>0, <1>1, <2>3, <3>1
  <2> QED BY <1>1, <2>2, <2>3
<1>8. e + 1 \in 0 .. Size(t) /\ Count(t, e + 1) \in Nat
  BY <1>0 DEF Tree
<1>9. \A k \in 1 .. Depth(gs) : Begun(gs, k) <= Count(t, Node(gs, k))
  <2>1. \A k \in 1 .. L : Begun(fs, k) <= Count(t, Node(fs, k))
    BY DEF OpenFrames
  <2> QED BY <1>0, <1>1, <1>3, <1>8, <2>1
<1>10. ASSUME NEW k \in 1 .. Depth(gs), NEW j \in 1 .. Count(t, Node(gs, k))
       PROVE  Kids(t, Node(gs, k))[j] <= e + 1 <=> j <= Begun(gs, k)
  <2>1. CASE k \in 1 .. L
    BY <1>1, <1>3, <2>1, OtherFrames
  <2>2. CASE k = L + 1
    <3>1. Node(gs, k) = e + 1 /\ j \in 1 .. Count(t, e + 1) /\ ~(j <= Begun(gs, k))
      BY <1>3, <1>8, <2>2
    <3>2. Kids(t, e + 1)[j] \in 1 .. Size(t) /\ Up(t, Kids(t, e + 1)[j]) = e + 1
      BY <1>8, <3>1 DEF Tree
    <3>3. e + 1 < Kids(t, e + 1)[j]
      BY <3>2 DEF Tree
    <3> QED BY <3>1, <3>2, <3>3
  <2> QED BY <1>1, <2>1, <2>2
<1>11. ASSUME NEW i \in 1 .. Size(t), i > e + 1, Up(t, i) <= e + 1
       PROVE  \E k \in 1 .. Depth(gs) : Node(gs, k) = Up(t, i)
  <2>1. CASE Up(t, i) = e + 1
    <3>1. L + 1 \in 1 .. Depth(gs) /\ Node(gs, L + 1) = Up(t, i)
      BY <1>1, <2>1
    <3> QED BY <3>1
  <2>2. CASE Up(t, i) # e + 1
    <3>1. i > e /\ Up(t, i) <= e
      BY <1>11, <2>2 DEF Tree
    <3>2. PICK k \in 1 .. L : Node(fs, k) = Up(t, i)
      BY <3>1 DEF OpenFrames
    <3>3. k \in 1 .. Depth(gs) /\ Node(gs, k) = Up(t, i)
      BY <1>1, <3>2
    <3> QED BY <3>3
  <2> QED BY <2>1, <2>2
<1> QED BY <1>4, <1>5, <1>6, <1>7, <1>9, <1>10, <1>11 DEF OpenFrames

(* A container whose values are all done is closed. *)
LEMMA ContainerClosed ==
  ASSUME NEW t, Tree(t), NEW e \in Nat, e <= Size(t), NEW fs, OpenFrames(t, fs, e),
         Done(fs, Depth(fs)) = Count(t, Node(fs, Depth(fs))),
         Node(fs, Depth(fs)) # 0,
         NEW gs, Depth(gs) = Depth(fs) - 1,
         \A k \in 1 .. Depth(fs) - 1 :
            /\ Node(gs, k) = Node(fs, k)
            /\ Done(gs, k) = IF k = Depth(fs) - 1 THEN Done(fs, k) + 1 ELSE Done(fs, k)
  PROVE  OpenFrames(t, gs, e)
<1> DEFINE L == Depth(fs)
           M == Depth(fs) - 1
<1>1. /\ L \in Nat /\ L > 0 /\ L \in 1 .. L
      /\ \A k \in 1 .. L : Node(fs, k) \in 0 .. e
      /\ Begun(fs, L) = Done(fs, L)
  BY Innermost
<1>2. /\ Node(fs, 1) = 0 /\ \A k \in 1 .. L : Done(fs, k) \in Nat
  BY DEF OpenFrames
<1>3. M \in Nat /\ M > 0 /\ \A k \in 1 .. M : k \in 1 .. L
  BY <1>1, <1>2
<1>4. \A k \in 1 .. M : Begun(gs, k) = Begun(fs, k)
  BY <1>1, <1>2, <1>3 DEF Begun
<1>5. /\ Depth(gs) \in Nat /\ Depth(gs) > 0 /\ Node(gs, 1) = 0
      /\ \A k \in 1 .. Depth(gs) : Node(gs, k) \in 0 .. e /\ Done(gs, k) \in Nat
  <2>1. 1 \in 1 .. M
    BY <1>3
  <2>2. ASSUME NEW k \in 1 .. M PROVE Node(gs, k) \in 0 .. e /\ Done(gs, k) \in Nat
    BY <1>1, <1>2, <1>3
  <2> QED BY <1>2, <1>3, <2>1, <2>2
<1>6. \A k \in 1 .. Depth(gs) : Node(gs, k) # 0 => IsContainer(t, Node(gs, k))
  BY <1>3 DEF OpenFrames
<1>7. \A j, k \in 1 .. Depth(gs) : j < k => Node(gs, j) < Node(gs, k)
  BY <1>3 DEF OpenFrames
<1>8. \A k \in 2 .. Depth(gs) : Up(t, Node(gs, k)) = Node(gs, k - 1)
  <2> SUFFICES ASSUME NEW k \in 2 .. M PROVE Up(t, Node(gs, k)) = Node(gs, k - 1)
    OBVIOUS
  <2>1. k \in 2 .. L /\ k \in 1 .. M /\ k - 1 \in 1 .. M
    BY <1>1
  <2>2. Up(t, Node(fs, k)) = Node(fs, k - 1)
    BY <2>1 DEF OpenFrames
  <2> QED BY <2>1, <2>2
<1>9. \A k \in 1 .. Depth(gs) : Begun(gs, k) <= Count(t, Node(gs, k))
  BY <1>3, <1>4 DEF OpenFrames
<1>10. \A k \in 1 .. Depth(gs) : \A j \in 1 .. Count(t, Node(gs, k)) :
         Kids(t, Node(gs, k))[j] <= e <=> j <= Begun(gs, k)
  BY <1>3, <1>4 DEF OpenFrames
<1>11. ASSUME NEW i \in 1 .. Size(t), i > e, Up(t, i) <= e
       PROVE  \E k \in 1 .. Depth(gs) : Node(gs, k) = Up(t, i)
  <2>1. PICK k \in 1 .. L : Node(fs, k) = Up(t, i)
    BY <1>11 DEF OpenFrames
  <2>2. k # L
    <3> SUFFICES ASSUME k = L PROVE FALSE
      OBVIOUS
    <3>1. PICK j \in 1 .. Count(t, Up(t, i)) : Kids(t, Up(t, i))[j] = i
      BY DEF Tree
    <3>2. Kids(t, Up(t, i))[j] <= e <=> j <= Count(t, Up(t, i))
      BY <1>1, <2>1, <3>1 DEF OpenFrames
    <3>3. j <= Count(t, Up(t, i))
      <4>1. Up(t, i) \in 0 .. Size(t) /\ Count(t, Up(t, i)) \in Nat
        BY DEF Tree
      <4> QED BY <3>1, <4>1
    <3>4. i <= e
      BY <3>1, <3>2, <3>3
    <3>5. Size(t) \in Nat
      BY DEF Tree
    <3> QED BY <1>11, <3>4, <3>5
  <2>3. k \in 1 .. M /\ Node(gs, k) = Up(t, i)
    BY <1>1, <2>1, <2>2
  <2> QED BY <2>3
<1> QED BY <1>5, <1>6, <1>7, <1>8, <1>9, <1>10, <1>11 DEF OpenFrames

-----------------------------------------------------------------------------
(* The sequence of frames                                                  *)

(* The last element of a sequence, and the sequence with another one there. *)
LEMMA LastOf ==
  ASSUME NEW S, NEW q \in Seq(S), Len(q) > 0
  PROVE  /\ Len(q) \in 1 .. Len(q) /\ q[Len(q)] \in S
         /\ \A x \in S : [q EXCEPT ![Len(q)] = x] \in Seq(S)
         /\ \A x \in S : Len([q EXCEPT ![Len(q)] = x]) = Len(q)
         /\ \A x \in S : \A i \in 1 .. Len(q) :
               [q EXCEPT ![Len(q)] = x][i] = IF i = Len(q) THEN x ELSE q[i]
  OBVIOUS

LEMMA FrameAdvances ==
  ASSUME NEW r \in FrameSet
  PROVE  /\ r.node \in Int /\ r.done \in Nat
         /\ [r EXCEPT !.done = @ + 1] \in FrameSet
         /\ [r EXCEPT !.done = @ + 1].node = r.node
         /\ [r EXCEPT !.done = @ + 1].done = r.done + 1
  BY DEF FrameSet

LEMMA AdvanceAdvances ==
  ASSUME NEW fs \in Seq(FrameSet), Len(fs) > 0
  PROVE  Advance(fs) \in Seq(FrameSet) /\ Advanced(fs, Advance(fs))
<1> DEFINE x == [fs[Len(fs)] EXCEPT !.done = @ + 1]
           gs == [fs EXCEPT ![Len(fs)] = x]
<1>1. fs[Len(fs)] \in FrameSet
  BY LastOf, Zenon
<1>2. x \in FrameSet /\ x.node = fs[Len(fs)].node /\ x.done = fs[Len(fs)].done + 1
  BY <1>1, FrameAdvances, Zenon
<1>3. Advance(fs) = gs
  BY Zenon DEF Advance
<1> HIDE DEF x
<1>4. /\ gs \in Seq(FrameSet) /\ Len(gs) = Len(fs)
      /\ \A i \in 1 .. Len(fs) : gs[i] = IF i = Len(fs) THEN x ELSE fs[i]
  BY <1>2, LastOf
<1> HIDE DEF gs
<1>5. Advanced(fs, gs)
  BY <1>2, <1>4, Zenon DEF Advanced, Depth, Node, Done
<1> QED BY <1>3, <1>4, <1>5

LEMMA Push ==
  ASSUME NEW S, NEW fs \in Seq(S), NEW r \in S
  PROVE  /\ Append(fs, r) \in Seq(S) /\ Len(Append(fs, r)) = Len(fs) + 1
         /\ Append(fs, r)[Len(fs) + 1] = r /\ \A k \in 1 .. Len(fs) : Append(fs, r)[k] = fs[k]
  OBVIOUS

LEMMA Pop ==
  ASSUME NEW S, NEW fs \in Seq(S), Len(fs) > 0
  PROVE  /\ Len(fs) - 1 \in Nat /\ SubSeq(fs, 1, Len(fs) - 1) \in Seq(S)
         /\ Len(SubSeq(fs, 1, Len(fs) - 1)) = Len(fs) - 1
         /\ \A k \in 1 .. Len(fs) - 1 : SubSeq(fs, 1, Len(fs) - 1)[k] = fs[k]
<1>1. \A n \in Nat : n <= Len(fs) =>
         /\ SubSeq(fs, 1, n) \in Seq(S) /\ Len(SubSeq(fs, 1, n)) = n
         /\ \A k \in 1 .. n : SubSeq(fs, 1, n)[k] = fs[k]
  OBVIOUS
<1>2. Len(fs) - 1 \in Nat /\ Len(fs) - 1 <= Len(fs)
  OBVIOUS
<1> QED BY <1>1, <1>2, Zenon

-----------------------------------------------------------------------------
(* What the writer's calls add                                             *)

\* A call that succeeds adds node used + 1 at the end of the open scope.
Adds(k, kd, v, keyed) ==
    /\ ~error_flag /\ used + 1 \in NodeId /\ used' = used + 1
    /\ parent'[used + 1] = current_scope /\ kind'[used + 1] = kd
    /\ key'[used + 1] = IF keyed THEN k ELSE "unset"
    /\ kd \in NumberKinds \cup {"string"} => value'[used + 1] = v
    /\ \A m \in 1 .. used : /\ parent'[m] = parent[m] /\ kind'[m] = kind[m]
                            /\ key'[m] = key[m] /\ value'[m] = value[m]

\* The key a call gets from the JSON text.
FromText(k, keyed) == IF keyed THEN k \in Keys \cup {"empty"} ELSE k = "null"

LEMMA NodeAdded ==
  ASSUME KeysInv, ~error_flag, NEW n \in NodeId, NEW kd, NEW k, NEW v, NEW keyed \in BOOLEAN,
         FromText(k, keyed),
         AllocNode(n), kind' = [kind EXCEPT ![n] = kd], AppendToScope(n),
         key' = IF keyed THEN [key EXCEPT ![n] = StoredKey(k)] ELSE key,
         \/ value' = [value EXCEPT ![last_child'[current_scope]] = v]
         \/ value' = value /\ kd \notin NumberKinds \cup {"string"}
  PROVE  Adds(k, kd, v, keyed)
<1>1. /\ TypeOK /\ kind \in [NodeId -> Kinds] /\ key \in [NodeId -> StoredKeys]
      /\ value \in [NodeId -> StoredValues] /\ parent \in [NodeId -> ScopeId] /\ used \in Nat
  BY Scopes DEF KeysInv, TreeInv, TypeOK
<1>2. n = used + 1 /\ used' = used + 1 /\ n \in NodeId /\ \A m \in 1 .. used : m \in NodeId /\ m # n
  BY <1>1, Scopes DEF AllocNode
<1>3. last_child'[current_scope] = n /\ parent' = [parent EXCEPT ![n] = current_scope]
  BY <1>1, AppendTypeOK DEF AppendToScope
<1>4. /\ parent'[n] = current_scope /\ kind'[n] = kd
      /\ \A m \in 1 .. used : parent'[m] = parent[m] /\ kind'[m] = kind[m]
  BY <1>1, <1>2, <1>3
<1>5. /\ kd \in NumberKinds \cup {"string"} => value'[n] = v
      /\ \A m \in 1 .. used : value'[m] = value[m]
  BY <1>1, <1>2, <1>3
<1>6. key[n] = "unset"
  BY <1>1, <1>2 DEF KeysInv, UnusedIsBare
<1>7. /\ key'[n] = IF keyed THEN k ELSE "unset"
      /\ \A m \in 1 .. used : key'[m] = key[m]
  <2>1. CASE keyed = TRUE
    <3>1. StoredKey(k) = k
      BY <2>1, NamesAssumption DEF FromText, StoredKey
    <3> QED BY <1>1, <1>2, <2>1, <3>1
  <2>2. CASE keyed = FALSE
    BY <1>6, <2>2
  <2> QED BY <2>1, <2>2
<1> QED BY <1>2, <1>4, <1>5, <1>7 DEF Adds

LEMMA LeafAdds ==
  ASSUME KeysInv, ~error_flag', NEW kd, NEW k, NEW v, NEW keyed \in BOOLEAN,
         FromText(k, keyed),
         \/ kd \in PlainKinds /\ AddPlain(k, kd, keyed)
         \/ kd \in NumberKinds /\ AddNumber(k, kd, v, keyed)
         \/ kd = "string" /\ AddString(k, v, keyed)
  PROVE  Adds(k, kd, v, keyed) /\ UNCHANGED current_scope
<1>1. ASSUME NEW n \in NodeId, AddLeaf(n, k, kd, keyed),
             \/ value' = [value EXCEPT ![last_child'[current_scope]] = v]
             \/ value' = value /\ kd \notin NumberKinds \cup {"string"}
      PROVE  Adds(k, kd, v, keyed) /\ UNCHANGED current_scope
  BY <1>1, NodeAdded DEF AddLeaf
<1>2. ~Refused /\ ~AddLeafFails(k, kd, keyed) /\ ~Fail
  BY DEF Refused, vars, AddLeafFails, Fail
<1>3. CASE kd \in PlainKinds /\ AddPlain(k, kd, keyed)
  <2>1. kd \notin NumberKinds \cup {"string"}
    BY <1>3, KindsAssumption
  <2> QED BY <1>1, <1>2, <1>3, <2>1 DEF AddPlain
<1>4. CASE kd \in NumberKinds /\ AddNumber(k, kd, v, keyed)
  BY <1>1, <1>2, <1>4 DEF AddNumber
<1>5. CASE kd = "string" /\ AddString(k, v, keyed)
  BY <1>1, <1>2, <1>5 DEF AddString
<1> QED BY <1>3, <1>4, <1>5

LEMMA ContainerAdds ==
  ASSUME KeysInv, ~error_flag', NEW kd \in ContainerKinds, NEW k, NEW v, NEW keyed \in BOOLEAN,
         FromText(k, keyed), BeginContainer(k, kd)
  PROVE  Adds(k, kd, v, keyed) /\ current_scope' = used + 1
<1> DEFINE copies_key == ~ExpectIndexedScope /\ k # "null"
<1>1. ~Refused /\ ~Fail
  BY DEF Refused, vars, Fail
<1>2. PICK n \in NodeId :
         /\ ~error_flag /\ ContainerKeyAccepted(k)
         /\ AllocNode(n)
         /\ kind' = [kind EXCEPT ![n] = kd]
         /\ key' = IF copies_key THEN [key EXCEPT ![n] = StoredKey(k)] ELSE key
         /\ AppendToScope(n)
         /\ current_scope' = n
         /\ UNCHANGED value
  BY <1>1 DEF BeginContainer
<1>3. copies_key = keyed
  BY <1>2, NamesAssumption DEF FromText, ContainerKeyAccepted
<1>4. kd \notin NumberKinds \cup {"string"}
  BY KindsAssumption DEF ContainerKinds
<1>5. key' = IF keyed THEN [key EXCEPT ![n] = StoredKey(k)] ELSE key
  BY <1>2, <1>3
<1> QED BY <1>2, <1>4, <1>5, NodeAdded DEF AllocNode

\* No call but create, finalize and destroy touches the writer's status.
LEMMA CallsKeepStatus ==
  /\ \A k, kd, rk : AddPlain(k, kd, rk) => UNCHANGED <<phase, delivered>>
  /\ \A k, kd, v, rk : AddNumber(k, kd, v, rk) => UNCHANGED <<phase, delivered>>
  /\ \A k, v, rk : AddString(k, v, rk) => UNCHANGED <<phase, delivered>>
  /\ \A k, kd : BeginContainer(k, kd) => UNCHANGED <<phase, delivered>>
  /\ \A kd : EndContainer(kd) => UNCHANGED <<phase, delivered>>
<1> USE DEF status, vars, Refused
<1>f. \A k, kd, rk : AddLeafFails(k, kd, rk) => UNCHANGED <<phase, delivered>>
  BY DEF AddLeafFails
<1>l. \A n, k, kd, rk : AddLeaf(n, k, kd, rk) => UNCHANGED <<phase, delivered>>
  BY DEF AddLeaf
<1>1. \A k, kd, rk : AddPlain(k, kd, rk) => UNCHANGED <<phase, delivered>>
  BY <1>f, <1>l DEF AddPlain
<1>2. \A k, kd, v, rk : AddNumber(k, kd, v, rk) => UNCHANGED <<phase, delivered>>
  BY <1>f, <1>l DEF AddNumber
<1>3. \A k, v, rk : AddString(k, v, rk) => UNCHANGED <<phase, delivered>>
  BY <1>f, <1>l DEF AddString
<1>4. \A k, kd : BeginContainer(k, kd) => UNCHANGED <<phase, delivered>>
  BY DEF BeginContainer
<1>5. \A kd : EndContainer(kd) => UNCHANGED <<phase, delivered>>
  BY DEF EndContainer
<1> QED BY <1>1, <1>2, <1>3, <1>4, <1>5

-----------------------------------------------------------------------------
(* The inductive invariant                                                 *)

\* The text: a tree, with a key where one belongs.
Text(t) ==
    /\ Tree(t)
    /\ \A i \in 1 .. Size(t) : t.kind[i] \in JsonKinds
    /\ \A i \in 1 .. Size(t) :
          i \in DOMAIN t.key <=> (Up(t, i) = 0 \/ t.kind[Up(t, i)] = "block")
    /\ \A i \in DOMAIN t.key : t.key[i] \in Keys \cup {"empty"}

\* What is held of json-c, by the place the conversion is at.
Holding ==
    held = CASE step = "parse" -> {"tokener"}
             [] step \in {"check", "emit"} -> {"root"}
             [] OTHER -> {}

Untouched == used = before.used /\ current_scope = before.scope

Answer ==
    /\ ok \in BOOLEAN /\ mode \in {"writer", "buffer"}
    /\ before.used \in Nat /\ before.scope \in Nat
    /\ step \in {"idle", "tokener", "parse", "check", "emit", "finish", "destroy", "returned"}
    /\ step \in {"tokener", "parse", "check"} => Untouched
    /\ step \in {"idle", "tokener", "parse", "check", "emit"} => ~ok
    /\ step = "finish" /\ ~ok => error_flag \/ Untouched \/ StoppedAtOdd
    /\ step # "idle" => phase # "absent"
    /\ mode = "buffer" /\ step # "destroy" => delivered = "nothing"

\* The values emitted so far are the writer's newest nodes.
Emitted == used - before.used

Emitting ==
    /\ Emitted \in Nat /\ Emitted <= Size(json)
    /\ frames \in Seq(FrameSet) /\ OpenFrames(json, frames, Emitted)
    /\ \A i \in 1 .. Emitted : NodeIsValue(before.used + i, i)
    /\ Emitted > 0 => ~error_flag
    /\ current_scope = ScopeFor(Node(frames, Depth(frames)))

ConvertInv ==
    /\ KeysInv /\ Text(json) /\ Holding /\ Answer
    /\ step = "emit" => Emitting
    /\ ConvertsWhole /\ FailureNeverDelivered /\ JsonReleased

LEMMA WriterNumbers ==
  ASSUME KeysInv
  PROVE  /\ used \in Nat /\ current_scope \in Nat /\ error_flag \in BOOLEAN
         /\ used <= MaxNodes /\ MaxNodes \in Nat
  BY Scopes DEF KeysInv, TreeInv, TypeOK

(* The value the emitters are at. *)
LEMMA AtValue ==
  ASSUME ConvertInv, step = "emit", ~BodyDone
  PROVE  /\ Value = Emitted + 1 /\ Emitted + 1 \in 1 .. Size(json)
         /\ Up(json, Emitted + 1) = Node(frames, Depth(frames))
         /\ Done(frames, Depth(frames)) # Count(json, Node(frames, Depth(frames)))
         /\ json.kind[Value] \in JsonKinds
         /\ FromText(KeyArg, Within = "block")
         /\ Value \in DOMAIN json.key <=> Within = "block"
         /\ Within = "block" => KeyArg = json.key[Value]
<1> DEFINE p == Node(frames, Depth(frames))
           d == Done(frames, Depth(frames))
<1>1. Text(json) /\ Tree(json) /\ Emitting
  BY DEF ConvertInv, Text
<1>2. Frame.node = p /\ Frame.done = d /\ d # Count(json, p) /\ Value = Kids(json, p)[d + 1]
  BY DEF BodyDone, Value, Frame, Node, Done, Depth, Count, Kids
<1>3. Kids(json, p)[d + 1] = Emitted + 1 /\ Emitted + 1 \in 1 .. Size(json) /\ Up(json, Emitted + 1) = p
  BY <1>1, <1>2, NextValue DEF Emitting
<1> DEFINE v == Emitted + 1
<1>4. Value = v /\ v \in 1 .. Size(json) /\ Up(json, v) = p
  BY <1>2, <1>3
<1> HIDE DEF v, p
<1>5. json.kind[v] \in JsonKinds /\ (v \in DOMAIN json.key <=> (p = 0 \/ json.kind[p] = "block"))
  BY <1>1, <1>4 DEF Text
<1>6. Within = IF p = 0 THEN "block" ELSE json.kind[p]
  BY <1>2 DEF Within
<1>7. v \in DOMAIN json.key <=> Within = "block"
  BY <1>5, <1>6
<1>8. KeyArg = IF Within = "block" THEN json.key[v] ELSE "null"
  BY <1>4 DEF KeyArg
<1>9. Within = "block" => json.key[v] \in Keys \cup {"empty"}
  BY <1>1, <1>7 DEF Text
<1>10. FromText(KeyArg, Within = "block")
  BY <1>8, <1>9 DEF FromText
<1> QED BY <1>2, <1>4, <1>5, <1>7, <1>8, <1>10 DEF v, p

\* The kind and the value a node gets for a JSON value of kind jk.
Fits(kd, v, jk) ==
    CASE jk \in {"int", "max"} -> kd = "int64" /\ v = jk
      [] jk = "above" -> kd = "uint64" /\ v = "above"
      [] jk \in {"text", "empty"} -> kd = "string" /\ v = jk
      [] OTHER -> kd = jk

(* A node added for the next value is that value. *)
LEMMA ValueAdded ==
  ASSUME ConvertInv, step = "emit", ~BodyDone, NEW kd, NEW v,
         Adds(KeyArg, kd, v, Within = "block"), Fits(kd, v, json.kind[Value]),
         UNCHANGED <<json, before>>
  PROVE  /\ Emitted' = Emitted + 1
         /\ \A i \in 1 .. Emitted + 1 : NodeIsValue(before.used + i, i)'
<1> DEFINE n == used + 1
           b == before.used
<1>1. /\ used \in Nat /\ b \in Nat /\ Emitted \in Nat /\ Emitted = used - b
      /\ \A i \in 1 .. Emitted : NodeIsValue(b + i, i)
      /\ current_scope = ScopeFor(Node(frames, Depth(frames)))
  BY WriterNumbers DEF ConvertInv, Answer, Emitting, Emitted
<1>2. /\ used' = n /\ parent'[n] = current_scope /\ kind'[n] = kd
      /\ key'[n] = IF Within = "block" THEN KeyArg ELSE "unset"
      /\ kd \in NumberKinds \cup {"string"} => value'[n] = v
      /\ \A m \in 1 .. used : /\ parent'[m] = parent[m] /\ kind'[m] = kind[m]
                              /\ key'[m] = key[m] /\ value'[m] = value[m]
  BY DEF Adds
<1>3. Emitted' = Emitted + 1
  BY <1>1, <1>2 DEF Emitted
<1>4. ASSUME NEW i \in 1 .. Emitted PROVE NodeIsValue(b + i, i)'
  <2>1. b + i \in 1 .. used
    BY <1>1
  <2>2. NodeIsValue(b + i, i)
    BY <1>1
  <2>3. /\ parent'[b + i] = parent[b + i] /\ kind'[b + i] = kind[b + i]
        /\ key'[b + i] = key[b + i] /\ value'[b + i] = value[b + i]
    BY <1>2, <2>1
  <2> QED BY <2>2, <2>3, Zenon DEF NodeIsValue, ScopeFor
<1>5. ASSUME NEW i, i = Emitted + 1 PROVE NodeIsValue(b + i, i)'
  <2>0. n = b + i
    BY <1>1, <1>5
  <2>1. /\ Value = i /\ Up(json, i) = Node(frames, Depth(frames))
        /\ i \in DOMAIN json.key <=> Within = "block"
        /\ Within = "block" => KeyArg = json.key[i]
    BY <1>5, AtValue
  <2>2. parent'[n] = IF json.parent[i] = 0 THEN before.scope ELSE b + json.parent[i]
    BY <1>1, <1>2, <2>1 DEF ScopeFor, Up
  <2>3. key'[n] = IF i \in DOMAIN json.key THEN json.key[i] ELSE "unset"
    BY <1>2, <2>1
  <2>4. {"int64", "uint64"} \subseteq NumberKinds
    BY CallsAssumption
  <2>5. Fits(kd, v, json.kind[i])
    BY <2>1
  <2>10. /\ parent'[b + i] = IF json.parent[i] = 0 THEN before.scope ELSE b + json.parent[i]
         /\ key'[b + i] = IF i \in DOMAIN json.key THEN json.key[i] ELSE "unset"
         /\ kind'[b + i] = kd /\ (kd \in NumberKinds \cup {"string"} => value'[b + i] = v)
    BY <1>2, <2>0, <2>2, <2>3
  <2> HIDE DEF n
  <2>6. CASE json.kind[i] \in {"int", "max"}
    BY <2>4, <2>5, <2>6, <2>10 DEF Fits, NodeIsValue, ScopeFor
  <2>7. CASE json.kind[i] = "above"
    BY <2>4, <2>5, <2>7, <2>10 DEF Fits, NodeIsValue, ScopeFor
  <2>8. CASE json.kind[i] \in {"text", "empty"}
    BY <2>5, <2>8, <2>10 DEF Fits, NodeIsValue, ScopeFor
  <2>9. CASE json.kind[i] \notin {"int", "max", "above", "text", "empty"}
    BY <2>5, <2>9, <2>10 DEF Fits, NodeIsValue, ScopeFor
  <2> QED BY <2>6, <2>7, <2>8, <2>9
<1>7. ASSUME NEW i \in 1 .. Emitted + 1 PROVE NodeIsValue(b + i, i)'
  <2>1. i \in 1 .. Emitted \/ i = Emitted + 1
    BY <1>1
  <2> QED BY <1>4, <1>5, <2>1
<1> QED BY <1>3, <1>7

-----------------------------------------------------------------------------
(* The steps                                                               *)

(* The conversion uses the writer through its calls. *)
LEMMA WriterSteps == ASSUME ConvertInv, ConvertNext PROVE [Next]_vars
<1>1. CASE Caller
  <2>1. ASSUME NEW kd \in ContainerKinds, BeginContainer("null", kd) PROVE Next
    <3>1. "null" \in KeyArgs
      BY DEF KeyArgs
    <3> QED BY <2>1, <3>1 DEF Next
  <2> QED BY <1>1, <2>1 DEF Caller, Next
<1>2. CASE EmitLeaf
  <2> DEFINE rk == Within = "block"
  <2>0. rk \in BOOLEAN /\ step = "emit" /\ ~BodyDone
    BY <1>2 DEF EmitLeaf
  <2>1. FromText(KeyArg, rk)
    BY <2>0, AtValue
  <2>2. KeyArg \in LeafKeyArgs(rk)
    BY <2>1 DEF FromText, LeafKeyArgs, KeyArgs
  <2> HIDE DEF rk
  <2>3. \/ AddPlain(KeyArg, "null", rk)
        \/ \E v \in StringArgs : AddString(KeyArg, v, rk)
        \/ \E kd \in NumberKinds, v \in Values : AddNumber(KeyArg, kd, v, rk)
    <3>1. CASE json.kind[Value] = "null"
      BY <1>2, <3>1 DEF EmitLeaf, rk
    <3>2. CASE json.kind[Value] \in {"text", "empty"}
      <4>1. AddString(KeyArg, json.kind[Value], rk)
        BY <1>2, <3>2 DEF EmitLeaf, rk
      <4>2. json.kind[Value] \in StringArgs
        BY <3>2, CallsAssumption DEF StringArgs
      <4> QED BY <4>1, <4>2
    <3>3. CASE json.kind[Value] \in {"int", "max", "above"}
      <4> DEFINE number == Number(json.kind[Value])
      <4>1. AddNumber(KeyArg, number.kind, number.value, rk)
        BY <1>2, <3>3 DEF EmitLeaf, rk
      <4>2. number.kind \in NumberKinds /\ number.value \in Values
        BY <3>3, CallsAssumption DEF Number
      <4> QED BY <4>1, <4>2
    <3>4. json.kind[Value] \in {"null", "text", "empty", "int", "max", "above"}
      BY <1>2 DEF EmitLeaf
    <3> QED BY <3>1, <3>2, <3>3, <3>4
  <2>4. "null" \in PlainKinds
    BY CallsAssumption
  <2> QED BY <2>0, <2>2, <2>3, <2>4 DEF Next, rk
<1>3. CASE EmitContainer
  <2>1. FromText(KeyArg, Within = "block")
    BY <1>3, AtValue DEF EmitContainer
  <2>2. KeyArg \in KeyArgs
    BY <2>1 DEF FromText, KeyArgs
  <2> QED BY <1>3, <2>2 DEF EmitContainer, Next
<1>4. CASE EndBody
  <2> DEFINE p == Node(frames, Depth(frames))
  <2>1. p # 0 /\ Frame.node = p
    BY <1>4 DEF EndBody, Frame, Node, Depth
  <2>2. Emitting
    BY <1>4 DEF EndBody, ConvertInv
  <2>3. IsContainer(json, p)
    BY <2>1, <2>2, Innermost DEF Emitting, OpenFrames
  <2>4. Within \in ContainerKinds
    BY <2>1, <2>3 DEF Within, IsContainer
  <2> QED BY <1>4, <2>4 DEF EndBody, Next
<1>5. CASE Finalize \/ DestroyWriter \/ Call
  BY <1>5 DEF Finalize, DestroyWriter, Call, Next
<1>6. CASE NewTokener \/ Parse \/ Check \/ CannotEmit \/ EndRoot \/ Return
  BY <1>6 DEF NewTokener, Parse, Check, CannotEmit, EndRoot, Return, vars
<1> QED BY <1>1, <1>2, <1>3, <1>4, <1>5, <1>6 DEF ConvertNext

LEMMA WriterKept == ASSUME ConvertInv, ConvertNext PROVE KeysInv'
  BY WriterSteps, NextKeysInv DEF ConvertInv

(* A call that closes a scope goes to an earlier one, or fails. *)
LEMMA EndContainerGoesOut ==
  ASSUME KeysInv, NEW kd \in ContainerKinds, EndContainer(kd)
  PROVE  /\ UNCHANGED <<used, phase>> /\ (error_flag' \/ current_scope' <= current_scope)
         /\ UNCHANGED <<parent, key, kind, value>> /\ (error_flag => error_flag')
<1>0. current_scope \in Nat /\ used \in Nat /\ MaxNodes \in Nat /\ used <= MaxNodes
  BY WriterNumbers
<1>1. CASE Refused
  <2>1. UNCHANGED <<used, parent, key, kind, value, phase, current_scope, error_flag>>
    BY <1>1 DEF Refused, vars, payload, links, status
  <2> QED BY <1>0, <2>1
<1>2. CASE Fail /\ UNCHANGED <<used, payload, links, current_scope, status>>
  BY <1>2 DEF Fail, payload, links, status
<1>3. CASE /\ ~error_flag /\ KindOf(current_scope) = kd /\ current_scope' = parent[current_scope]
           /\ UNCHANGED <<used, payload, links, error_flag, status>>
  <2>1. current_scope # Root
    BY <1>3 DEF KindOf, ContainerKinds
  <2>2. current_scope \in Built
    BY <1>0, <1>3, <2>1 DEF KeysInv, TreeInv, TreeIsDocument, ScopeIsOpen, Built
  <2>3. parent[current_scope] < current_scope /\ parent[current_scope] \in Nat
    BY <1>0, <1>3, <2>2, Scopes
    DEF KeysInv, TreeInv, TypeOK, TreeIsDocument, ParentsPrecede, Built
  <2> QED BY <1>0, <1>3, <2>3 DEF payload, links, status
<1> QED BY <1>1, <1>2, <1>3 DEF EndContainer

(* What is left of a text stays so while the scopes are closed around it. *)
LEMMA StoppedStays ==
  ASSUME ConvertInv, StoppedAtOdd, UNCHANGED <<json, before, used, parent, key, kind, value>>,
         current_scope' \in Nat, current_scope' <= current_scope
  PROVE  StoppedAtOdd'
<1>1. PICK i \in 1 .. json.size :
         /\ json.kind[i] = "odd" /\ used = before.used + i - 1
         /\ \A j \in 1 .. i - 1 : NodeIsValue(before.used + j, j)
         /\ current_scope <= ScopeFor(json.parent[i])
  BY DEF StoppedAtOdd
<1>2. ASSUME NEW j \in 1 .. i - 1 PROVE NodeIsValue(before.used + j, j)'
  BY <1>1 DEF NodeIsValue, ScopeFor
<1>3. /\ current_scope \in Nat /\ ScopeFor(json.parent[i]) \in Nat
      /\ ScopeFor(json.parent[i])' = ScopeFor(json.parent[i])
  <2>1. json.parent[i] \in Nat
    BY <1>1 DEF ConvertInv, Text, Tree, Size, Up
  <2> QED BY <2>1, WriterNumbers DEF ConvertInv, Answer, ScopeFor
<1>4. current_scope' <= ScopeFor(json.parent[i])'
  BY <1>1, <1>3
<1> QED BY <1>1, <1>2, <1>4 DEF StoppedAtOdd

(* The caller's own calls. *)
LEMMA CallerKeeps == ASSUME ConvertInv, Caller PROVE ConvertInv'
<1>0. /\ KeysInv /\ mode = "writer" /\ step \in {"idle", "returned"}
      /\ UNCHANGED <<mode, json, step, before, frames, held, ok>>
  BY DEF ConvertInv, Caller, convertVars
<1>1. KeysInv'
  BY WriterKept DEF ConvertNext
<1>2. Text(json)' /\ Holding' /\ (step' # "emit")
  BY <1>0 DEF ConvertInv, Holding
<1>3. JsonReleased' /\ ConvertsWhole'
  BY <1>0 DEF ConvertInv, JsonReleased, ConvertsWhole
<1>4. CASE step = "idle"
  BY <1>0, <1>1, <1>2, <1>3, <1>4 DEF ConvertInv, Answer, FailureNeverDelivered
<1>5. CASE step = "returned"
  <2>1. CASE Create
    BY <1>0, <1>5, <2>1 DEF Create, ConvertInv, Answer
  <2>2. CASE Destroy
    BY <1>0, <1>1, <1>2, <1>3, <1>5, <2>2 DEF Destroy, ConvertInv, Answer, FailureNeverDelivered
  <2>3. ASSUME NEW kd \in ContainerKinds, EndContainer(kd) PROVE ConvertInv'
    <3>1. /\ UNCHANGED <<used, phase>> /\ (error_flag' \/ current_scope' <= current_scope)
          /\ UNCHANGED <<parent, key, kind, value>> /\ (error_flag => error_flag')
      BY <1>0, <2>3, EndContainerGoesOut
    <3>2. current_scope \in Nat /\ current_scope' \in Nat /\ before.scope \in Nat
      <4>1. current_scope' \in Nat
        BY <1>1, Scopes DEF KeysInv, TreeInv, TypeOK
      <4> QED BY <1>0, <4>1, WriterNumbers DEF ConvertInv, Answer
    <3>3. FailureNeverDelivered'
      <4> SUFFICES ASSUME ~ok, phase = "live", ~error_flag'
                   PROVE  \/ used' = before.used /\ current_scope' <= before.scope
                          \/ StoppedAtOdd'
        BY <1>0, <3>1 DEF FailureNeverDelivered
      <4>1. \/ used = before.used /\ current_scope <= before.scope
            \/ StoppedAtOdd
        BY <1>5, <3>1 DEF ConvertInv, FailureNeverDelivered
      <4>2. CASE used = before.used /\ current_scope <= before.scope
        BY <3>1, <3>2, <4>2
      <4>3. CASE StoppedAtOdd
        BY <1>0, <3>1, <3>2, <4>3, StoppedStays
      <4> QED BY <4>1, <4>2, <4>3
    <3> QED BY <1>0, <1>1, <1>2, <1>3, <1>5, <3>1, <3>3 DEF ConvertInv, Answer
  <2>4. CASE FinalizeToBuffer
    <3>1. /\ phase = "live"
          /\ UNCHANGED <<used, parent, key, kind, value, current_scope, error_flag, phase>>
      BY <2>4 DEF FinalizeToBuffer, payload, links
    <3>2. current_scope \in Nat /\ current_scope <= current_scope
      BY <1>0, WriterNumbers
    <3>3. StoppedAtOdd => StoppedAtOdd'
      BY <1>0, <3>1, <3>2, StoppedStays
    <3> QED
      BY <1>0, <1>1, <1>2, <1>3, <1>5, <3>1, <3>3 DEF ConvertInv, Answer, FailureNeverDelivered
  <2> QED BY <1>0, <1>5, <2>1, <2>2, <2>3, <2>4 DEF Caller
<1> QED BY <1>0, <1>4, <1>5

(* Until something is emitted the writer is left alone. *)
LEMMA ParsingKeeps ==
  ASSUME ConvertInv, Call \/ NewTokener \/ Parse \/ Check
  PROVE  ConvertInv'
<1>1. KeysInv'
  BY WriterKept DEF ConvertNext
<1>2. /\ used \in Nat /\ current_scope \in Nat
  BY WriterNumbers DEF ConvertInv
<1>3. /\ UNCHANGED <<used, current_scope, error_flag, delivered, mode, json, ok>>
      /\ before'.used \in Nat /\ before'.scope \in Nat
  BY <1>2 DEF Call, NewTokener, Parse, Check, GiveUp, Create, vars, status, ConvertInv, Answer
<1>4. Text(json)'
  BY <1>3 DEF ConvertInv
<1>5. CASE Call
  <2>1. step = "idle" /\ step' = "tokener" /\ UNCHANGED held /\ phase' = "live"
        /\ before' = [used |-> used, scope |-> current_scope]
    BY <1>5 DEF Call, Create, vars, status
  <2> QED
    BY <1>1, <1>3, <1>4, <2>1
    DEF ConvertInv, Holding, Answer, Untouched, ConvertsWhole, FailureNeverDelivered, JsonReleased
<1>6. CASE NewTokener \/ Parse \/ Check
  <2>1. /\ step \in {"tokener", "parse", "check"} /\ UNCHANGED <<before, phase>>
        /\ \/ step' = "finish" /\ held' = {}
           \/ step' = "parse" /\ held' = {"tokener"}
           \/ step' = "check" /\ held' = {"root"}
           \/ step' = "emit" /\ held' = {"root"} /\ frames' = <<[node |-> 0, done |-> 0]>>
    BY <1>6 DEF ConvertInv, Holding, NewTokener, Parse, Check, GiveUp, vars, status
  <2>2. used = before.used /\ current_scope = before.scope
    BY <2>1 DEF ConvertInv, Answer, Untouched
  <2>3. ASSUME frames' = <<[node |-> 0, done |-> 0]>> PROVE Emitting'
    <3>1. /\ Depth(frames') = 1 /\ Node(frames', 1) = 0 /\ Done(frames', 1) = 0
          /\ frames' \in Seq(FrameSet)
      BY <2>3 DEF Depth, Node, Done, FrameSet
    <3>2. Emitted' = 0 /\ before' = before /\ json' = json /\ current_scope' = before.scope
      BY <1>2, <1>3, <2>1, <2>2 DEF Emitted
    <3>3. Tree(json) /\ Size(json) \in Nat
      BY DEF ConvertInv, Text, Tree
    <3>4. OpenFrames(json, frames', 0)
      BY <3>1, <3>3, FirstFrame
    <3>5. OpenFrames(json, frames, Emitted)' /\ Size(json') \in Nat
      BY <3>2, <3>3, <3>4
    <3>6. current_scope' = ScopeFor(Node(frames, Depth(frames)))'
      BY <3>1, <3>2 DEF ScopeFor
    <3> QED BY <3>1, <3>2, <3>5, <3>6 DEF Emitting
  <2> QED
    BY <1>1, <1>3, <1>4, <2>1, <2>2, <2>3
    DEF ConvertInv, Holding, Answer, Untouched, ConvertsWhole, FailureNeverDelivered, JsonReleased
<1> QED BY <1>5, <1>6

(* A call of the writer while the text is emitted; the conversion goes on  *)
(* with other frames, or stops because the writer has failed.              *)
LEMMA EmitKeeps ==
  ASSUME ConvertInv, KeysInv', step = "emit",
         UNCHANGED <<phase, delivered, mode, json, before, ok>>,
         NEW fs, After(fs),
         ~error_flag' /\ frames' = fs => Emitting'
  PROVE  ConvertInv'
<1>0. ~ok /\ (mode = "buffer" => delivered = "nothing")
  BY DEF ConvertInv, Answer
<1>1. CASE error_flag'
  <2>1. step' = "finish" /\ held' = {}
    BY <1>1 DEF After
  <2> QED
    BY <1>0, <1>1, <2>1
    DEF ConvertInv, Holding, Answer, ConvertsWhole, FailureNeverDelivered, JsonReleased
<1>2. CASE ~error_flag'
  <2>1. step' = "emit" /\ frames' = fs /\ held' = held
    BY <1>2 DEF After
  <2> QED
    BY <1>0, <1>2, <2>1
    DEF ConvertInv, Holding, Answer, ConvertsWhole, FailureNeverDelivered, JsonReleased
<1> QED BY <1>1, <1>2

LEMMA EmitLeafKeeps == ASSUME ConvertInv, EmitLeaf PROVE ConvertInv'
<1> DEFINE rk == Within = "block"
           fs == Advance(frames)
<1>1. step = "emit" /\ ~BodyDone /\ After(fs) /\ UNCHANGED <<mode, json, before, ok>>
  BY DEF EmitLeaf
<1>2. KeysInv' /\ KeysInv
  BY WriterKept DEF ConvertNext, ConvertInv
<1>3. PICK kd, v :
         /\ Fits(kd, v, json.kind[Value]) /\ kd \notin ContainerKinds
         /\ json.kind[Value] \notin ContainerKinds
         /\ \/ kd \in PlainKinds /\ AddPlain(KeyArg, kd, rk)
            \/ kd \in NumberKinds /\ AddNumber(KeyArg, kd, v, rk)
            \/ kd = "string" /\ AddString(KeyArg, v, rk)
  <2>1. CASE json.kind[Value] = "null"
    <3>1. AddPlain(KeyArg, "null", rk)
      BY <2>1 DEF EmitLeaf
    <3>2. "null" \in PlainKinds /\ "null" \notin ContainerKinds
      BY CallsAssumption DEF ContainerKinds
    <3>3. Fits("null", "zero", json.kind[Value])
      BY <2>1 DEF Fits
    <3> QED BY <2>1, <3>1, <3>2, <3>3
  <2>2. CASE json.kind[Value] \in {"text", "empty"}
    <3>1. AddString(KeyArg, json.kind[Value], rk)
      BY <2>2 DEF EmitLeaf
    <3>2. "string" \notin ContainerKinds /\ json.kind[Value] \notin ContainerKinds
      BY <2>2 DEF ContainerKinds
    <3>3. Fits("string", json.kind[Value], json.kind[Value])
      BY <2>2 DEF Fits
    <3> QED BY <3>1, <3>2, <3>3
  <2>3. CASE json.kind[Value] \in {"int", "max", "above"}
    <3> DEFINE number == Number(json.kind[Value])
    <3>1. AddNumber(KeyArg, number.kind, number.value, rk)
      BY <2>3 DEF EmitLeaf
    <3>2. number.kind \in NumberKinds
      BY <2>3, CallsAssumption DEF Number
    <3>3. number.kind \notin ContainerKinds /\ json.kind[Value] \notin ContainerKinds
      BY <2>3 DEF Number, ContainerKinds
    <3>4. Fits(number.kind, number.value, json.kind[Value])
      BY <2>3 DEF Fits, Number
    <3> HIDE DEF number
    <3> QED BY <3>1, <3>2, <3>3, <3>4
  <2>4. json.kind[Value] \in {"null", "text", "empty", "int", "max", "above"}
    BY DEF EmitLeaf
  <2> QED BY <2>1, <2>2, <2>3, <2>4
<1>4. UNCHANGED <<phase, delivered>>
  BY <1>3, CallsKeepStatus
<1>5. ASSUME ~error_flag', frames' = fs PROVE Emitting'
  <2>0. /\ Emitting /\ Tree(json) /\ Emitted \in Nat /\ Emitted <= Size(json)
        /\ frames \in Seq(FrameSet) /\ OpenFrames(json, frames, Emitted)
    BY <1>1 DEF ConvertInv, Text, Emitting
  <2>1. /\ Value = Emitted + 1 /\ Emitted + 1 \in 1 .. Size(json) /\ FromText(KeyArg, rk)
        /\ Done(frames, Depth(frames)) # Count(json, Node(frames, Depth(frames)))
    BY <1>1, AtValue
  <2>2. Adds(KeyArg, kd, v, rk) /\ UNCHANGED current_scope
    BY <1>2, <1>3, <1>5, <2>1, LeafAdds
  <2>3. /\ Emitted' = Emitted + 1
        /\ \A i \in 1 .. Emitted + 1 : NodeIsValue(before.used + i, i)'
    BY <1>1, <1>3, <2>2, ValueAdded
  <2>4. fs \in Seq(FrameSet) /\ Advanced(frames, fs)
    <3>1. Len(frames) > 0
      BY <2>0 DEF OpenFrames, Depth
    <3> QED BY <2>0, <3>1, AdvanceAdvances
  <2>5. ~IsContainer(json, Emitted + 1)
    BY <1>3, <2>1 DEF IsContainer
  <2> HIDE DEF fs
  <2>6. OpenFrames(json, fs, Emitted + 1)
    BY <2>0, <2>1, <2>4, <2>5, LeafEmitted
  <2>7. Node(fs, Depth(fs)) = Node(frames, Depth(frames))
    BY <2>0, <2>4, Innermost DEF Advanced
  <2>8. current_scope' = ScopeFor(Node(frames, Depth(frames)))'
    BY <1>1, <1>5, <2>0, <2>2, <2>7 DEF ScopeFor, Emitting
  <2>9. Emitted' \in Nat /\ Emitted' <= Size(json')
    BY <1>1, <2>0, <2>1, <2>3
  <2>10. frames' \in Seq(FrameSet) /\ OpenFrames(json', frames', Emitted')
    BY <1>1, <1>5, <2>3, <2>4, <2>6
  <2>11. \A i \in 1 .. Emitted' : NodeIsValue(before.used + i, i)'
    BY <2>3
  <2> QED BY <1>5, <2>8, <2>9, <2>10, <2>11 DEF Emitting
<1> QED BY <1>1, <1>2, <1>4, <1>5, EmitKeeps

(* A value no emitter knows: nothing more is written. *)
LEMMA CannotEmitKeeps == ASSUME ConvertInv, CannotEmit PROVE ConvertInv'
<1>1. /\ step = "emit" /\ ~BodyDone /\ json.kind[Value] = "odd" /\ step' = "finish" /\ held' = {}
      /\ UNCHANGED <<mode, json, before, ok>>
      /\ UNCHANGED <<used, parent, key, kind, value, current_scope, error_flag, phase, delivered>>
  BY DEF CannotEmit, vars, payload, links, status
<1>2. KeysInv'
  BY WriterKept DEF ConvertNext
<1> DEFINE i == Emitted + 1
<1>3. /\ Value = i /\ i \in 1 .. json.size /\ json.parent[i] = Node(frames, Depth(frames))
      /\ Emitted \in Nat /\ before.used \in Nat /\ used = before.used + Emitted
      /\ \A j \in 1 .. Emitted : NodeIsValue(before.used + j, j)
      /\ current_scope = ScopeFor(json.parent[i]) /\ current_scope \in Nat
  <2>1. Emitting /\ current_scope \in Nat /\ used \in Nat /\ before.used \in Nat
    BY <1>1, WriterNumbers DEF ConvertInv, Answer
  <2>2. Value = i /\ i \in 1 .. Size(json) /\ Up(json, i) = Node(frames, Depth(frames))
    BY <1>1, AtValue
  <2>3. /\ Emitted \in Nat /\ \A j \in 1 .. Emitted : NodeIsValue(before.used + j, j)
        /\ current_scope = ScopeFor(Node(frames, Depth(frames)))
    BY <2>1 DEF Emitting
  <2>4. used = before.used + Emitted
    BY <2>1 DEF Emitted
  <2>5. i \in 1 .. json.size /\ json.parent[i] = Node(frames, Depth(frames))
    BY <2>2 DEF Size, Up
  <2> HIDE DEF i
  <2> QED BY <2>1, <2>2, <2>3, <2>4, <2>5
<1> HIDE DEF i
<1>4. i - 1 = Emitted /\ used = before.used + i - 1
  BY <1>3 DEF i
<1>5. StoppedAtOdd
  <2>1. json.kind[i] = "odd"
    BY <1>1, <1>3
  <2>2. current_scope <= ScopeFor(json.parent[i])
    BY <1>3
  <2> QED BY <1>3, <1>4, <2>1, <2>2 DEF StoppedAtOdd
<1>6. StoppedAtOdd'
  BY <1>1, <1>3, <1>5, StoppedStays
<1> QED
  BY <1>1, <1>2, <1>6
  DEF ConvertInv, Holding, Answer, ConvertsWhole, FailureNeverDelivered, JsonReleased

LEMMA EmitContainerKeeps == ASSUME ConvertInv, EmitContainer PROVE ConvertInv'
<1> DEFINE rk == Within = "block"
           kd == json.kind[Value]
           r == [node |-> Value, done |-> 0]
           fs == Append(frames, r)
<1>1. /\ step = "emit" /\ ~BodyDone /\ kd \in ContainerKinds /\ BeginContainer(KeyArg, kd)
      /\ After(fs) /\ UNCHANGED <<mode, json, before, ok>>
  BY DEF EmitContainer
<1>2. KeysInv' /\ KeysInv
  BY WriterKept DEF ConvertNext, ConvertInv
<1>3. UNCHANGED <<phase, delivered>>
  BY <1>1, CallsKeepStatus
<1>4. ASSUME ~error_flag', frames' = fs PROVE Emitting'
  <2>0. /\ Emitting /\ Tree(json) /\ Emitted \in Nat /\ Emitted <= Size(json)
        /\ frames \in Seq(FrameSet) /\ OpenFrames(json, frames, Emitted)
    BY <1>1 DEF ConvertInv, Text, Emitting
  <2>1. /\ Value = Emitted + 1 /\ Emitted + 1 \in 1 .. Size(json) /\ FromText(KeyArg, rk)
        /\ Done(frames, Depth(frames)) # Count(json, Node(frames, Depth(frames)))
    BY <1>1, AtValue
  <2>2. Adds(KeyArg, kd, "zero", rk) /\ current_scope' = used + 1
    <3> HIDE DEF kd
    <3> QED BY <1>1, <1>2, <1>4, <2>1, ContainerAdds
  <2>3. /\ Emitted' = Emitted + 1
        /\ \A i \in 1 .. Emitted + 1 : NodeIsValue(before.used + i, i)'
    <3>1. Fits(kd, "zero", json.kind[Value])
      BY <1>1 DEF Fits, ContainerKinds
    <3> HIDE DEF kd
    <3> QED BY <1>1, <2>2, <3>1, ValueAdded
  <2>4. r \in FrameSet /\ r.node = Emitted + 1 /\ r.done = 0
    BY <2>0, <2>1 DEF FrameSet
  <2> HIDE DEF r
  <2>5. /\ fs \in Seq(FrameSet) /\ Len(fs) = Len(frames) + 1
        /\ fs[Len(frames) + 1] = r /\ \A k \in 1 .. Len(frames) : fs[k] = frames[k]
    BY <2>0, <2>4, Push
  <2> HIDE DEF fs
  <2>6. /\ Depth(fs) = Depth(frames) + 1
        /\ \A k \in 1 .. Depth(frames) : Node(fs, k) = Node(frames, k) /\ Done(fs, k) = Done(frames, k)
        /\ Node(fs, Depth(frames) + 1) = Emitted + 1 /\ Done(fs, Depth(frames) + 1) = 0
    BY <2>4, <2>5, Zenon DEF Depth, Node, Done
  <2>7. IsContainer(json, Emitted + 1)
    BY <1>1, <2>1 DEF IsContainer
  <2>8. OpenFrames(json, fs, Emitted + 1)
    BY <2>0, <2>1, <2>6, <2>7, ContainerOpened
  <2>9. current_scope' = ScopeFor(Node(frames, Depth(frames)))'
    <3>1. Node(fs, Depth(fs)) = Emitted + 1 /\ Emitted + 1 # 0
      BY <2>0, <2>6
    <3>2. used + 1 = before.used + (Emitted + 1)
      BY <1>2, WriterNumbers DEF Emitted, ConvertInv, Answer
    <3> QED BY <1>1, <1>4, <2>2, <3>1, <3>2 DEF ScopeFor
  <2>10. Emitted' \in Nat /\ Emitted' <= Size(json')
    BY <1>1, <2>0, <2>1, <2>3
  <2>11. frames' \in Seq(FrameSet) /\ OpenFrames(json', frames', Emitted')
    BY <1>1, <1>4, <2>3, <2>5, <2>8
  <2>12. \A i \in 1 .. Emitted' : NodeIsValue(before.used + i, i)'
    BY <2>3
  <2> QED BY <1>4, <2>9, <2>10, <2>11, <2>12 DEF Emitting
<1> QED BY <1>1, <1>2, <1>3, <1>4, EmitKeeps

LEMMA EndBodyKeeps == ASSUME ConvertInv, EndBody PROVE ConvertInv'
<1> DEFINE L == Depth(frames)
           p == Node(frames, L)
           ms == SubSeq(frames, 1, Len(frames) - 1)
           fs == Advance(ms)
<1>1. /\ step = "emit" /\ BodyDone /\ Frame.node # 0 /\ EndContainer(Within)
      /\ After(fs) /\ UNCHANGED <<mode, json, before, ok>>
  BY DEF EndBody
<1>2. KeysInv' /\ KeysInv
  BY WriterKept DEF ConvertNext, ConvertInv
<1>3. UNCHANGED <<phase, delivered>>
  BY <1>1, CallsKeepStatus
<1>4. ASSUME ~error_flag', frames' = fs PROVE Emitting'
  <2>0. /\ Emitting /\ Tree(json) /\ Emitted \in Nat /\ Emitted <= Size(json)
        /\ frames \in Seq(FrameSet) /\ OpenFrames(json, frames, Emitted)
        /\ current_scope = ScopeFor(p) /\ before.used \in Nat
    BY <1>1 DEF ConvertInv, Text, Emitting, Answer
  <2>1. p # 0 /\ Done(frames, L) = Count(json, p) /\ Within = json.kind[p]
    BY <1>1 DEF BodyDone, Frame, Within, Node, Done, Depth, Count
  <2>2. /\ L \in Nat /\ L > 0 /\ Node(frames, 1) = 0 /\ p \in 1 .. Emitted
        /\ L > 1 /\ Up(json, p) = Node(frames, L - 1)
    <3>1. L \in Nat /\ L > 0 /\ Node(frames, 1) = 0 /\ p \in 1 .. Emitted
      BY <2>0, <2>1, Innermost DEF OpenFrames
    <3>2. L > 1
      BY <2>1, <3>1
    <3>3. L \in 2 .. L
      BY <3>1, <3>2
    <3> QED BY <2>0, <3>1, <3>2, <3>3 DEF OpenFrames
  <2>3. /\ L - 1 \in Nat /\ L - 1 > 0 /\ L - 1 \in 1 .. L - 1
    BY <2>2
  <2>4. /\ ms \in Seq(FrameSet) /\ Len(ms) = Len(frames) - 1
        /\ \A k \in 1 .. Len(frames) - 1 : ms[k] = frames[k]
    BY <2>0, <2>2, Pop, Zenon DEF Depth
  <2> HIDE DEF ms
  <2>5. fs \in Seq(FrameSet) /\ Advanced(ms, fs)
    BY <2>3, <2>4, AdvanceAdvances DEF Depth
  <2> HIDE DEF fs
  <2>6. /\ Depth(ms) = L - 1
        /\ \A k \in 1 .. L - 1 : Node(ms, k) = Node(frames, k) /\ Done(ms, k) = Done(frames, k)
    BY <2>4, Zenon DEF Depth, Node, Done
  <2>7. /\ Depth(fs) = L - 1
        /\ \A k \in 1 .. L - 1 :
              /\ Node(fs, k) = Node(frames, k)
              /\ Done(fs, k) = IF k = L - 1 THEN Done(frames, k) + 1 ELSE Done(frames, k)
    BY <2>5, <2>6 DEF Advanced
  <2>8. OpenFrames(json, fs, Emitted)
    BY <2>0, <2>1, <2>7, ContainerClosed
  <2>9. NodeIsValue(before.used + p, p) /\ current_scope = before.used + p
    BY <2>0, <2>1, <2>2 DEF Emitting, ScopeFor
  <2>10. parent[current_scope] = ScopeFor(Node(frames, L - 1))
    BY <2>2, <2>9 DEF NodeIsValue, ScopeFor, Up
  <2>11. current_scope' = parent[current_scope] /\ UNCHANGED <<used, payload, links>>
    BY <1>1, <1>4 DEF EndContainer, Refused, Fail, vars
  <2>12. current_scope' = ScopeFor(Node(frames, Depth(frames)))'
    <3>1. Node(fs, Depth(fs)) = Node(frames, L - 1)
      BY <2>3, <2>7
    <3> QED BY <1>1, <1>4, <2>10, <2>11, <3>1 DEF ScopeFor
  <2>13. Emitted' = Emitted
    BY <1>1, <2>11 DEF Emitted
  <2>14. ASSUME NEW i \in 1 .. Emitted PROVE NodeIsValue(before.used + i, i)'
    <3>1. NodeIsValue(before.used + i, i)
      BY <2>0 DEF Emitting
    <3>2. UNCHANGED <<parent, key, kind, value, json, before>>
      BY <1>1, <2>11 DEF payload, links
    <3> QED BY <3>1, <3>2 DEF NodeIsValue, ScopeFor
  <2>15. frames' \in Seq(FrameSet) /\ OpenFrames(json', frames', Emitted')
    BY <1>1, <1>4, <2>5, <2>8, <2>13
  <2>16. Emitted' \in Nat /\ Emitted' <= Size(json') /\ \A i \in 1 .. Emitted' : NodeIsValue(before.used + i, i)'
    BY <1>1, <2>0, <2>13, <2>14
  <2> QED BY <1>4, <2>12, <2>15, <2>16 DEF Emitting
<1> QED BY <1>1, <1>2, <1>3, <1>4, EmitKeeps

(* The whole text has been emitted. *)
LEMMA EndRootKeeps == ASSUME ConvertInv, EndRoot PROVE ConvertInv'
<1>1. /\ step = "emit" /\ BodyDone /\ Frame.node = 0 /\ step' = "finish" /\ held' = {} /\ ok' = TRUE
      /\ UNCHANGED <<vars, mode, json, before>>
  BY DEF EndRoot
<1>2. UNCHANGED <<used, kind, key, value, parent, current_scope, error_flag, phase, delivered>>
  BY <1>1 DEF vars, payload, links, status
<1>3. KeysInv'
  BY WriterKept DEF ConvertNext
<1>4. /\ Emitting /\ Tree(json) /\ Emitted \in Nat /\ Emitted <= Size(json)
      /\ OpenFrames(json, frames, Emitted) /\ before.used \in Nat /\ used \in Nat
  BY <1>1, WriterNumbers DEF ConvertInv, Text, Emitting, Answer
<1>5. Node(frames, Depth(frames)) = 0 /\ Done(frames, Depth(frames)) = Count(json, 0)
  BY <1>1 DEF BodyDone, Frame, Node, Done, Depth, Count
<1>6. Emitted = Size(json)
  BY <1>4, <1>5, AllDone
<1>7. used = before.used + json.size /\ current_scope = before.scope /\ (json.size > 0 => ~error_flag)
  BY <1>4, <1>5, <1>6 DEF Emitted, Size, Emitting, ScopeFor
<1>8. \A i \in 1 .. json.size : NodeIsValue(before.used + i, i)
  BY <1>4, <1>6 DEF Emitting, Size
<1>9. \A i \in 1 .. json.size : NodeIsValue(before.used + i, i)'
  BY <1>1, <1>2, <1>8 DEF NodeIsValue, ScopeFor
<1>10. ConvertsWhole'
  BY <1>1, <1>2, <1>7, <1>9 DEF ConvertsWhole
<1> QED
  BY <1>1, <1>2, <1>3, <1>10 DEF ConvertInv, Holding, Answer, FailureNeverDelivered, JsonReleased

(* The end of the call. *)
LEMMA ReturnKeeps == ASSUME ConvertInv, Return \/ Finalize \/ DestroyWriter PROVE ConvertInv'
<1>1. KeysInv'
  BY WriterKept DEF ConvertNext
<1>2. CASE Return
  <2>1. /\ step = "finish" /\ mode = "writer" /\ step' = "returned"
        /\ UNCHANGED <<mode, json, before, held, ok>>
        /\ UNCHANGED <<used, parent, key, kind, value, current_scope, error_flag, phase, delivered>>
    BY <1>2 DEF Return, vars, payload, links, status
  <2>2. current_scope \in Nat
    BY WriterNumbers DEF ConvertInv
  <2>3. StoppedAtOdd => StoppedAtOdd'
    BY <2>1, <2>2, StoppedStays
  <2>4. FailureNeverDelivered'
    BY <2>1, <2>2, <2>3 DEF ConvertInv, Answer, Untouched, FailureNeverDelivered
  <2> QED
    BY <1>1, <2>1, <2>4 DEF ConvertInv, Holding, Answer, ConvertsWhole, JsonReleased
<1>3. CASE Finalize
  <2>1. /\ step = "finish" /\ mode = "buffer" /\ ok /\ step' = "destroy"
        /\ ok' = (delivered' = "document")
        /\ UNCHANGED <<mode, json, before, held>>
        /\ UNCHANGED <<used, kind, key, value, parent, current_scope, error_flag, phase>>
    BY <1>3 DEF Finalize, FinalizeToBuffer, payload, links
  <2>2. /\ used = before.used + json.size /\ current_scope = before.scope
        /\ \A i \in 1 .. json.size : NodeIsValue(before.used + i, i)
        /\ json.size > 0 => ~error_flag
    BY <2>1 DEF ConvertInv, ConvertsWhole
  <2>3. \A i \in 1 .. json.size : NodeIsValue(before.used + i, i)'
    BY <2>1, <2>2 DEF NodeIsValue, ScopeFor
  <2>4. ConvertsWhole'
    BY <2>1, <2>2, <2>3 DEF ConvertsWhole
  <2> QED
    BY <1>1, <2>1, <2>4 DEF ConvertInv, Holding, Answer, FailureNeverDelivered, JsonReleased
<1>4. CASE DestroyWriter
  <2>1. /\ mode = "buffer" /\ step \in {"destroy", "finish"} /\ step' = "returned"
        /\ phase' = "gone" /\ delivered' = "nothing"
        /\ UNCHANGED <<mode, json, before, held, ok>>
    BY <1>4 DEF DestroyWriter, Destroy
  <2> QED
    BY <1>1, <2>1
    DEF ConvertInv, Holding, Answer, ConvertsWhole, FailureNeverDelivered, JsonReleased
<1> QED BY <1>2, <1>3, <1>4

(* Nothing changes. *)
LEMMA ConvertStutters ==
  ASSUME ConvertInv, UNCHANGED <<vars, convertVars>>
  PROVE  ConvertInv'
<1>1. /\ UNCHANGED <<used, kind, key, value, parent, current_scope, error_flag, phase, delivered>>
      /\ UNCHANGED <<mode, json, step, before, frames, held, ok>>
  BY DEF vars, payload, links, status, convertVars
<1>2. KeysInv'
  BY NextKeysInv DEF ConvertInv
<1>3. \A n, i : NodeIsValue(n, i)' <=> NodeIsValue(n, i)
  BY <1>1 DEF NodeIsValue, ScopeFor
<1>4. Emitted' = Emitted /\ (Emitting' <=> Emitting)
  <2>1. Emitted' = Emitted
    BY <1>1 DEF Emitted
  <2> QED BY <1>1, <1>3, <2>1 DEF Emitting, ScopeFor
<1>5. ConvertsWhole'
  <2>1. ConvertsWhole
    BY DEF ConvertInv
  <2> QED BY <1>1, <1>3, <2>1 DEF ConvertsWhole
<1>6. StoppedAtOdd => StoppedAtOdd'
  <2>1. current_scope \in Nat /\ current_scope <= current_scope
    BY WriterNumbers DEF ConvertInv
  <2> QED BY <1>1, <2>1, StoppedStays
<1> QED
  BY <1>1, <1>2, <1>4, <1>5, <1>6
  DEF ConvertInv, Holding, Answer, Untouched, FailureNeverDelivered, JsonReleased

LEMMA NextConvertInv == ConvertInv /\ [ConvertNext]_<<vars, convertVars>> => ConvertInv'
<1> SUFFICES ASSUME ConvertInv, [ConvertNext]_<<vars, convertVars>> PROVE ConvertInv'
  OBVIOUS
<1>1. CASE UNCHANGED <<vars, convertVars>>
  BY <1>1, ConvertStutters
<1>2. CASE ConvertNext
  BY <1>2, CallerKeeps, ParsingKeeps, EmitLeafKeeps, CannotEmitKeeps, EmitContainerKeeps, EndBodyKeeps,
     EndRootKeeps, ReturnKeeps DEF ConvertNext
<1> QED BY <1>1, <1>2

-----------------------------------------------------------------------------
(* The texts json-c can hand over                                          *)

LEMMA JsonIsText == ASSUME NEW t \in JsonTrees PROVE Text(t)
<1>1. PICK n \in 0 .. JsonSize : \E f \in Forests(n) :
         \E k \in Labels(f, n, JsonKinds, {"block", "array"}) :
         \E g \in [KeyedNodes(f, n, k) -> Keys \cup {"empty"}] :
            t = [size |-> n, kind |-> k, parent |-> f, children |-> ChildLists(f, n), key |-> g]
  BY DEF JsonTrees
<1>2. PICK f \in Forests(n) :
         \E k \in Labels(f, n, JsonKinds, {"block", "array"}) :
         \E g \in [KeyedNodes(f, n, k) -> Keys \cup {"empty"}] :
            t = [size |-> n, kind |-> k, parent |-> f, children |-> ChildLists(f, n), key |-> g]
  BY <1>1
<1>3. PICK k \in Labels(f, n, JsonKinds, {"block", "array"}) :
         \E g \in [KeyedNodes(f, n, k) -> Keys \cup {"empty"}] :
            t = [size |-> n, kind |-> k, parent |-> f, children |-> ChildLists(f, n), key |-> g]
  BY <1>2
<1>4. PICK g \in [KeyedNodes(f, n, k) -> Keys \cup {"empty"}] :
         t = [size |-> n, kind |-> k, parent |-> f, children |-> ChildLists(f, n), key |-> g]
  BY <1>3
<1> DEFINE c == ChildLists(f, n)
<1>5. t.size = n /\ t.kind = k /\ t.parent = f /\ t.children = c /\ t.key = g
  BY <1>4, Zenon
<1>6. n \in Nat
  BY ConvertAssumption
<1>7. /\ \A i \in 1 .. n : f[i] \in 0 .. n /\ f[i] < i
      /\ \A i, x \in 1 .. n : f[i] < x /\ x < i => f[x] >= f[i]
  <2>1. f \in [1 .. n -> 0 .. n - 1] /\ \A i \in 1 .. n :
            f[i] < i /\ \A x \in 1 .. n : f[i] < x /\ x < i => f[x] >= f[i]
    BY <1>2, Zenon DEF Forests
  <2>2. \A i \in 1 .. n : f[i] \in 0 .. n - 1
    BY <2>1, Zenon
  <2>3. 0 .. n - 1 \subseteq 0 .. n
    BY <1>6
  <2> QED BY <2>1, <2>2, <2>3, Zenon
<1>8. /\ \A i \in 1 .. n : k[i] \in JsonKinds
      /\ \A i \in 1 .. n : f[i] # 0 => k[f[i]] \in ContainerKinds
  BY <1>3, Zenon DEF Labels, ContainerKinds
<1>9. /\ DOMAIN g = {i \in 1 .. n : f[i] = 0 \/ k[f[i]] = "block"}
      /\ \A i \in DOMAIN g : g[i] \in Keys \cup {"empty"}
  BY <1>4, Zenon DEF KeyedNodes
<1>10. Listed(f, n, n, c)
  <2>1. Parents(f, n)
    BY <1>7 DEF Parents
  <2> QED BY <1>6, <2>1, ChildrenListed
<1> HIDE DEF c
<1>11. /\ Size(t) = n /\ \A i : Up(t, i) = f[i] /\ (IsContainer(t, i) <=> k[i] \in ContainerKinds)
       /\ \A p : Kids(t, p) = c[p] /\ Count(t, p) = Len(c[p])
  BY <1>5, Zenon DEF Size, Up, Kids, Count, IsContainer
<1>12. /\ \A p \in 0 .. n : Len(c[p]) \in Nat
       /\ \A p \in 0 .. n : \A j \in 1 .. Len(c[p]) : c[p][j] \in 1 .. n /\ f[c[p][j]] = p
       /\ \A p \in 0 .. n : \A j, m \in 1 .. Len(c[p]) : j < m => c[p][j] < c[p][m]
       /\ \A i \in 1 .. n : \E j \in 1 .. Len(c[f[i]]) : c[f[i]][j] = i
  <2>1. \A p \in 0 .. n : Ascends(c[p])
    BY <1>10 DEF Listed
  <2>2. \A p \in 0 .. n : Len(c[p]) \in Nat
    BY <2>1 DEF Ascends
  <2> QED BY <1>10, <2>1, <2>2, Zenon DEF Listed, Ascends
<1>13. Tree(t)
  <2>1. /\ Size(t) \in Nat
        /\ \A i \in 1 .. Size(t) : Up(t, i) \in 0 .. Size(t) /\ Up(t, i) < i
        /\ \A i, x \in 1 .. Size(t) : Up(t, i) < x /\ x < i => Up(t, x) >= Up(t, i)
        /\ \A i \in 1 .. Size(t) : Up(t, i) # 0 => IsContainer(t, Up(t, i))
    BY <1>6, <1>7, <1>8, <1>11
  <2>2. ASSUME NEW p \in 0 .. Size(t)
        PROVE  /\ Count(t, p) \in Nat
               /\ \A j \in 1 .. Count(t, p) :
                     Kids(t, p)[j] \in 1 .. Size(t) /\ Up(t, Kids(t, p)[j]) = p
               /\ \A j, m \in 1 .. Count(t, p) : j < m => Kids(t, p)[j] < Kids(t, p)[m]
    <3>1. p \in 0 .. n /\ Kids(t, p) = c[p] /\ Count(t, p) = Len(c[p]) /\ Size(t) = n
      BY <1>11
    <3>2. \A j \in 1 .. Len(c[p]) : c[p][j] \in 1 .. n /\ Up(t, c[p][j]) = p
      <4>1. \A j \in 1 .. Len(c[p]) : c[p][j] \in 1 .. n /\ f[c[p][j]] = p
        BY <1>12, <3>1, Zenon
      <4>2. \A i : Up(t, i) = f[i]
        BY <1>11, Zenon
      <4> QED BY <4>1, <4>2
    <3>3. Len(c[p]) \in Nat /\ \A j, m \in 1 .. Len(c[p]) : j < m => c[p][j] < c[p][m]
      BY <1>12, <3>1
    <3> QED BY <3>1, <3>2, <3>3
  <2>3. ASSUME NEW i \in 1 .. Size(t)
        PROVE  \E j \in 1 .. Count(t, Up(t, i)) : Kids(t, Up(t, i))[j] = i
    <3>1. i \in 1 .. n /\ Up(t, i) = f[i] /\ Kids(t, f[i]) = c[f[i]] /\ Count(t, f[i]) = Len(c[f[i]])
      BY <1>11
    <3>2. \E j \in 1 .. Len(c[f[i]]) : c[f[i]][j] = i
      BY <1>12, <3>1, Zenon
    <3> QED BY <3>1, <3>2
  <2> QED BY <2>1, <2>2, <2>3, Zenon DEF Tree
<1>14. /\ \A i \in 1 .. Size(t) : t.kind[i] \in JsonKinds
       /\ \A i \in 1 .. Size(t) : i \in DOMAIN t.key <=> (Up(t, i) = 0 \/ t.kind[Up(t, i)] = "block")
       /\ \A i \in DOMAIN t.key : t.key[i] \in Keys \cup {"empty"}
  <2>1. \A i \in 1 .. n : i \in DOMAIN g <=> (f[i] = 0 \/ k[f[i]] = "block")
    BY <1>9
  <2> QED BY <1>5, <1>8, <1>9, <1>11, <2>1
<1> QED BY <1>13, <1>14 DEF Text

LEMMA InitConvertInv == ConvertInit => ConvertInv
<1> SUFFICES ASSUME ConvertInit PROVE ConvertInv
  OBVIOUS
<1>1. KeysInv
  BY InitKeysInv DEF ConvertInit
<1>2. Text(json)
  BY JsonIsText DEF ConvertInit
<1>3. /\ mode \in {"writer", "buffer"} /\ step = "idle" /\ held = {} /\ ok \in BOOLEAN /\ ~ok
      /\ before.used = 0 /\ before.scope = 0 /\ delivered = "nothing"
  BY DEF ConvertInit, Init
<1>4. ConvertsWhole /\ FailureNeverDelivered /\ JsonReleased /\ Holding
  BY <1>3 DEF ConvertsWhole, FailureNeverDelivered, JsonReleased, Holding
<1>5. Answer
  BY <1>3 DEF Answer
<1> QED BY <1>1, <1>2, <1>3, <1>4, <1>5 DEF ConvertInv

LEMMA ConvertInvariant == ConvertSpec => []ConvertInv
  BY InitConvertInv, NextConvertInv, PTL DEF ConvertSpec

-----------------------------------------------------------------------------
(* The conversion uses the writer through its calls alone: every behaviour *)
(* of json_to_writer and json_buffer_to_hrbl, with the caller's own calls  *)
(* around it, is a behaviour of the writer, so that what is proved of the  *)
(* writer holds here too.                                                  *)
THEOREM ConversionUsesWriter == ConvertSpec => Spec
<1>1. ConvertInit => Init
  BY DEF ConvertInit
<1>2. ConvertInv /\ [ConvertNext]_<<vars, convertVars>> => [Next]_vars
  <2> SUFFICES ASSUME ConvertInv, [ConvertNext]_<<vars, convertVars>> PROVE [Next]_vars
    OBVIOUS
  <2>1. CASE UNCHANGED <<vars, convertVars>>
    BY <2>1
  <2> QED BY <2>1, WriterSteps
<1> QED BY <1>1, <1>2, ConvertInvariant, PTL DEF ConvertSpec, Spec

(* A conversion that answers true has added the whole JSON text to the     *)
(* writer, value for value, and left it in the scope it found; a buffer is *)
(* only handed over for the whole text.                                    *)
THEOREM ConvertsWholeText == ConvertSpec => []ConvertsWhole
<1>1. ConvertInv => ConvertsWhole
  BY DEF ConvertInv
<1> QED BY <1>1, ConvertInvariant, PTL

(* A conversion that answers false leaves the tree of the writer alone, or *)
(* a writer that has failed for good, or, where json-c came up with a      *)
(* value the emitters refuse, just what precedes it in the text, whatever  *)
(* the caller closes and finalizes afterwards.                             *)
THEOREM FailureKeptBack == ConvertSpec => []FailureNeverDelivered
<1>1. ConvertInv => FailureNeverDelivered
  BY DEF ConvertInv
<1> QED BY <1>1, ConvertInvariant, PTL

(* On every way out the tokener and the tree of json-c are released, and   *)
(* with them the writer that json_buffer_to_hrbl has made.                 *)
THEOREM JsonAlwaysReleased == ConvertSpec => []JsonReleased
<1>1. ConvertInv => JsonReleased
  BY DEF ConvertInv
<1> QED BY <1>1, ConvertInvariant, PTL
=============================================================================
