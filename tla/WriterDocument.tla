--------------------------- MODULE WriterDocument ---------------------------
(***************************************************************************)
(* The writer implements the abstract document: following first_child and  *)
(* next_sibling yields the children of every scope, following parent from  *)
(* current_scope yields the stack of open containers.                      *)
(***************************************************************************)
EXTENDS Writer, Sequences

\* The list that starts at node n; links only lead to later nodes.
ListFrom[n \in ScopeId] ==
    IF n = None THEN <<>> ELSE <<n>> \o ListFrom[next_sibling[n]]

\* The containers from the outermost one down to s.
PathTo[s \in ScopeId] ==
    IF s = Root THEN <<>> ELSE Append(PathTo[parent[s]], s)

Contents == [kind : Kinds, key : StoredKeys, value : StoredValues]
OpensScope(c) == c.kind \in ContainerKinds

\* A failed writer promises nothing about its tree.
DocContent ==
    IF error_flag
      THEN <<>>
      ELSE [n \in Built |-> [kind |-> kind[n], key |-> key[n], value |-> value[n]]]
DocChildren ==
    [s \in ScopeId |-> IF error_flag THEN <<>> ELSE ListFrom[first_child[s]]]
DocStack == IF error_flag THEN <<>> ELSE PathTo[current_scope]

Doc == INSTANCE Document WITH
    Item <- NodeId,
    Scope <- ScopeId,
    Content <- Contents,
    Container <- OpensScope,
    failed <- error_flag,
    content <- DocContent,
    children <- DocChildren,
    stack <- DocStack

(* Every call of the writer is a step of the abstract document: a call     *)
(* that returns true places one item at the end of the innermost open      *)
(* container, or opens or closes one; a call that fails voids the          *)
(* document; finalize hands it over only when nothing is open.             *)
ImplementsDocument == Doc!Spec
=============================================================================
