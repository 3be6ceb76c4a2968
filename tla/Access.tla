------------------------------- MODULE Access -------------------------------
(***************************************************************************)
(* The calls of a program that walks an open reader                        *)
(* (src/src/reader/bc_hrbl_reader.c): find, value_kind, the getters,       *)
(* iter_block, iter_array and iter_next, in any order.  The program keeps  *)
(* one value reference, which every call that gives one writes over, the   *)
(* reference it is itself iterating included, and several iterators.       *)
(*                                                                         *)
(* bc_hrbl_verify does not look at nodes: one may have a kind that cannot  *)
(* be read ("corrupt"), or be a block whose body does not fit ("torn").    *)
(***************************************************************************)
EXTENDS Trees

CONSTANTS
    MaxNodes,  \* bound: nodes of a document
    Kinds,     \* kinds of nodes in the documents considered
    Iters      \* the program's iterators

VARIABLES
    doc,      \* [kind, children], children in the order of the image
    value,    \* bc_hrbl_value_ref_t: [node, kind], node 0 when zeroed
    iter,     \* bc_hrbl_iter_t: container 0 when zeroed, next child, remaining, is_block
    answer,   \* what the last call returned: [call, ok]
    got,      \* node whose contents the getters' output holds, 0 when it is zeroed
    yielded   \* history: what each iterator has given

vars == <<doc, value, iter, answer, got, yielded>>

NoValue == [node |-> 0, kind |-> "null"]
NoIter == [container |-> 0, next |-> 0, remaining |-> 0, is_block |-> FALSE]

Documents ==
    UNION {UNION {
        {[kind |-> kind, children |-> ChildLists(parent, n)] :
            kind \in Labels(parent, n, Kinds, {"block", "array"})} :
        parent \in Forests(n)} :
        n \in 0 .. MaxNodes}

Init ==
    /\ doc \in Documents
    /\ value = NoValue
    /\ iter = [i \in Iters |-> NoIter]
    /\ answer = [call |-> "none", ok |-> TRUE]
    /\ got = 0
    /\ yielded = [i \in Iters |-> <<>>]

Nodes == DOMAIN doc.kind

-----------------------------------------------------------------------------
\* kind_at: what the first byte of a node says.
KindReadable(n) == doc.kind[n] # "corrupt"
KindAt(n) == IF doc.kind[n] = "torn" THEN "block" ELSE doc.kind[n]

\* block_body_offsets and array_body_offsets
BodyFits(n) == doc.kind[n] # "torn"

Answer(c, r) == answer' = [call |-> c, ok |-> r]

\* The path leads to a node (Path), or to none.
Find ==
    /\ \E n \in Nodes \cup {0} :
          LET found == n # 0 /\ KindReadable(n)
          IN  /\ value' = IF found THEN [node |-> n, kind |-> KindAt(n)] ELSE NoValue
              /\ Answer("find", found)
    /\ UNCHANGED <<doc, iter, got, yielded>>

\* A getter reads the kind from the image once more.  On another kind it leaves
\* the output alone, on a zeroed reference it clears it.
Get(kind) ==
    /\ IF value.node = 0
         THEN got' = 0 /\ Answer("get", FALSE)
         ELSE LET right == KindAt(value.node) = kind
              IN  /\ got' = IF right THEN value.node ELSE got
                  /\ Answer("get", right)
    /\ UNCHANGED <<doc, value, iter, yielded>>

\* iter_block and iter_array
IterStart(i, kind) ==
    /\ LET right == value.node # 0 /\ value.kind = kind /\ BodyFits(value.node)
           count == Len(doc.children[value.node])
       IN  /\ iter' = [iter EXCEPT ![i] =
                          IF right THEN [container |-> value.node, next |-> 1, remaining |-> count,
                                         is_block |-> kind = "block"]
                          ELSE NoIter]
           /\ Answer("iter", right)
    /\ yielded' = [yielded EXCEPT ![i] = <<>>]
    /\ UNCHANGED <<doc, value, got>>

\* Mutant: an unreadable child is skipped.
IterNextSkips(i) ==
    /\ LET it == iter[i]
           child == doc.children[it.container][it.next]
       IN  IF it.container # 0 /\ it.remaining # 0
           THEN /\ iter' = [iter EXCEPT ![i].next = @ + 1, ![i].remaining = @ - 1]
                /\ IF KindReadable(child)
                     THEN /\ value' = [node |-> child, kind |-> KindAt(child)]
                          /\ yielded' = [yielded EXCEPT ![i] = Append(@, child)]
                          /\ Answer("next", TRUE)
                     ELSE value' = NoValue /\ Answer("next", FALSE) /\ UNCHANGED yielded
           ELSE value' = NoValue /\ Answer("next", FALSE) /\ UNCHANGED <<iter, yielded>>
    /\ UNCHANGED <<doc, got>>

\* Mutant: the kind of the container is put into the reference.
IterNextContainersKind(i) ==
    /\ LET it == iter[i]
           child == doc.children[it.container][it.next]
       IN  IF it.container # 0 /\ it.remaining # 0 /\ KindReadable(child)
           THEN /\ value' = [node |-> child, kind |-> KindAt(it.container)]
                /\ iter' = [iter EXCEPT ![i].next = @ + 1, ![i].remaining = @ - 1]
                /\ yielded' = [yielded EXCEPT ![i] = Append(@, child)]
                /\ Answer("next", TRUE)
           ELSE value' = NoValue /\ Answer("next", FALSE) /\ UNCHANGED <<iter, yielded>>
    /\ UNCHANGED <<doc, got>>

\* bc_hrbl_iter_next: a child that cannot be read leaves the iterator before it.
IterNext(i) ==
    /\ LET it == iter[i]
           child == doc.children[it.container][it.next]
       IN  IF it.container # 0 /\ it.remaining # 0 /\ KindReadable(child)
           THEN /\ value' = [node |-> child, kind |-> KindAt(child)]
                /\ iter' = [iter EXCEPT ![i].next = @ + 1, ![i].remaining = @ - 1]
                /\ yielded' = [yielded EXCEPT ![i] = Append(@, child)]
                /\ Answer("next", TRUE)
           ELSE value' = NoValue /\ Answer("next", FALSE) /\ UNCHANGED <<iter, yielded>>
    /\ UNCHANGED <<doc, got>>

Next ==
    \/ Find
    \/ \E kind \in {"bool", "int64", "string"} : Get(kind)
    \/ \E i \in Iters :
          \/ \E kind \in {"block", "array"} : IterStart(i, kind)
          \/ IterNext(i)

Spec == Init /\ [][Next]_vars

-----------------------------------------------------------------------------
(* Properties                                                              *)

(* A reference that is not zeroed names a node of the document, and the    *)
(* kind kept in it is the node's, whichever call wrote it last; a getter   *)
(* that succeeds has given the contents of that node.                      *)
RefSound ==
    /\ value.node # 0 =>
           value.node \in Nodes /\ KindReadable(value.node) /\ value.kind = KindAt(value.node)
    /\ answer = [call |-> "get", ok |-> TRUE] => got = value.node

(* However the calls are mixed, and though the reference an iteration was  *)
(* started from is written over by it, an iterator gives the children of   *)
(* its container in the order of the image, each once; when none remain it *)
(* has given all, and it stops for good before a child it cannot read.     *)
IterationFaithful ==
    \A i \in Iters :
        iter[i].container # 0 =>
            LET children == doc.children[iter[i].container]
            IN  /\ yielded[i] = SubSeq(children, 1, Len(yielded[i]))
                /\ Len(yielded[i]) + iter[i].remaining = Len(children)

(* No call that fails leaves behind a reference to what an earlier call    *)
(* found: a loop that forgets to look at the result meets a zeroed value.  *)
NoStaleRef == ~answer.ok /\ answer.call \in {"find", "next"} => value = NoValue
=============================================================================
