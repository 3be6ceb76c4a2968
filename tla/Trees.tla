------------------------------- MODULE Trees -------------------------------
(***************************************************************************)
(* The trees a writer can leave behind                                     *)
(* (src/src/writer/bc_hrbl_writer.c): nodes numbered in the order of their *)
(* addition, each below a container that was open at that moment; 0 is the *)
(* root of the document.                                                   *)
(***************************************************************************)
EXTENDS Integers, Sequences

\* A container that takes node i is still open: whatever was added between
\* the two lies inside it.
Forests(n) ==
    {f \in [1 .. n -> 0 .. n - 1] :
        \A i \in 1 .. n :
            /\ f[i] < i
            /\ \A x \in 1 .. n : f[i] < x /\ x < i => f[x] >= f[i]}

\* Kinds for the nodes: only a container has nodes below it.
Labels(f, n, kinds, containers) ==
    {k \in [1 .. n -> kinds] : \A i \in 1 .. n : f[i] # 0 => k[f[i]] \in containers}

\* The nodes that carry a key: at the root and in blocks.
KeyedNodes(f, n, kind) == {i \in 1 .. n : f[i] = 0 \/ kind[f[i]] = "block"}

\* The list of each scope: append_to_scope for the nodes, one after the other.
ChildLists(f, n) ==
    LET lists[i \in 0 .. n] ==
            IF i = 0 THEN [p \in 0 .. n |-> <<>>]
                     ELSE [lists[i - 1] EXCEPT ![f[i]] = Append(@, i)]
    IN  lists[n]
=============================================================================
