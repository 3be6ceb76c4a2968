------------------------------ MODULE Document ------------------------------
(***************************************************************************)
(* What the streaming writer of bc-hrbl promises to its caller: an ordered *)
(* tree that grows at the end of the innermost open container, becomes     *)
(* void at the first rejected call, and is handed over by finalize only    *)
(* when every container has been closed.                                   *)
(***************************************************************************)
EXTENDS Integers, Sequences

CONSTANTS
    Item,      \* identities of the values of a document
    Scope,     \* Item plus the document's root
    Root,      \* the scope of the top-level entries
    Content,   \* what an item can hold (kind, key, value)
    Container(_)  \* the contents that open a scope of their own

VARIABLES
    failed,    \* a call was rejected: nothing is promised any more
    content,   \* the content of every item placed so far
    children,  \* scope -> its items, in the order of the calls
    stack,     \* the open containers, outermost first
    delivered  \* what the last finalize said: "nothing" before any

dvars == <<failed, content, children, stack, delivered>>

Top == IF stack = <<>> THEN Root ELSE stack[Len(stack)]

Placed == DOMAIN content

Init ==
    /\ failed = FALSE
    /\ content = <<>>
    /\ children = [s \in Scope |-> <<>>]
    /\ stack = <<>>
    /\ delivered = "nothing"

Place(i) ==
    /\ ~failed
    /\ i \in Item \ Placed
    /\ DOMAIN content' = Placed \cup {i}
    /\ \A j \in Placed : content'[j] = content[j]
    /\ content'[i] \in Content
    /\ children' = [children EXCEPT ![Top] = Append(@, i)]
    /\ stack' = IF Container(content'[i]) THEN Append(stack, i) ELSE stack
    /\ UNCHANGED <<failed, delivered>>

Close ==
    /\ ~failed
    /\ stack # <<>>
    /\ stack' = SubSeq(stack, 1, Len(stack) - 1)
    /\ UNCHANGED <<failed, content, children, delivered>>

\* A void document keeps no content that anyone may rely on.
Reject ==
    /\ failed' = TRUE
    /\ content' = <<>>
    /\ children' = [s \in Scope |-> <<>>]
    /\ stack' = <<>>
    /\ UNCHANGED delivered

Finalize(r) ==
    /\ r = "document" => ~failed /\ stack = <<>>
    /\ delivered' = r
    /\ UNCHANGED <<failed, content, children, stack>>

\* The writer is destroyed.
Discard ==
    /\ failed' = FALSE
    /\ content' = <<>>
    /\ children' = [s \in Scope |-> <<>>]
    /\ stack' = <<>>
    /\ delivered' = "nothing"

Next ==
    \/ \E i \in Item : Place(i)
    \/ Close
    \/ Reject
    \/ \E r \in {"document", "refusal"} : Finalize(r)
    \/ Discard

Spec == Init /\ [][Next]_dvars
=============================================================================
