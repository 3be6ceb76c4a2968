--------------------------- MODULE ExportDocument ---------------------------
(***************************************************************************)
(* What the three exporters share (src/src/export/bc_hrbl_export.c,        *)
(* bc_hrbl_export_ini.c, bc_hrbl_export_yaml.c): the document of an open   *)
(* reader, the sink it is written to, the scratch memory taken from the    *)
(* reader's context and the latch that remembers a failure.                *)
(*                                                                         *)
(* A value of the document is written as a token that names its node, so   *)
(* two values never look alike.  bc_hrbl_verify does not look at nodes: an *)
(* open reader may meet a node whose kind cannot be read ("corrupt") or    *)
(* whose body does not fit the image ("torn").  "unformattable" is a float *)
(* that the formatter of the core library would refuse.                    *)
(***************************************************************************)
EXTENDS Trees, FiniteSets, SequencesExt

CONSTANTS
    MaxNodes,       \* bound: nodes of a document
    Keys,           \* keys: their numeric order is their order as bytes, 0 is the empty key
    MalformedKeys,  \* keys that are not UTF-8
    Kinds           \* kinds of nodes in the documents considered

AllKinds == {"null", "number", "float", "nan", "unformattable", "string", "malformed",
             "block", "array", "corrupt", "torn"}

ASSUME ExportAssumption ==
    /\ MaxNodes \in Nat
    /\ Keys \subseteq Nat
    /\ MalformedKeys \subseteq Keys
    /\ Kinds \subseteq AllKinds

VARIABLES
    doc,        \* [size, kind, key, children]: children in the order of the image
    sort_keys,  \* options->sort_keys
    output,     \* what the sink has accepted
    scratch,    \* allocations held: <<what, node>>
    failed,     \* state->failed, state->write_failed
    stack,      \* frames of the recursion, innermost last
    pc,
    result      \* what the call returned

input == <<doc, sort_keys>>

\* Every document of the bounds.
SomeDocument ==
    \E n \in 0 .. MaxNodes : \E parent \in Forests(n) :
        \E kind \in Labels(parent, n, Kinds, {"block", "array"}) :
            \E key \in [KeyedNodes(parent, n, kind) -> Keys] :
                doc = [size |-> n, kind |-> kind, children |-> ChildLists(parent, n),
                       key |-> [i \in 1 .. n |-> IF i \in DOMAIN key THEN key[i] ELSE 0]]

ExportInit ==
    /\ SomeDocument
    /\ sort_keys \in BOOLEAN
    /\ output = <<>>
    /\ scratch = {}
    /\ failed = FALSE
    /\ stack = <<>>
    /\ pc = "start"
    /\ result = FALSE

Children(p) == doc.children[p]
Kind(i) == IF i = 0 THEN "block" ELSE doc.kind[i]
Key(i) == doc.key[i]

\* The order of a block's entries after the sort: the order of the image, or
\* by key; the comparison says nothing of entries with equal keys.
InOrder(p, order) ==
    IF Kind(p) = "block" /\ sort_keys
    THEN \A i, j \in 1 .. Len(order) : i < j => Key(order[i]) <= Key(order[j])
    ELSE order = Children(p)

Orders(p) == {order \in SetToSeqs(ToSet(Children(p))) : InOrder(p, order)}

\* Pieces of text: signs of the syntax, keys, values.
Sign(sign) == <<sign, 0>>
KeyToken(i) == <<"key", Key(i)>>
ValueToken(i) == <<"value", i>>

\* The sink takes all of the text, or some of it and then fails.
Write(text) == output' = output \o text
WriteSome(text) ==
    /\ \E n \in 0 .. Len(text) - 1 : output' = output \o SubSeq(text, 1, n)
    /\ failed' = TRUE

Top == Last(stack)
Frame(p, order) == [node |-> p, order |-> order, done |-> 0]
Complete == Top.done = Len(Top.order)
Current == Top.order[Top.done + 1]

\* The frames once the current entry is exported.
Advanced(frames) ==
    IF frames = <<>> THEN <<>> ELSE [frames EXCEPT ![Len(frames)].done = @ + 1]

Return(r) == pc' = "returned" /\ result' = r

-----------------------------------------------------------------------------
\* The orders of all containers that one run of the exporter may go by.
Orderings ==
    LET chosen[p \in 0 .. doc.size] ==
            IF p = 0 THEN {[q \in {0} |-> order] : order \in Orders(0)}
            ELSE {[q \in 0 .. p |-> IF q = p THEN more[2] ELSE more[1][q]] :
                     more \in chosen[p - 1] \X Orders(p)}
    IN  chosen[doc.size]

\* The text of a document whose containers are taken in the given order:
\* where a value begins, what leads to its k-th entry c, and where it ends.
Rendered(order, begin, lead, end) ==
    LET rest[at \in (0 .. doc.size) \X (1 .. doc.size + 1)] ==
            LET i == at[1]
                k == at[2]
                c == order[i][k]
            IN  IF k > Len(order[i]) THEN end[i]
                ELSE lead[i][k][c] \o (begin[c] \o (rest[<<c, 1>>] \o rest[<<i, k + 1>>]))
    IN  begin[0] \o rest[<<0, 1>>]

\* No call leaves scratch memory behind, whichever step of it failed: the
\* pool belongs to the reader and lives as long as it does.
ScratchReleased == pc = "returned" => scratch = {}
=============================================================================
