-------------------------------- MODULE Path --------------------------------
(***************************************************************************)
(* bc_hrbl_reader_find and bc_hrbl_reader_resolve_path                     *)
(* (src/src/reader/bc_hrbl_reader.c): a text such as a.'b c'[3].d leads    *)
(* from the root to a value.  One action is one turn of the loop over the  *)
(* text.  The search for a key in a block is used through what Lookup      *)
(* shows of it: an entry with that key, if there is one.                   *)
(***************************************************************************)
EXTENDS Integers, Sequences, FiniteSets

CONSTANTS
    Documents,   \* documents: [size, kind, key, parent, children], a key is a sequence of characters
    Characters,  \* characters of the paths
    MaxLength,   \* bound: length of a path
    MaxDigits,   \* digits of an index: 10 in the code
    IndexLimit   \* indices are 32 bits wide: 2^32 in the code

Digits == <<"0", "1", "2", "3", "4", "5", "6", "7", "8", "9">>
DigitValue(c) == (CHOOSE d \in 1 .. 10 : Digits[d] = c) - 1
IsDigit(c) == \E d \in 1 .. 10 : Digits[d] = c
Quotes == {"'", "\""}

VARIABLES
    doc,
    path,
    cursor,         \* characters consumed
    current,        \* node reached: current_offset
    resolved_root,
    pc,
    answer          \* the node found, 0 for none

vars == <<doc, path, cursor, current, resolved_root, pc, answer>>

Init ==
    /\ doc \in Documents
    /\ \E n \in 0 .. MaxLength : path \in [1 .. n -> Characters]
    /\ cursor = 0
    /\ current = 0
    /\ resolved_root = FALSE
    /\ pc = "scan"
    /\ answer = 0

KindOf(d, n) == IF n = 0 THEN "block" ELSE d.kind[n]
Kind(n) == KindOf(doc, n)
Children(n) == doc.children[n]
Char == path[cursor + 1]

Fail == pc' = "done" /\ UNCHANGED <<doc, path, cursor, current, resolved_root, answer>>
MoveTo(node, position) ==
    /\ current' = node
    /\ cursor' = position
    /\ resolved_root' = TRUE
    /\ UNCHANGED <<doc, path, pc, answer>>

\* The first place at or after from that holds one of the characters, or the
\* length of the path; places are counted from 0 as in the code.
Find(w, from, characters) ==
    LET places == {i \in from .. Len(w) - 1 : w[i + 1] \in characters}
    IN  IF places = {} THEN Len(w) ELSE CHOOSE i \in places : \A j \in places : i <= j

Text(w, from, to) == SubSeq(w, from + 1, to)

-----------------------------------------------------------------------------
Dot ==
    /\ pc = "scan" /\ cursor < Len(path) /\ Char = "."
    /\ cursor' = cursor + 1
    /\ UNCHANGED <<doc, path, current, resolved_root, pc, answer>>

\* The value of the digits.
Index(digits) ==
    LET value[i \in 0 .. Len(digits)] ==
            IF i = 0 THEN 0 ELSE value[i - 1] * 10 + DigitValue(digits[i])
    IN  value[Len(digits)]

\* Mutant: the index is cut to its width without a look.
MutantIndexAccepted(digits) ==
    /\ Len(digits) \in 1 .. MaxDigits
    /\ \A i \in 1 .. Len(digits) : IsDigit(digits[i])

IndexAccepted(digits) ==
    /\ Len(digits) \in 1 .. MaxDigits
    /\ \A i \in 1 .. Len(digits) : IsDigit(digits[i])
    /\ Index(digits) < IndexLimit

Subscript ==
    /\ pc = "scan" /\ cursor < Len(path) /\ Char = "["
    /\ LET close == Find(path, cursor + 1, {"]"})
           digits == Text(path, cursor + 1, close)
           element == (Index(digits) % IndexLimit) + 1
       IN  IF /\ resolved_root
              /\ close < Len(path)
              /\ IndexAccepted(digits)
              /\ Kind(current) = "array"
              /\ element <= Len(Children(current))
           THEN MoveTo(Children(current)[element], close + 1)
           ELSE Fail

\* Where the segment that starts at the cursor lies, and where it leads on.
Segment ==
    IF Char \in Quotes
    THEN LET close == Find(path, cursor + 1, {Char})
         IN  [from |-> cursor + 1, to |-> close, next |-> close + 1]
    ELSE LET stop == Find(path, cursor, {".", "["})
         IN  [from |-> cursor, to |-> stop, next |-> stop]

Key ==
    /\ pc = "scan" /\ cursor < Len(path) /\ Char \notin {".", "["}
    /\ LET s == Segment
           found == {n \in 1 .. doc.size :
                       /\ \E i \in 1 .. Len(Children(current)) : Children(current)[i] = n
                       /\ doc.key[n] = Text(path, s.from, s.to)}
       IN  IF /\ Char \in Quotes => s.to < Len(path)
              /\ s.to > s.from
              /\ Kind(current) = "block"
              /\ found # {}
           THEN \E n \in found : MoveTo(n, s.next)
           ELSE Fail

\* find looks at the kind of what was resolved before it fills the answer.
End ==
    /\ pc = "scan" /\ cursor = Len(path)
    /\ pc' = "done"
    /\ answer' = IF resolved_root /\ Kind(current) # "corrupt" THEN current ELSE 0
    /\ UNCHANGED <<doc, path, cursor, current, resolved_root>>

Next == Dot \/ Subscript \/ Key \/ End

Spec == Init /\ [][Next]_vars
FairSpec == Spec /\ WF_vars(Next)

-----------------------------------------------------------------------------
(* Properties                                                              *)

\* A document is a tree.
Tree(d) ==
    /\ d.size \in Nat
    /\ \A p \in 0 .. d.size : d.children[p] \in Seq(p + 1 .. d.size)
    /\ \A n \in 1 .. d.size :
          /\ d.parent[n] \in 0 .. n - 1
          /\ d.key[n] \in Seq(STRING)
          /\ d.children[n] # <<>> => d.kind[n] \in {"block", "array"}
          /\ \A p \in 0 .. d.size :
                (\E e \in 1 .. Len(d.children[p]) : d.children[p][e] = n) <=> p = d.parent[n]

KeysDiffer(d) ==
    \A m, n \in 1 .. d.size :
        d.parent[m] = d.parent[n] /\ d.key[m] = d.key[n] /\ KindOf(d, d.parent[n]) = "block" => m = n

\* The ways to write the step to a node n of document d on path w: a quoted
\* key, a bare key up to a dot, a bracket or the end, or an index.
QuotedKey(w, key, i, j) ==
    /\ key # <<>> /\ j - i >= 2
    /\ w[i + 1] \in Quotes /\ w[j] = w[i + 1]
    /\ Text(w, i + 1, j - 1) = key
    /\ \A c \in 1 .. Len(key) : key[c] # w[j]
BareKey(w, key, i, j) ==
    /\ key # <<>> /\ Text(w, i, j) = key
    /\ key[1] \notin Quotes
    /\ \A c \in 1 .. Len(key) : key[c] \notin {".", "["}
    /\ j = Len(w) \/ w[j + 1] \in {".", "["}
Bracketed(w, e, i, j) ==
    /\ j - i \in 3 .. MaxDigits + 2
    /\ w[i + 1] = "[" /\ w[j] = "]"
    /\ \A c \in i + 2 .. j - 1 : IsDigit(w[c])
    /\ Index(Text(w, i + 1, j - 1)) = e - 1

StepWritten(d, w, n, i, j) ==
    LET p == d.parent[n]
    IN  IF KindOf(d, p) = "array"
        THEN \E e \in 1 .. Len(d.children[p]) : d.children[p][e] = n /\ Bracketed(w, e, i, j)
        ELSE QuotedKey(w, d.key[n], i, j) \/ BareKey(w, d.key[n], i, j)

\* The places up to which the path leads to each node: a step after another,
\* and dots anywhere between them.
OnlyDots(w, k, l) == \A c \in k + 1 .. l : w[c] = "."

LeadsTo(d, w, n, l) ==
    LET ends[m \in 0 .. d.size] ==
            LET before == ends[d.parent[m]]
                steps  == {k \in 0 .. Len(w) :
                              IF m = 0 THEN k = 0
                              ELSE \E i \in before : i < k /\ StepWritten(d, w, m, i, k)}
            IN  {j \in 0 .. Len(w) : \E k \in steps : k <= j /\ OnlyDots(w, k, j)}
    IN  l \in ends[n]

\* The answer is a value that the whole path spells and, where no block has a
\* key twice, the only one: every spelling of a value finds it.  The code reads
\* the path once from left to right, the reference splits it in every way.
PathSpells ==
    pc = "done" =>
        /\ answer # 0 => LeadsTo(doc, path, answer, Len(path)) /\ Kind(answer) # "corrupt"
        /\ KeysDiffer(doc) =>
              \A n \in 1 .. doc.size :
                  LeadsTo(doc, path, n, Len(path)) /\ Kind(n) # "corrupt" => answer = n

\* Every path is answered.
PathEnds == <>(pc = "done")
=============================================================================
