------------------------------ MODULE MCReader ------------------------------
(***************************************************************************)
(* Instances for TLC of what a program does with an open reader: look for  *)
(* a key among the entries of one index, resolve a path, or walk the       *)
(* document with references and iterators.                                 *)
(***************************************************************************)
EXTENDS Lookup, Sequences, TLC

CONSTANTS
    MaxNodes, Kinds, Iters,                        \* of Access
    PathDocuments, Characters, MaxLength, MaxDigits, IndexLimit  \* of Path

ASSUME ReaderAssumption == MaxNodes \in Nat

VARIABLES
    routine,                                    \* what the program does
    doc, answer,                                \* of Access and Path
    value, iter, got, yielded,                  \* of Access
    path, cursor, current, resolved_root        \* of Path

P == INSTANCE Path WITH Documents <- PathDocuments
W == INSTANCE Access

(* Documents are trees, an array counts its elements in the width of an    *)
(* index.                                                                  *)
ASSUME PathAssumption ==
    /\ MaxLength \in Nat /\ MaxDigits \in Nat /\ IndexLimit \in Nat
    /\ \A d \in PathDocuments :
          P!Tree(d) /\ \A p \in 0 .. d.size : Len(d.children[p]) <= IndexLimit

walk == <<value, iter, got, yielded>>
place == <<path, cursor, current, resolved_root>>
resolution == <<doc, place, pc, answer>>
search == <<given, low, high, mid, left, right, found>>
readerVars == <<routine, search, walk, resolution>>

\* Variables of the parts that do not run.
NoSearch ==
    /\ hash_of = 0 /\ entry_count = 0 /\ entries = 0 /\ key = 0
    /\ low = 0 /\ high = 0 /\ mid = 0 /\ left = 0 /\ right = 0 /\ found = 0
NoWalk == value = 0 /\ iter = 0 /\ got = 0 /\ yielded = 0
NoPath == path = 0 /\ cursor = 0 /\ current = 0 /\ resolved_root = 0

ReaderInit ==
    \/ routine = "lookup" /\ Init /\ doc = 0 /\ answer = 0 /\ NoWalk /\ NoPath
    \/ routine = "path" /\ P!Init /\ NoSearch /\ NoWalk
    \/ routine = "walk" /\ W!Init /\ pc = "none" /\ NoSearch /\ NoPath

ReaderNext ==
    \/ routine = "lookup" /\ Next /\ UNCHANGED <<routine, doc, answer, walk, place>>
    \/ routine = "path" /\ P!Next /\ UNCHANGED <<routine, search, walk>>
    \/ routine = "walk" /\ W!Next /\ UNCHANGED <<routine, pc, search, place>>

\* A lookup and a resolution are loops in one thread.
ReaderSpec ==
    /\ ReaderInit /\ [][ReaderNext]_readerVars
    /\ WF_vars(Step) /\ WF_resolution(P!Next)

A == <<"a">>

\* Keys that need quotes, keys made of digits, arrays in arrays, a value that
\* cannot be read, a key that occurs twice.
MCPathDocuments == {
    \* {"a": {"a": x, "a.": {"1": x}}, "'": x, "": x}
    [size |-> 6, kind |-> <<"block", "string", "block", "string", "string", "string">>,
     key |-> <<A, A, <<"a", ".">>, <<"1">>, <<"'">>, <<>>>>,
     parent |-> <<0, 1, 1, 3, 0, 0>>,
     children |-> (0 :> <<1, 5, 6>>) @@ (1 :> <<2, 3>>) @@ (3 :> <<4>>)
                  @@ [i \in {2, 4, 5, 6} |-> <<>>]],
    \* {"a": [x, {"a": x}, [x]], "1": unreadable}
    [size |-> 7, kind |-> <<"array", "string", "block", "string", "array", "string", "corrupt">>,
     key |-> <<A, <<>>, <<>>, A, <<>>, <<>>, <<"1">>>>,
     parent |-> <<0, 1, 1, 3, 1, 5, 0>>,
     children |-> (0 :> <<1, 7>>) @@ (1 :> <<2, 3, 5>>) @@ (3 :> <<4>>) @@ (5 :> <<6>>)
                  @@ [i \in {2, 4, 6, 7} |-> <<>>]],
    \* {"a": {}, "a": {"1": x}, "1": x}
    [size |-> 4, kind |-> <<"block", "block", "string", "string">>,
     key |-> <<A, A, <<"1">>, <<"1">>>>,
     parent |-> <<0, 0, 2, 0>>,
     children |-> (0 :> <<1, 2, 4>>) @@ (2 :> <<3>>) @@ [i \in {1, 3, 4} |-> <<>>]]}

-----------------------------------------------------------------------------
(* The answer to a path is a value that the whole path spells and, where no *)
(* block has a key twice, every spelling of a value finds it: the code      *)
(* reads the path once from left to right, the reference splits it in every *)
(* way.                                                                     *)
PathSpells == routine = "path" => P!PathSpells

(* A reference that is not zeroed names a node of the document and carries  *)
(* its kind, whichever call wrote it last; a getter that succeeds has given *)
(* the contents of that node, and a call that fails leaves no reference to  *)
(* what an earlier one found.                                               *)
RefSound == routine = "walk" => W!RefSound /\ W!NoStaleRef

(* However the calls are mixed, and though the reference an iteration was   *)
(* started from is written over by it, an iterator gives the children of    *)
(* its container in the order of the image, each once; when none remain it  *)
(* has given all, and it stops for good before a child it cannot read.      *)
IterationFaithful == routine = "walk" => W!IterationFaithful

(* Every lookup and every path is answered.                                 *)
ReadingEnds == (routine = "lookup" => LookupEnds) /\ (routine = "path" => P!PathEnds)
=============================================================================
