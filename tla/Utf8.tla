-------------------------------- MODULE Utf8 --------------------------------
(***************************************************************************)
(* bc_hrbl_verify_utf8_length (src/src/verify/bc_hrbl_verify.c): whether a *)
(* string of the pool is UTF-8.  One action is one turn of the loop.       *)
(***************************************************************************)
EXTENDS Unicode

CONSTANTS
    Bytes,     \* bytes the strings are made of
    MaxLength  \* bound: length of a string

ASSUME BytesAssumption == Bytes \subseteq Byte
ASSUME LengthAssumption == MaxLength \in Nat

VARIABLES
    data,
    index,
    status,  \* "scan", then "ok" or "bad_utf8"
    starts   \* history: where the sequences accepted so far start

checkVars == <<data, index, status, starts>>

CheckInit ==
    /\ \E n \in 0 .. MaxLength : data \in [1 .. n -> Bytes]
    /\ index = 0
    /\ status = "scan"
    /\ starts = {}

\* Mutant: the last code point is taken for one past it.
MutantRefusesLast(d, i) ==
    LET n == SequenceLength(d[i + 1])
        point == CodePoint(d, i)
    IN  /\ WholeSequence(d, i)
        /\ n = 2 => d[i + 1] - 192 >= 2
        /\ n = 3 => point >= 2048
        /\ n = 4 => point >= 65536 /\ point < 1114111
        /\ ~(point >= 55296 /\ point <= 57343)

\* Overlong forms, values past the last code point and surrogates are refused.
Accepts(d, i) ==
    LET n == SequenceLength(d[i + 1])
        point == CodePoint(d, i)
    IN  /\ WholeSequence(d, i)
        /\ n = 2 => d[i + 1] - 192 >= 2
        /\ n = 3 => point >= 2048
        /\ n = 4 => point >= 65536 /\ point <= 1114111
        /\ ~(point >= 55296 /\ point <= 57343)

Advance ==
    /\ status = "scan" /\ index < Len(data)
    /\ Accepts(data, index)
    /\ index' = index + SequenceLength(data[index + 1])
    /\ starts' = starts \cup {index}
    /\ UNCHANGED <<data, status>>

Reject ==
    /\ status = "scan" /\ index < Len(data)
    /\ ~Accepts(data, index)
    /\ status' = "bad_utf8"
    /\ UNCHANGED <<data, index, starts>>

Finish ==
    /\ status = "scan" /\ index = Len(data)
    /\ status' = "ok"
    /\ UNCHANGED <<data, index, starts>>

CheckNext == Advance \/ Reject \/ Finish

CheckSpec == CheckInit /\ [][CheckNext]_checkVars

-----------------------------------------------------------------------------
(* Properties                                                              *)

TypeOK ==
    /\ data \in Seq(Byte)
    /\ index \in 0 .. Len(data)
    /\ status \in {"scan", "ok", "bad_utf8"}
    /\ starts \in SUBSET (0 .. Len(data) - 1)

\* The sequences accepted so far tile the text up to the index.
AcceptedTile ==
    /\ 0 \in starts \cup {index}
    /\ \A i \in starts :
           \/ OneByte(data, i) /\ i + 1 \in starts \cup {index}
           \/ TwoBytes(data, i) /\ i + 2 \in starts \cup {index}
           \/ ThreeBytes(data, i) /\ i + 3 \in starts \cup {index}
           \/ FourBytes(data, i) /\ i + 4 \in starts \cup {index}

\* Whichever way the text may be cut, one sequence starts at the index.
IndexOnEveryCut ==
    \A S \in SUBSET (0 .. Len(data) - 1) : Segments(data, S) => index \in S \cup {Len(data)}

\* The verifier accepts exactly the strings that are well-formed UTF-8.
Utf8Exact ==
    /\ status = "ok" => WellFormed(data)
    /\ status = "bad_utf8" => ~WellFormed(data)
=============================================================================
