------------------------------- MODULE Unicode ------------------------------
(***************************************************************************)
(* UTF-8 as the verifier and the JSON export take it apart                 *)
(* (bc_hrbl_verify_utf8_length and bc_hrbl_export_utf8_decode), and as the *)
(* Unicode standard defines it.  Text is a sequence of bytes d; places are *)
(* counted from 0, so that the byte at place i is d[i + 1].                *)
(***************************************************************************)
EXTENDS Integers, Sequences

Byte == 0 .. 255

-----------------------------------------------------------------------------
(* What both functions do with the bytes                                   *)

\* By the top bits of the first byte; 0 for a byte that starts no sequence.
SequenceLength(b) ==
    IF b < 128 THEN 1
    ELSE IF b \in 192 .. 223 THEN 2
    ELSE IF b \in 224 .. 239 THEN 3
    ELSE IF b \in 240 .. 247 THEN 4 ELSE 0

Continuation(b) == b \in 128 .. 191

\* All bytes of the sequence are there and continue it.
WholeSequence(d, i) ==
    LET n == SequenceLength(d[i + 1])
    IN  /\ n # 0
        /\ i + n <= Len(d)
        /\ n >= 2 => Continuation(d[i + 2])
        /\ n >= 3 => Continuation(d[i + 3])
        /\ n >= 4 => Continuation(d[i + 4])

\* The bits of the first byte and six bits of each of the others.
CodePoint(d, i) ==
    LET n == SequenceLength(d[i + 1])
    IN  IF n = 1 THEN d[i + 1]
        ELSE IF n = 2 THEN (d[i + 1] - 192) * 64 + (d[i + 2] - 128)
        ELSE IF n = 3 THEN (d[i + 1] - 224) * 4096 + (d[i + 2] - 128) * 64 + (d[i + 3] - 128)
        ELSE (d[i + 1] - 240) * 262144 + (d[i + 2] - 128) * 4096
                 + (d[i + 3] - 128) * 64 + (d[i + 4] - 128)

-----------------------------------------------------------------------------
(* Unicode, table 3-7: the well-formed byte sequences                      *)

Row(d, i, n, first, second) ==
    /\ i + n <= Len(d)
    /\ d[i + 1] \in first
    /\ n >= 2 => d[i + 2] \in second
    /\ \A k \in 3 .. n : d[i + k] \in 128 .. 191

OneByte(d, i) == Row(d, i, 1, 0 .. 127, {})
TwoBytes(d, i) == Row(d, i, 2, 194 .. 223, 128 .. 191)
ThreeBytes(d, i) ==
    \/ Row(d, i, 3, {224}, 160 .. 191)
    \/ Row(d, i, 3, (225 .. 236) \cup {238, 239}, 128 .. 191)
    \/ Row(d, i, 3, {237}, 128 .. 159)
FourBytes(d, i) ==
    \/ Row(d, i, 4, {240}, 144 .. 191)
    \/ Row(d, i, 4, 241 .. 243, 128 .. 191)
    \/ Row(d, i, 4, {244}, 128 .. 143)

\* The text is cut into well-formed sequences: one starts at every place of
\* S, at the first place too, and where one ends the next starts.
Segments(d, S) ==
    /\ 0 \in S \cup {Len(d)}
    /\ \A i \in S :
           \/ OneByte(d, i) /\ i + 1 \in S \cup {Len(d)}
           \/ TwoBytes(d, i) /\ i + 2 \in S \cup {Len(d)}
           \/ ThreeBytes(d, i) /\ i + 3 \in S \cup {Len(d)}
           \/ FourBytes(d, i) /\ i + 4 \in S \cup {Len(d)}

WellFormed(d) == \E S \in SUBSET (0 .. Len(d) - 1) : Segments(d, S)
=============================================================================
