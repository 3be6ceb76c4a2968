----------------------------- MODULE IniString ------------------------------
(***************************************************************************)
(* bc_hrbl_ini_write_escaped (src/src/export/bc_hrbl_export_ini.c): a      *)
(* string value between the quotes of an INI line.  One action is one turn *)
(* of the loop; the output is a sequence of characters, by their codes.    *)
(***************************************************************************)
EXTENDS Integers, SequencesExt

CONSTANTS
    Bytes,     \* bytes the strings are made of
    MaxLength  \* bound: length of a string

VARIABLES
    data,
    index,
    out,    \* without the quotes
    status  \* "scan", then "true" or "false"

vars == <<data, index, out, status>>

Init ==
    /\ \E n \in 0 .. MaxLength : data \in [1 .. n -> Bytes]
    /\ index = 0
    /\ out = <<>>
    /\ status = "scan"

Backslash == 92
Quote == 34

\* The letters of \n, \r and \t.
Letter == [c \in {10, 13, 9} |-> CASE c = 10 -> 110 [] c = 13 -> 114 [] c = 9 -> 116]

\* Capital letters for the digits from ten.
Digit(n) == IF n < 10 THEN 48 + n ELSE 55 + n

\* Mutant: a backslash of the string is not doubled.
ChunkKeepsBackslash(c) ==
    IF c = Quote THEN <<Backslash, c>>
    ELSE IF c \in DOMAIN Letter THEN <<Backslash, Letter[c]>>
    ELSE IF c < 32 THEN <<Backslash, 120, Digit(c \div 16), Digit(c % 16)>>
    ELSE <<c>>

Chunk(c) ==
    IF c \in {Backslash, Quote} THEN <<Backslash, c>>
    ELSE IF c \in DOMAIN Letter THEN <<Backslash, Letter[c]>>
    ELSE IF c < 32 THEN <<Backslash, 120, Digit(c \div 16), Digit(c % 16)>>
    ELSE <<c>>

Write ==
    /\ status = "scan" /\ index < Len(data)
    /\ out' = out \o Chunk(data[index + 1])
    /\ index' = index + 1
    /\ UNCHANGED <<data, status>>

\* A write fails; the characters \x may be out without their digits.
WriteFails ==
    /\ status = "scan"
    /\ out' \in {out} \cup IF index < Len(data) /\ Len(Chunk(data[index + 1])) = 4
                             THEN {out \o SubSeq(Chunk(data[index + 1]), 1, 2)} ELSE {}
    /\ status' = "false"
    /\ UNCHANGED <<data, index>>

\* The closing quote.
Finish ==
    /\ status = "scan" /\ index = Len(data)
    /\ status' = "true"
    /\ UNCHANGED <<data, index, out>>

Next == Write \/ WriteFails \/ Finish

Spec == Init /\ [][Next]_vars

-----------------------------------------------------------------------------
(* A reader of the line *)

DigitValue(c) == IF c <= 57 THEN c - 48 ELSE c - 55

\* One character: mode is "text" or what the escape so far has said.
Take(s, c) ==
    CASE s.mode = "text" /\ c = Backslash -> [s EXCEPT !.mode = "escape"]
      [] s.mode = "text" /\ c = Quote -> [s EXCEPT !.mode = "ended"]
      [] s.mode = "text" -> [s EXCEPT !.text = Append(@, c)]
      [] s.mode = "escape" /\ c = 120 -> [s EXCEPT !.mode = "first"]
      [] s.mode = "escape" /\ c \in {110, 114, 116} ->
            [s EXCEPT !.mode = "text", !.text = Append(@, CHOOSE b \in {9, 10, 13} : Letter[b] = c)]
      [] s.mode = "escape" -> [s EXCEPT !.mode = "text", !.text = Append(@, c)]
      [] s.mode = "first" -> [s EXCEPT !.mode = "second", !.text = Append(@, DigitValue(c) * 16)]
      [] s.mode = "second" -> [s EXCEPT !.mode = "text", !.text = [@ EXCEPT ![Len(@)] = @ + DigitValue(c)]]
      [] OTHER -> s

Unescaped(s) == FoldLeft(Take, [mode |-> "text", text |-> <<>>], s)

-----------------------------------------------------------------------------
(* Properties                                                              *)

(* Who reads the line and undoes the escapes gets the string back, and     *)
(* meets no quote before the closing one.                                  *)
IniStringReadsBack == status = "true" => Unescaped(out) = [mode |-> "text", text |-> data]

(* The value stays on its line, also where a write failed: no character    *)
(* below the space is in the output as it is.                              *)
StaysOnLine == \A k \in DOMAIN out : out[k] >= 32
=============================================================================
