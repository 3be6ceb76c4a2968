------------------------------- MODULE MCText -------------------------------
(***************************************************************************)
(* Instances for TLC of the three loops over the bytes of a string: the    *)
(* verifier's UTF-8 check, and the strings of the JSON and INI exports.    *)
(* The bytes are of each kind a loop tells apart, and on both sides of the *)
(* boundaries between the rows of the Unicode table.                       *)
(***************************************************************************)
EXTENDS Utf8

VARIABLES
    routine,     \* the loop that runs
    ascii_only,  \* of JsonString
    out          \* of JsonString and IniString

Utf8Bytes == {0, 127, 128, 143, 144, 159, 160, 191, 192, 193, 194, 223, 224, 236, 237, 238, 239,
              240, 243, 244, 245, 248, 255}
JsonBytes == {0, 10, 34, 92, 127, 128, 144, 160, 191, 195, 224, 237, 239, 240, 244, 248}
IniBytes == {0, 9, 10, 13, 31, 32, 34, 48, 65, 92, 120, 255}

JS == INSTANCE JsonString WITH Bytes <- JsonBytes
IS == INSTANCE IniString WITH Bytes <- IniBytes

export == <<ascii_only, out>>
textVars == <<checkVars, routine, export>>

TextInit ==
    \/ routine = "verify" /\ CheckInit /\ ascii_only = FALSE /\ out = <<>>
    \/ routine = "json" /\ JS!Init /\ starts = {}
    \/ routine = "ini" /\ IS!Init /\ starts = {} /\ ascii_only = FALSE

TextNext ==
    \/ routine = "verify" /\ CheckNext /\ UNCHANGED <<routine, export>>
    \/ routine = "json" /\ JS!Next /\ UNCHANGED <<routine, starts>>
    \/ routine = "ini" /\ IS!Next /\ UNCHANGED <<routine, starts, ascii_only>>

TextSpec == TextInit /\ [][TextNext]_textVars

-----------------------------------------------------------------------------
(* A string that the JSON export wrote whole is a JSON string, and a parser *)
(* gets the bytes of the pool back from it, with ascii_only by way of code  *)
(* points and surrogates; a string is given up only where it is not UTF-8;  *)
(* and wherever a write failed, no quote, backslash or control character of *)
(* the string is in the output as it is.                                    *)
JsonStringReadsBack ==
    routine = "json" => JS!StringReadsBack /\ JS!RefusesOnlyMalformed /\ JS!NothingBreaksOut

(* Who reads the INI line and undoes the escapes gets the string back, and  *)
(* meets no quote and no end of line before the closing quote.              *)
IniStringReadsBack == routine = "ini" => IS!IniStringReadsBack /\ IS!StaysOnLine
=============================================================================
