---------------------------- MODULE MCStringPool ----------------------------
(* An instance of the string pool for TLC: four strings whose hashes       *)
(* collide in every way, a table that starts with two slots, and a buffer  *)
(* whose offsets run out.                                                  *)
EXTENDS StringPool

MCStrings == {"", "a", "bcd", "efghi"}
MCLength == [s \in MCStrings |-> CASE s = "" -> 0
                                   [] s = "a" -> 1
                                   [] s = "bcd" -> 3
                                   [] s = "efghi" -> 5]
=============================================================================
