---------------------------- MODULE MCConvertJson ---------------------------
(* An instance of the JSON conversion for TLC.                             *)
EXTENDS ConvertJson
=============================================================================
