------------------------------ MODULE MCWriter ------------------------------
(* Instances of the writer for TLC. *)
EXTENDS WriterDocument
=============================================================================
