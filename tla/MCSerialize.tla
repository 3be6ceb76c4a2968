----------------------------- MODULE MCSerialize -----------------------------
(***************************************************************************)
(* Instances of the encoder for TLC: strings of the lengths 0, 1 and 5,    *)
(* and references wide enough for every image, or so narrow that the       *)
(* string pool overflows.                                                  *)
(***************************************************************************)
EXTENDS RoundTrip

CONSTANT NarrowLimit  \* width of the narrow references

VARIABLE narrow

MCLength == [s \in {"", "a", "hello"} |-> CASE s = "" -> 0 [] s = "a" -> 1 [] s = "hello" -> 5]

N == INSTANCE Serialize WITH RefLimit <- NarrowLimit

EncoderInit == Init /\ narrow \in BOOLEAN

EncoderNext ==
    /\ \/ ~narrow /\ Next
       \/ narrow /\ N!Next
    /\ UNCHANGED narrow

EncoderSpec == EncoderInit /\ [][EncoderNext]_<<vars, narrow>>

-----------------------------------------------------------------------------
(* A written image whose references all fit opens and reads back as the     *)
(* tree it was made from: every key, value and nesting, elements of arrays  *)
(* in order and entries of blocks by hash, over all collisions of the hash, *)
(* and also when the encoder runs again on nodes that carry the caches of   *)
(* the first.                                                               *)
ImageReadsBack == ~narrow => ReadsBack

(* The verifier accepts a written image, but for two things the writer does *)
(* not refuse: a string that is not UTF-8, and two root keys of equal hash. *)
ImageVerifies == ~narrow => VerifyAccepts
=============================================================================
