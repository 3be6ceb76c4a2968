------------------------------- MODULE Format -------------------------------
(***************************************************************************)
(* Sizes and alignments of the binary format                               *)
(* (src/include/internal/bc_hrbl_format_internal.h), and what an image     *)
(* holds.                                                                  *)
(*                                                                         *)
(* An image is not a string of bytes but what the code stores at which     *)
(* offset: kinds and bodies of nodes (nodes), the 32-bit references into   *)
(* the string pool (refs) and the strings themselves (strings) are         *)
(* functions from offsets, defined where something was stored.             *)
(***************************************************************************)
EXTENDS Integers, Sequences

Magic == 1279414856  \* 0x4C425248
VersionMajor == 1
VersionMinor == 0
FlagsV1Required == {"strings_dedup", "keys_sorted_hash", "roots_sorted_hash", "has_checksum"}

HeaderSize == 128
FooterSize == 32
RootIndexOffset == 128
EntrySize == 24           \* of a root entry and of a block entry
ElementSize == 8
ContainerHeaderSize == 8  \* bc_hrbl_block_header_t, bc_hrbl_array_header_t
KeyOffsetField == 8       \* offsetof(bc_hrbl_entry_t, key_pool_offset)

Containers == {"block", "array"}
Scalars == {"null", "int64", "string"}  \* false and true are as null, uint64 and float64 as int64

KindBodyAlign(kind) == CASE kind = "null" -> 1
                         [] kind = "string" -> 4
                         [] OTHER -> 8

KindBodySize(kind) == IF kind \in {"int64", "string"} THEN 8 ELSE 0

AlignUp(n, alignment) == ((n + alignment - 1) \div alignment) * alignment

\* What is stored at one offset, and what m and c hold together (m first).
Cell(o, x) == [p \in {o} |-> x]
With(m, c) == [o \in DOMAIN m \cup DOMAIN c |-> IF o \in DOMAIN m THEN m[o] ELSE c[o]]

\* What m holds from first on, before past.
Span(m, first, past) == [o \in {o \in DOMAIN m : first <= o /\ o < past} |-> m[o]]

\* The bytes of an image from first on, before past: what xxh3 is taken to
\* tell apart.  Zeros are those that were stored to align what follows.
Content(img, first, past) ==
    LET place(k) == RootIndexOffset + (k - 1) * EntrySize
    IN  [roots |-> [k \in {k \in DOMAIN img.roots : first <= place(k) /\ place(k) < past} |-> img.roots[k]],
         nodes |-> Span(img.nodes, first, past),
         refs |-> Span(img.refs, first, past),
         strings |-> Span(img.strings, first, past),
         zeros |-> {o \in img.zeros : first <= o /\ o < past}]

\* Mutant: the kind byte is aligned instead of the body.
KindOffsetAligned(size, alignment) == AlignUp(size, alignment)

\* Where the kind byte goes so that the body after it is aligned.
KindOffset(size, alignment) == AlignUp(size + 1, alignment) - 1
=============================================================================
