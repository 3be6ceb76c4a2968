----------------------------- MODULE VerifyFile -----------------------------
(***************************************************************************)
(* bc_hrbl_verify_file and bc_hrbl_verify_buffer                           *)
(* (src/src/verify/bc_hrbl_verify.c) on the path that finalize_to_file     *)
(* writes to (FinalizeFile), while it is being written and after the power *)
(* has failed: the writer never calls fsync, so that a file may come back  *)
(* with its size, its header and its footer, and holes in between.         *)
(*                                                                         *)
(* Unlike the reader, the verifier copies the header once, and hashes the  *)
(* payload.  Of xxh3 the model takes that payloads of different content    *)
(* have different checksums.                                               *)
(***************************************************************************)
EXTENDS FinalizeFile

CONSTANTS
    MaxLosses,    \* bound: power failures
    Unverifiable  \* documents whose whole image the verifier refuses: a string
                  \* that is not UTF-8, or two root keys of equal hash

ASSUME VerifyAssumption ==
    /\ MaxLosses \in Nat
    /\ Unverifiable \subseteq Docs

VARIABLES
    holes,   \* units of the file that read as zeros
    losses,
    vpc,     \* the verifier: idle, map, data, header, footer, hash, content, answered
    vheld,   \* what it holds of {"context", "mapping"}
    size,    \* of the mapping
    header,  \* the document whose header was copied
    place,   \* next unit of the payload to hash
    seen,    \* history: pairs of a unit's place and document, as they were read
    status,  \* what the last call returned; "died" when it touched what is not there
    quiet    \* history: nothing was written or lost since the file was mapped

disk == <<holes, losses>>
verifier == <<vpc, vheld, size, header, place, seen, status>>
allVars == <<vars, disk, verifier, quiet>>

VInit ==
    /\ Init
    /\ holes = {}
    /\ losses = 0
    /\ vpc = "idle"
    /\ vheld = {}
    /\ size = 0
    /\ header = NoDoc
    /\ place = 0
    /\ seen = {}
    /\ status = "none"
    /\ quiet = FALSE

-----------------------------------------------------------------------------
(* What happens to the file *)

\* A step of the writer, or its death; truncation takes the holes away and
\* what is written is there.
WriterRuns ==
    /\ Crash \/ WriterStep \/ \E d \in Docs : Call(d)
    /\ holes' = IF file' = file THEN holes ELSE {k \in holes : k <= file'.len}
    /\ quiet' = FALSE
    /\ UNCHANGED <<losses, verifier>>

\* The machine stops: the verifier is gone, of the file any part is left.
PowerLoss ==
    /\ losses < MaxLosses
    /\ losses' = losses + 1
    /\ wpc' = "idle" /\ held' = {} /\ result' = "none"
    /\ \E n \in 0 .. file.len : file' = [file EXCEPT !.len = n] /\ holes' \in SUBSET (1 .. n)
    /\ vpc' = "idle" /\ vheld' = {} /\ status' = "none"
    /\ quiet' = FALSE
    /\ UNCHANGED <<doc, calls, written_total, reader, size, header, place, seen>>

-----------------------------------------------------------------------------
(* The verifier *)

\* The unit at a place of the file belongs to a document or reads as zeros.
Unit(k) == IF k <= file.len /\ k \notin holes THEN file.doc ELSE NoDoc

Units(S) == {<<k, Unit(k)>> : k \in S}

Of(d, S) == {<<k, d>> : k \in S}

HeaderPlaces == 1 .. Header
FooterPlaces(d) == Size[d] - Footer + 1 .. Size[d]
Payload(d) == Header + 1 .. Size[d] - Footer

\* verify_buffer returns a status, to verify_file which has the mapping.
Answer(s) ==
    /\ vpc' = "answered"
    /\ status' = s
    /\ UNCHANGED <<vheld, size, header, place, seen>>

\* verify_file returns, having given back some of what it holds.
VReturn(s, freed) ==
    /\ vpc' = "idle"
    /\ vheld' = vheld \ freed
    /\ status' = s
    /\ UNCHANGED <<size, header, place, seen>>

\* A read outside the mapping, or of the part the writer has cut off, may
\* kill the process.
Dies(S) == (\E k \in S : k > file.len \/ k > size) /\ VReturn("died", vheld)

Alone == UNCHANGED <<vars, disk>>

\* bc_allocators_context_create
Begin ==
    /\ vpc = "idle"
    /\ seen' = {}
    /\ \/ vheld' = {"context"} /\ vpc' = "map" /\ status' = "none"
       \/ vheld' = {} /\ vpc' = "idle" /\ status' = "io"
    /\ quiet' = FALSE
    /\ Alone /\ UNCHANGED <<size, header, place>>

\* bc_io_mmap_file; an empty file cannot be mapped.
MapFile ==
    /\ vpc = "map"
    /\ \/ /\ file.len > 0
          /\ size' = file.len
          /\ vheld' = vheld \cup {"mapping"}
          /\ vpc' = "data"
          /\ quiet' = TRUE
          /\ UNCHANGED <<header, place, seen, status>>
       \/ VReturn("io", {"context"}) /\ UNCHANGED quiet
    /\ Alone

\* bc_io_mmap_get_data, and the test for a file that is too small.
GetData ==
    /\ vpc = "data"
    /\ \/ VReturn("io", {"mapping", "context"})
       \/ size < Header + Footer /\ Answer("refused")
       \/ /\ size >= Header + Footer
          /\ vpc' = "header"
          /\ UNCHANGED <<vheld, size, header, place, seen, status>>
    /\ Alone /\ UNCHANGED quiet

\* Mutant: the header's file size is not compared with that of the mapping.
HeaderOfAnySize == file.doc \in Docs /\ Units(HeaderPlaces) = Of(file.doc, HeaderPlaces)

\* bc_hrbl_verify_header_layout on the copy: a header that is not whole (or
\* zeros: it has no magic), or of a file of another size, does not pass.
HeaderPasses ==
    /\ file.doc \in Docs
    /\ Units(HeaderPlaces) = Of(file.doc, HeaderPlaces)
    /\ Size[file.doc] = size

LoadHeader ==
    /\ vpc = "header"
    /\ \/ /\ HeaderPasses
          /\ header' = file.doc
          /\ seen' = Units(HeaderPlaces)
          /\ vpc' = "footer"
          /\ UNCHANGED <<vheld, size, place, status>>
       \/ ~HeaderPasses /\ Answer("refused")
       \/ Dies(HeaderPlaces)
    /\ Alone /\ UNCHANGED quiet

\* magic, file size and checksum of the footer against the header's.
FooterPasses == Units(FooterPlaces(header)) = Of(header, FooterPlaces(header))

VerifyFooter ==
    /\ vpc = "footer"
    /\ \/ /\ FooterPasses
          /\ seen' = seen \cup Units(FooterPlaces(header))
          /\ place' = Header + 1
          /\ vpc' = "hash"
          /\ UNCHANGED <<vheld, size, header, status>>
       \/ ~FooterPasses /\ Answer("refused")
       \/ Dies(FooterPlaces(header))
    /\ Alone /\ UNCHANGED quiet

\* bc_hrbl_hash64 reads on, unit by unit.
Hash ==
    /\ vpc = "hash"
    /\ place \in Payload(header)
    /\ \/ /\ seen' = seen \cup Units({place})
          /\ place' = place + 1
          /\ UNCHANGED <<vpc, vheld, size, header, status>>
       \/ Dies({place})
    /\ Alone /\ UNCHANGED quiet

\* Mutant: the checksum is compared with that of the header in the mapping.
ChecksumOfMappedHeader == Of(file.doc, Payload(header)) \subseteq seen

\* The payload that was read has the checksum of the copied header.
ChecksumAgrees == Of(header, Payload(header)) \subseteq seen

CompareChecksum ==
    /\ vpc = "hash"
    /\ place \notin Payload(header)
    /\ \/ /\ ChecksumAgrees
          /\ vpc' = "content"
          /\ UNCHANGED <<vheld, size, header, place, seen, status>>
       \/ ~ChecksumAgrees /\ Answer("refused")
    /\ Alone /\ UNCHANGED quiet

\* The string pool and the root index, read from the mapping once more: of a
\* document they pass or not (RoundTrip!VerifyAccepts), of what else may be
\* there by now nothing is known.
VerifyContent ==
    /\ vpc = "content"
    /\ \/ /\ Units(Payload(header)) = Of(header, Payload(header))
          /\ Answer(IF header \in Unverifiable THEN "refused" ELSE "ok")
       \/ /\ Units(Payload(header)) # Of(header, Payload(header))
          /\ Answer("ok") \/ Answer("refused") \/ Dies(Payload(header))
    /\ Alone /\ UNCHANGED quiet

\* verify_file returns what verify_buffer returned.
Release ==
    /\ vpc = "answered"
    /\ VReturn(status, {"mapping", "context"})
    /\ Alone /\ UNCHANGED quiet

-----------------------------------------------------------------------------
VerifierStep ==
    \/ MapFile \/ GetData \/ LoadHeader \/ VerifyFooter \/ Hash \/ CompareChecksum
    \/ VerifyContent \/ Release

VNext == WriterRuns \/ PowerLoss \/ Begin \/ VerifierStep

\* A call that was made runs on.
VSpec == VInit /\ [][VNext]_allVars /\ WF_allVars(VerifierStep)

-----------------------------------------------------------------------------
(* Properties                                                              *)

Whole == file.doc \in Docs /\ file.len = Size[file.doc] /\ holes = {}

(* The verdict on a file that nobody touched meanwhile is exact: "ok" means *)
(* the whole image of a document that can be verified, a refusal that there *)
(* is none, however the writer failed or died and whatever the power        *)
(* failure left; and the verifier never reads past the end of the file.     *)
(* Every way out gives back the context and the mapping.                    *)
VerifyDecides ==
    vpc = "idle" =>
        /\ vheld = {}
        /\ quiet =>
              /\ status = "ok" => Whole /\ file.doc \notin Unverifiable
              /\ status = "refused" => ~Whole \/ file.doc \in Unverifiable
              /\ status # "died"

(* Even while the file is written over, "ok" is only said of one document:  *)
(* the header, the footer and every unit of the payload that went into the  *)
(* checksum were parts of the same image, never some of the old and some of *)
(* the new one.  (What is read once more after the checksum is not covered.)*)
OkIsOneImage == status = "ok" => seen = Of(header, 1 .. Size[header])

(* A verification returns, whatever the writer does at the same time.       *)
VerifyEnds == (vpc # "idle") ~> (vpc = "idle")
=============================================================================
