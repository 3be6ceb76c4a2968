---------------------------- MODULE FinalizeFile ----------------------------
(***************************************************************************)
(* bc_hrbl_writer_finalize_to_file (src/src/writer/bc_hrbl_writer.c) and   *)
(* bc_hrbl_reader_open (src/src/reader/bc_hrbl_reader.c) on one path.      *)
(*                                                                         *)
(* The writer truncates the file and writes the image from the start, in   *)
(* as many writes as the system makes of it; it may be interrupted, fail   *)
(* or die at any point and be started again.  The reader maps the file,    *)
(* whatever it holds then, and reads header and footer through the         *)
(* mapping, which shows what the writer does meanwhile: only the footer is *)
(* copied, the header is read again each time it is needed.                *)
(*                                                                         *)
(* A file is a prefix, of length len, of the image of a document.  Sizes   *)
(* are in units of any number of bytes.                                    *)
(***************************************************************************)
EXTENDS Integers

CONSTANTS
    Docs,       \* documents the writer finalizes
    NoDoc,      \* none of them
    Size,       \* size of the image of each
    Header,     \* BC_HRBL_HEADER_SIZE
    Footer,     \* BC_HRBL_FOOTER_SIZE
    MaxCalls    \* bound: calls of finalize_to_file

ASSUME FileAssumption ==
    /\ NoDoc \notin Docs
    /\ Header \in Nat \ {0}
    /\ Footer \in Nat \ {0}
    /\ Size \in [Docs -> Nat]
    /\ \A d \in Docs : Size[d] >= Header + Footer
    /\ MaxCalls \in Nat

VARIABLES
    file,           \* [doc, len]
    doc,            \* document being finalized
    calls,          \* calls made so far
    wpc,            \* the writer: idle, buffer, write
    written_total,
    held,           \* what the writer holds of {"buffer", "fd"}
    result,         \* what the last call returned
    rpc,            \* the reader: closed, mapped, header, offset, footer, compare,
                    \* refused, open, faulted
    mapped,         \* size of the mapping, 0 when there is none
    offset,         \* end of the footer, as header->footer_offset has it
    footer          \* [doc, len] of the file the copied footer was read from

writer == <<doc, calls, wpc, written_total, held, result>>
reader == <<rpc, mapped, offset, footer>>
vars == <<file, writer, reader>>

NoFile == [doc |-> NoDoc, len |-> 0]

Init ==
    /\ file = NoFile
    /\ doc = NoDoc
    /\ calls = 0
    /\ wpc = "idle"
    /\ written_total = 0
    /\ held = {}
    /\ result = "none"
    /\ rpc = "closed"
    /\ mapped = 0
    /\ offset = 0
    /\ footer = NoFile

-----------------------------------------------------------------------------
(* The writer. *)

Return(r) ==
    /\ wpc' = "idle"
    /\ result' = r

\* finalize_to_buffer, which may fail.
Call(d) ==
    /\ wpc = "idle"
    /\ calls < MaxCalls
    /\ calls' = calls + 1
    /\ doc' = d
    /\ \/ held' = {"buffer"} /\ wpc' = "buffer" /\ result' = "none"
       \/ held' = {} /\ Return("false")
    /\ UNCHANGED <<file, written_total, reader>>

\* O_CREAT and O_TRUNC.
Open ==
    /\ wpc = "buffer"
    /\ \/ /\ file' = [doc |-> doc, len |-> 0]
          /\ held' = held \cup {"fd"}
          /\ wpc' = "write"
          /\ written_total' = 0
          /\ UNCHANGED result
       \/ /\ held' = held \ {"buffer"}
          /\ Return("false")
          /\ UNCHANGED <<file, written_total>>
    /\ UNCHANGED <<doc, calls, reader>>

\* Mutant: a short write is taken for a whole one.
WriteOnce ==
    /\ wpc = "write"
    /\ written_total < Size[doc]
    /\ \E n \in 0 .. Size[doc] - written_total : file' = [file EXCEPT !.len = @ + n]
    /\ written_total' = Size[doc]
    /\ UNCHANGED <<doc, calls, wpc, held, result, reader>>

\* The system writes n of the bytes left, 0 when interrupted (EINTR).
Write ==
    /\ wpc = "write"
    /\ written_total < Size[doc]
    /\ \E n \in 0 .. Size[doc] - written_total :
          /\ file' = [file EXCEPT !.len = @ + n]
          /\ written_total' = written_total + n
    /\ UNCHANGED <<doc, calls, wpc, held, result, reader>>

WriteFails ==
    /\ wpc = "write"
    /\ written_total < Size[doc]
    /\ held' = held \ {"fd", "buffer"}
    /\ Return("false")
    /\ UNCHANGED <<file, doc, calls, written_total, reader>>

\* Mutant: the loop waits for more than the size.
CloseAfterMore ==
    /\ wpc = "write"
    /\ written_total > Size[doc]
    /\ held' = held \ {"fd", "buffer"}
    /\ \E r \in {"true", "false"} : Return(r)
    /\ UNCHANGED <<file, doc, calls, written_total, reader>>

Close ==
    /\ wpc = "write"
    /\ written_total >= Size[doc]
    /\ held' = held \ {"fd", "buffer"}
    /\ \E r \in {"true", "false"} : Return(r)
    /\ UNCHANGED <<file, doc, calls, written_total, reader>>

\* The process dies and is started again: the file stays as it is.
Crash ==
    /\ wpc # "idle"
    /\ wpc' = "idle"
    /\ held' = {}
    /\ result' = "none"
    /\ UNCHANGED <<file, doc, calls, written_total, reader>>

-----------------------------------------------------------------------------
(* The reader. *)

\* bc_io_mmap_destroy.
Unmap ==
    /\ rpc' = "closed"
    /\ mapped' = 0
    /\ offset' = 0
    /\ footer' = NoFile

\* attach_buffer returns false, to reader_open which has the mapping.
Refuse ==
    /\ rpc' = "refused"
    /\ UNCHANGED <<mapped, offset, footer>>

\* What the file holds up to n is there to be read; past its end a read
\* gives zeros (in its last page) or a fault.
Present(n) == file.len >= n

Faults(n) ==
    /\ ~Present(n) \/ n > mapped
    /\ rpc' = "faulted"
    /\ UNCHANGED <<mapped, offset, footer>>

\* bc_io_mmap_file, which may fail and does for an empty file.
Map ==
    /\ rpc = "closed"
    /\ file.len > 0
    /\ mapped' = file.len
    /\ rpc' = "mapped"
    /\ UNCHANGED <<file, writer, offset, footer>>

\* bc_io_mmap_get_data; attach_buffer wants room for a header and a footer.
Attach ==
    /\ rpc = "mapped"
    /\ \/ Unmap
       \/ mapped < Header + Footer /\ Refuse
       \/ /\ mapped >= Header + Footer
          /\ rpc' = "header"
          /\ UNCHANGED <<mapped, offset, footer>>
    /\ UNCHANGED <<file, writer>>

HeaderValid == Present(Header) /\ Size[file.doc] = mapped

CheckHeader ==
    /\ rpc = "header"
    /\ \/ /\ HeaderValid
          /\ rpc' = "offset"
          /\ UNCHANGED <<mapped, offset, footer>>
       \/ ~HeaderValid /\ Refuse
       \/ Faults(Header)
    /\ UNCHANGED <<file, writer>>

\* base + header->footer_offset, from the header as it is by now; a header of
\* zeros gives an offset at which there is no footer.
ReadOffset ==
    /\ rpc = "offset"
    /\ \/ /\ Present(Header)
          /\ offset' = Size[file.doc]
          /\ rpc' = "footer"
          /\ UNCHANGED <<mapped, footer>>
       \/ ~Present(Header) /\ Refuse
       \/ Faults(Header)
    /\ UNCHANGED <<file, writer>>

\* Mutant: the end of the file is not looked for, any bytes pass.
FooterThereAnyway == TRUE

\* magic_end is where the offset says: only at the end of a whole image.
FooterThere == Present(offset) /\ Size[file.doc] = offset

\* bc_hrbl_load_footer copies the footer.
LoadFooter ==
    /\ rpc = "footer"
    /\ \/ /\ FooterThere
          /\ footer' = file
          /\ rpc' = "compare"
          /\ UNCHANGED <<mapped, offset>>
       \/ ~FooterThere /\ Refuse
       \/ Faults(offset)
    /\ UNCHANGED <<file, writer>>

\* Its file size and checksum against those of the header as it is by now.
SameImage == Present(Header) /\ file.doc = footer.doc

\* The reader's own memory may also be refused.
CompareFooter ==
    /\ rpc = "compare"
    /\ \/ /\ SameImage
          /\ rpc' = "open"
          /\ UNCHANGED <<mapped, offset, footer>>
       \/ Refuse
       \/ Faults(Header)
    /\ UNCHANGED <<file, writer>>

\* Mutant: reader_open returns what attach_buffer returned, and no more.
RefusedOpenKeepsMapping ==
    /\ rpc = "refused"
    /\ rpc' = "closed"
    /\ UNCHANGED <<file, writer, mapped, offset, footer>>

RefusedOpen ==
    /\ rpc = "refused"
    /\ Unmap
    /\ UNCHANGED <<file, writer>>

\* bc_hrbl_reader_close; a faulted process is started again.
CloseReader ==
    /\ rpc \in {"open", "faulted"}
    /\ Unmap
    /\ UNCHANGED <<file, writer>>

-----------------------------------------------------------------------------
WriterStep == Open \/ Write \/ WriteFails \/ Close

Next ==
    \/ \E d \in Docs : Call(d)
    \/ WriterStep
    \/ Crash
    \/ Map \/ Attach \/ CheckHeader \/ ReadOffset \/ LoadFooter \/ CompareFooter
    \/ RefusedOpen \/ CloseReader

Spec == Init /\ [][Next]_vars

Progress == Write /\ written_total' > written_total

\* A running call goes on, and a write is not interrupted for ever.
FairSpec == Spec /\ WF_vars(WriterStep) /\ SF_vars(Progress)

-----------------------------------------------------------------------------
(* The variables hold values of their types.                               *)
TypeOK ==
    /\ file \in [doc : Docs \cup {NoDoc}, len : Nat]
    /\ doc \in Docs \cup {NoDoc}
    /\ calls \in 0 .. MaxCalls
    /\ wpc \in {"idle", "buffer", "write"}
    /\ written_total \in Nat
    /\ held \subseteq {"buffer", "fd"}
    /\ result \in {"none", "true", "false"}
    /\ rpc \in {"closed", "mapped", "header", "offset", "footer", "compare", "refused", "open", "faulted"}
    /\ mapped \in Nat
    /\ offset \in Nat
    /\ footer \in [doc : Docs \cup {NoDoc}, len : Nat]

(* A reader never accepts a part of an image: the file whose footer it     *)
(* copied before open succeeded was written to the end, though the writer  *)
(* may have been interrupted, have failed, died, or be writing another     *)
(* document over it while the reader looks.                                *)
AcceptsOnlyWhole ==
    rpc = "open" => footer.doc \in Docs /\ footer.len = Size[footer.doc]

(* When finalize_to_file returns true the whole image of its document is   *)
(* in the file, in however many writes it went there.                      *)
TrueMeansWritten ==
    result = "true" => file = [doc |-> doc, len |-> Size[doc]]

(* Between calls the writer holds neither the buffer nor a descriptor, and *)
(* a reader that is not open no mapping: every way out of finalize_to_file *)
(* and of reader_open releases what it acquired.                           *)
NothingHeld ==
    /\ wpc = "idle" => held = {}
    /\ rpc = "closed" => mapped = 0

(* A call of finalize_to_file returns, if the system does not interrupt    *)
(* its writes for ever.                                                    *)
FinalizeEnds == (wpc # "idle") ~> (wpc = "idle")
=============================================================================
