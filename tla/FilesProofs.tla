---------------------------- MODULE FilesProofs -----------------------------
(***************************************************************************)
(* The file a reader accepts, and the file a successful call leaves, are   *)
(* whole: for every set of documents and sizes, any number of calls,       *)
(* crashes and interleavings with the reader.  What the verifier says of   *)
(* a file is exact, after any number of power failures too.                *)
(*                                                                         *)
(* The argument rests on what the writer knows while it writes: the file   *)
(* holds as much of the current document as written_total says (Written),  *)
(* and a result is only remembered between calls (Remembered); and on what *)
(* the reader knows once it has copied a footer (Copied).  For the         *)
(* verifier it rests on what it has read so far: one reading of each place *)
(* (Read), and the file's own units as long as nobody touches it (Quiet).  *)
(***************************************************************************)
EXTENDS VerifyFile, TLAPS

Files == [doc : Docs \cup {NoDoc}, len : Nat]

Known ==
    /\ file \in Files
    /\ file.len > 0 => file.doc \in Docs
    /\ wpc \in {"idle", "buffer", "write"}
    /\ wpc # "idle" => doc \in Docs
    /\ rpc = "footer" => offset >= Header + Footer /\ offset \in Nat

Written ==
    wpc = "write" =>
        /\ written_total \in 0 .. Size[doc]
        /\ file = [doc |-> doc, len |-> written_total]

\* The file never grows past the image it is to hold.
Bounded == file.len > 0 => file.len <= Size[file.doc]

Remembered == result # "none" => wpc = "idle"

Holding ==
    /\ wpc = "idle" => held = {}
    /\ wpc = "buffer" => held = {"buffer"}
    /\ wpc = "write" => held = {"buffer", "fd"}

\* A copied footer is that of an image that was whole.
Copied ==
    rpc \in {"compare", "open"} => footer.doc \in Docs /\ footer.len = Size[footer.doc]

Released == rpc = "closed" => mapped = 0

FileInv ==
    /\ Known /\ Written /\ Bounded /\ Remembered /\ Holding
    /\ Copied /\ Released /\ TrueMeansWritten

-----------------------------------------------------------------------------
LEMMA FileInit == Init => FileInv
  BY FileAssumption DEF Init, FileInv, Known, Files, NoFile, Written, Bounded, Remembered, Holding,
     Copied, Released, TrueMeansWritten

LEMMA CallStep ==
    ASSUME FileInv, NEW d \in Docs, Call(d)
    PROVE  FileInv'
  BY DEF FileInv, Call, Return, reader, Known, Files, Written, Bounded, Remembered, Holding,
     Copied, Released, TrueMeansWritten

LEMMA OpenStep ==
    ASSUME FileInv, Open
    PROVE  FileInv'
<1>0. /\ doc \in Docs /\ Size[doc] \in Nat /\ wpc = "buffer" /\ held = {"buffer"} /\ result = "none"
      /\ UNCHANGED <<doc, calls, rpc, mapped, offset, footer>>
  BY FileAssumption DEF FileInv, Open, Known, Holding, Remembered, reader
<1>1. CASE /\ file' = [doc |-> doc, len |-> 0] /\ held' = held \cup {"fd"}
           /\ wpc' = "write" /\ result' = result /\ written_total' = 0
  <2>1. Known' /\ Bounded' /\ Remembered' /\ Holding' /\ Copied' /\ Released' /\ TrueMeansWritten'
    BY <1>0, <1>1 DEF FileInv, Known, Files, Bounded, Remembered, Holding, Copied, Released,
       TrueMeansWritten
  <2>2. Written'
    BY <1>0, <1>1 DEF Written
  <2> QED
    BY <2>1, <2>2 DEF FileInv
<1>2. CASE held' = held \ {"buffer"} /\ Return("false") /\ file' = file
           /\ written_total' = written_total
  BY <1>0, <1>2 DEF FileInv, Return, Known, Written, Bounded, Remembered, Holding,
     Copied, Released, TrueMeansWritten
<1> QED
  BY <1>1, <1>2 DEF Open

LEMMA WriteStep ==
    ASSUME FileInv, Write
    PROVE  FileInv'
<1>0. /\ doc \in Docs /\ Size[doc] \in Nat /\ wpc = "write" /\ result = "none"
      /\ written_total \in 0 .. Size[doc] /\ file = [doc |-> doc, len |-> written_total]
      /\ UNCHANGED <<doc, calls, wpc, held, result, rpc, mapped, offset, footer>>
  BY FileAssumption DEF FileInv, Write, Known, Written, Remembered, reader
<1>1. PICK n \in 0 .. Size[doc] - written_total :
          file' = [file EXCEPT !.len = @ + n] /\ written_total' = written_total + n
  BY DEF Write
<1>2. file' = [doc |-> doc, len |-> written_total + n]
  BY <1>0, <1>1
<1>3. written_total + n \in Nat /\ written_total + n <= Size[doc]
  BY <1>0, <1>1
<1>4. Known' /\ Bounded' /\ TrueMeansWritten'
  BY <1>0, <1>2, <1>3 DEF FileInv, Known, Files, Bounded, TrueMeansWritten
<1>5. Written'
  BY <1>0, <1>1, <1>2, <1>3 DEF Written
<1> QED
  BY <1>0, <1>4, <1>5 DEF FileInv, Remembered, Holding, Copied, Released

LEMMA EndSteps ==
    ASSUME FileInv, WriteFails \/ Close \/ Crash
    PROVE  FileInv'
<1>0. /\ UNCHANGED <<file, doc, written_total, rpc, mapped, offset, footer>>
      /\ wpc' = "idle"
  BY DEF WriteFails, Close, Crash, Return, reader
<1>1. held' = {}
  BY DEF FileInv, Holding, WriteFails, Close, Crash
<1>2. result' = "true" => file = [doc |-> doc, len |-> Size[doc]]
  <2>1. CASE Close
    <3>1. /\ doc \in Docs /\ Size[doc] \in Nat /\ written_total >= Size[doc]
          /\ written_total \in 0 .. Size[doc] /\ file = [doc |-> doc, len |-> written_total]
      BY <2>1, FileAssumption DEF FileInv, Known, Written, Close
    <3>2. written_total = Size[doc]
      BY <3>1
    <3> QED
      BY <3>1, <3>2
  <2>2. CASE WriteFails \/ Crash
    BY <2>2 DEF WriteFails, Crash, Return
  <2> QED
    BY <2>1, <2>2
<1> QED
  BY <1>0, <1>1, <1>2 DEF FileInv, Known, Written, Bounded, Remembered, Holding,
     Copied, Released, TrueMeansWritten

LEMMA ReaderSteps ==
    ASSUME FileInv,
           \/ Map \/ Attach \/ CheckHeader \/ ReadOffset \/ LoadFooter \/ CompareFooter
           \/ RefusedOpen \/ CloseReader
    PROVE  FileInv'
<1>0. UNCHANGED <<file, doc, calls, wpc, written_total, held, result>>
  BY DEF Map, Attach, CheckHeader, ReadOffset, LoadFooter, CompareFooter, RefusedOpen, CloseReader,
     writer
<1>1. Written' /\ Bounded' /\ Remembered' /\ Holding' /\ TrueMeansWritten'
  BY <1>0 DEF FileInv, Written, Bounded, Remembered, Holding, TrueMeansWritten
<1>2. file.len >= Header => file.doc \in Docs /\ Size[file.doc] \in Nat
                            /\ Size[file.doc] >= Header + Footer
  BY FileAssumption DEF FileInv, Known, Files
<1>3. Known'
  <2>1. CASE ReadOffset
    BY <1>0, <1>2, <2>1 DEF FileInv, Known, ReadOffset, Present, Refuse, Faults
  <2>2. CASE \/ Map \/ Attach \/ CheckHeader \/ LoadFooter \/ CompareFooter
             \/ RefusedOpen \/ CloseReader
    BY <1>0, <2>2 DEF FileInv, Known, Map, Attach, CheckHeader, LoadFooter, CompareFooter,
       RefusedOpen, CloseReader, Unmap, Refuse, Faults
  <2> QED
    BY <2>1, <2>2
<1>4. Released'
  BY DEF FileInv, Released, Map, Attach, CheckHeader, ReadOffset, LoadFooter, CompareFooter,
     RefusedOpen, CloseReader, Unmap, Refuse, Faults
<1>5. Copied'
  <2>1. CASE \/ Map \/ Attach \/ CheckHeader \/ ReadOffset \/ CompareFooter
             \/ RefusedOpen \/ CloseReader
    BY <2>1 DEF FileInv, Copied, Map, Attach, CheckHeader, ReadOffset, CompareFooter, RefusedOpen,
       CloseReader, Unmap, Refuse, Faults
  <2>2. CASE LoadFooter
    <3> SUFFICES ASSUME rpc' = "compare"
                 PROVE  footer'.doc \in Docs /\ footer'.len = Size[footer'.doc]
      BY <2>2 DEF Copied, LoadFooter, Refuse, Faults
    <3>1. footer' = file /\ file.len >= offset /\ Size[file.doc] = offset /\ rpc = "footer"
      BY <2>2 DEF LoadFooter, FooterThere, Present, Refuse, Faults
    <3>2. /\ offset \in Nat /\ offset >= Header + Footer /\ file.len \in Nat
          /\ Header \in Nat \ {0} /\ Footer \in Nat
      BY <3>1, FileAssumption DEF FileInv, Known, Files
    <3>3. file.len > 0
      BY <3>1, <3>2
    <3>4. file.doc \in Docs /\ file.len <= Size[file.doc]
      BY <3>3 DEF FileInv, Known, Bounded
    <3>5. file.len = offset
      BY <3>1, <3>2, <3>4
    <3> QED
      BY <3>1, <3>4, <3>5
  <2> QED
    BY <2>1, <2>2
<1> QED
  BY <1>1, <1>3, <1>4, <1>5 DEF FileInv

LEMMA FileStep == FileInv /\ [Next]_vars => FileInv'
<1> SUFFICES ASSUME FileInv, [Next]_vars
             PROVE  FileInv'
  OBVIOUS
<1>1. CASE UNCHANGED vars
  BY <1>1 DEF vars, writer, reader, FileInv, Known, Written, Bounded, Remembered, Holding,
     Copied, Released, TrueMeansWritten
<1> QED
  BY <1>1, CallStep, OpenStep, WriteStep, EndSteps, ReaderSteps DEF Next, WriterStep

LEMMA FileInvariant == Spec => []FileInv
  BY FileInit, FileStep, PTL DEF Spec

(* The reader's header and footer checks never let a partly written file   *)
(* through, in any interleaving with a writer that may crash and restart.  *)
THEOREM PartialNeverAccepted == Spec => []AcceptsOnlyWhole
<1>1. FileInv => AcceptsOnlyWhole
  BY DEF FileInv, Copied, AcceptsOnlyWhole
<1> QED
  BY <1>1, FileInvariant, PTL

(* finalize_to_file returning true means the whole image is in the file.   *)
THEOREM SuccessIsWritten == Spec => []TrueMeansWritten
<1>1. FileInv => TrueMeansWritten
  BY DEF FileInv
<1> QED
  BY <1>1, FileInvariant, PTL

(* No way out of finalize_to_file keeps the buffer or the descriptor, and  *)
(* none out of reader_open the mapping.                                    *)
THEOREM ReleasesEverything == Spec => []NothingHeld
<1>1. FileInv => NothingHeld
  BY DEF FileInv, Holding, Released, NothingHeld
<1> QED
  BY <1>1, FileInvariant, PTL

-----------------------------------------------------------------------------
(* The verifier                                                            *)

Places(d) == 1 .. Size[d]

\* What the verifier has read, place by place: header and footer as parts of
\* the document of the copied header, of the payload each unit once.
Read ==
    /\ vpc \in {"footer", "hash", "content"} => header \in Docs /\ size = Size[header]
    /\ vpc = "footer" => seen = Of(header, HeaderPlaces)
    /\ vpc = "hash" =>
          /\ place \in Header + 1 .. Size[header] - Footer + 1
          /\ Of(header, HeaderPlaces \cup FooterPlaces(header)) \subseteq seen
          /\ \A p \in seen : \E k \in Places(header), d \in Docs \cup {NoDoc} :
                /\ p = <<k, d>>
                /\ k \in Payload(header) => k < place
                /\ k \notin Payload(header) => d = header
          /\ \A p, q \in seen : p[1] = q[1] => p = q
    /\ vpc = "content" => seen = Of(header, Places(header))

VHolding ==
    /\ vpc \in {"idle", "map", "data", "header", "footer", "hash", "content", "answered"}
    /\ vheld = CASE vpc = "idle" -> {}
                 [] vpc = "map" -> {"context"}
                 [] OTHER -> {"context", "mapping"}
    /\ vpc \notin {"idle", "answered"} => status = "none"
    /\ vpc = "map" => ~quiet
    /\ vpc = "header" => size >= Header + Footer

\* While nobody touches the file, what was read is what it still holds.
Quiet ==
    (quiet /\ vpc # "idle") =>
        /\ size = file.len /\ file.len > 0
        /\ vpc \in {"footer", "hash", "content"} =>
              header = file.doc /\ \A k \in HeaderPlaces : Unit(k) = header
        /\ vpc \in {"hash", "content"} => \A k \in FooterPlaces(header) : Unit(k) = header
        /\ vpc = "hash" => \A k \in Header + 1 .. place - 1 : <<k, Unit(k)>> \in seen
        /\ vpc = "content" => \A k \in Payload(header) : Unit(k) = header

\* What is answered of an untouched file is right of it.
Judged ==
    (quiet /\ vpc \in {"idle", "answered"}) =>
        /\ status = "ok" => Whole /\ file.doc \notin Unverifiable
        /\ status = "refused" => ~Whole \/ file.doc \in Unverifiable
        /\ status # "died"

Holes == holes \subseteq 1 .. file.len

VerifyInv ==
    /\ FileInv /\ Holes /\ quiet \in BOOLEAN
    /\ VHolding /\ Read /\ Quiet /\ Judged /\ OkIsOneImage

-----------------------------------------------------------------------------
(* Reading places as parts of a document is reading each of them so. *)
LEMMA UnitsOf == \A d, S : Units(S) = Of(d, S) <=> \A k \in S : Unit(k) = d
<1> SUFFICES ASSUME NEW d, NEW S PROVE Units(S) = Of(d, S) <=> \A k \in S : Unit(k) = d
  OBVIOUS
<1>1. ASSUME Units(S) = Of(d, S), NEW k \in S PROVE Unit(k) = d
  <2>1. <<k, Unit(k)>> \in Of(d, S)
    BY <1>1 DEF Units
  <2>2. PICK j \in S : <<k, Unit(k)>> = <<j, d>>
    BY <2>1 DEF Of
  <2> QED BY <2>2
<1>2. ASSUME \A k \in S : Unit(k) = d PROVE Units(S) = Of(d, S)
  BY <1>2 DEF Units, Of
<1> QED BY <1>1, <1>2

(* An image is its header, its payload and its footer. *)
LEMMA Parts ==
    ASSUME NEW d \in Docs
    PROVE  /\ Size[d] \in Nat /\ Size[d] >= Header + Footer
           /\ Header \in Nat \ {0} /\ Footer \in Nat \ {0}
           /\ \A k : k \in Places(d) <=>
                 k \in HeaderPlaces \/ k \in Payload(d) \/ k \in FooterPlaces(d)
           /\ \A k \in HeaderPlaces \cup FooterPlaces(d) : k \notin Payload(d)
           /\ \A k \in Places(d) : k \in Nat /\ k > 0 /\ k <= Size[d]
<1>1. /\ Size[d] \in Nat /\ Size[d] >= Header + Footer
      /\ Header \in Nat \ {0} /\ Footer \in Nat \ {0}
  BY FileAssumption
<1> QED
  BY <1>1 DEF Places, HeaderPlaces, Payload, FooterPlaces

(* A file that is whole reads as its document everywhere. *)
LEMMA WholeUnits ==
    ASSUME Whole
    PROVE  /\ file.doc \in Docs /\ file.len = Size[file.doc] /\ file.len >= Header + Footer
           /\ \A k \in Places(file.doc) : Unit(k) = file.doc
<1>1. file.doc \in Docs /\ file.len = Size[file.doc] /\ holes = {}
  BY DEF Whole
<1> QED
  BY <1>1, Parts DEF Unit, Places

(* A file none of whose places is missing is whole. *)
LEMMA UnitsWhole ==
    ASSUME Holes, file.doc \in Docs, file.len = Size[file.doc],
           \A k \in Places(file.doc) : Unit(k) = file.doc
    PROVE  Whole
<1>1. ASSUME NEW k \in holes PROVE FALSE
  <2>1. k \in Places(file.doc)
    BY <1>1 DEF Holes, Places
  <2>2. Unit(k) = NoDoc
    BY <1>1 DEF Unit
  <2> QED BY <2>1, <2>2, FileAssumption
<1> QED BY <1>1 DEF Whole

-----------------------------------------------------------------------------
LEMMA VerifyInit == VInit => VerifyInv
<1> SUFFICES ASSUME VInit PROVE VerifyInv
  OBVIOUS
<1>1. FileInv /\ Holes
  BY FileInit DEF VInit, Init, NoFile, Holes
<1> QED
  BY <1>1 DEF VInit, VerifyInv, VHolding, Read, Quiet, Judged, OkIsOneImage

(* The writer touches only the file. *)
LEMMA WriterRunsKeeps == ASSUME VerifyInv, WriterRuns PROVE VerifyInv'
<1>1. FileInv'
  BY CallStep, OpenStep, WriteStep, EndSteps DEF VerifyInv, WriterRuns, WriterStep
<1>2. Holes'
  <2>1. file \in Files /\ file' \in Files
    BY <1>1 DEF VerifyInv, FileInv, Known
  <2>2. file.len \in Nat /\ file'.len \in Nat
    BY <2>1 DEF Files
  <2>3. CASE file' = file
    BY <2>3 DEF VerifyInv, WriterRuns, Holes
  <2>4. CASE file' # file
    <3>1. holes' = {k \in holes : k <= file'.len}
      BY <2>4 DEF WriterRuns
    <3>2. \A k \in holes' : k \in 1 .. file'.len
      BY <3>1, <2>2 DEF VerifyInv, Holes
    <3> QED BY <3>2 DEF Holes
  <2> QED BY <2>3, <2>4
<1>3. UNCHANGED <<vpc, vheld, size, header, place, seen, status>> /\ quiet' = FALSE
  BY DEF WriterRuns, verifier
<1>4. Read'
  BY <1>3 DEF VerifyInv, Read, Of, HeaderPlaces, FooterPlaces, Payload, Places
<1>5. OkIsOneImage'
  BY <1>3 DEF VerifyInv, OkIsOneImage, Of
<1>6. VHolding' /\ Quiet' /\ Judged'
  BY <1>3 DEF VerifyInv, VHolding, Quiet, Judged
<1> QED
  BY <1>1, <1>2, <1>3, <1>4, <1>5, <1>6 DEF VerifyInv

(* A power failure leaves a shorter file, and nobody at work on it. *)
LEMMA PowerLossKeeps == ASSUME VerifyInv, PowerLoss PROVE VerifyInv'
<1>1. PICK n \in 0 .. file.len : file' = [file EXCEPT !.len = n] /\ holes' \in SUBSET (1 .. n)
  BY DEF PowerLoss
<1>2. file \in Files /\ file.len \in Nat /\ n \in Nat /\ n <= file.len
  BY <1>1 DEF VerifyInv, FileInv, Known, Files
<1>3. file' = [doc |-> file.doc, len |-> n]
  BY <1>1, <1>2 DEF Files
<1>4. /\ wpc' = "idle" /\ held' = {} /\ result' = "none"
      /\ UNCHANGED <<doc, rpc, mapped, offset, footer>>
  BY DEF PowerLoss, reader
<1>5. Known'
  BY <1>2, <1>3, <1>4 DEF VerifyInv, FileInv, Known, Files
<1>6. Bounded'
  <2>1. n > 0 => Size[file.doc] \in Nat /\ file.len <= Size[file.doc]
    BY <1>2, FileAssumption DEF VerifyInv, FileInv, Known, Bounded
  <2> QED BY <2>1, <1>2, <1>3 DEF Bounded
<1>7. FileInv'
  BY <1>4, <1>5, <1>6 DEF VerifyInv, FileInv, Written, Remembered, Holding, Copied, Released,
     TrueMeansWritten
<1>8. Holes'
  BY <1>1, <1>3 DEF Holes
<1>9. vpc' = "idle" /\ vheld' = {} /\ status' = "none" /\ quiet' = FALSE
  BY DEF PowerLoss
<1> QED
  BY <1>7, <1>8, <1>9 DEF VerifyInv, VHolding, Read, Quiet, Judged, OkIsOneImage

(* The verifier touches neither the file nor the writer. *)
LEMMA AloneKeeps == ASSUME VerifyInv, Alone PROVE FileInv' /\ Holes'
  BY DEF VerifyInv, Alone, vars, writer, reader, disk, FileInv, Known, Written, Bounded, Remembered,
     Holding, Copied, Released, TrueMeansWritten, Holes

LEMMA BeginKeeps == ASSUME VerifyInv, Begin PROVE VerifyInv'
<1>1. FileInv' /\ Holes'
  BY AloneKeeps DEF Begin
<1> QED
  BY <1>1 DEF Begin, VerifyInv, VHolding, Read, Quiet, Judged, OkIsOneImage

(* An answer, or a return without one, that is right of an untouched file  *)
(* keeps all.                                                              *)
LEMMA AnswerKeeps ==
    ASSUME VerifyInv, Alone, NEW s,
           \/ vpc \notin {"idle", "map"} /\ Answer(s)
           \/ \E freed : VReturn(s, freed) /\ vheld \subseteq freed,
           UNCHANGED quiet,
           quiet => /\ s = "ok" => Whole /\ file.doc \notin Unverifiable
                    /\ s = "refused" => ~Whole \/ file.doc \in Unverifiable
                    /\ s # "died",
           s = "ok" => seen = Of(header, 1 .. Size[header])
    PROVE  VerifyInv'
<1>1. FileInv' /\ Holes'
  BY AloneKeeps
<1>2. file' = file /\ (Whole' <=> Whole)
  BY DEF Alone, vars, disk, Whole
<1>3. status' = s /\ vpc' \in {"idle", "answered"} /\ UNCHANGED <<size, header, place, seen, quiet>>
  BY DEF Answer, VReturn
<1>4. Judged'
  BY <1>2, <1>3 DEF Judged
<1>5. OkIsOneImage'
  BY <1>3 DEF OkIsOneImage, Of
<1>6. VHolding'
  BY DEF VerifyInv, VHolding, Answer, VReturn
<1>7. Quiet'
  BY <1>2 DEF VerifyInv, Quiet, Answer, VReturn
<1> QED
  BY <1>1, <1>3, <1>4, <1>5, <1>6, <1>7 DEF VerifyInv, Read

(* A process that dies, or could not read, holds nothing more. *)
LEMMA ReturnKeeps ==
    ASSUME VerifyInv, Alone, NEW s \in {"io", "died"}, NEW freed, VReturn(s, freed),
           vheld \subseteq freed, UNCHANGED quiet, s = "died" => ~quiet
    PROVE  VerifyInv'
<1>1. \E f : VReturn(s, f) /\ vheld \subseteq f
  OBVIOUS
<1> QED BY <1>1, AnswerKeeps

(* bc_io_mmap_file: nothing was read of the file yet. *)
LEMMA MapKeeps == ASSUME VerifyInv, MapFile PROVE VerifyInv'
<1>0. Alone /\ vpc = "map" /\ ~quiet
  BY DEF MapFile, VerifyInv, VHolding
<1>1. CASE VReturn("io", {"context"}) /\ UNCHANGED quiet
  <2>1. vheld \subseteq {"context"}
    BY <1>0 DEF VerifyInv, VHolding
  <2> QED BY <1>0, <1>1, <2>1, ReturnKeeps
<1>2. CASE /\ file.len > 0 /\ size' = file.len /\ vheld' = vheld \cup {"mapping"}
           /\ vpc' = "data" /\ quiet' = TRUE
           /\ UNCHANGED <<header, place, seen, status>>
  <2>1. file' = file /\ status = "none" /\ vheld' = {"context", "mapping"}
    BY <1>0, <1>2 DEF Alone, vars, VerifyInv, VHolding
  <2> QED
    BY <1>2, <2>1, <1>0, AloneKeeps DEF VerifyInv, VHolding, Read, Quiet, Judged, OkIsOneImage
<1> QED BY <1>1, <1>2 DEF MapFile

(* A file that is too small is no whole one. *)
LEMMA GetDataKeeps == ASSUME VerifyInv, GetData PROVE VerifyInv'
<1>0. Alone /\ vpc = "data" /\ UNCHANGED quiet
  BY DEF GetData
<1>1. CASE VReturn("io", {"mapping", "context"})
  <2>1. vheld \subseteq {"mapping", "context"}
    BY <1>0 DEF VerifyInv, VHolding
  <2> QED BY <1>0, <1>1, <2>1, ReturnKeeps
<1>2. CASE size < Header + Footer /\ Answer("refused")
  <2>1. quiet => ~Whole
    <3> SUFFICES ASSUME quiet, Whole PROVE FALSE
      OBVIOUS
    <3>1. size = file.len
      BY <1>0 DEF VerifyInv, Quiet
    <3> QED BY <1>2, <3>1, WholeUnits, FileAssumption
  <2> QED BY <1>0, <1>2, <2>1, AnswerKeeps
<1>3. CASE /\ size >= Header + Footer /\ vpc' = "header"
           /\ UNCHANGED <<vheld, size, header, place, seen, status>>
  <2>1. file' = file
    BY <1>0 DEF Alone, vars
  <2> QED
    BY <1>0, <1>3, <2>1, AloneKeeps DEF VerifyInv, VHolding, Read, Quiet, Judged, OkIsOneImage
<1> QED BY <1>1, <1>2, <1>3 DEF GetData

(* The header is copied once, of a document whose size is the mapping's. *)
LEMMA LoadHeaderKeeps == ASSUME VerifyInv, LoadHeader PROVE VerifyInv'
<1>0. Alone /\ vpc = "header" /\ UNCHANGED quiet
  BY DEF LoadHeader
<1>1. file' = file /\ holes' = holes
  BY <1>0 DEF Alone, vars, disk
<1>2. quiet => size = file.len /\ file.len > 0
  BY <1>0 DEF VerifyInv, Quiet
<1>3. Header \in Nat \ {0} /\ Footer \in Nat \ {0}
  BY FileAssumption
<1>4. CASE HeaderPasses /\ header' = file.doc /\ seen' = Units(HeaderPlaces) /\ vpc' = "footer"
           /\ UNCHANGED <<vheld, size, place, status>>
  <2>1. file.doc \in Docs /\ size = Size[file.doc] /\ \A k \in HeaderPlaces : Unit(k) = file.doc
    BY <1>4, UnitsOf DEF HeaderPasses
  <2>2. seen' = Of(file.doc, HeaderPlaces)
    BY <1>4 DEF HeaderPasses
  <2>3. \A k : Unit(k)' = Unit(k)
    BY <1>1 DEF Unit
  <2>4. Read'
    BY <1>4, <2>1, <2>2 DEF Read, Of, HeaderPlaces
  <2>5. Quiet'
    BY <1>0, <1>1, <1>2, <1>4, <2>1, <2>3 DEF Quiet, HeaderPlaces
  <2> QED
    BY <1>0, <1>4, <2>4, <2>5, AloneKeeps DEF VerifyInv, VHolding, Judged, OkIsOneImage
<1>5. CASE ~HeaderPasses /\ Answer("refused")
  <2>1. ASSUME quiet, Whole PROVE FALSE
    <3>1. /\ file.doc \in Docs /\ size = Size[file.doc]
          /\ \A k \in HeaderPlaces : Unit(k) = file.doc
      BY <1>2, <2>1, WholeUnits, Parts
    <3> QED BY <1>5, <3>1, UnitsOf DEF HeaderPasses
  <2> QED BY <1>0, <1>5, <2>1, AnswerKeeps
<1>6. CASE Dies(HeaderPlaces)
  <2>1. ~quiet
    <3> SUFFICES ASSUME quiet PROVE FALSE
      OBVIOUS
    <3>1. PICK k \in HeaderPlaces : k > file.len \/ k > size
      BY <1>6 DEF Dies
    <3>2. size >= Header + Footer /\ file.len \in Nat
      BY <1>0 DEF VerifyInv, VHolding, FileInv, Known, Files
    <3> QED BY <1>2, <1>3, <3>1, <3>2 DEF HeaderPlaces
  <2> QED BY <1>0, <1>6, <2>1, ReturnKeeps DEF Dies
<1> QED BY <1>4, <1>5, <1>6 DEF LoadHeader

(* Header and footer belong to the same document. *)
LEMMA VerifyFooterKeeps == ASSUME VerifyInv, VerifyFooter PROVE VerifyInv'
<1>0. Alone /\ vpc = "footer" /\ UNCHANGED quiet
  BY DEF VerifyFooter
<1>1. file' = file /\ holes' = holes
  BY <1>0 DEF Alone, vars, disk
<1>2. header \in Docs /\ size = Size[header] /\ seen = Of(header, HeaderPlaces)
  BY <1>0 DEF VerifyInv, Read
<1>3. quiet => /\ size = file.len /\ file.len > 0 /\ header = file.doc
               /\ \A k \in HeaderPlaces : Unit(k) = header
  BY <1>0 DEF VerifyInv, Quiet
<1>4. CASE /\ FooterPasses /\ seen' = seen \cup Units(FooterPlaces(header)) /\ place' = Header + 1
           /\ vpc' = "hash" /\ UNCHANGED <<vheld, size, header, status>>
  <2>1. \A k \in FooterPlaces(header) : Unit(k) = header
    BY <1>4, UnitsOf DEF FooterPasses
  <2>2. seen' = Of(header, HeaderPlaces \cup FooterPlaces(header))
    BY <1>2, <1>4 DEF FooterPasses, Of
  <2>3. \A k : Unit(k)' = Unit(k)
    BY <1>1 DEF Unit
  <2>4. \A p \in seen' : \E k \in HeaderPlaces \cup FooterPlaces(header) : p = <<k, header>>
    BY <2>2 DEF Of
  <2>5. place' \in Header + 1 .. Size[header] - Footer + 1
    BY <1>2, <1>4, Parts
  <2>6. Read'
    <3>1. \A p, q \in seen' : p[1] = q[1] => p = q
      BY <2>4
    <3>2. \A p \in seen' : \E k \in Places(header), d \in Docs \cup {NoDoc} :
             p = <<k, d>> /\ k \notin Payload(header) /\ d = header
      BY <2>4, <1>2, Parts
    <3>3. (Of(header, HeaderPlaces \cup FooterPlaces(header)))' \subseteq seen'
      BY <2>2, <1>4 DEF Of, HeaderPlaces, FooterPlaces
    <3> QED
      BY <1>2, <1>4, <2>5, <3>1, <3>2, <3>3 DEF Read, Places, Payload, HeaderPlaces, FooterPlaces
  <2>7. Quiet'
    <3>1. Header + 1 .. place' - 1 = {}
      BY <1>4, FileAssumption
    <3> QED
      BY <1>0, <1>1, <1>3, <1>4, <2>1, <2>3, <3>1 DEF Quiet, HeaderPlaces, FooterPlaces
  <2> QED
    BY <1>0, <1>4, <2>6, <2>7, AloneKeeps DEF VerifyInv, VHolding, Judged, OkIsOneImage
<1>5. CASE ~FooterPasses /\ Answer("refused")
  <2>1. ASSUME quiet, Whole PROVE FALSE
    <3>1. \A k \in FooterPlaces(header) : Unit(k) = header
      BY <1>2, <1>3, <2>1, WholeUnits, Parts
    <3> QED BY <1>5, <3>1, UnitsOf DEF FooterPasses
  <2> QED BY <1>0, <1>5, <2>1, AnswerKeeps
<1>6. CASE Dies(FooterPlaces(header))
  <2>1. ~quiet
    <3> SUFFICES ASSUME quiet PROVE FALSE
      OBVIOUS
    <3>1. PICK k \in FooterPlaces(header) : k > file.len \/ k > size
      BY <1>6 DEF Dies
    <3> QED BY <1>2, <1>3, <3>1, Parts DEF FooterPlaces
  <2> QED BY <1>0, <1>6, <2>1, ReturnKeeps DEF Dies
<1> QED BY <1>4, <1>5, <1>6 DEF VerifyFooter

(* One more unit of the payload is read, each once. *)
LEMMA HashKeeps == ASSUME VerifyInv, Hash PROVE VerifyInv'
<1>0. Alone /\ vpc = "hash" /\ UNCHANGED quiet /\ place \in Payload(header)
  BY DEF Hash
<1>1. file' = file /\ holes' = holes
  BY <1>0 DEF Alone, vars, disk
<1>2. header \in Docs /\ size = Size[header] /\ place \in Nat
  BY <1>0, FileAssumption DEF VerifyInv, Read, Payload
<1>3. CASE /\ seen' = seen \cup Units({place}) /\ place' = place + 1
           /\ UNCHANGED <<vpc, vheld, size, header, status>>
  <2>1. \A k : Unit(k)' = Unit(k)
    BY <1>1 DEF Unit
  <2>2. seen' = seen \cup {<<place, Unit(place)>>}
    BY <1>3 DEF Units
  <2>3. Unit(place) \in Docs \cup {NoDoc}
    BY DEF Unit, VerifyInv, FileInv, Known, Files
  <2>4. Read'
    <3>1. place' \in Header + 1 .. Size[header] - Footer + 1
      BY <1>0, <1>2, <1>3, Parts DEF Payload
    <3>2. \A p \in seen : \E k \in Places(header), d \in Docs \cup {NoDoc} :
             /\ p = <<k, d>>
             /\ k \in Payload(header) => k < place
             /\ k \notin Payload(header) => d = header
      BY <1>0 DEF VerifyInv, Read
    <3>3. \A p \in seen' : \E k \in Places(header), d \in Docs \cup {NoDoc} :
             /\ p = <<k, d>>
             /\ k \in Payload(header) => k < place + 1
             /\ k \notin Payload(header) => d = header
      <4> SUFFICES ASSUME NEW p \in seen'
                   PROVE  \E k \in Places(header), d \in Docs \cup {NoDoc} :
                             /\ p = <<k, d>>
                             /\ k \in Payload(header) => k < place + 1
                             /\ k \notin Payload(header) => d = header
        OBVIOUS
      <4>1. CASE p \in seen
        <5>1. PICK k \in Places(header), d \in Docs \cup {NoDoc} :
                 /\ p = <<k, d>>
                 /\ k \in Payload(header) => k < place
                 /\ k \notin Payload(header) => d = header
          BY <3>2, <4>1
        <5>2. k \in Nat
          BY <1>2, Parts
        <5>3. k \in Payload(header) => k < place + 1
          BY <1>2, <5>1, <5>2
        <5> QED BY <5>1, <5>3
      <4>2. CASE p = <<place, Unit(place)>>
        <5>1. place \in Places(header) /\ place < place + 1
          BY <1>0, <1>2, Parts
        <5> QED BY <1>0, <2>3, <4>2, <5>1
      <4> QED BY <2>2, <4>1, <4>2
    <3>4. \A p, q \in seen' : p[1] = q[1] => p = q
      <4>1. \A p \in seen : p[1] # place
        <5> SUFFICES ASSUME NEW p \in seen, p[1] = place PROVE FALSE
          OBVIOUS
        <5>1. PICK k \in Places(header), d \in Docs \cup {NoDoc} :
                 p = <<k, d>> /\ (k \in Payload(header) => k < place)
          BY <3>2
        <5> QED BY <1>0, <1>2, <5>1
      <4>2. \A p, q \in seen : p[1] = q[1] => p = q
        BY <1>0 DEF VerifyInv, Read
      <4> QED BY <2>2, <4>1, <4>2
    <3>5. Of(header, HeaderPlaces \cup FooterPlaces(header)) \subseteq seen'
      BY <1>0, <2>2 DEF VerifyInv, Read
    <3>6. vpc' = "hash" /\ UNCHANGED <<size, header>>
      BY <1>0, <1>3
    <3> QED
      BY <1>2, <1>3, <3>1, <3>3, <3>4, <3>5, <3>6, ZenonT(40)
      DEF Read, Places, Payload, HeaderPlaces, FooterPlaces, Of
  <2>5. Quiet'
    <3>1. ASSUME quiet, NEW k \in Header + 1 .. place PROVE <<k, Unit(k)>> \in seen'
      <4>1. CASE k = place
        BY <2>2, <4>1
      <4>2. CASE k # place
        <5>1. k \in Header + 1 .. place - 1
          BY <1>2, <3>1, <4>2, FileAssumption
        <5> QED BY <1>0, <2>2, <3>1, <5>1 DEF VerifyInv, Quiet
      <4> QED BY <4>1, <4>2
    <3>2. place' - 1 = place
      BY <1>2, <1>3
    <3>3. quiet => /\ size = file.len /\ file.len > 0 /\ header = file.doc
                   /\ \A k \in HeaderPlaces : Unit(k) = header
                   /\ \A k \in FooterPlaces(header) : Unit(k) = header
      BY <1>0 DEF VerifyInv, Quiet
    <3> QED
      BY <1>0, <1>1, <1>3, <2>1, <3>1, <3>2, <3>3 DEF Quiet, HeaderPlaces, FooterPlaces
  <2> QED
    BY <1>0, <1>3, <2>4, <2>5, AloneKeeps DEF VerifyInv, VHolding, Judged, OkIsOneImage
<1>4. CASE Dies({place})
  <2>1. ~quiet
    <3>1. quiet => size = file.len
      BY <1>0 DEF VerifyInv, Quiet
    <3>2. place <= size
      BY <1>0, <1>2, Parts
    <3> QED BY <1>2, <1>4, <3>1, <3>2, Parts DEF Dies
  <2> QED BY <1>0, <1>4, <2>1, ReturnKeeps DEF Dies
<1> QED BY <1>3, <1>4 DEF Hash

(* The checksum decides between the image of one document and anything else. *)
LEMMA CompareChecksumKeeps == ASSUME VerifyInv, CompareChecksum PROVE VerifyInv'
<1>0. Alone /\ vpc = "hash" /\ UNCHANGED quiet /\ place \notin Payload(header)
  BY DEF CompareChecksum
<1>1. file' = file /\ holes' = holes
  BY <1>0 DEF Alone, vars, disk
<1>2. header \in Docs /\ size = Size[header]
  BY <1>0 DEF VerifyInv, Read
<1>3. place = Size[header] - Footer + 1
  BY <1>0, <1>2, Parts DEF VerifyInv, Read, Payload
<1>4. quiet => /\ size = file.len /\ file.len > 0 /\ header = file.doc
               /\ \A k \in HeaderPlaces : Unit(k) = header
               /\ \A k \in FooterPlaces(header) : Unit(k) = header
               /\ \A k \in Payload(header) : <<k, Unit(k)>> \in seen
  <2>1. \A k \in Payload(header) : k \in Header + 1 .. place - 1
    BY <1>2, <1>3, Parts DEF Payload
  <2> QED BY <1>0, <2>1 DEF VerifyInv, Quiet
<1>5. CASE /\ ChecksumAgrees /\ vpc' = "content"
           /\ UNCHANGED <<vheld, size, header, place, seen, status>>
  <2>1. \A k : Unit(k)' = Unit(k)
    BY <1>1 DEF Unit
  <2>2. \A k \in Places(header) : <<k, header>> \in seen
    <3>1. \A k \in Payload(header) : <<k, header>> \in seen
      BY <1>5 DEF ChecksumAgrees, Of
    <3>2. \A k \in HeaderPlaces \cup FooterPlaces(header) : <<k, header>> \in seen
      BY <1>0 DEF VerifyInv, Read, Of
    <3> QED BY <1>2, <3>1, <3>2, Parts
  <2>3. \A p \in seen : \E k \in Places(header) : p = <<k, header>>
    <3> SUFFICES ASSUME NEW p \in seen PROVE \E k \in Places(header) : p = <<k, header>>
      OBVIOUS
    <3>1. PICK k \in Places(header), d \in Docs \cup {NoDoc} : p = <<k, d>>
      BY <1>0 DEF VerifyInv, Read
    <3>2. <<k, header>> \in seen
      BY <2>2
    <3>3. p = <<k, header>>
      BY <1>0, <3>1, <3>2 DEF VerifyInv, Read
    <3> QED BY <3>3
  <2>4. seen = Of(header, Places(header))
    BY <2>2, <2>3 DEF Of
  <2>5. Read'
    BY <1>2, <1>5, <2>4 DEF Read, Of, Places
  <2>6. ASSUME quiet, NEW k \in Payload(header) PROVE Unit(k) = header
    <3>1. PICK j \in Places(header) : <<k, Unit(k)>> = <<j, header>>
      BY <1>4, <2>3, <2>6
    <3> QED BY <3>1
  <2>7. Quiet'
    BY <1>0, <1>1, <1>4, <1>5, <2>1, <2>6 DEF Quiet, HeaderPlaces, FooterPlaces, Payload
  <2> QED
    BY <1>0, <1>5, <2>5, <2>7, AloneKeeps DEF VerifyInv, VHolding, Judged, OkIsOneImage
<1>6. CASE ~ChecksumAgrees /\ Answer("refused")
  <2>1. ASSUME quiet, Whole PROVE FALSE
    <3>1. \A k \in Payload(header) : Unit(k) = header
      BY <1>2, <1>4, <2>1, WholeUnits, Parts
    <3> QED BY <1>4, <1>6, <2>1, <3>1 DEF ChecksumAgrees, Of
  <2> QED BY <1>0, <1>6, <2>1, AnswerKeeps
<1> QED BY <1>5, <1>6 DEF CompareChecksum

LEMMA VerifyContentKeeps == ASSUME VerifyInv, VerifyContent PROVE VerifyInv'
<1>0. Alone /\ vpc = "content" /\ UNCHANGED quiet
  BY DEF VerifyContent
<1>1. header \in Docs /\ size = Size[header] /\ seen = Of(header, Places(header))
  BY <1>0 DEF VerifyInv, Read
<1>2. quiet => /\ size = file.len /\ header = file.doc
               /\ \A k \in HeaderPlaces : Unit(k) = header
               /\ \A k \in FooterPlaces(header) : Unit(k) = header
               /\ \A k \in Payload(header) : Unit(k) = header
  BY <1>0 DEF VerifyInv, Quiet
<1>3. quiet => Whole
  <2>1. quiet => \A k \in Places(file.doc) : Unit(k) = file.doc
    BY <1>1, <1>2, Parts
  <2> QED BY <1>1, <1>2, <2>1, UnitsWhole DEF VerifyInv
<1>4. CASE Answer("ok") /\ (quiet => header \notin Unverifiable)
  BY <1>0, <1>1, <1>2, <1>3, <1>4, AnswerKeeps DEF Places
<1>5. CASE Answer("refused") /\ (quiet => header \in Unverifiable)
  BY <1>0, <1>2, <1>5, AnswerKeeps
<1>6. CASE Units(Payload(header)) # Of(header, Payload(header))
  <2>1. ~quiet
    BY <1>2, <1>6, UnitsOf
  <2>2. CASE Dies(Payload(header))
    BY <1>0, <2>1, <2>2, ReturnKeeps DEF Dies
  <2> QED BY <1>4, <1>5, <1>6, <2>1, <2>2 DEF VerifyContent
<1> QED BY <1>4, <1>5, <1>6 DEF VerifyContent

(* verify_file hands on the answer and gives back what it took. *)
LEMMA ReleaseKeeps == ASSUME VerifyInv, Release PROVE VerifyInv'
<1>1. /\ Alone /\ vpc = "answered" /\ UNCHANGED quiet
      /\ VReturn(status, {"mapping", "context"})
  BY DEF Release
<1>2. vheld \subseteq {"mapping", "context"}
  BY <1>1 DEF VerifyInv, VHolding
<1>3. /\ status = "ok" => seen = Of(header, 1 .. Size[header])
      /\ quiet => /\ status = "ok" => Whole /\ file.doc \notin Unverifiable
                  /\ status = "refused" => ~Whole \/ file.doc \in Unverifiable
                  /\ status # "died"
  BY <1>1 DEF VerifyInv, OkIsOneImage, Judged
<1> QED BY <1>1, <1>2, <1>3, AnswerKeeps

LEMMA VerifyStep == VerifyInv /\ [VNext]_allVars => VerifyInv'
<1> SUFFICES ASSUME VerifyInv, [VNext]_allVars PROVE VerifyInv'
  OBVIOUS
<1>1. CASE UNCHANGED allVars
  <2>1. Alone /\ UNCHANGED <<vpc, vheld, size, header, place, seen, status, quiet, file, holes>>
    BY <1>1 DEF allVars, verifier, Alone, vars, disk
  <2>2. \A k : Unit(k)' = Unit(k)
    BY <2>1 DEF Unit
  <2>3. Read'
    BY <2>1 DEF VerifyInv, Read, Of, HeaderPlaces, FooterPlaces, Payload, Places
  <2>4. Quiet'
    BY <2>1, <2>2 DEF VerifyInv, Quiet, HeaderPlaces, FooterPlaces, Payload
  <2>5. Judged' /\ OkIsOneImage'
    BY <2>1 DEF VerifyInv, Judged, OkIsOneImage, Whole, Of
  <2> QED
    BY <2>1, <2>3, <2>4, <2>5, AloneKeeps DEF VerifyInv, VHolding
<1> QED
  BY <1>1, WriterRunsKeeps, PowerLossKeeps, BeginKeeps, MapKeeps, GetDataKeeps, LoadHeaderKeeps,
     VerifyFooterKeeps, HashKeeps, CompareChecksumKeeps, VerifyContentKeeps, ReleaseKeeps
  DEF VNext, VerifierStep

LEMMA VerifyInvariant == VSpec => []VerifyInv
<1> QED
  BY VerifyInit, VerifyStep, PTL DEF VSpec

(* bc_hrbl_verify_file on a file that nobody touches meanwhile says "ok"    *)
(* only of the whole image of a document that can be verified, and refuses  *)
(* only what is none, whatever crash or power failure left it; it never     *)
(* reads past its end, and gives back all it took on every way out.         *)
THEOREM VerdictIsExact == VSpec => []VerifyDecides
<1>1. VerifyInv => VerifyDecides
  BY DEF VerifyInv, VHolding, Judged, VerifyDecides
<1> QED
  BY <1>1, VerifyInvariant, PTL

(* "ok" is said of one document, read from one image, even while another   *)
(* one is written over it.                                                 *)
THEOREM OkMeansOneImage == VSpec => []OkIsOneImage
<1>1. VerifyInv => OkIsOneImage
  BY DEF VerifyInv
<1> QED
  BY <1>1, VerifyInvariant, PTL
=============================================================================
