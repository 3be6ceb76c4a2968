----------------------------- MODULE ExportIni ------------------------------
(***************************************************************************)
(* bc_hrbl_export_ini_ex (src/src/export/bc_hrbl_export_ini.c): a document *)
(* as INI text.  A block writes its header and then its own lines; the     *)
(* blocks inside it are put aside and follow as sections of their own, so  *)
(* that no line lands below the header of another block.                   *)
(*                                                                         *)
(* A frame of the stack is a block being written: first its entries are    *)
(* scanned, then the blocks put aside are entered.  A callee that returns  *)
(* false frees what it owns and its caller sees pc = "unwind".             *)
(***************************************************************************)
EXTENDS ExportDocument

vars == <<input, output, scratch, failed, stack, pc, result>>

Entries(p) == <<"entries", p>>
Blocks(p) == <<"blocks", p>>
Section(p) == <<"section", p>>

IniFrame(p, section, order) ==
    [node |-> p, section |-> section, order |-> order, done |-> 0, blocks |-> <<>>]

\* The name of a section: the keys on the way to the block, joined by dots;
\* the dot is written only after a name that is not empty.
\* Mutant: a section is named by the block's own key.
MutantNewSection(section, key) == IF key = 0 THEN <<>> ELSE <<key>>
NewSection(section, key) ==
    IF section = <<>> THEN (IF key = 0 THEN <<>> ELSE <<key>>) ELSE Append(section, key)

\* bc_hrbl_ini_write_scalar_value: null and NaN are an empty text.
ValueText(i) == IF Kind(i) \in {"null", "nan"} THEN <<>> ELSE <<ValueToken(i)>>

\* bc_hrbl_ini_emit_entry: a line for a scalar, a line for each element of an
\* array, as far as the first element that cannot be written.
Elements(i) == IF Kind(i) = "array" THEN Children(i) ELSE <<i>>
Refused(i) ==
    {k \in 1 .. Len(Elements(i)) :
        Kind(Elements(i)[k]) \in {"block", "array", "corrupt", "torn", "unformattable"}}
LineStart(i) == <<KeyToken(i), Sign("=")>>
Line(i, element) == LineStart(i) \o ValueText(element) \o <<Sign("eol")>>
EntryText(i) ==
    LET count == IF Refused(i) = {} THEN Len(Elements(i)) ELSE Min(Refused(i)) - 1
        lines == FlattenSeq([k \in 1 .. count |-> Line(i, Elements(i)[k])])
    IN  IF Refused(i) # {} /\ Kind(Elements(i)[count + 1]) = "unformattable"
        THEN lines \o LineStart(i) ELSE lines

\* A float the formatter refuses stops the call without setting failed.
RefusalFails(i) == Kind(Elements(i)[Min(Refused(i))]) # "unformattable"

Init == ExportInit

-----------------------------------------------------------------------------
(* The root                                                                *)

Start ==
    /\ pc = "start"
    /\ \/ /\ Children(0) # <<>>
          /\ scratch' = scratch \cup {Entries(0)}
          /\ \E order \in Orders(0) : stack' = <<IniFrame(0, <<>>, order)>>
          /\ pc' = "scan"
          /\ UNCHANGED result
       \/ /\ Return(Children(0) = <<>>)  \* the allocation fails
          /\ UNCHANGED <<scratch, stack>>
    /\ UNCHANGED <<input, output, failed>>

-----------------------------------------------------------------------------
(* emit_block up to its header, called by emit_entry                       *)

\* emit_entry allocates the section's name.
EnterBlock ==
    /\ pc = "blocks" /\ Top.done < Len(Top.blocks) /\ (Top.node = 0 => ~failed)
    /\ LET block == Top.blocks[Top.done + 1]
       IN  \/ /\ scratch' = scratch \cup {Section(block)}
              /\ \E order \in IF Kind(block) = "torn" THEN {<<>>} ELSE Orders(block) :
                    stack' = Append(stack, IniFrame(block, NewSection(Top.section, Key(block)), order))
              /\ pc' = "open"
              /\ UNCHANGED failed
           \/ /\ failed' = TRUE
              /\ pc' = "unwind"
              /\ UNCHANGED <<scratch, stack>>
    /\ UNCHANGED <<input, output, result>>

\* A callee returns false: emit_entry frees the section's name.
Leave(freed) ==
    /\ scratch' = scratch \ (freed \cup {Section(Top.node)})
    /\ stack' = Front(stack)
    /\ pc' = "unwind"
    /\ UNCHANGED <<input, result>>

Header == IF Top.section = <<>> THEN <<>> ELSE <<<<"section", Top.section>>>>
HasEntries == IF Top.order = <<>> THEN {} ELSE {Entries(Top.node)}

OpenBlock ==
    /\ pc = "open" /\ Kind(Top.node) = "block"
    /\ Write(Header)
    /\ scratch' = scratch \cup HasEntries
    /\ pc' = "scan"
    /\ UNCHANGED <<input, failed, stack, result>>

\* The body does not fit the image, no memory for the entries, or the sink
\* fails under the header.
OpenBlockFails ==
    /\ pc = "open"
    /\ \/ /\ Kind(Top.node) = "torn" \/ Top.order # <<>>
          /\ UNCHANGED output
          /\ failed' = TRUE
       \/ Kind(Top.node) = "block" /\ WriteSome(Header)
    /\ Leave({})

-----------------------------------------------------------------------------
(* The scan of a block's entries                                           *)

PutAside ==
    /\ pc = "scan" /\ ~Complete /\ Kind(Current) \in {"block", "torn"}
    /\ scratch' = scratch \cup {Blocks(Top.node)}
    /\ stack' = [stack EXCEPT ![Len(stack)].blocks = Append(@, Current),
                              ![Len(stack)].done = @ + 1]
    /\ UNCHANGED <<input, output, failed, pc, result>>

Lines ==
    /\ pc = "scan" /\ ~Complete /\ Kind(Current) \notin {"block", "torn", "corrupt"}
    /\ Refused(Current) = {}
    /\ Write(EntryText(Current))
    /\ stack' = Advanced(stack)
    /\ UNCHANGED <<input, scratch, failed, pc, result>>

\* The scan ends early.  The root breaks out of its loop; a block returns
\* false, having freed what it names.
StopScan(freed) ==
    IF Top.node = 0
    THEN /\ scratch' = scratch \ {Entries(0)}
         /\ stack' = [stack EXCEPT ![1].done = 0]
         /\ pc' = "blocks"
         /\ UNCHANGED <<input, result>>
    ELSE Leave(freed)

LinesFail ==
    /\ pc = "scan" /\ ~Complete /\ Kind(Current) \notin {"block", "torn", "corrupt"}
    /\ \/ WriteSome(EntryText(Current))
       \/ /\ Refused(Current) # {}
          /\ Write(EntryText(Current))
          /\ failed' = (failed \/ RefusalFails(Current))
    /\ StopScan({Entries(Top.node), Blocks(Top.node)})

\* The kind of an entry cannot be read: only the entries are freed.
KindFails ==
    /\ pc = "scan" /\ ~Complete /\ Kind(Current) = "corrupt"
    /\ failed' = TRUE
    /\ StopScan({Entries(Top.node)})
    /\ UNCHANGED output

\* No memory to put the first block aside.
PutAsideFails ==
    /\ pc = "scan" /\ ~Complete /\ Kind(Current) \in {"block", "torn"} /\ Top.blocks = <<>>
    /\ failed' = TRUE
    /\ StopScan({Entries(Top.node)})
    /\ UNCHANGED output

\* The entries are freed; a nested block sets its sections off by a blank line.
ScanDone ==
    /\ pc = "scan" /\ Complete
    /\ LET blank == IF Top.node = 0 \/ Top.blocks = <<>> THEN <<>> ELSE <<Sign("eol")>>
       IN  \/ /\ Write(blank)
              /\ scratch' = scratch \ {Entries(Top.node)}
              /\ stack' = [stack EXCEPT ![Len(stack)].done = 0]
              /\ pc' = "blocks"
              /\ UNCHANGED <<input, failed, result>>
           \/ /\ WriteSome(blank)
              /\ Leave({Entries(Top.node), Blocks(Top.node)})

-----------------------------------------------------------------------------
(* The end of a block                                                      *)

BlockDone ==
    /\ pc = "blocks" /\ Top.node # 0 /\ Top.done = Len(Top.blocks)
    /\ scratch' = scratch \ {Blocks(Top.node), Section(Top.node)}
    /\ stack' = Advanced(Front(stack))
    /\ UNCHANGED <<input, output, failed, pc, result>>

\* Also when the root's loop over its blocks is left early.
RootDone ==
    /\ Len(stack) = 1
    /\ \/ pc = "blocks" /\ (failed \/ Top.done = Len(Top.blocks))
       \/ pc = "unwind"
    /\ scratch' = scratch \ {Blocks(0)}
    /\ stack' = <<>>
    /\ Return(~failed)
    /\ UNCHANGED <<input, output, failed>>

\* emit_entry returned false to the loop over a block's blocks.
Unwind ==
    /\ pc = "unwind" /\ Len(stack) > 1
    /\ Leave({Blocks(Top.node)})
    /\ UNCHANGED <<output, failed>>

Next ==
    \/ Start
    \/ EnterBlock \/ OpenBlock \/ OpenBlockFails
    \/ PutAside \/ Lines \/ LinesFail \/ KindFails \/ PutAsideFails \/ ScanDone
    \/ BlockDone \/ RootDone \/ Unwind

Spec == Init /\ [][Next]_vars

-----------------------------------------------------------------------------
(* Properties                                                              *)

\* The scratch memory is released when the call returns, with one exception:
\* a block that has put blocks aside and then meets an entry whose kind
\* cannot be read.
IniScratch ==
    pc = "returned" =>
        scratch \subseteq {Blocks(p) : p \in {q \in 1 .. doc.size :
                                   \E i \in ToSet(Children(q)) : Kind(i) = "corrupt"}}

\* Reading INI text: a line belongs to the last header above it.
Assignments == {j \in 1 .. Len(output) : output[j][1] = "="}
ReadSection(j) ==
    LET headers == {k \in 1 .. j : output[k][1] = "section"}
    IN  IF headers = {} THEN <<>> ELSE output[Max(headers)][2]
ReadLine(j) ==
    <<ReadSection(j), output[j - 1][2], IF output[j + 1][1] = "value" THEN output[j + 1][2] ELSE 0>>

\* What the text should say: the way to the value, its key and the value.
Parent(i) == CHOOSE p \in 0 .. doc.size : i \in ToSet(Children(p))
Path(i) == LET path[p \in 0 .. doc.size] == IF p = 0 THEN <<>> ELSE Append(path[Parent(p)], Key(p))
           IN  path[i]
Owner(i) == IF Kind(Parent(i)) = "array" THEN Parent(i) ELSE i
DocumentLine(i) ==
    <<Path(Parent(Owner(i))), Key(Owner(i)), IF Kind(i) \in {"null", "nan"} THEN 0 ELSE i>>
Leaves == {i \in 1 .. doc.size : Kind(i) \notin {"block", "array"}}

\* A block with the empty key at the root has no header: its lines are read
\* as part of whatever precedes them.
AnonymousSection == \E i \in ToSet(Children(0)) : Kind(i) = "block" /\ Key(i) = 0

\* A call that returns true has written every value once, on a line of its
\* key and below the header of its block, whatever the order of the entries.
IniReadsBack ==
    (/\ pc = "returned" /\ result
     /\ ~AnonymousSection
     /\ \A i \in 1 .. doc.size : Kind(i) # "unformattable") =>
        \A line \in {ReadLine(j) : j \in Assignments} \cup {DocumentLine(i) : i \in Leaves} :
            Cardinality({j \in Assignments : ReadLine(j) = line})
                = Cardinality({i \in Leaves : DocumentLine(i) = line})
=============================================================================
