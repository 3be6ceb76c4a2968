----------------------------- MODULE ExportJson -----------------------------
(***************************************************************************)
(* bc_hrbl_export_json_ex (src/src/export/bc_hrbl_export.c): a document as *)
(* JSON text.  export_value, export_block and export_array call each other *)
(* down the document; their frames are the variable stack, the root's      *)
(* frame first.  Layout (newlines, indentation) is left out.               *)
(***************************************************************************)
EXTENDS ExportDocument

vars == <<input, output, scratch, failed, stack, pc, result>>

Entries(p) == <<"entries", p>>
Bracket(p) ==
    IF Kind(p) = "array" THEN <<Sign("["), Sign("]")>> ELSE <<Sign("{"), Sign("}")>>

\* bc_hrbl_export_value on a scalar: NaN and infinities have no JSON form.
Text(i) == IF Kind(i) \in {"null", "nan"} THEN <<Sign("null")>> ELSE <<ValueToken(i)>>

\* What precedes the entry's value: a comma and, in a block, the key.  A key
\* that is not UTF-8 ends the text before the key is complete.
KeyText(i) ==
    IF Kind(Top.node) # "block" THEN <<>>
    ELSE IF Key(i) \in MalformedKeys THEN <<KeyToken(i)>> ELSE <<KeyToken(i), Sign(":")>>
Prefix(i) == (IF Top.done = 0 THEN <<>> ELSE <<Sign(",")>>) \o KeyText(i)

Init == ExportInit

-----------------------------------------------------------------------------
(* The root                                                                *)

StartEmpty ==
    /\ pc = "start" /\ Children(0) = <<>>
    /\ \/ Write(Bracket(0)) /\ Return(TRUE) /\ UNCHANGED failed
       \/ WriteSome(Bracket(0)) /\ Return(FALSE)
    /\ UNCHANGED <<input, scratch, stack>>

\* The root's failed allocation leaves write_failed alone: the call returns at once.
Start ==
    /\ pc = "start" /\ Children(0) # <<>>
    /\ \/ /\ Write(<<Sign("{")>>)
          /\ scratch' = scratch \cup {Entries(0)}
          /\ \E order \in Orders(0) : stack' = <<Frame(0, order)>>
          /\ pc' = "entry"
          /\ UNCHANGED <<failed, result>>
       \/ /\ Write(<<Sign("{")>>) /\ Return(FALSE)
          /\ UNCHANGED <<failed, scratch, stack>>
       \/ /\ WriteSome(<<Sign("{")>>) /\ Return(FALSE)
          /\ UNCHANGED <<scratch, stack>>
    /\ UNCHANGED input

-----------------------------------------------------------------------------
(* Entries and values                                                      *)

Entry ==
    /\ pc = "entry" /\ ~Complete
    /\ \/ /\ Kind(Top.node) = "block" => Key(Current) \notin MalformedKeys
          /\ Write(Prefix(Current)) /\ pc' = "value"
          /\ UNCHANGED failed
       \/ /\ WriteSome(Prefix(Current)) /\ pc' = "unwind"
    /\ UNCHANGED <<input, scratch, stack, result>>

Scalar ==
    /\ pc = "value" /\ Kind(Current) \in {"null", "number", "float", "nan", "string"}
    /\ Write(Text(Current))
    /\ stack' = Advanced(stack)
    /\ pc' = "entry"
    /\ UNCHANGED <<input, scratch, failed, result>>

EmptyContainer ==
    /\ pc = "value" /\ Kind(Current) \in {"block", "array"} /\ Children(Current) = <<>>
    /\ Write(Bracket(Current))
    /\ stack' = Advanced(stack)
    /\ pc' = "entry"
    /\ UNCHANGED <<input, scratch, failed, result>>

OpenContainer ==
    /\ pc = "value" /\ Kind(Current) \in {"block", "array"} /\ Children(Current) # <<>>
    /\ Write(<<Bracket(Current)[1]>>)
    /\ \E order \in Orders(Current) : stack' = Append(stack, Frame(Current, order))
    /\ scratch' = IF Kind(Current) = "block" THEN scratch \cup {Entries(Current)} ELSE scratch
    /\ pc' = "entry"
    /\ UNCHANGED <<input, failed, result>>

OpenBlockFails ==
    /\ pc = "value" /\ Kind(Current) = "block" /\ Children(Current) # <<>>
    /\ Write(<<Sign("{")>>)
    /\ failed' = TRUE
    /\ pc' = "unwind"
    /\ UNCHANGED <<input, scratch, stack, result>>

\* The value cannot be read or formatted, or the sink fails under it.
ValueFails ==
    /\ pc = "value"
    /\ IF Kind(Current) \in {"block", "array"}
       THEN WriteSome(IF Children(Current) = <<>> THEN Bracket(Current)
                                                  ELSE <<Bracket(Current)[1]>>)
       ELSE WriteSome(<<ValueToken(Current)>>)
    /\ pc' = "unwind"
    /\ UNCHANGED <<input, scratch, stack, result>>

-----------------------------------------------------------------------------
(* The end of a container, and the way out after a failure                 *)

\* The scratch is freed before the bracket is written.
Close ==
    /\ pc = "entry" /\ Complete
    /\ scratch' = scratch \ {Entries(Top.node)}
    /\ stack' = Advanced(Front(stack))
    /\ \/ /\ Write(<<Bracket(Top.node)[2]>>)
          /\ IF Len(stack) = 1 THEN Return(TRUE) ELSE UNCHANGED <<pc, result>>
          /\ UNCHANGED failed
       \/ /\ WriteSome(<<Bracket(Top.node)[2]>>)
          /\ IF Len(stack) = 1 THEN Return(FALSE) ELSE pc' = "unwind" /\ UNCHANGED result
    /\ UNCHANGED input

\* Mutant: a block whose value fails returns without freeing its entries.
MutantUnwindKeeps ==
    /\ pc = "unwind"
    /\ stack' = Front(stack)
    /\ IF Len(stack) = 1 THEN Return(FALSE) ELSE UNCHANGED <<pc, result>>
    /\ UNCHANGED <<input, output, scratch, failed>>

\* Mutant: the root does not look at what its last value returned.
MutantUnwindTrue ==
    /\ pc = "unwind"
    /\ scratch' = scratch \ {Entries(Top.node)}
    /\ stack' = Front(stack)
    /\ IF Len(stack) = 1 THEN Return(TRUE) ELSE UNCHANGED <<pc, result>>
    /\ UNCHANGED <<input, output, failed>>

Unwind ==
    /\ pc = "unwind"
    /\ scratch' = scratch \ {Entries(Top.node)}
    /\ stack' = Front(stack)
    /\ IF Len(stack) = 1 THEN Return(FALSE) ELSE UNCHANGED <<pc, result>>
    /\ UNCHANGED <<input, output, failed>>

Next ==
    \/ StartEmpty \/ Start
    \/ Entry \/ Scalar \/ EmptyContainer \/ OpenContainer \/ OpenBlockFails \/ ValueFails
    \/ Close \/ Unwind

Spec == Init /\ [][Next]_vars

-----------------------------------------------------------------------------
(* Properties                                                              *)

Representable ==
    \A p \in 0 .. doc.size :
        /\ Kind(p) \notin {"malformed", "corrupt", "torn"}
        /\ Kind(p) = "block" => \A i \in ToSet(Children(p)) : Key(i) \notin MalformedKeys

Container(i) == Kind(i) \in {"block", "array"}
Begin == [i \in 0 .. doc.size |-> IF Container(i) THEN <<Bracket(i)[1]>> ELSE Text(i)]
Lead == [i \in 0 .. doc.size |-> [k \in 1 .. doc.size |-> [c \in 1 .. doc.size |->
            (IF k = 1 THEN <<>> ELSE <<Sign(",")>>)
            \o (IF Kind(i) = "block" THEN <<KeyToken(c), Sign(":")>> ELSE <<>>)]]]
End == [i \in 0 .. doc.size |-> IF Container(i) THEN <<Bracket(i)[2]>> ELSE <<>>]

\* The text of a document whose containers are taken in the given order.
Rendering(order) == Rendered(order, Begin, Lead, End)

\* A call that returns true has written the whole document and nothing else:
\* every value below its key, each block's keys in order if they are sorted.
JsonWhole ==
    (pc = "returned" /\ result) =>
        Representable /\ \E order \in Orderings : output = Rendering(order)

\* Whatever fails, the sink never holds anything but the beginning of the
\* document's text: an unwritable value is not skipped over.
JsonPrefix ==
    pc \in {"unwind", "returned"} =>
        \E order \in Orderings : IsPrefix(output, Rendering(order))

=============================================================================
