----------------------------- MODULE ExportYaml -----------------------------
(***************************************************************************)
(* bc_hrbl_export_yaml_ex (src/src/export/bc_hrbl_export_yaml.c): a        *)
(* document as a stream of events for the emitter of libyaml, which writes *)
(* to the sink when it likes and is flushed at the end.                    *)
(*                                                                         *)
(* The emitter is external: an accepted event waits in its queue or goes   *)
(* to the sink with all that waits before it; an event is refused, or the  *)
(* sink fails under it.  The result of the scalar events' initialisation   *)
(* is not looked at: text that is not UTF-8, or memory running out, hands  *)
(* the emitter an event nobody has filled in, which it may take for        *)
(* anything.  What the sink received is forgotten after such an event and  *)
(* after a failure.                                                        *)
(***************************************************************************)
EXTENDS ExportDocument

VARIABLES
    queue,  \* events the emitter has accepted and not yet written
    ok      \* of bc_hrbl_export_yaml_ex: no failure in the root's loop or after

vars == <<input, output, scratch, failed, stack, pc, result, queue, ok>>

Emitter == <<"emitter", 0>>
Entries(p) == <<"entries", p>>
Bracket(p) ==
    IF Kind(p) = "array" THEN <<Sign("["), Sign("]")>> ELSE <<Sign("{"), Sign("}")>>
Prologue == <<Sign("stream"), Sign("document")>>
Epilogue == <<Sign("end of document"), Sign("end of stream")>>
Indeterminate == Sign("indeterminate")

Init == ExportInit /\ queue = <<>> /\ ok = TRUE

\* yaml_emitter_emit accepts the events.
Emit(events) ==
    \/ queue' = queue \o events /\ UNCHANGED output
    \/ Write(queue \o events) /\ queue' = <<>>

\* It does not.
EmitFails == queue' = <<>> /\ output' = <<>>

\* A scalar event whose initialisation may have failed.
EmitScalar(event, malformed) ==
    \/ ~malformed /\ Emit(<<event>>)
    \/ queue' = <<>> /\ output' = <<Indeterminate>>

-----------------------------------------------------------------------------
(* The stream and the root                                                 *)

\* Without an emitter there is nothing to do.
Start ==
    /\ pc = "start"
    /\ \/ scratch' = {Emitter} /\ pc' = "root" /\ UNCHANGED result
       \/ Return(FALSE) /\ UNCHANGED scratch
    /\ UNCHANGED <<input, output, failed, stack, queue, ok>>

RootOpening == Prologue \o <<Sign("{")>> \o IF Children(0) = <<>> THEN <<Sign("}")>> ELSE <<>>

Root ==
    /\ pc = "root"
    /\ Emit(RootOpening)
    /\ IF Children(0) = <<>>
       THEN pc' = "finish" /\ UNCHANGED <<scratch, stack>>
       ELSE /\ scratch' = scratch \cup {Entries(0)}
            /\ \E order \in Orders(0) : stack' = <<Frame(0, order)>>
            /\ pc' = "entry"
    /\ UNCHANGED <<input, failed, result, ok>>

\* The emitter refuses, or there is no memory for the entries: all that is
\* held is given back and the call returns at once.
RootFails ==
    /\ pc = "root"
    /\ EmitFails
    /\ failed' \in BOOLEAN
    /\ scratch' = {}
    /\ Return(FALSE)
    /\ UNCHANGED <<input, stack, ok>>

-----------------------------------------------------------------------------
(* Entries and values                                                      *)

EntryKey ==
    /\ pc = "entry" /\ ~Complete /\ Kind(Top.node) = "block"
    /\ \/ EmitScalar(KeyToken(Current), Key(Current) \in MalformedKeys) /\ pc' = "value" /\ UNCHANGED failed
       \/ EmitFails /\ failed' = TRUE /\ pc' = "unwind"
    /\ UNCHANGED <<input, scratch, stack, result, ok>>

Element ==
    /\ pc = "entry" /\ ~Complete /\ Kind(Top.node) = "array"
    /\ pc' = "value"
    /\ UNCHANGED <<input, output, scratch, failed, stack, result, queue, ok>>

Scalar ==
    /\ pc = "value" /\ Kind(Current) \notin {"block", "array", "corrupt", "torn", "unformattable"}
    /\ EmitScalar(ValueToken(Current), Kind(Current) = "malformed")
    /\ stack' = Advanced(stack)
    /\ pc' = "entry"
    /\ UNCHANGED <<input, scratch, failed, result, ok>>

Container ==
    /\ pc = "value" /\ Kind(Current) \in {"block", "array"}
    /\ Emit(<<Bracket(Current)[1]>>)
    /\ \/ /\ \E order \in Orders(Current) : stack' = Append(stack, Frame(Current, order))
          /\ scratch' = IF Kind(Current) = "block" /\ Children(Current) # <<>>
                        THEN scratch \cup {Entries(Current)} ELSE scratch
          /\ pc' = "entry"
          /\ UNCHANGED failed
       \/ /\ Kind(Current) = "block" /\ Children(Current) # <<>>  \* no memory
          /\ failed' = TRUE
          /\ pc' = "unwind"
          /\ UNCHANGED <<stack, scratch>>
    /\ UNCHANGED <<input, result, ok>>

\* The value cannot be read or formatted, or the emitter refuses its event.
ValueFails ==
    /\ pc = "value"
    /\ EmitFails
    /\ failed' = TRUE
    /\ pc' = "unwind"
    /\ UNCHANGED <<input, scratch, stack, result, ok>>

-----------------------------------------------------------------------------
(* The end of a container, and the way out after a failure                 *)

Close ==
    /\ pc = "entry" /\ Complete /\ Top.node # 0
    /\ scratch' = scratch \ {Entries(Top.node)}
    /\ \/ Emit(<<Bracket(Top.node)[2]>>) /\ stack' = Advanced(Front(stack)) /\ UNCHANGED <<failed, pc>>
       \/ EmitFails /\ failed' = TRUE /\ pc' = "unwind" /\ stack' = Front(stack)
    /\ UNCHANGED <<input, result, ok>>

Unwind ==
    /\ pc = "unwind" /\ Top.node # 0
    /\ scratch' = scratch \ {Entries(Top.node)}
    /\ stack' = Front(stack)
    /\ UNCHANGED <<input, output, failed, pc, result, queue, ok>>

\* The root closes its mapping even after a failure.
CloseRoot ==
    /\ Len(stack) = 1 /\ (pc = "unwind" \/ (pc = "entry" /\ Complete))
    /\ scratch' = scratch \ {Entries(0)}
    /\ stack' = <<>>
    /\ \/ Emit(<<Sign("}")>>) /\ ok' = (pc = "entry") /\ UNCHANGED failed
       \/ EmitFails /\ ok' = FALSE /\ failed' = TRUE
    /\ pc' = "finish"
    /\ UNCHANGED <<input, result>>

\* The ends of the document and of the stream: refused, they clear ok, and
\* the handler sets failed if it was the sink.
Finish ==
    /\ pc = "finish"
    /\ \/ Emit(Epilogue) /\ UNCHANGED <<ok, failed>>
       \/ EmitFails /\ ok' = FALSE /\ failed' \in {failed, TRUE}
    /\ pc' = "flush"
    /\ UNCHANGED <<input, scratch, stack, result>>

\* Mutant: the handler's latch is not looked at either.
MutantFlush ==
    /\ pc = "flush"
    /\ \/ Write(queue) /\ queue' = <<>> /\ Return(ok) /\ UNCHANGED failed
       \/ EmitFails /\ failed' = TRUE /\ Return(ok)
    /\ scratch' = scratch \ {Emitter}
    /\ UNCHANGED <<input, stack, ok>>

\* The result of the flush is not looked at: only the handler's latch tells.
Flush ==
    /\ pc = "flush"
    /\ \/ Write(queue) /\ queue' = <<>> /\ Return(ok /\ ~failed) /\ UNCHANGED failed
       \/ EmitFails /\ failed' = TRUE /\ Return(FALSE)
    /\ scratch' = scratch \ {Emitter}
    /\ UNCHANGED <<input, stack, ok>>

Next ==
    \/ Start \/ Root \/ RootFails
    \/ EntryKey \/ Element \/ Scalar \/ Container \/ ValueFails
    \/ Close \/ Unwind \/ CloseRoot \/ Finish \/ Flush

Spec == Init /\ [][Next]_vars

-----------------------------------------------------------------------------
(* Properties                                                              *)

BeginEvent == [i \in 0 .. doc.size |->
                  <<IF Kind(i) \in {"block", "array"} THEN Bracket(i)[1] ELSE ValueToken(i)>>]
LeadEvent == [i \in 0 .. doc.size |-> [k \in 1 .. doc.size |-> [c \in 1 .. doc.size |->
                 IF Kind(i) = "block" THEN <<KeyToken(c)>> ELSE <<>>]]]
EndEvent == [i \in 0 .. doc.size |-> IF Kind(i) \in {"block", "array"} THEN <<Bracket(i)[2]>> ELSE <<>>]

\* The events of a document whose containers are taken in the given order.
Events(order) == Prologue \o Rendered(order, BeginEvent, LeadEvent, EndEvent) \o Epilogue

\* A call that returns true has brought the whole document to the sink, the
\* end of the stream included, unless the emitter accepted an event that was
\* never filled in.
YamlWhole ==
    (pc = "returned" /\ result /\ Indeterminate \notin ToSet(output)) =>
        /\ \A i \in 1 .. doc.size : Kind(i) \notin {"corrupt", "torn", "malformed"}
        /\ \E order \in Orderings : output = Events(order)
=============================================================================
