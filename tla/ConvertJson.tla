---------------------------- MODULE ConvertJson -----------------------------
(***************************************************************************)
(* JSON text into a writer (src/src/convert/bc_hrbl_convert_json.c), on    *)
(* top of the writer of module Writer.                                     *)
(*                                                                         *)
(* mode "writer": bc_hrbl_convert_json_to_writer on the caller's own       *)
(* writer, which the caller uses before and after the call.  mode          *)
(* "buffer": bc_hrbl_convert_json_buffer_to_hrbl, which makes a writer,    *)
(* finalizes and destroys it.                                              *)
(*                                                                         *)
(* json-c is external: it turns the text into a tree (json, chosen at the  *)
(* start; an object has each key once) or reports an error.  A number is   *)
(* "int" within int64 and below its maximum, "max" the maximum, "above"    *)
(* past it and within uint64, for json-c saturates the integers outside    *)
(* silently; a string is "text" or "empty".  The emitters also refuse a    *)
(* value of a type they do not know and a string of negative length:       *)
(* "odd".  json-c has neither for a text it has parsed, of at most         *)
(* INT32_MAX bytes.                                                        *)
(***************************************************************************)
EXTENDS Writer, Trees

CONSTANTS
    JsonSize,      \* bound: values of a JSON text
    JsonKinds,     \* kinds of JSON values considered; "block" is an object
    CallerNodes    \* bound: nodes the caller adds before the conversion

ASSUME ConvertAssumption ==
    /\ JsonSize \in Nat /\ CallerNodes \in Nat
    /\ JsonKinds \subseteq {"null", "int", "max", "above", "text", "empty", "block", "array", "odd"}

\* set_null, set_int64, set_uint64 and set_string are among the writer's calls.
ASSUME CallsAssumption ==
    /\ "null" \in PlainKinds
    /\ {"int64", "uint64"} \subseteq NumberKinds
    /\ {"int", "max", "above", "text"} \subseteq Values

VARIABLES
    mode,
    json,    \* [size, kind, key, parent, children]
    step,    \* where the conversion is
    before,  \* the writer when it was called: [used, scope]
    frames,  \* objects and arrays being emitted, innermost last: [node, done]
    held,    \* objects of json-c held
    ok       \* what the conversion answers

convertVars == <<mode, json, step, before, frames, held, ok>>

JsonTrees ==
    UNION {UNION {UNION {
        {[size |-> n, kind |-> k, parent |-> f, children |-> ChildLists(f, n), key |-> keys] :
            keys \in {g \in [KeyedNodes(f, n, k) -> Keys \cup {"empty"}] :
                        \A i, j \in DOMAIN g : (i # j /\ f[i] = f[j]) => g[i] # g[j]}} :
        k \in Labels(f, n, JsonKinds, {"block", "array"})} :
        f \in Forests(n)} :
        n \in 0 .. JsonSize}

ConvertInit ==
    /\ Init
    /\ mode \in {"writer", "buffer"}
    /\ json \in JsonTrees
    /\ step = "idle"
    /\ before = [used |-> 0, scope |-> Root]
    /\ frames = <<>>
    /\ held = {}
    /\ ok = FALSE

-----------------------------------------------------------------------------
(* The caller's own use of the writer, before and after the conversion     *)

Caller ==
    /\ mode = "writer" /\ step \in {"idle", "returned"}
    /\ \/ Create
       \/ Destroy
       \/ step = "idle" /\ used < CallerNodes /\ \E kd \in ContainerKinds : BeginContainer("null", kd)
       \/ \E kd \in ContainerKinds : EndContainer(kd)
       \/ FinalizeToBuffer
    /\ UNCHANGED convertVars

\* json_to_writer is called, or json_buffer_to_hrbl makes a writer for it.
Call ==
    /\ step = "idle"
    /\ IF mode = "writer" THEN phase = "live" /\ UNCHANGED vars ELSE Create
    /\ step' = "tokener"
    /\ before' = [used |-> used, scope |-> current_scope]
    /\ UNCHANGED <<mode, json, frames, held, ok>>

-----------------------------------------------------------------------------
(* Parsing                                                                 *)

\* An exit before anything is emitted: the answer is false.
GiveUp(kept) ==
    /\ step' = "finish"
    /\ held' = kept
    /\ UNCHANGED <<mode, json, before, frames, ok>>

\* The text is too long for json-c, or there is no memory for the tokener.
NewTokener ==
    /\ step = "tokener"
    /\ \/ GiveUp({})
       \/ /\ held' = {"tokener"} /\ step' = "parse"
          /\ UNCHANGED <<mode, json, before, frames, ok>>
    /\ UNCHANGED vars

\* The tokener is freed on both ways out, a partial tree with it.
Parse ==
    /\ step = "parse"
    /\ \/ GiveUp({})
       \/ /\ held' = {"root"} /\ step' = "check"
          /\ UNCHANGED <<mode, json, before, frames, ok>>
    /\ UNCHANGED vars

\* Mutant: trailing content, or a root that is no object, forgets the tree.
MutantCheck ==
    /\ step = "check"
    /\ \/ GiveUp({"root"})
       \/ /\ frames' = <<[node |-> 0, done |-> 0]>> /\ step' = "emit"
          /\ UNCHANGED <<mode, json, before, held, ok>>
    /\ UNCHANGED vars

Check ==
    /\ step = "check"
    /\ \/ GiveUp({})
       \/ /\ frames' = <<[node |-> 0, done |-> 0]>> /\ step' = "emit"
          /\ UNCHANGED <<mode, json, before, held, ok>>
    /\ UNCHANGED vars

-----------------------------------------------------------------------------
(* emit_object_body, emit_array_body and the values in them                *)

Frame == frames[Len(frames)]
Within == IF Frame.node = 0 THEN "block" ELSE json.kind[Frame.node]
BodyDone == Frame.done = Len(json.children[Frame.node])
Value == json.children[Frame.node][Frame.done + 1]
KeyArg == IF Within = "block" THEN json.key[Value] ELSE "null"

Advance(fs) == [fs EXCEPT ![Len(fs)].done = @ + 1]

\* Mutant: the signed value is taken as it is.
MutantNumber(k) == [kind |-> "int64", value |-> IF k = "above" THEN "max" ELSE k]

\* get_int64 saturates; at the maximum the unsigned value decides.
Number(k) ==
    LET signed == IF k = "above" THEN "max" ELSE k
    IN  IF signed = "max" /\ k = "above" THEN [kind |-> "uint64", value |-> k]
                                         ELSE [kind |-> "int64", value |-> signed]

\* A call of the writer failed: every emitter on the way returns false and
\* none closes what it has opened.
After(advanced) ==
    IF error_flag'
    THEN step' = "finish" /\ frames' = <<>> /\ held' = {}
    ELSE frames' = advanced /\ UNCHANGED <<step, held>>

EmitLeaf ==
    /\ step = "emit" /\ ~BodyDone
    /\ CASE json.kind[Value] = "null" -> AddPlain(KeyArg, "null", Within = "block")
         [] json.kind[Value] \in {"text", "empty"} -> AddString(KeyArg, json.kind[Value], Within = "block")
         [] json.kind[Value] \in {"int", "max", "above"} ->
                LET number == Number(json.kind[Value])
                IN  AddNumber(KeyArg, number.kind, number.value, Within = "block")
         [] OTHER -> FALSE
    /\ After(Advance(frames))
    /\ UNCHANGED <<mode, json, before, ok>>

\* The writer is not called: it stays as it is, scopes open, and unfailed.
CannotEmit ==
    /\ step = "emit" /\ ~BodyDone /\ json.kind[Value] = "odd"
    /\ step' = "finish"
    /\ frames' = <<>>
    /\ held' = {}
    /\ UNCHANGED <<vars, mode, json, before, ok>>

EmitContainer ==
    /\ step = "emit" /\ ~BodyDone /\ json.kind[Value] \in ContainerKinds
    /\ BeginContainer(KeyArg, json.kind[Value])
    /\ After(Append(frames, [node |-> Value, done |-> 0]))
    /\ UNCHANGED <<mode, json, before, ok>>

\* Mutant: an empty container is taken for a failure of the conversion.
MutantEndBody ==
    /\ step = "emit" /\ BodyDone /\ Frame.node # 0
    /\ IF Frame.done = 0
       THEN step' = "finish" /\ frames' = <<>> /\ held' = {} /\ UNCHANGED vars
       ELSE EndContainer(Within) /\ After(Advance(SubSeq(frames, 1, Len(frames) - 1)))
    /\ UNCHANGED <<mode, json, before, ok>>

EndBody ==
    /\ step = "emit" /\ BodyDone /\ Frame.node # 0
    /\ EndContainer(Within)
    /\ After(Advance(SubSeq(frames, 1, Len(frames) - 1)))
    /\ UNCHANGED <<mode, json, before, ok>>

EndRoot ==
    /\ step = "emit" /\ BodyDone /\ Frame.node = 0
    /\ step' = "finish"
    /\ frames' = <<>>
    /\ held' = {}
    /\ ok' = TRUE
    /\ UNCHANGED <<vars, mode, json, before>>

-----------------------------------------------------------------------------
(* The end of the call                                                     *)

Return ==
    /\ step = "finish" /\ mode = "writer"
    /\ step' = "returned"
    /\ UNCHANGED <<vars, mode, json, before, frames, held, ok>>

Finalize ==
    /\ step = "finish" /\ mode = "buffer" /\ ok
    /\ FinalizeToBuffer
    /\ step' = "destroy"
    /\ ok' = (delivered' = "document")
    /\ UNCHANGED <<mode, json, before, frames, held>>

DestroyWriter ==
    /\ mode = "buffer"
    /\ step = "destroy" \/ (step = "finish" /\ ~ok)
    /\ Destroy
    /\ step' = "returned"
    /\ UNCHANGED <<mode, json, before, frames, held, ok>>

ConvertNext ==
    \/ Caller \/ Call
    \/ NewTokener \/ Parse \/ Check
    \/ EmitLeaf \/ CannotEmit \/ EmitContainer \/ EndBody \/ EndRoot
    \/ Return \/ Finalize \/ DestroyWriter

ConvertSpec == ConvertInit /\ [][ConvertNext]_<<vars, convertVars>>

-----------------------------------------------------------------------------
(* Properties                                                              *)

\* Where the values of a container go in the writer.
ScopeFor(p) == IF p = 0 THEN before.scope ELSE before.used + p

\* The writer's nodes since the call are the values of the JSON text, in its
\* order and nesting, each number with its exact value.
NodeIsValue(n, i) ==
    /\ parent[n] = ScopeFor(json.parent[i])
    /\ key[n] = IF i \in DOMAIN json.key THEN json.key[i] ELSE "unset"
    /\ CASE json.kind[i] \in {"int", "max"} -> kind[n] = "int64" /\ value[n] = json.kind[i]
         [] json.kind[i] = "above" -> kind[n] = "uint64" /\ value[n] = "above"
         [] json.kind[i] \in {"text", "empty"} -> kind[n] = "string" /\ value[n] = json.kind[i]
         [] OTHER -> kind[n] = json.kind[i]

\* A conversion that answers true has added the whole JSON text to the
\* writer and left it in the scope it found; a buffer is only handed over
\* for the whole text.  (An empty object asks nothing of the writer: it is
\* converted even into one that has failed.)
ConvertsWhole ==
    (step = "finish" /\ ok) \/ (mode = "buffer" /\ delivered = "document") =>
        /\ used = before.used + json.size
        /\ \A i \in 1 .. json.size : NodeIsValue(before.used + i, i)
        /\ current_scope = before.scope
        /\ json.size > 0 => ~error_flag

\* The text up to an odd value is in the writer, and nothing after it.
StoppedAtOdd ==
    \E i \in 1 .. json.size :
        /\ json.kind[i] = "odd"
        /\ used = before.used + i - 1
        /\ \A j \in 1 .. i - 1 : NodeIsValue(before.used + j, j)
        /\ current_scope <= ScopeFor(json.parent[i])

\* A conversion that answers false has not touched the writer's tree, or the
\* writer has failed for good (FailureIsFinal): the caller who goes on to
\* close the scopes and to finalize gets half a text only where json-c came
\* up with a value the emitters do not know, and then what precedes it.
FailureNeverDelivered ==
    (step = "returned" /\ ~ok /\ phase = "live") =>
        \/ error_flag
        \/ used = before.used /\ current_scope <= before.scope
        \/ StoppedAtOdd

\* Nothing of json-c is held after the call, and no writer of its own.
JsonReleased ==
    step = "returned" => held = {} /\ (mode = "buffer" => phase = "gone")
=============================================================================
