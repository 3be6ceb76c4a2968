------------------------------ MODULE MCExport ------------------------------
(***************************************************************************)
(* Instances of the three exporters for TLC: one call of one of them, on   *)
(* every small document with the kinds and keys it treats differently: a   *)
(* key that is not UTF-8 for JSON, the empty key for INI.                  *)
(***************************************************************************)
EXTENDS ExportDocument

CONSTANTS OmittedKinds, OmittedKeys  \* bound: what a format's documents lack

VARIABLES
    format,    \* the exporter that was called
    queue, ok  \* of ExportYaml

J == INSTANCE ExportJson
Y == INSTANCE ExportYaml
I == INSTANCE ExportIni

yaml == <<queue, ok>>
vars == <<format, input, output, scratch, failed, stack, pc, result, yaml>>

\* For each format, all but what it treats like something else.
SmallKinds == [json |-> {"unformattable"}, yaml |-> {"null", "unformattable", "malformed"},
               ini |-> {"malformed"}]
SmallKeys == [json |-> {}, yaml |-> {0}, ini |-> {2}]

Considered ==
    /\ \A i \in 1 .. doc.size : Kind(i) \notin OmittedKinds[format]
    /\ \A p \in 0 .. doc.size : Kind(p) = "block" =>
          \A k \in 1 .. Len(Children(p)) : Key(Children(p)[k]) \notin OmittedKeys[format]

Init ==
    /\ \/ format = "json" /\ J!Init /\ queue = <<>> /\ ok = TRUE
       \/ format = "yaml" /\ Y!Init
       \/ format = "ini" /\ I!Init /\ queue = <<>> /\ ok = TRUE
    /\ Considered

Next ==
    \/ format = "json" /\ J!Next /\ UNCHANGED <<format, yaml>>
    \/ format = "yaml" /\ Y!Next /\ UNCHANGED format
    \/ format = "ini" /\ I!Next /\ UNCHANGED <<format, yaml>>

Spec == Init /\ [][Next]_vars

-----------------------------------------------------------------------------
(* No call leaves scratch memory behind, whichever step of it failed: the   *)
(* pool belongs to the reader and lives as long as it does.  The INI export *)
(* has one exception: a block that has put blocks aside and then meets an   *)
(* entry whose kind cannot be read.                                         *)
ReleasesScratch == IF format = "ini" THEN I!IniScratch ELSE ScratchReleased

(* JSON: a call that returns true has written the whole document and        *)
(* nothing else: every value below its key, sorted if so asked.  Whatever   *)
(* fails, the sink holds a beginning of that text: nothing is skipped over. *)
JsonWhole == format = "json" => J!JsonWhole /\ J!JsonPrefix

(* YAML: a call that returns true has brought the whole document to the     *)
(* sink, the end of the stream included, though the emitter writes when it  *)
(* likes and the result of the last flush is not looked at.  Nothing is     *)
(* said of a call whose emitter took an event that was never filled in.     *)
YamlWhole == format = "yaml" => Y!YamlWhole

(* INI: a call that returns true has written every value once, on a line of *)
(* its key and below the header of its block, in whatever order blocks and  *)
(* other values are mixed.                                                  *)
IniReadsBack == format = "ini" => I!IniReadsBack

(* What every other way out of the INI export does: the blocks put aside    *)
(* are released when the call returns.                                      *)
IniReleasesScratch == format = "ini" => ScratchReleased
=============================================================================
