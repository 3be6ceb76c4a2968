------------------------------- MODULE Reader -------------------------------
(***************************************************************************)
(* What the reader (src/src/reader/bc_hrbl_reader.c) and the verifier      *)
(* (src/src/verify/bc_hrbl_verify.c) make of an image, as operators.  A    *)
(* read of memory where nothing of the expected sort was stored gives      *)
(* Invalid, as does a refusal of the code.                                 *)
(***************************************************************************)
EXTENDS Format, FiniteSets

CONSTANTS
    Measure(_),    \* length of a string in bytes
    WellFormed(_), \* is a string UTF-8
    RootCountMax   \* BC_HRBL_ROOT_COUNT_MAX

Invalid == [tag |-> "invalid"]

Item(img, offset, tag) ==
    IF offset \in DOMAIN img.nodes /\ img.nodes[offset].tag = tag THEN img.nodes[offset] ELSE Invalid

\* The string of the given length at a reference.
Text(img, ref, length) ==
    IF /\ ref \in DOMAIN img.strings
       /\ ref + 4 + length <= img.size
       /\ Measure(img.strings[ref]) = length
    THEN [tag |-> "text", text |-> img.strings[ref]]
    ELSE Invalid

KindAt(img, offset) ==
    IF /\ offset >= img.nodes_offset
       /\ offset < img.nodes_offset + img.nodes_size
       /\ Item(img, offset, "kind") # Invalid
    THEN img.nodes[offset].kind
    ELSE "invalid"

\* Number of entries and offset of the first, of a block or an array.
BodyOffsets(img, offset, kind, entry_size) ==
    LET body == AlignUp(offset + 1, 8)
        header == Item(img, body, "count")
    IN  IF /\ offset < img.size
           /\ Item(img, offset, "kind") # Invalid
           /\ img.nodes[offset].kind = kind
           /\ header # Invalid
           /\ body + ContainerHeaderSize + header.count * entry_size <= img.size
        THEN [tag |-> "body", count |-> header.count, first |-> body + ContainerHeaderSize]
        ELSE Invalid

ScalarBody(img, offset, kind) ==
    LET body == AlignUp(offset + 1, KindBodyAlign(kind))
    IN  IF body + KindBodySize(kind) <= img.size THEN Item(img, body, kind) ELSE Invalid

\* The value at an offset and all below it, as iterating and the getters
\* give it: a block is the sequence of its keys and values.
ReadValue(img, root) ==
    LET read[offset \in Nat] ==
        LET kind == KindAt(img, offset)
        IN  CASE kind = "null" -> <<"null">>
              [] kind = "int64" -> LET body == ScalarBody(img, offset, "int64")
                                   IN  IF body = Invalid THEN <<"invalid">> ELSE <<"int64", body.value>>
              [] kind = "string" ->
                    LET body == ScalarBody(img, offset, "string")
                        at == AlignUp(offset + 1, 4)
                        text == IF body = Invalid THEN Invalid ELSE Text(img, img.refs[at], body.length)
                    IN  IF text = Invalid THEN <<"invalid">> ELSE <<"string", text.text>>
              [] kind = "array" ->
                    LET body == BodyOffsets(img, offset, "array", ElementSize)
                    IN  IF body = Invalid THEN <<"invalid">>
                        ELSE <<"array", [k \in 1 .. body.count |->
                                LET e == Item(img, body.first + (k - 1) * ElementSize, "element")
                                IN  IF e = Invalid THEN <<"invalid">> ELSE read[e.value]]>>
              [] kind = "block" ->
                    LET body == BodyOffsets(img, offset, "block", EntrySize)
                    IN  IF body = Invalid THEN <<"invalid">>
                        ELSE <<"block", [k \in 1 .. body.count |->
                                LET at == body.first + (k - 1) * EntrySize
                                    e == Item(img, at, "entry")
                                IN  IF e = Invalid THEN <<"invalid">>
                                    ELSE <<Text(img, img.refs[at + KeyOffsetField], e.length), read[e.value]>>]>>
              [] OTHER -> <<"invalid">>
    IN  read[root]

ReadRoots(img) ==
    [k \in 1 .. img.root_count |->
        LET e == img.roots[k]
        IN  <<Text(img, e.ref, e.length), ReadValue(img, e.value)>>]

\* Hashes of the entries of a block, in the order they are stored.
BlockHashes(img, offset) ==
    LET body == BodyOffsets(img, offset, "block", EntrySize)
    IN  [k \in 1 .. body.count |-> Item(img, body.first + (k - 1) * EntrySize, "entry").hash]

-----------------------------------------------------------------------------
(* bc_hrbl_verify_buffer, and what bc_hrbl_reader_open looks at.           *)

\* The status of the first check that fails.
FirstFault(checks) ==
    LET failed == {k \in DOMAIN checks : ~checks[k][1]}
    IN  IF failed = {} THEN "ok" ELSE checks[CHOOSE k \in failed : \A j \in failed : k <= j][2]

HeaderLayout(img) ==
    FirstFault(<<
        <<img.magic = Magic, "bad_magic">>,
        <<img.version_major = VersionMajor, "bad_version">>,
        <<img.version_minor <= VersionMinor, "bad_version">>,
        <<FlagsV1Required \subseteq img.flags, "bad_flags">>,
        <<img.flags \subseteq FlagsV1Required, "bad_flags">>,
        <<img.file_size = img.size, "bad_file_size">>,
        <<img.reserved = 0, "bad_flags">>,
        <<img.root_index_offset = RootIndexOffset, "bad_layout">>,
        <<img.root_count <= RootCountMax, "bad_layout">>,
        <<img.root_index_size = img.root_count * EntrySize, "bad_layout">>,
        <<img.nodes_offset = img.root_index_offset + img.root_index_size, "bad_layout">>,
        <<img.strings_offset = img.nodes_offset + img.nodes_size, "bad_layout">>,
        <<img.footer_offset = img.strings_offset + img.strings_size, "bad_layout">>,
        <<img.footer_offset + FooterSize = img.file_size, "bad_layout">> >>)

\* The footer is where the header says and agrees with it.
FooterMatches(img) ==
    /\ img.footer_offset \in DOMAIN img.footer
    /\ LET footer == img.footer[img.footer_offset]
       IN  /\ footer.magic_end = Magic
           /\ footer.file_size = img.file_size
           /\ footer.checksum = img.checksum

\* bc_hrbl_reader_open asks as much of the header and of the footer.
Opens(img) ==
    img.size >= HeaderSize + FooterSize /\ HeaderLayout(img) = "ok" /\ FooterMatches(img)

ChecksumHolds(img) == Content(img, img.root_index_offset, img.footer_offset) = img.checksum

StringsPool(img) ==
    LET walk[offset \in Nat] ==  \* <<status, strings counted from here>>
        LET at == img.strings_offset + offset
        IN  CASE offset = img.strings_size -> <<"ok", 0>>
              [] offset > img.strings_size \/ at \notin DOMAIN img.strings -> <<"bad_string", 0>>
              [] OTHER ->
                    LET total == 4 + Measure(img.strings[at])
                        rest == walk[offset + AlignUp(total, 4)]
                        padding == at + total .. at + AlignUp(total, 4) - 1
                    IN  IF offset + total > img.strings_size THEN <<"bad_string", 0>>
                        ELSE IF ~WellFormed(img.strings[at]) THEN <<"bad_utf8", 0>>
                        ELSE IF offset + AlignUp(total, 4) > img.strings_size THEN <<"bad_string", 0>>
                        ELSE IF ~(padding \subseteq img.zeros) THEN <<"bad_string", 0>>
                        ELSE <<rest[1], rest[2] + 1>>
    IN  IF walk[0][1] # "ok" THEN walk[0][1]
        ELSE IF walk[0][2] # img.strings_count THEN "bad_string" ELSE "ok"

RootFault(img, k) ==
    LET e == img.roots[k]
    IN  CASE k > 1 /\ e.hash < img.roots[k - 1].hash -> "bad_root_index"
          [] k > 1 /\ e.hash = img.roots[k - 1].hash -> "duplicate_key"
          [] e.value < img.nodes_offset \/ e.value >= img.strings_offset -> "bad_root_index"
          [] \/ e.ref < img.strings_offset
             \/ e.ref + 4 + e.length > img.strings_offset + img.strings_size -> "bad_root_index"
          [] OTHER -> "ok"

\* The first fault found, in the order of the index.
RootIndex(img) ==
    LET faulty == {k \in 1 .. img.root_count : RootFault(img, k) # "ok"}
    IN  IF faulty = {} THEN "ok"
        ELSE RootFault(img, CHOOSE k \in faulty : \A j \in faulty : k <= j)

VerifyBuffer(img) ==
    IF img.size < HeaderSize + FooterSize THEN "too_small"
    ELSE IF HeaderLayout(img) # "ok" THEN HeaderLayout(img)
    ELSE IF ~FooterMatches(img) THEN "bad_footer"
    ELSE IF ~ChecksumHolds(img) THEN "bad_checksum"
    ELSE IF StringsPool(img) # "ok" THEN StringsPool(img)
    ELSE RootIndex(img)
=============================================================================
