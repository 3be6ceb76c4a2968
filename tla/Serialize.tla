----------------------------- MODULE Serialize -----------------------------
(***************************************************************************)
(* bc_hrbl_writer_serialize_to_buffer and the emitters under it            *)
(* (src/src/writer/bc_hrbl_writer_encoder.c): a finished tree becomes an   *)
(* image.  Strings are interned first, then the values are emitted into    *)
(* the nodes buffer depth first with references relative to the pool, and  *)
(* when the size of the nodes is known the references are made absolute.   *)
(*                                                                         *)
(* The recursion of emit_value is the variable stack, one frame per        *)
(* container being emitted and one for the root.  Every allocation may     *)
(* fail; the calls then return one by one, each freeing what it owns.      *)
(*                                                                         *)
(* The string pool is used through what StringPool shows of it (equal      *)
(* strings share an offset, strings tile the buffer) and the sort through  *)
(* what PendingSort shows of it (stable order by hash).                    *)
(***************************************************************************)
EXTENDS Format, Trees, FiniteSets

CONSTANTS
    MaxNodes,    \* bound: nodes of a tree
    Keys,        \* keys that are not empty
    Texts,       \* values of string nodes
    EmptyKey,    \* the string of length 0: a key given as NULL
    Length,      \* length of each string
    HashValues,  \* values the 64-bit hash takes on the keys
    Kinds,       \* kinds of nodes in the trees considered
    RefLimit     \* 2^32: references are 32 bits wide

KeyNames == Keys \cup {EmptyKey}
Strings == KeyNames \cup Texts

ASSUME SerializeAssumption ==
    /\ MaxNodes \in Nat
    /\ EmptyKey \notin Keys
    /\ Length \in [Strings -> Nat]
    /\ Length[EmptyKey] = 0
    /\ HashValues \subseteq Nat
    /\ Kinds \subseteq Scalars \cup Containers
    /\ RefLimit \in Nat \ {0}

VARIABLES
    tree,        \* the writer's tree: [size, kind, key, text, children]
    hash_of,     \* key_hash64 of each key
    key_ref,     \* cached_key_pool_offset of each node
    text_ref,    \* cached_string_pool_offset of each node
    pool,        \* [at: interned string -> offset in the pool, size, zeros: padding]
    nodes,       \* offset in the nodes buffer -> item stored there
    refs,        \* offset in the nodes buffer -> 32-bit reference stored there
    nodes_size,
    fixups,      \* offsets in the nodes buffer of the references to adjust
    stack,       \* frames of the emitters, innermost last
    cursor,      \* next node collect_strings visits
    allocated,   \* blocks of memory held
    pc,
    error,       \* what the serializer reports
    image        \* the buffer handed out

input == <<tree, hash_of>>
caches == <<key_ref, text_ref>>
buffer == <<nodes, refs, nodes_size, fixups>>
vars == <<input, caches, pool, buffer, stack, cursor, allocated, pc, error, image>>

NoOffset == -1  \* BC_HRBL_WRITER_POOL_OFFSET_NONE
NoImage == [size |-> 0]
Nodes == 1 .. tree.size
NoCell == [o \in {} |-> 0]
EmptyPool == [at |-> NoCell, size |-> 0, zeros |-> {}]

PoolMemory == <<"pool", 0>>
NodesMemory == <<"nodes", 0>>
RootMemory == <<"root_entries", 0>>
Pending(i) == <<"pending", i>>
Output == <<"output", 0>>

Children(p) == tree.children[p]
Roots == Children(0)
nodes_offset == RootIndexOffset + Len(Roots) * EntrySize

-----------------------------------------------------------------------------
Init ==
    /\ \E n \in 0 .. MaxNodes : \E parent \in Forests(n) : \E kind \in Labels(parent, n, Kinds, Containers) :
       \E key \in [KeyedNodes(parent, n, kind) -> KeyNames] :
       \E text \in [{i \in 1 .. n : kind[i] = "string"} -> Texts] :
          tree = [size |-> n, kind |-> kind, key |-> key, text |-> text,
                  children |-> ChildLists(parent, n)]
    /\ hash_of \in [KeyNames -> HashValues]
    /\ key_ref = [i \in Nodes |-> NoOffset]
    /\ text_ref = [i \in Nodes |-> NoOffset]
    /\ pool = EmptyPool
    /\ nodes = NoCell
    /\ refs = NoCell
    /\ nodes_size = 0
    /\ fixups = <<>>
    /\ stack = <<>>
    /\ cursor = 1
    /\ allocated = {}
    /\ pc = "start"
    /\ error = "none"
    /\ image = NoImage

-----------------------------------------------------------------------------
HasKeyData(i) == i \in DOMAIN tree.key /\ tree.key[i] # EmptyKey
HasText(i) == i \in DOMAIN tree.text

\* Mutant: strings follow each other without padding.
InternedUnpadded(p, s) ==
    IF s \in DOMAIN p.at THEN p
    ELSE [at |-> With(p.at, Cell(s, p.size)), size |-> p.size + 4 + Length[s], zeros |-> {}]

Interned(p, s) ==
    IF s \in DOMAIN p.at THEN p
    ELSE LET last == p.size + 4 + Length[s]
         IN  [at |-> With(p.at, Cell(s, p.size)),
              size |-> AlignUp(last, 4),
              zeros |-> p.zeros \cup (last .. AlignUp(last, 4) - 1)]

\* STRING_POOL_OVERFLOW_4GB: the next string would start past 32 bits.
Overflows(p, s) == s \notin DOMAIN p.at /\ p.size > RefLimit - 1

\* Return an error with the given blocks freed.
Exit(e, freed) ==
    /\ pc' = "returned"
    /\ error' = e
    /\ allocated' = allocated \ freed

Start ==
    /\ pc = "start"
    /\ \/ /\ allocated' = {PoolMemory}
          /\ pc' = "collect"
          /\ UNCHANGED error
       \/ Exit("oom", {})
    /\ UNCHANGED <<input, caches, pool, buffer, stack, cursor, image>>

\* The node's key, then its string.
Collected(i) ==
    LET keyed == IF HasKeyData(i) THEN Interned(pool, tree.key[i]) ELSE pool
    IN  IF HasText(i) THEN Interned(keyed, tree.text[i]) ELSE keyed

CollectOverflows(i) ==
    \/ HasKeyData(i) /\ Overflows(pool, tree.key[i])
    \/ HasText(i) /\ Overflows(IF HasKeyData(i) THEN Interned(pool, tree.key[i]) ELSE pool, tree.text[i])

Collect ==
    /\ pc = "collect"
    /\ cursor <= tree.size
    /\ \/ /\ ~CollectOverflows(cursor)
          /\ pool' = Collected(cursor)
          /\ key_ref' = IF HasKeyData(cursor)
                        THEN [key_ref EXCEPT ![cursor] = pool'.at[tree.key[cursor]]] ELSE key_ref
          /\ text_ref' = IF HasText(cursor)
                         THEN [text_ref EXCEPT ![cursor] = pool'.at[tree.text[cursor]]] ELSE text_ref
          /\ cursor' = cursor + 1
          /\ UNCHANGED <<allocated, pc, error>>
       \/ /\ CollectOverflows(cursor)
          /\ Exit("pool_overflow", {PoolMemory})
          /\ UNCHANGED <<caches, pool, cursor>>
       \/ /\ HasKeyData(cursor) \/ HasText(cursor)
          /\ Exit("oom", {PoolMemory})
          /\ UNCHANGED <<caches, pool, cursor>>
    /\ UNCHANGED <<input, buffer, stack, image>>

RootFrame == [node |-> 0, kind_offset |-> 0, body |-> 0, done |-> 0, pending |-> <<>>]

AllocateNodes ==
    /\ pc = "collect"
    /\ cursor > tree.size
    /\ \/ /\ allocated' = allocated \cup {NodesMemory}
          /\ pc' = "roots"
          /\ UNCHANGED error
       \/ Exit("oom", {PoolMemory})
    /\ UNCHANGED <<input, caches, pool, buffer, stack, cursor, image>>

AllocateRoots ==
    /\ pc = "roots"
    /\ \/ /\ allocated' = allocated \cup (IF Roots # <<>> THEN {RootMemory} ELSE {})
          /\ stack' = <<RootFrame>>
          /\ pc' = "emit"
          /\ UNCHANGED error
       \/ /\ Roots # <<>>
          /\ Exit("oom", {NodesMemory, PoolMemory})
          /\ UNCHANGED stack
    /\ UNCHANGED <<input, caches, pool, buffer, cursor, image>>

-----------------------------------------------------------------------------
(* Emission. *)

Top == stack[Len(stack)]
Keyed(f) == f.node \in {0} \cup {i \in Nodes : tree.kind[i] = "block"}
Complete(f) == f.done = Len(Children(f.node))
NextChild == Children(Top.node)[Top.done + 1]

\* An empty key has no cached reference: it is interned when it is met.
InternsLazily(f, i) == Keyed(f) /\ key_ref[i] = NoOffset

PoolForKey(f, i) == IF InternsLazily(f, i) THEN Interned(pool, EmptyKey) ELSE pool

\* The frame with the value of child i delivered at the absolute offset v.
Delivered(f, i, v, p) ==
    [f EXCEPT !.done = @ + 1,
              !.pending = IF Keyed(f)
                          THEN Append(@, [hash |-> hash_of[tree.key[i]],
                                          ref |-> IF key_ref[i] = NoOffset THEN p.at[EmptyKey] ELSE key_ref[i],
                                          length |-> Length[tree.key[i]],
                                          value |-> v])
                          ELSE @]

\* In an array the offset goes straight into its place in the nodes buffer.
ElementCell(f, v) ==
    IF Keyed(f) THEN NoCell ELSE Cell(f.body + f.done * ElementSize, [tag |-> "element", value |-> v])

\* The body of a scalar, after its kind.
ScalarCell(i, body) ==
    CASE tree.kind[i] = "int64" -> Cell(body, [tag |-> "int64", value |-> i])
      [] tree.kind[i] = "string" -> Cell(body, [tag |-> "string", length |-> Length[tree.text[i]]])
      [] tree.kind[i] = "null" -> NoCell

\* An emitter fails: its callers return one after the other.
Fail(e) ==
    /\ pc' = "unwind"
    /\ error' = e
    /\ UNCHANGED <<pool, buffer, stack, allocated>>

EmitFails ==
    /\ pc = "emit"
    /\ ~Complete(Top)
    /\ \/ Fail("oom")
       \/ InternsLazily(Top, NextChild) /\ Overflows(pool, EmptyKey) /\ Fail("pool_overflow")
    /\ UNCHANGED <<input, caches, cursor, image>>

EmitScalar ==
    /\ pc = "emit"
    /\ ~Complete(Top)
    /\ LET i == NextChild
           kind == tree.kind[i]
           offset == KindOffset(nodes_size, KindBodyAlign(kind))
           body == offset + 1
       IN  /\ kind \in Scalars
           /\ ~(InternsLazily(Top, i) /\ Overflows(pool, EmptyKey))
           /\ pool' = PoolForKey(Top, i)
           /\ nodes' = With(With(With(nodes, Cell(offset, [tag |-> "kind", kind |-> kind])), ScalarCell(i, body)),
                            ElementCell(Top, nodes_offset + offset))
           /\ refs' = IF kind = "string" THEN With(refs, Cell(body, text_ref[i])) ELSE refs
           /\ fixups' = IF kind = "string" THEN Append(fixups, body) ELSE fixups
           /\ nodes_size' = body + KindBodySize(kind)
           /\ stack' = [stack EXCEPT ![Len(stack)] = Delivered(@, i, nodes_offset + offset, pool')]
    /\ UNCHANGED <<input, caches, cursor, allocated, pc, error, image>>

\* Kind, header and zeroed room for the entries; a block's pending entries.
OpenContainer ==
    /\ pc = "emit"
    /\ ~Complete(Top)
    /\ LET i == NextChild
           kind == tree.kind[i]
           count == Len(Children(i))
           offset == KindOffset(nodes_size, 8)
           body == AlignUp(offset + 1, 8)
           room == count * (IF kind = "block" THEN EntrySize ELSE ElementSize)
       IN  /\ kind \in Containers
           /\ ~(InternsLazily(Top, i) /\ Overflows(pool, EmptyKey))
           /\ pool' = PoolForKey(Top, i)
           /\ nodes' = With(With(nodes, Cell(offset, [tag |-> "kind", kind |-> kind])),
                            Cell(body, [tag |-> "count", count |-> count]))
           /\ nodes_size' = body + ContainerHeaderSize + room
           /\ stack' = Append(stack, [node |-> i, kind_offset |-> offset,
                                      body |-> body + ContainerHeaderSize, done |-> 0, pending |-> <<>>])
           /\ allocated' = allocated \cup (IF kind = "block" /\ count # 0 THEN {Pending(i)} ELSE {})
    /\ UNCHANGED <<input, caches, refs, fixups, cursor, pc, error, image>>

\* Mutant: the entries stay in the order of addition.
SortedByAddition(s) == s

\* bc_hrbl_encoder_pending_sort, as PendingSort shows it: by hash, stable.
Sorted(s) ==
    LET rank(i) == Cardinality({k \in DOMAIN s : s[k].hash < s[i].hash \/ (s[k].hash = s[i].hash /\ k < i)})
    IN  [r \in DOMAIN s |-> s[CHOOSE i \in DOMAIN s : rank(i) = r - 1]]

EntryAt(f, k) == f.body + (k - 1) * EntrySize
EntryCells(f, s) ==
    [o \in {EntryAt(f, k) : k \in DOMAIN s} |->
        LET e == s[(o - f.body) \div EntrySize + 1]
        IN  [tag |-> "entry", hash |-> e.hash, length |-> e.length, value |-> e.value]]
EntryRefs(f, s) ==
    [o \in {EntryAt(f, k) + KeyOffsetField : k \in DOMAIN s} |-> s[(o - f.body) \div EntrySize + 1].ref]

EntryFixups(f, s) == [k \in DOMAIN s |-> EntryAt(f, k) + KeyOffsetField]

\* A block sorts and stores its entries; then the value is its parent's.
CloseContainer ==
    /\ pc = "emit"
    /\ Complete(Top)
    /\ Top.node # 0
    /\ LET f == Top
           parent == stack[Len(stack) - 1]
           sorted == Sorted(f.pending)
       IN  \/ /\ nodes' = With(With(EntryCells(f, sorted), nodes), ElementCell(parent, nodes_offset + f.kind_offset))
              /\ refs' = With(EntryRefs(f, sorted), refs)
              /\ fixups' = fixups \o EntryFixups(f, sorted)
              /\ stack' = SubSeq(stack, 1, Len(stack) - 2)
                          \o <<Delivered(parent, f.node, nodes_offset + f.kind_offset, pool)>>
              /\ allocated' = allocated \ {Pending(f.node)}
              /\ UNCHANGED <<pool, nodes_size, pc, error>>
           \/ /\ f.pending # <<>>  \* the sort, or recording a fixup, fails
              /\ \E e \in {"oom", "internal"} : Fail(e)
    /\ UNCHANGED <<input, caches, cursor, image>>

\* Mutant: a block whose child fails returns without freeing its entries.
UnwindForgetsPending ==
    /\ pc = "unwind"
    /\ \/ /\ Top.node # 0
          /\ stack' = SubSeq(stack, 1, Len(stack) - 1)
          /\ UNCHANGED <<allocated, pc, error>>
       \/ /\ Top.node = 0
          /\ Exit(error, {RootMemory, NodesMemory, PoolMemory})
          /\ stack' = <<>>
    /\ UNCHANGED <<input, caches, pool, buffer, cursor, image>>

\* A failed emitter returns to its caller; the root frees the rest.
Unwind ==
    /\ pc = "unwind"
    /\ \/ /\ Top.node # 0
          /\ allocated' = allocated \ {Pending(Top.node)}
          /\ stack' = SubSeq(stack, 1, Len(stack) - 1)
          /\ UNCHANGED <<pc, error>>
       \/ /\ Top.node = 0
          /\ Exit(error, {RootMemory, NodesMemory, PoolMemory})
          /\ stack' = <<>>
    /\ UNCHANGED <<input, caches, pool, buffer, cursor, image>>

-----------------------------------------------------------------------------
(* The image. *)

Shifted(m, by) == [o \in {by + q : q \in DOMAIN m} |-> m[o - by]]

\* Mutant: the loop starts at the second fixup.
ApplyFixupsButFirst(strings_offset) ==
    [o \in DOMAIN refs |->
        (refs[o] + Cardinality({k \in DOMAIN fixups : k > 1 /\ fixups[k] = o}) * strings_offset) % RefLimit]

\* Each recorded reference moves by the offset of the strings, in 32 bits.
ApplyFixups(strings_offset) ==
    [o \in DOMAIN refs |->
        (refs[o] + Cardinality({k \in DOMAIN fixups : fixups[k] = o}) * strings_offset) % RefLimit]

\* Everything but the checksum, and no footer yet.
Unsealed ==
    LET strings_offset == nodes_offset + nodes_size
        footer_offset == strings_offset + pool.size
    IN  [size |-> footer_offset + FooterSize,
         magic |-> Magic,
         version_major |-> VersionMajor,
         version_minor |-> VersionMinor,
         file_size |-> footer_offset + FooterSize,
         flags |-> FlagsV1Required,
         root_count |-> Len(Roots),
         root_index_offset |-> RootIndexOffset,
         root_index_size |-> Len(Roots) * EntrySize,
         nodes_offset |-> nodes_offset,
         nodes_size |-> nodes_size,
         strings_offset |-> strings_offset,
         strings_size |-> pool.size,
         strings_count |-> Cardinality(DOMAIN pool.at),
         footer_offset |-> footer_offset,
         checksum |-> 0,
         reserved |-> 0,
         footer |-> NoCell,
         roots |-> [k \in DOMAIN Top.pending |->
                      LET e == Sorted(Top.pending)[k]
                      IN  [e EXCEPT !.ref = (strings_offset + @) % RefLimit]],
         nodes |-> Shifted(nodes, nodes_offset),
         refs |-> Shifted(ApplyFixups(strings_offset), nodes_offset),
         strings |-> [o \in {strings_offset + pool.at[s] : s \in DOMAIN pool.at} |->
                        CHOOSE s \in DOMAIN pool.at : strings_offset + pool.at[s] = o],
         zeros |-> {strings_offset + o : o \in pool.zeros}]

\* Mutant: the strings are left out of the checksum.
ChecksumOfNodes(img) == Content(img, img.root_index_offset, img.strings_offset)

Checksum(img) == Content(img, img.root_index_offset, img.footer_offset)

\* The checksum of the payload goes into the header and into the footer.
Image ==
    LET img == Unsealed
        checksum == Checksum(img)
        footer == [checksum |-> checksum, file_size |-> img.file_size, magic_end |-> Magic]
    IN  [img EXCEPT !.checksum = checksum, !.footer = Cell(img.footer_offset, footer)]

\* Sort the roots, make references absolute, write out; or fail on the way.
Finish ==
    /\ pc = "emit"
    /\ Complete(Top)
    /\ Top.node = 0
    /\ \/ /\ image' = Image
          /\ pc' = "returned"
          /\ error' = "ok"
          /\ allocated' = (allocated \ {RootMemory, NodesMemory, PoolMemory}) \cup {Output}
          /\ stack' = <<>>
          /\ UNCHANGED <<pool, buffer>>
       \/ /\ \E e \in {"oom", "internal"} : Fail(e)
          /\ UNCHANGED image
    /\ UNCHANGED <<input, caches, cursor>>

\* The caller frees the buffer and finalizes again: the nodes still carry
\* the cached offsets of the pool that is gone.
Again ==
    /\ pc = "returned"
    /\ pc' = "start"
    /\ pool' = EmptyPool
    /\ nodes' = NoCell
    /\ refs' = NoCell
    /\ nodes_size' = 0
    /\ fixups' = <<>>
    /\ cursor' = 1
    /\ allocated' = allocated \ {Output}
    /\ error' = "none"
    /\ image' = NoImage
    /\ UNCHANGED <<input, caches, stack>>

Next ==
    \/ Start \/ Collect \/ AllocateNodes \/ AllocateRoots
    \/ EmitScalar \/ OpenContainer \/ CloseContainer \/ EmitFails \/ Unwind
    \/ Finish
    \/ Again

Spec == Init /\ [][Next]_vars

-----------------------------------------------------------------------------
(* The call returns what it allocated: nothing on failure, wherever in the *)
(* recursion it struck, and the output alone on success.                   *)
NothingLeaks ==
    pc = "returned" => allocated = IF error = "ok" THEN {Output} ELSE {}

(* What a node occupies in the nodes buffer is never stored twice: the     *)
(* items lie in the order of their offsets without overlap, inside the     *)
(* buffer, and the bodies the format aligns to 8 bytes are aligned, in the *)
(* buffer and, as nodes_offset is a multiple of 8, in the file.            *)
ItemSize(item) == CASE item.tag = "kind" -> 1
                    [] item.tag \in {"int64", "string", "count", "element"} -> 8
                    [] item.tag = "entry" -> EntrySize
ItemsApart ==
    /\ \A o \in DOMAIN nodes :
          /\ o + ItemSize(nodes[o]) <= nodes_size
          /\ \A q \in DOMAIN nodes : o < q => o + ItemSize(nodes[o]) <= q
          /\ nodes[o].tag \in {"int64", "count", "element", "entry"} => (nodes_offset + o) % 8 = 0

=============================================================================
