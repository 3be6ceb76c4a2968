# Verification of bc-hrbl

bc-hrbl is a C library for a binary document format (HRBL): a *writer* builds a
tree of keyed blocks, arrays and scalars and encodes it into one buffer, a
*reader* maps such a buffer and answers lookups without decoding it, a
*verifier* checks it, and converters go from JSON to HRBL and from HRBL to JSON,
YAML and INI. This directory holds TLA+ models of it, the TLC runs that check
them and TLAPS proofs about them. `PROJECT.json` has the index: components,
runs, mutants, the map from definitions to source lines, findings, hazards and
theorems.

Paths below are relative to the repository's `src/` directory unless they name
a module.

## 1. Inventory

| Component | State | Operations | Interacts with | What is hard |
|---|---|---|---|---|
| Writer (`writer/bc_hrbl_writer.c`) | intrusive tree of arena nodes, current scope, error flag, last error | create, set_*, append_*, begin/end block and array, finalize, destroy | calls the encoder; driven by the JSON conversion | long call sequences, failure half way through a call, finalize after a failure |
| String pool (`writer/bc_hrbl_writer_encoder.c` 112-342) | buffer of strings, entries, open-addressing table | init, intern, destroy | used by the encoder | hash collisions, a stale slot after growth, probe loops without a bound, 32-bit offsets |
| Sort of entries (same file, 377-562) | entries, scratch, worker contexts, threads | insertion, serial radix, threaded radix sort | used by the encoder for blocks and the root index | threads without locks, `pthread_create` failing part way, stability across algorithms |
| Serialization (same file, 344-375 and 567-986) | nodes buffer, fixups, cached offsets on nodes, pending entries per block | collect strings, emit, fix up, lay out | tree of the writer, pool, sort | recursion with failures at each level, alignment, relative references adjusted late, 32-bit wrap |
| finalize_to_file (`writer/bc_hrbl_writer.c` 423-451) | descriptor, buffer, count of bytes written | open, write loop, close | the file, and readers of it | short, interrupted and failing writes, crashes, a reader at the same time |
| Reader (`reader/bc_hrbl_reader.c`) | mapping, size, header pointer | open, close, kinds, entries, arrays, iteration, scalars | images of the encoder | bounds, layout arithmetic |
| Lookup (same file, 161-289 and 377-392) | cursors of a search | binary search, linear probe | root index and blocks sorted by the encoder | collisions on either side of the hit |
| Path resolution (same file, 527-619) | position in a path, node reached | descend by key, quoted key or index | lookup | where a segment ends depends on what started it; indices past 32 bits |
| Access (same file, 620-820) | value references and iterators of the caller | find, getters, iter_block, iter_array, iter_next | images, damaged ones too | one reference written over by nested iterations; unreadable children |
| Verifier (`verify/bc_hrbl_verify.c`) | copy of the header, mapping | layout, footer, checksum, strings, root index; verify_file | images and files, also while they are written | agreement with the writer; a mapping that changes; holes after a power failure; boundaries of UTF-8 |
| JSON conversion (`convert/`) | json-c tree, writer | parse, check, emit values recursively | drives the writer, whose caller goes on afterwards | failure inside open scopes, saturated integers |
| Exports (`export/`) | sorted scratch entries, list of blocks put aside (INI), emitter (YAML), latch of a failure | recursive walk, string escaping | reader, sink, libyaml | release of scratch memory on every path, key order, a failure in the middle, a buffering emitter, strings nobody verified |
| Hash (`hash/`) | none | XXH3 | all | collisions |

What makes each correct: the writer's tree is the document the calls describe
and no document is delivered after a failure; the pool stores each string once
and always finds it again; the sort is one stable order whatever the algorithm
and the schedule; an image reads back as its tree, is searchable, leaks nothing
and passes the verifier; a file a reader accepts was written to the end, and
one the verifier accepts is one image without holes; a lookup finds a key
exactly when it is there, a path the value it spells, an iteration every child
once; a conversion or an export that reports success has moved the whole
document, and one that fails gives back its memory and delivers nothing that
passes for a document.

`PROJECT.json` lists the hazards, each at its line with the properties aimed at
it.

## 2. Modules

| Module | Models | Notes |
|---|---|---|
| `Document` | what a writer promises | abstract: an ordered forest of contents, a stack of open scopes, a failed mark |
| `Writer` | `bc_hrbl_writer.c` | one action per family of calls; arguments are the (pointer, length) forms the code tells apart |
| `WriterDocument` | refinement mapping | content, children and stack of the document computed from the writer's links |
| `StringPool` | the pool | one loop iteration per step; a slot is the index of its entry |
| `PendingSort` | the sorts | main thread and workers as processes, one entry per step |
| `Format` | sizes, alignments, stored cells, and what a checksum covers | with the real numbers of `bc_hrbl_format_internal.h` |
| `Serialize` | the encoder | recursion as a stack of frames; real byte offsets; allocations as named blocks |
| `Reader` | reader and verifier as operators on an image, every check of header, footer, checksum, strings and root index with its status | a read of bytes where nothing of that sort was stored is Invalid |
| `RoundTrip` | Serialize and Reader composed | properties of written images |
| `Lookup` | binary search and linear probe | one iteration per step |
| `Path` | find and resolve_path | one turn of the loop per step; searching a block is what `Lookup` shows |
| `Access` | the public calls on references and iterators | any order, one reference, several iterators |
| `FinalizeFile` | finalize_to_file and reader_open on one path | file = prefix of an image |
| `VerifyFile` | verify_file on that path | extends `FinalizeFile` by power failures, which leave holes |
| `Unicode` | decoding arithmetic, and the table of well-formed UTF-8 | the decoding is shared by verifier and JSON export |
| `Utf8` | the verifier's check of a string | one turn of the loop per step |
| `JsonString`, `IniString` | escaping of one string | tokens or characters, and a parser to read them back |
| `Trees` | all small trees a writer can leave behind | shared by the modules that start from a document |
| `ConvertJson` | both entry points of the conversion | extends `Writer`: the converter performs the writer's own actions |
| `ExportDocument` | what the exporters share | document, sink, scratch, latch, frames of the recursion |
| `ExportJson`, `ExportYaml`, `ExportIni` | one exporter each | extend `ExportDocument` |
| `MC*` | instances for TLC | |
| `WriterProofs` | theorems on `Writer`, `WriterDocument` and `ConvertJson` | the conversion drives the writer, so its proofs use the writer's invariant |
| `StringPoolProofs`, `PendingSortProofs` | theorems on the pool and on the sort | |
| `SerializeProofs` | theorems on `Serialize` and `RoundTrip` | |
| `FilesProofs` | theorems on `FinalizeFile` and `VerifyFile` | |
| `ReaderProofs` | theorems on `Lookup`, `Path` and `Access` | extends `MCReader`, whose specification runs `Path` and `Access` |
| `ExportProofs` | theorems on the exporters and on `Utf8` | extends `MCExport`, whose instances the three exporters are, and `MCText` |
| `TreesProofs` | lemmas on `Trees`, on numbers, and on the text of a document | least elements and induction up to a bound, used by the others; a grammar for text that a recursion writes, and the frames of the recursion as a place in that text |

Correspondence and abstractions worth knowing:

* **Writer.** A node is its allocation number; `Root` stands for the NULL scope,
  so `root_first`, `root_last` and `root_count` are the list of scope `Root`.
  `set_key` accepts or refuses by the form of the pair only. Running out of
  memory is a disjunct at each allocation: before the node, at the copy of the
  key (node allocated, not linked), at the copy of a string (node linked).
* **StringPool.** The hash function is a variable chosen in Init, so that every
  function over the value set is considered, with the values 0 and the marker
  that replaces it. Growth, rehash and relocation are separate phases.
* **PendingSort.** Entries carry their original index. The threads share nothing
  but what the C contexts hold. Garbage is the content of unwritten scratch.
  `running_total` and `InBucket` are the two loops that turn the counts into
  write positions: over the digits below, then over the workers before.
* **Serialize.** Strings are values with a length, 64-bit numbers are the number
  of their node; bool, uint64 and float64 are encoded as null and int64 are and
  are left out. The pool and the sort appear through what their own modules
  show of them. `Again` is a further finalize on the same writer: the nodes keep
  the offsets cached from the pool that is gone. An image is its header fields,
  its footer at an offset, and what is stored at which offset of the payload,
  the zeros between strings included.
* **Reader.** `VerifyBuffer` makes the checks of `verify_buffer` in its order;
  `Opens` is what `reader_open` asks of header and footer. A checksum is the
  content it was computed from (`Format!Content`): of XXH3 it is taken that
  contents that differ hash differently, so an image whose checksum covers less
  than the verifier hashes, or was taken before the last byte was stored, is
  refused. `BC_HRBL_ROOT_COUNT_MAX` is a constant that no tree in memory can
  reach (`RoundTripAssumption`). A string is UTF-8 or not (`WellFormed`), which
  `Utf8` decides.
* **FinalizeFile.** Sizes are in units of any number of bytes. Header and footer
  checks are separate reads of a shared mapping: header, footer offset from the
  header read again, copy of the footer, comparison with the header read again.
  Reads past the end of the file give zeros or a fault. A crash is the death of
  the process; the kernel keeps what was written. Everything after
  `bc_io_mmap_file` happens with the mapping held: getting its data may fail,
  the file may be too small, any check may refuse and the reader's own memory
  may not be there. `attach_buffer` only answers (`Refuse`); it is `reader_open`
  that destroys the mapping (`Unmap`, `RefusedOpen`).
* **VerifyFile.** After a power failure the file has any length up to the one it
  had, and any of its units may read as zeros. The verifier copies the header
  (taken as one read) and hashes the payload unit by unit; payloads that differ
  have different checksums. The reader does neither: it accepts a file with a
  hole in the middle, and only the verifier tells it from a whole one. Strings
  and root index are read once more after the checksum; `Unverifiable` are the
  documents whose whole image is refused there (see `VerifyAccepts`).
  `OkIsOneImage` speaks of what went into the checksum, not of this second
  reading. `verify_buffer` only answers (`Answer`); what is given back is named
  at each return of `verify_file`.
* **Path.** Documents are given by the instance; keys are sequences of
  characters. The reference (`LeadsTo`) splits the path in every possible way.
  The writer takes a key twice in one block, and then either entry may be found:
  the answer is always one that the path spells, and the only one in a document
  whose keys differ.
* **Access.** Nodes may be damaged ("corrupt": the kind is refused; "torn": the
  body does not fit). A getter on another kind leaves its output alone.
* **ConvertJson.** json-c is external: parsing gives a tree or fails; integers
  are told apart at the limits where json-c saturates. Integers below int64 or
  past uint64, which json-c itself saturates without a word, are not
  distinguished from the limits they become. The emitters return false without
  calling the writer for a value of a type they do not know or a string of
  negative length (`CannotEmit`): the writer then is not failed and keeps the
  text so far with its scopes open. json-c gives neither for a text it has
  parsed, but the code has the exits, so the kind "odd" stands for them and
  `FailureNeverDelivered` names them as its exception. The caller may have
  scopes open before and may go on calling the writer after a failure. An empty
  object or array at the top level ends in a writer that has failed or has
  nothing, as in the code.
* **Exports.** The text is a sequence of tokens that name keys and nodes, so two
  values never look alike; the sink takes all of a text or a part and then
  fails. The sort is taken to succeed, in any order among equal keys. YAML: an
  accepted event waits in the emitter or goes to the sink; an event whose
  initialisation failed unnoticed is an arbitrary one. YAML and INI: what the
  sink has received is forgotten after a failure, as no property is about it.
  Keys are whole tokens: an INI key is written as it is (`export_ini.c` 283,
  298, 347), so that a newline, `=` or `]` inside a key breaks a line or a
  header, and `IniReadsBack` says nothing of such keys.
* **MC modules.** `MCReader`, `MCExport` and `MCText` hold several components
  over one set of variables: a variable chosen in Init says which of them runs.
  `MCFiles` chooses who looks at the file, `MCSerialize` the width of references.

## 3. Runs

| Run | Shows | Bounds | States |
|---|---|---|---|
| `writer` | the linked tree is the document, keys by scope, failure is final, refinement of `Document` | 3 nodes, all argument forms | 185,802 |
| `convert_json` | a conversion that succeeds has built the whole JSON document, one that failed leaves a failed or untouched writer (or stopped at an odd value), json-c's objects are released | 3 JSON values, a caller's own node and scopes, all integer classes, a value the emitters do not know | 1,107,487 |
| `string_pool` | unique strings, a free slot to stop at, tiling, own offset returned, interns end | 4 strings of lengths 0, 1, 3, 5; capacity from 2; offsets to 20; 3 hash values | 88,860 |
| `pending_sort` | memory outlives threads, scatters disjoint, stable order, the sort ends | 4 entries, 3 workers, 2 passes of 2 digits | 172,072 |
| `serialize` | no leaks, no overlap, image opens and reads back, searchable, accepted by every check of the verifier but for the two named | all trees of up to 3 nodes, 2 hash values, wide references or a pool that overflows at 8 | 730,860 |
| `reader` | lookups and paths answered correctly and always, references and iterations sound | 5 entries, 3 keys, 3 hash values; paths of 6 characters on 3 documents, one with a key twice in a block; trees of 3 nodes, 2 iterators | 511,989 |
| `files` | only whole files opened, success means written, nothing held, exact verdicts, "ok" is one image, calls end | 3 documents (two of one size, one that cannot be verified), 2 calls, 1 power failure | 484,307 |
| `export` | scratch released, success means the whole document in JSON, YAML and INI | all documents of up to 3 nodes, 3 keys, unreadable nodes | 1,204,280 |
| `text` | UTF-8 check exact, JSON and INI strings read back and stay inside their quotes | strings of 4 bytes from 23, 16 and 12 values | 1,518,157 |

Each property of each run has a mutant of the model (a dropped guard, a missing
release, an off-by-one) that violates it.

Why the bounds are enough to be interesting:

* Three nodes give every kind of parent and child, siblings, a container after a
  leaf, two levels of nesting below the root, and failures at each place.
* A capacity of 2 makes the table grow twice under four strings, with
  wrap-around, collisions of home positions and full collisions; an offset limit
  of 20 is passed by the third or fourth string.
* Four entries and three workers give unequal chunks with a remainder; two
  passes move the data to scratch and back. Insertion takes up to three entries
  and the radix sorts the rest, so that all three algorithms run.
* Five entries of three keys allow runs of equal hash on both sides of a probe.
  Six characters write a key after an index, a quoted key inside a block and an
  index past the limit of its width.
* Documents of equal and of different size tell the reader's header check, which
  compares sizes, from its footer check; two units of header and a payload of
  two and three units let a file end, or a rewrite strike, inside each part.
* A sequence of UTF-8 has at most four bytes, and the bytes lie on both sides of
  every boundary of the table, so each row is met in full and cut off.

In `export`, JSON takes documents with two keys it can write, so that sorting
them matters, a key that is not UTF-8, a malformed string and null; YAML those
with one key it takes and the one that is not UTF-8; INI those with the empty
key, another one, null and a float the formatter refuses. What a format treats
like something else is left out of its documents.

Deadlock is checked in `pending_sort` and `serialize`, where the program always
has a next step. The others may stop: a writer is destroyed, a call has
returned, nobody need call finalize_to_file again. That an export ends is not
checked: its recursion goes down a finite tree, and the one image on which it
would not end, a cyclic one, is not among the documents (section 5).

**Fairness.** `StringPool`, `Lookup` and `Path` are loops of one thread that
wait for nobody: weak fairness of their steps.
`PendingSort`: weak fairness of the main thread and of each created thread,
which is what a scheduler that starves nobody gives; `pthread_join` waits for
the thread. `files`: weak fairness of the writer's and of the verifier's steps
and strong fairness of a write that makes progress, since the loop retries EINTR
and a result of 0 for ever; crashes, power failures, readers and new calls are
not fair.

### Runs that find a disagreement

* `writer_last_error`: a test asserts that last_error is OK after a successful
  finalize. `finalize_to_buffer` never resets it, so after a refusal and a later
  success it still reports the refusal (the test uses a writer that never
  failed).
* `serialize_file_size`: `BC_HRBL_WRITER_ERROR_FILE_SIZE_OVERFLOW_4GB` ("file
  size exceeds 4 GiB") is declared, worded and tested for its wording, but
  nothing raises it; the encoder truncates references to 32 bits.
* `export_ini_leak`: a nested block that has put a block aside and then meets an
  entry whose kind cannot be read returns without releasing the list
  (`export_ini.c:362`); `ReleasesScratch` names this as its one exception.

What else the models show of the code, without a line that says otherwise:

* The verifier refuses images the writer produced from strings that are not
  UTF-8, and from two root keys of equal hash, repeated keys included
  (`VerifyAccepts`).
* A comment in `bc_hrbl_format_internal.h` says that typed structures are loaded
  from 8-byte aligned offsets; string references are aligned to 4 and the footer
  follows the strings unaligned. The loads are memcpy, so nothing breaks.
* INI: a root block with the empty key gets no header, so its lines join
  whatever section precedes them (`AnonymousSection`, excluded from
  `IniReadsBack`); the failure of the float formatter is not passed on; null and
  NaN both give an empty value.
* YAML: the result of `yaml_scalar_event_initialize` is ignored (`YamlWhole`
  promises nothing once such an event was accepted).
* JSON: the string writer decodes by shape, so overlong forms and surrogates in
  a string nobody verified are passed on, or escaped as another character.

## 4. Proofs

Each theorem holds for every value of the constants under the named assumptions
of its module: numbers of nodes, entries, calls and iterators of any size, any
hash function, any set of keys, strings and documents. The assumptions only say
what the constants are: natural numbers, a length for every string, images at
least as long as a header and a footer, trees with fewer roots than the
format's limit, documents of `Path` that are trees whose lists an index can
count, and that the converter's calls are among the writer's. The bounds TLC
needs (`MaxNodes`, `MaxCalls`, ...) are arbitrary numbers here.

**Writer and JSON conversion** (`WriterProofs`)

| Theorem | Statement | Argument |
|---|---|---|
| `TypeCorrect`, `TreeCorrect` | `Spec => []TypeOK`, `Spec => []TreeIsDocument` | `TreeInv`: types, the tree, and that nodes not handed out yet are zeroed (so that a fresh node comes with no links); one lemma for `append_to_scope`, one per call |
| `FailureFinal` | `Spec => FailureIsFinal` | action by action, every call looks at the error flag |
| `KeysCorrect` | `Spec => []KeysFollowScope` | `KeysInv` adds that unused nodes have no key |
| `WriterRefinesDocument` | `Spec => ImplementsDocument` | `MappingInv`: the recursive functions of the refinement mapping (lists from a node on, path to a scope) exist on the links of every reachable writer; linking a node behind the last child puts it at the end of one list and leaves the others; then every call is a step of `Document` or a stutter |
| `ConversionUsesWriter` | `ConvertSpec => Spec` | every step of the converter is one of the writer's calls or leaves it alone |
| `ConvertsWholeText`, `FailureKeptBack`, `JsonAlwaysReleased` | `ConvertSpec =>` `[]ConvertsWhole`, `[]FailureNeverDelivered`, `[]JsonReleased` | `ConvertInv`: while it emits, the nodes added so far are the values of the JSON text in preorder, the frames are the path to the next, and the writer's scope is that of the innermost frame; a conversion that has answered false left the writer failed, untouched, or at an odd value with the text before it; what is held of json-c depends on the place |

**Encoder** (`StringPoolProofs`, `PendingSortProofs`, `SerializeProofs`)

| Theorem | Statement | Argument |
|---|---|---|
| `PoolNeverFull` | `Spec => []ProbeCanStop` | `PoolInv`: `slots_used` counts the occupied slots and stays below the growth limit, so a slot is free by counting |
| `PoolStoresOnce` | `Spec => []NoStringTwice` | `PoolInv`: every entry is reachable from its home through occupied slots, a probe has passed only other strings; filling an empty slot keeps every chain |
| `PoolTilesBuffer`, `InternReturnsItsString` | `Spec =>` `[]StringsTileBuffer`, `[]ResultIsOwnString` | `BufferInv`: where each entry ends and where the buffer ends; what a probe that stops on an entry has compared |
| `ThreadsNeverOutliveBuffers` | `Spec => []BuffersOutliveThreads` | `LifeInv`: at each place of the main thread, the threads that may exist are those created and not yet joined |
| `SortIsStable`, `ScatterNeverRaces` | `Spec =>` `[]SortedStably`, `[]ScattersDisjoint` | `SortInv`: in pass p the array that is read holds the given entries in the order of their p low digits (`Arranged`); each thread has counted or scattered its chunk up to its index (`Running`); what is complete at each place of the main thread (`Worked`); the prefix of the insertion sort. The place of an entry is the number of entries that go before it; the sums of the counts are these numbers, and a pass that puts each entry at its place is stable |
| `EncoderReleases` | `Spec => []NothingLeaks` | `LeakInv`: who owns each block, the serializer or a frame of the recursion |
| `EncoderKeepsApart` | `Spec => []ItemsApart` | `Layout`: each open container has a room in the buffer in which it alone stores, rooms lie apart from each other and from what is appended |
| `ImagesSearchable` | `Spec => []EntriesSearchable` | `Search`: each frame is the next child of the one below and its pending entries have hashes; a block is open or complete with ascending entries, which no later step changes. That the sort ascends is shown by the ranks of the entries: they grow with the hash and reach every place, by counting |

**Files, verifier, reader** (`FilesProofs`, `ExportProofs`, `ReaderProofs`)

| Theorem | Statement | Argument |
|---|---|---|
| `PartialNeverAccepted`, `SuccessIsWritten`, `ReleasesEverything` | `Spec =>` `[]AcceptsOnlyWhole`, `[]TrueMeansWritten`, `[]NothingHeld` | `FileInv`: the file holds `written_total` of the current document and never more than its size; a copied footer came from a whole file; what is held at each place, the mapping from `bc_io_mmap_file` on |
| `VerdictIsExact`, `OkMeansOneImage` | `VSpec =>` `[]VerifyDecides`, `[]OkIsOneImage` | `VerifyInv` adds to `FileInv` what the verifier has read so far, one reading of each place, that it is the file's own content while nobody touches it, what an answer not yet returned says of the file, and what is held at each place |
| `ChecksUtf8` | `CheckSpec => []Utf8Exact` | per row of the Unicode table, `Accepts` is that row; what is accepted tiles the string up to the index (so "ok" is right) and every way to cut the string has a cut at the index (so a refusal is right) |
| `LookupCorrect` | `Spec => []AnswerCorrect` | `LookupInv`: what each loop has ruled out so far |
| `PathsSpelled` | `ReaderSpec => []PathSpells` | `PathInv`: the places to which a path leads are a function of the nodes (`EndsOf`, the reference's recursion); the loop stands at a place of the current node. From a place at most one step is taken (`TakenOnce`), and it is taken exactly if it is written there (`TakenIs`). Where keys differ the path up to the place leads nowhere else and no step from before goes past it, which the next step keeps: a place in between would be a first one, and the step that ends there would begin at the place or before (`Gap`) |
| `ReferencesSound`, `IterationGivesChildren` | `ReaderSpec =>` `[]RefSound`, `[]IterationFaithful` | `WalkInv`: every reference is inside the document, every iterator's cursor counts what it has given; the lists of a document hold nodes of it (`TreesProofs`) |

**Exports** (`ExportProofs`)

| Theorem | Statement | Argument |
|---|---|---|
| `ReleasesScratchHolds` | `Spec => []ReleasesScratch` | one bound per exporter: what is held belongs to a frame of the recursion (JSON), to a frame or the emitter (YAML); of INI, names to the nested frames, the entries to the scan in progress, a list to a frame that has put a block aside, or to a block with an entry whose kind cannot be read |
| `WritesJson`, `WritesYaml` | `Spec =>` `[]JsonWhole`, `[]YamlWhole` | `JsonInv`, `YamlInv`: as long as nothing has failed, what is written, followed by what is ahead of the place the frames stand for, is a text of the document in the orders chosen so far |

The text a JSON or YAML export should write is given by a *grammar*: for each
container the orders its entries may be taken in, what begins and ends each
node, what leads to each entry. A *plan* chooses an order for every container;
its text is defined by recursion over nodes and entries
(`ExportDocument!Rendered`), and `TreesProofs` shows that every plan has exactly
one. The exporter chooses orders one container at a time. So the invariant
(`TreesProofs!Under`) speaks of *every* plan that agrees with the containers met
so far: the frames of the recursion are a place in its text (`Pos`), and
`Tells` says that what is written lies before that place. A step advances an
entry, enters a container (which fixes one more order of the plans) or leaves
one; a step that fails has written a beginning of the next piece, so the sink
holds a beginning of a text (`MayBegin`). For JSON a call that returns true has
left the last frame, where nothing is ahead. For YAML the text is what the sink
holds followed by what waits in the emitter, and `close_root` and the flush at
the end bring the two together; the invariant is void once an event nobody
filled in was accepted.

`ReaderSpec` is the specification of `MCReader`, which runs `Lookup`, `Path` or
`Access`; its constants, the documents of `Path` among them, are parameters like
any other.

The provers take no induction over an operator. Where a proof needs one, it
takes a least counterexample (`TreesProofs!LeastNat`, `UpTo`), or the function
is defined by recursion on numbers and shown to satisfy its equation (the powers
of the radix and the sums of counts of `PendingSort`, for instance). For this
`Trees` gives the forests by a bound on parents, and `Serialize` stores cells
with `With` and `Cell` of `Format` instead of the operators of module TLC, which
the provers cannot expand.

Only model-checked:

* all liveness properties (`SortEnds` and the other calls that end): fairness
  and ENABLED are out of the prover's reach;
* `ImageReadsBack` and `ImageVerifies`: the readers are recursive functions on
  an image, whose equations a proof has for the images of an encoder only after
  an induction over the tree inside each step;
* the INI export (`IniReadsBack`) and the escaping of strings
  (`JsonStringReadsBack`, `IniStringReadsBack`), whose parsers are recursive.

## 5. Not modelled

* The hash: any function stands for it. Fuzzing drivers and benchmarks.
* json-c, libyaml, the allocators, the sort of the core library and XXH3:
  external, through success or failure, or as any function.
* The digits of numbers, text layout (indentation, newlines), and the wording of
  messages and status names.
* Images that no encoder writes, beyond nodes that are refused when they are
  read: a cycle of nodes, say, would send an export into endless recursion.
  Documents are trees here.
* A file that is rewritten while a reader has it open, beyond the opening
  itself: the code promises nothing for it.
* Sizes past `int`: the YAML export casts the length of a string to int.
* `options.deduplicate_strings`, which has no effect in the code.

## 6. Plan

All components with state are modelled and most safety properties are proved.
What is worth proving next, in this order: `ImageReadsBack`, which needs the
reader's recursion as a function on the nodes of a document; then the escaping
of strings, whose parsers would have to be stated without folds over sequences.
