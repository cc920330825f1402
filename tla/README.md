# A verification project for frontend-crates

TLA+ models of the stateful parts of the `frontend-crates` workspace, TLC
configurations that check them on small instances, and TLAPS proofs of the
properties that matter most. Paths below are relative to the repository root.

1. [The system](#1-the-system): its parts, their state, how they interact
2. [Modules](#2-modules): which module models what, and how it corresponds to the code
3. [Runs](#3-runs): what each run checks and shows, its bounds
4. [Fairness](#4-fairness)
5. [Proofs](#5-proofs): what holds for every value of the constants, and why
6. [What the models found](#6-what-the-models-found)
7. [Abstractions and what is not modelled](#7-abstractions-and-what-is-not-modelled)
8. [Plan](#8-plan)
9. [Running it](#9-running-it)

## 1. The system

The workspace is the set of crates an LLM server's frontend is built from. A
request is parsed (`protocols`), rendered to a prompt (`renderer`), encoded
(`tokenizers`), its media prepared (`multimodal`), and the engine's tokens come
back through the detokenizer (`tokenizers`) and the tool-call and reasoning
parsers (`parsers/v1`, `parsers/v2`) as a stream of chunks. `conformance` records
what parsers answer, and its `publisher` turns the recordings into a published
tree with crash-safe transactions. The crates are libraries: they call each
other through traits (`Tokenizer`, `UnifiedParser`), and the caller owns the
threads and the async tasks.

| Component | State it keeps | Operations | What is hard | What makes it correct |
|---|---|---|---|---|
| **Publication transaction** `conformance/publisher/src/transaction.rs`, `publication.rs` | files: destinations, `.native-publication-stage-*`, `.conformance-transaction-backup-*`, `.conformance-transaction.json`; two directory leases (flock) | `Lease::acquire`, `Lease::read`, `publish_checked`, `recover` | several processes; kill and I/O error at any step; recovery of a recovery; readers that overlap; viewers that read without a lease | readers see one publication; no catalog is ahead of its data; a visible commit is final; recovery never gets stuck; everyone is served |
| **Memory admission and source archives** `resources.rs`, `source.rs`, `catalog.rs` | a budget (mutex, condition variable), the process-wide `SOURCE_ARCHIVES` with one slot per archive and a count of sessions | `reserve`, `Reservation::drop`, `archive_session`, `admit_archive`, `index_version_archive` | a pool of workers; files that change while they are read; errors with guards held; lost wake-ups | the counter is exact; overlapping operations use one version of an archive; no worker waits for ever |
| **Publication pipeline** `pipeline.rs`, `normalization.rs`, `codec.rs`, `yaml.rs` | none between calls | captures to documents, in parallel under the budget | deterministic output of parallel work | pure conversions |
| **Conversion cache** `conversion_cache.rs`, used by `pipeline.rs` and `catalog.rs` | one file per entry, in a directory all publishers and indexers share | `read`, `write`; the source's files are edited meanwhile | concurrent runs, kills between write and rename, damaged and lost entries, sources that change while they are read | a result is the source at one moment; an entry is what its key says |
| **Catalog generation** `conformance/utils/src/viewer_catalog.py`, `catalog.rs` `index_cached` | none between calls | index the source, comparing the store before and after | a store that is listed once while files come and go | the index is of files that were there together |
| **Transport** `transport.rs`, `web_transport.rs` | `PackWriter`: pending bytes, sealed packs, chunk locations; `RecipeValidator`: decoded packs with a byte limit | `add`, `flush_phase`, `recipe`, `finish`; `load` | parallel compression into reserved places; phases; eviction | every recipe reconstructs its bytes; phases never mix |
| **Capture history** `history.rs` | `Cursor`: the last capture applied, the state of all cases | `apply` | inheritance and deletion along a chain | the order is strict, the state exact |
| **Prefix cache** `tokenizers/src/cache` | a shared concurrent map (moka) from digests to token ids | `encode`, `encode_segments` of a `CachedTokenizer` | threads, evictions, shared namespaces, special tokens that overlap | the result is what the inner tokenizer returns |
| **Incremental detokenizer** `tokenizers/src/lib.rs` `DecodeStream` | token ids, two offsets, the length already returned | `step`, `finish` | characters split over tokens; decoders that rewrite their output | the chunks are the text, cut in pieces |
| **Stop sequence decoder** `lib.rs` `Sequence`, `StopSequenceDecoder` | token ids, offsets, the jailed text | `append_token_id`, `close` | text that only looks like a stop sequence | nothing is lost or repeated; stop sequences stop and are hidden |
| **Tokenizer backends** `hf.rs`, `tiktoken.rs`, `fastokens.rs`, `basetenkenizer.rs` | a loaded vocabulary | `encode`, `decode` | differences between third-party tokenizers | adapters; their contracts are assumptions here |
| **Streaming tool-call jail** `parsers/v1/src/tool_calling/jail` | per choice: jailed or not, accumulated text, partial marker, search progress, deferred finish reason and reasoning | `apply` (a stream transformer), `fix_finish_reason` | chunks cut anywhere; several choices; finish reasons and usage that come early or late; an engine that stops anywhere | no text lost, every closed call delivered once, the finish reason last |
| **Guided streaming** `jail/guided_stream.rs`; **reasoning parsers** `parsers/v1/src/reasoning`; **batch parsers** `parsers/v1/src/tool_calling/*` | a cursor, a buffer, nothing | streaming or whole-text parsing | as the jail; quadratic grammars | streaming agrees with batch |
| **Unified parsers** `parsers/v2/src/unified/mod.rs`, `guided_cursor.rs`, `tool_calling/scan.rs`, one file per family | `GuidedRouted`: native and guided parser, hand-over, prefill, started, finished; `Output`; scanners' buffers; the vendor registry (RwLock) | `parse_into`, `parse_token_ids_into`, `finish`, `reset`; `register`, `unregister`, `create` | hand-over from guided to native in the middle of a delta; errors after committed events; reset at any time; registration while serving | events do not depend on how the text is cut; reset gives back what was not delivered |
| **Harmony vocabulary** `parsers/v2/src/unified/harmony/encoding.rs` | a lock file, cached vocabularies | load under a lock | several processes, read-only caches | one download at a time, verified |
| **Structural tags** `parsers/structural-tag`, `parsers/v2/src/structural_tag` | none | build a grammar | schemas | pure |
| **Renderer** `renderer` | compiled templates | render a request | template semantics | pure |
| **Multimodal** `multimodal` | a process-wide pool (`OnceLock`), an HTTP client | `init_pool`, `try_map`, `fetch`, decoding | racing initializations; timeouts with work left on a blocking thread | results in order; limits hold |
| **Decisions** `decisions`; **protocols** `protocols` | none | validate, project, render; (de)serialize | exact contracts | pure |
| **Demo server, Python binding, recording tools, viewer** | none of their own | glue, offline tools | | |

How they interact: `CachedTokenizer` wraps any backend; `DecodeStream` and
`Sequence` call the backend's `decode` and `has_unstable_suffix`; the jail calls
the batch parsers at each end marker and at the end of the stream; the unified
parsers own a native and a guided parser each; every publisher operation runs
inside a source lease, an archive session and a memory budget, and installs its
tree with one transaction.

## 2. Modules

### Transaction, Publication, MCTransaction, TransactionProofs

`Transaction` is `transaction.rs` and the part of `publication.rs` that drives it.

- **State.** `dest`, `stage`, `backup` and `journal` are the file system, and
  survive a process; `ex` and `sh` are the flock, which does not. A tree is a
  version and the set of its files present, because a directory is removed one
  unlink at a time (`RemoveStep`). `pc`, `idx` and `ret` are where each process is.
- **Recovery** (`recover_preserving`): `RecoverStart`, `Rollback`, `RollbackDone`,
  `Unstage`, `Unbackup`, `Unjournal`, `CleanupOrphans`. Every loop iteration is a
  step, so another crash fits between any two.
- **The publisher**: `Begin` to `Cleanup`. `Prepare` takes one snapshot, `Seal`
  writes the prepared journal, `Swap` exchanges one destination, `Commit` makes the
  journal say committed and calls the recovery that cleans up.
- **The reader** (`Lease::read`): `LockShared`, `CheckJournal`; a journal sends it
  to the exclusive lease and the recovery, and back to the shared one.
- **Faults**: `Crash` in any state, and for each region of the code the error path
  it has (`FailOutside`, `FailStaging`, `FailPrepare`, `FailSeal`, `FailSwap`). A
  journal write fails before or after its rename: after it, the commit is visible,
  and the code must not roll back.

- **History**: `torn` is the destinations whose snapshot an interrupted recovery has
  left incomplete since the last commit (`Tears`); no guard reads it.

`Publication` is the promise: all destinations change at once, to a version not
older than any of them; an aborted transaction may leave a *retained* destination
(the immutable data generation) that did not exist. `Tear` is what is not promised and
happens (section 6): directories lose files. `MCTransaction` maps the abstract variable
to `Published`, the tree a recovery would leave were the holder killed now (once a
recovery has restored the destinations, they are that tree: `Restored`), and
`ImplementsPublication` states the refinement: every step is a step of `Publication` or
none, and only an `Interruption`, a fault of a recovery that is removing its snapshots,
may be a `Tear`, of directories alone. A full publication replaces one directory
(publication.rs:1322); a data-only one installs a generation directory, retained on
rollback, and then the files that refer to it (publication.rs:1288).

### MemoryBudget, Admission, MCAdmission, AdmissionProofs

`MemoryBudget` is `MemoryBudget` and `Reservation` of `resources.rs`: a condition
variable whose waiters are a set, woken by every drop, sometimes for no reason.
`Admission` extends it with the tasks of `catalog.rs` (which reserve twice: the
archive, then the decoded members) and of `publication.rs` (once), and with
`admit_archive`: lock the slot, open and identify the file, share an earlier
extraction if it is still the same file or read, hash, identify again and extract.
The file may change between any two of these steps; a read across a change gives
the old bytes, the new ones, or a mixture (`content = 0`), which only the digests
can tell.

### SpecialTokens, TokenizerCache and their MC modules, SpecialTokensProofs, TokenizerCacheProofs

`SpecialTokens` is the pure part: where a text may be cut (`Boundaries`), which
sets of special tokens are refused (`TokensCanOverlap`, `UnsafeOverlap`), and an
external inner tokenizer that selects the leftmost occurrences, the longest or the
first listed. `CutsAreSafe` is what the cache needs of it: encoding the pieces
between boundaries is encoding the whole. `TokenizerCache` is `CachedTokenizer`
over `l1.rs`: the lookup from the deepest boundary down, the miss that populates
every boundary, the hit that encodes the tail, the one that extends, and
`encode_segments`. Each get and insert is a step of its own, any thread may run
between two, entries vanish at any time (`Evict`), and the inner tokenizer may
fail at any call.

### Detokenizer, DecodeStream, StopDecoder, MCStopDecoder, MCDetokenizer, DetokenizerProofs

`Detokenizer` has the two families of decoders: tiktoken's, which turns bytes into
text lossily, and HuggingFace's `ByteFallback`, which gives a run of byte tokens as
a whole or as replacement characters. A byte is a letter; a token is a piece of
text, a lead byte of a two-, three- or four-byte character, a continuation byte or
a special token. `DecodeStream` is `step`, `decode_pending` and `finish`;
`StopDecoder` is `Sequence` and the jail of `StopSequenceDecoder` over it. Both keep a
window of tokens, `prefix_offset` and `read_offset`, over the same tokens and decoder;
`Detokenizer` declares these, and the specification of `StopDecoder` is `StopSpec`. In
`MCDetokenizer` a response is decoded by one or the other.

### Jail, MCJail, JailProofs

The marker path of the jail for a hermes-like family. A chunk takes any number of
letters of one choice's text, and may carry reasoning or the finish reason;
contentless chunks, a usage-only chunk and the end of the stream come when the
engine likes, also in the middle of a call. `ProcessContent`, `HandleTrailing`,
`TryComplete` and `EmitCompleted` map a choice's state and a chunk to a new state
and emissions; `YieldAll` yields them in the three buckets of `apply`, each with
`YieldBucket`; `Deliver` and `Synthesize` are `fix_finish_reason`. Markers are several letters long so that a
chunk can split them.

### ConversionCache, SourceRun, MCSourceRun, SourceRunProofs

`ConversionCache` is the directory of `conversion_cache.rs` and the keys
`pipeline.rs` makes: a key is what the conversion reads (it is a digest of that),
a payload the version of each source it was made from, and `write` is a temporary
file and a rename, with a kill possible in between.

`SourceRun` is a run of the publisher or of the indexer over files that others edit.
A publisher reads the catalog (`Start`), verifies metadata and layout, collects the
viewer's assets and has another process bundle them (`CollectAsset`, `BundleAsset`),
converts the family (`Lookup`, `LookupRow`, `Read`, `BeginStore`, `EndStore`,
`Assemble`), and under the output's lease reads everything once more (`originals`,
`CheckCatalog`, `CheckLayout`, `CheckNamed`, `CheckAsset`). An indexer lists the store
once, makes its own inventory and verifies what it read or what a cache hit stands for
(catalog.rs:315). A file may come after the listing, so what `index_cached` returns need
not be a set of files that were ever there together (`IndexedFilesAgree` says what it
is). Its caller, `_native_catalog_document_index` of `viewer_catalog.py`, takes the
identities of all files of the store before it and compares them after it (`Identify`,
`IdentifyAgain`), and only then the result counts. Each file is read in a step of its own. `Edit`, `Regenerate`, `Tamper` and `Kill` are the world
around; `moment` is a ghost, the source between the two readings.

### QwenInvoke, Scanner, MCScanner

The unified parser of `qwen3` and `nemotron_v3`. `QwenInvoke` is the grammar
(`qwen3_coder.rs`): `EndAppend` finds where an invoke ends, and knows what is data of
a parameter; `ParsePartialInvoke` streams the string arguments of an invoke that is
still open; `ParseInvoke` turns a complete one into what is left to send. `Scanner` is
`WrappedBlockScanner` (`scan.rs`) and `GuidedRouted`'s life cycle (`unified/mod.rs`)
in native mode. The parser is a record; `DrainReasoning`, `DrainBlock` and
`DrainOutside` are one pass of `drain`'s loop each, and `Drain` is the loop. `Push`
takes any number of letters, `Finish` and `Reset` may come at any moment.
`Assemble` is what a consumer makes of the events, and `Meaning` the assembled answer
to a text that comes in one delta: the reference the cuts are compared with. `Agrees` is
the comparison. Only in a text that gives a parameter twice may calls be missing, those
`Completed` leaves incomplete because a later value contradicts what has been streamed
(qwen3_coder.rs:364; the test at :1094 pins it).
`MCScanner` generates the texts. Its answers are sequences of parts (prose, a thought,
a call in a block, a bare call, a narrated call), each with the event it means, so
that what an answer means is not taken from the parser.

## 3. Runs

| Run | Question | Instance |
|---|---|---|
| `transaction_data_only` | Is a data-only publication atomic through crashes, but for what an interrupted recovery tears, and is a visible catalog never ahead of its generation? | 2 publishers, 3 destinations: a directory of two files, retained, and two files; versions up to 3, 3 faults |
| `transaction_directory` | A full publication: do readers see one publication, does one fault lose nothing, does recovery ever get stuck, is a commit ever undone, are candidates, snapshots and readers left alone, is everyone served, and every journal recovered that somebody waits to recover? | 1 publisher that may die and start again, 2 readers that may overlap, one directory of two files, up to 4 versions, 2 faults, with fairness |
| `transaction_partial_snapshot` | Can recovery itself be interrupted, as its comment says? **Violated.** | 2 publishers, 1 reader, one directory of two files, 2 faults |
| `admission` | Is the budget exact, do overlapping sessions agree, is a task given the file it opened, does every operation end? | 2 operations, 4 tasks, 2 archives with 2 versions, limit 3, one job that never fits, 1 failing extraction |
| `tokenizer_cache` | Does the overlap screen accept only sets whose boundaries are safe cuts, and does any result depend on the cache? | every set of at most two special tokens of at most three letters, every text of at most six; 2 threads, 4 wrappers (extending, plain, another tokenizer's, refused), a conversation of 3 turns, one segment list, 3 calls, 1 eviction |
| `detokenizer` | Are the chunks of a stream the text? Is text a stop decoder holds returned once and in order, the stop sequence not at all, and what does a hidden stop token take along? | streams: both decoders, 6 tokens, prompts up to 3 tokens, kept context 2, 4 steps; stop decoder: byte decoder, 6 tokens, one of them a visible and one a hidden stop token, 2 stop sequences, sequences of up to 6 tokens |
| `decode_stream_prompt` | Is a character the prompt began returned when the stream completes it? **Violated.** | byte decoder, 4 tokens |
| `stop_words` | Does the presence of a stop sequence stop the response, as its comment says? **Violated.** | the stop decoder of `detokenizer` |
| `jail` | Whatever the chunks and wherever the answer stops: is anything lost, invented or late? | 2 choices, parallel calls, false starts and prose, 1 reasoning chunk per choice |
| `jail_usage` | Is the finish reason that is sent before the usage-only chunk the last of its choice? **Violated.** | as above |
| `source_run` | Is what a publication returns, or an index its caller accepts, the source at one moment, do the files an index lists agree, and does the shared cache stay exact and closed? | 1 publisher, 1 indexer, repeated; a family of 2 captures, one of them added later, 1 taxonomy, 1 asset; 2 edits, or an edit and a kill, eviction or damage |
| `unified_scanner` | What do the cuts of a text show, are template answers read as meant, does reset give back what was not delivered? | every text of at most 3 words out of 13 (tags, their halves, letters); 35 answers with 9 values that look like markers; 12 with a parameter given twice; any cut, any starting state, finish and reset anywhere |

Why the bounds are enough. *Transaction*: two publishers make every conflict between
publishers, a third only queues; three destinations have a first, a middle and a last
one for the forward swap and the backward rollback; two faults interrupt a
transaction and then its recovery, a third the recovery of that. A data-only
publication has the three kinds of destinations there are, in the code's order: the
retained directory, a file after it, and one more; its transactions lie in the
repository's root, which no reader leases, so the run has none and asks instead what
those find who read without a lease (`CatalogsFindTheirGeneration`). A full publication
is one directory; two readers overlap with each other, with publishers and with
recoveries, and only together they can starve a publisher; one publisher is enough
there, because it recovers what it left behind when it died as another one would, and a
second one only queues. *Admission*: two tasks that do not fit together and share an archive, a
third on another archive, and one of a second session make every pair of roles;
two versions give every order of a change and the four steps that look at the
file. *Cache*: two threads race on each entry; three nested turns have a shallow,
a middle and a deepest boundary; a second eviction only repeats the first, as an
entry that is gone is looked up like one that never was. *Detokenizer*: the
longest character is four bytes, and prompts and steps together hold one and its
neighbours. *Jail*: the longest marker is three letters, and every cut of every
input is explored. *Source run*: the races are between two runs and between a run and
the world; one edit is enough to make any file old, and one fault to lose, damage or
leave behind any entry; that a set of files is not the store's takes a file that comes
and one that changes, so there may be two edits (`MaxEvents` bounds edits and faults
together), the second while no publication is under way (`SecondEdit`: a publication
looks at its files again one by one, and one edit is enough to fail it); for more of them there is the proof. *Scanner*: a text of
three words has an opener, what follows it and a closer, and one of the words is a
header with a parameter's opener, so that a value, its closer and a function closer
fit; longer texts that are well-formed are among the answers. The second value of a
repeated parameter differs from the first, is the same, continues it, or comes after an
empty one, in a block, bare and in a thought.

The type invariants are checked by `transaction_data_only`, and proved where there is a
proof module; the other runs spend their time on the properties. Three invariants that
lead to deeper ones are only proved: `LeaseExclusive` (`ReadersAreStable` is what it is
for), `AcceptedSetsNeverShareLetters` (for `AcceptedSetsCutSafely`) and the jail's
`OnlyMarkersWait`.

What may end: a publisher or a reader may stay idle, an operation and a stream are
over when they are over; so deadlock is switched off in the runs, and the liveness
properties (`EveryoneIsServed`, `JournalsAreRecovered`, `EveryOperationEnds`) say where nothing may stop.

Each property is also checked against a mutant: a definition next to the original
(`CheckJournal_Trusts`, `Drop_Leaks`, `IdentifyAgain_ListedOnly`, ...) with a
plausible bug, for which TLC finds the property violated.

## 4. Fairness

- `Transaction!Fairness`: a process that is alive and not waiting keeps running
  (WF), and the kernel serves every flock waiter (SF): whoever asks for a lease
  that is free again and again gets it. Nothing is assumed of `Begin`, `BeginRead`
  and the faults. flock prefers nobody: readers that overlap for ever keep a publisher
  out, and TLC shows it if the premise of `EveryoneIsServed` is left out. The premise,
  `[]<>(sh = {})`, is that the shared lease is free again and again; it is about the
  readers' schedule, which no code here controls. `JournalsAreRecovered` has no premise:
  a reader that finds a journal lets go of its lease, so while one waits to be recovered
  no reader stays.
- `Admission!Fairness`: every worker keeps running (WF of `TaskStep`), and an
  operation whose tasks are over returns. The pool's threads are OS threads; they
  sleep only on the condition variable or a slot's mutex. `Wake` and `ChangeFile`
  are not fair: a release must wake the waiters by itself.

## 5. Proofs

The proof modules extend the module they are about; TLAPS checks them for every
number of processes, destinations, tasks, archives, threads, wrappers, choices and
texts, and every bound.

**RankedRecursion.** Induction and recursion over data. The library's induction
theorems take an operator as a parameter, which these provers cannot instantiate; but
that `<` is well founded on the numbers is a fact about a set, and gives the least
element of a set of numbers (`LeastNumber`). From it follow, without any operator as
parameter, induction as membership in a set (`RankInduction`, `BoundedInduction`,
`BackwardInduction`) and the existence of recursively defined functions
(`RecursionExists`, `BackwardRecursion`, `ForwardRecursion`), which the recursive
functions of the models (a sum over tasks, the tokens of a text, the calls of an
answer, a bucket of emissions) are instances of.

**TransactionProofs.** `TypeCorrect`, `LeaseIsExclusive`, `ReadersStable` and
`CommitsAreFinal`. None is inductive alone: that no two processes recover at once
(`LeaseExclusive`) depends on where each process is, and that a commit is never
undone depends on nobody entering the rollback while the journal says committed.
The invariant is `IInv == TypeOK /\ ControlInv /\ LeaseInv /\ JournalInv`:
where a process is determines whether it holds the lease (`LeaseInv`), what a
label implies for the loop's index and the return label (`ControlInv`), and what
the holder's label says of the journal's phase and owner (`JournalInv`). The step
lemma has one step per action. Only `TransactionConstants` is assumed.

The second half of the module is what the disk is worth, on top of `IInv`.
`CandidatesAlwaysSurvive` and `RecoveryNeverStuck` follow from `GInv`: a publisher's
candidates are complete at every label that still needs them (`CandidatesOK`), its
snapshots equal the destinations until the journal is sealed (`SnapshotsOK`), and a
prepared journal finds an original or no snapshot, as the checks of the rollback
demand (`RecoverableOK`).

`TransactionImplementsPublication`, `ReadersOnePublication`, `OneFault` and
`CatalogsNeverAhead` follow from `FInv`, for any destinations, files and directories. A
directory's files may be lost by an interrupted recovery (section 6), so the invariant
says where: a destination lacks a file only if it is in `torn` or the rollback is just
removing it (`DestOK`), a snapshot that a prepared journal names only if its destination
is in `torn` or restored already (`SavedOK`). The swap's loop has installed what it has
passed (`SwapOK`), and the rollback's has restored what it has passed (`RollbackOK`);
while the snapshots go, what is left of each is still in the destination it was restored
to (`Covered`). `FaultsOK` counts: nothing is torn
before the second fault, since one has to leave the prepared journal and another to
interrupt its recovery; `OneFault` is that one fault loses nothing. The refinement maps
the abstract variable to `Published`; of all steps only the commit is a `Publish`, only a
swap of a retained destination is a `Retain`, only an `Interruption` may be a `Tear`, and
every other step leaves `Published` alone. A reader finds one publication because it
reads without a journal, where `Published` is what is there. A catalog finds its
generation because the forward swap installs the generation first and the rollback
retains it. `Alone` and `OnlyHoldersWrite` reduce each step to the process that takes it.

**AdmissionProofs.** `SessionsNeverMix` and `AdmissionsAreHonest`, from
`IInv == Types /\ SessionInv /\ SlotInv /\ GotInv`. The heart is in `GotInv`: as
long as a session is open, the slot still holds what its tasks were given, since
only the last session clears it; and in `SlotInv`: a task that reads owns the
slot's mutex, found it empty, and read one version if the file is still the one it
identified. `BudgetsAreExact` has an invariant of its own, `BudgetInv`: for every
operation, what its budget counts as used is the sum of what its tasks hold (`Exact`),
and a task holds memory only of the operation it works for (`Owners`). The sum is over
a set, so the lemmas are about sums: one exists for every finite set of tasks
(`AddsExists`, `PartialSums`), changing what one task holds changes it by the
difference (`SumChanges`), and no term exceeds it (`TermBound`), without which a drop
could bring the counter below zero. `TypeCorrect` rests on both invariants.
`AdmissionConstants` and `BudgetConstants` are assumed.

**SpecialTokensProofs.** `AcceptedCutsAreSafe`: for texts,
special tokens and selection order (leftmost-longest or leftmost-first) of any kind
and length, if no special token can share a letter with another one, then encoding a
text is encoding the pieces between its boundaries and concatenating. `NoSharedLetters`
is why the screen of `first_unsafe_overlap` is enough: two occurrences that share a
letter are one inside the other (`ContainedAt`) or overlap at their ends
(`OverlapsAt`), and the screen refuses both. A cut then falls on no occurrence, and the
tokens of what is before it (`PrefixTokens`) and after it (`SuffixTokens`) are those of
the whole, by induction from the end of the text. `SpecialsNeverShareLetters` and
`BoundariesCutSafely` are the two properties of the run, for texts and sets of any
length.

**TokenizerCacheProofs.** `CacheIsExact` and `EncodeIsTransparent`: every entry is
the exact encoding of what its key names, and `encode` returns what the inner
tokenizer returns, for any interleaving and any evictions. The invariant adds to
`EntriesAreExact` what every thread's tokens are in the middle of a call: the
encoding of the input up to `at`. Its lemmas: cuts at boundaries concatenate
(`Joins`), prefix and segment keys never collide (`KeySpacesDisjoint`), equal keys
mean equal encodings (`PrefixKeysExact`, `SegmentKeysExact`), and inserting what a
key names keeps the cache exact. `CacheConstants` is assumed: namespaces stand for one
tokenizer each (the documented contract of `new_with_cache`) and no text has the tag
byte. That boundaries are safe cuts is not assumed: it is `AcceptedCutsAreSafe`, for
the sets of special tokens a wrapper accepts.

On top of it, `TypeCorrect`, `DeepestIsCached` (`NextTurnHitsDeepest`) and
`UsageReported` (`UsageIsExact`). `DepthInv` says which prefixes a call has left in the
cache: a miss every boundary it has passed, a hit its own; with an extending wrapper,
or after a miss, the deepest is among them. `CountInv` says how many tokens came from
there. A hit reports cached tokens because every boundary has a token before it
(`PrefixNotEmpty`). `UsageFrame` and `OneThread` leave one thread to look at: the cache
only grows until something is evicted, and after that nothing is claimed of the depth.
`SegmentsAreTransparent` has the invariant `JInv`: in the middle of `encode_segments`,
the tokens so far are those of the segments passed, joined, wherever they came from;
the reference `Joined` is recursive, and unfolds by one segment (`JoinedFacts`).

**DetokenizerProofs.** `ReturnedStays` (`ChunksAreAppendOnly`), `FinishReturnsAll`
(`FinishedIsComplete`) and `NothingIsRewritten` (`NeverRewrites`), over both families of
decoders, for any tokens, any prompt, any kept context and any number of steps. The
stream compares the text of a window with that of the window and what follows it, so
everything rests on where the text of a sequence of tokens is that of its pieces. That
is wrong in general: bytes complete a character, and a byte-fallback run is all text or
all replacements. It holds behind a *settled* sequence: one no later token can change
(`Settled`: no character is open at its end, or no run of byte tokens). `LossySplit` is
this for `from_utf8_lossy`, where a sequence may also be cut in front of anything but a
continuation byte; `SuffixRuns` and `PrefixRuns` are it for `ByteFallback`; `SaidSplit`
for `decode`, with the leading space that is stripped once (`Rest`). A text that is not
`Partial` belongs to a settled sequence (`WholeIsSettled`), and one without an unstable
suffix too (`StableIsSettled`): this is what the code's two guards are for.
`StreamInv` says that the window that has returned text is settled and says something,
and, if the prompt is whole (`WholePrompt`), that what was returned is the text of the
tokens read. A prompt that ends inside a character is what `BoundaryRecovery` is about
(section 6); `NothingIsRewritten` holds for it as well. `KnownDecoders` and
`StreamConstants` are assumed.

`NothingIsLost` (`JailLosesNothing`: the jail loses nothing, and a hidden stop token
takes along only the beginning of a stop sequence that was in it) and `MatchesAreHidden`
(`StopSequenceIsHidden`) are the stop decoder's, for any tokens, stop tokens, stop sequences and lengths, over a
decoder that concatenates bytes (`Decoders \subseteq {"bytes"}`; over `ByteFallback` they
do not hold, section 7). `StopInv` adds to them that the tokens read are settled and the
pending ones *silent*: without a character of their own, no text or replacements that
`Sequence` removes. The last is the difficult part: a token that completes nothing, added
to silent ones, leaves them silent (`StillSilent`), because only a byte of a character can
keep a text ending in a replacement, and it adds a replacement or none (`OneMoreByte`).
`TextBehind` is the split of the new text, `StopTokens` the step. What a jail holds
while it goes on is always the beginning of a stop sequence (`HeldBegins`), so that is
all a hidden stop token can drop. `StopConstants` is
assumed: the stop sequences are sequences of bytes.

**SourceRunProofs.** `TypeCorrect`, `EntriesExact` and `Snapshot`, for any number of
runs, files, versions, edits and faults. The argument is that of a double collect.
Versions only grow, so a file that has the same version before and after a moment
had it at that moment. `IInv` says, for each label, which files the run has compared
so far: `OldOK` (what was read is not newer than the source), `MomentOK` (the first
reading is not newer than the moment), `SameOK` (the second reading found what the
first did, for the files the loop has visited), `BundleOK` for the assets, which two
processes read, and `GotOK` (the result is made of the versions the catalog names,
from the cache or not). `IdentOK` is the same argument for the set of files: the caller of
an index compares the identities of the whole store before and after, so a file that was
absent at both ends was absent in between, and what was listed is what was there.
`IndexAgrees` is what holds without that caller. `EntriesAreExact` is one of its conjuncts: a run writes what
it read, under a key that names it. `Frame` is the lemma for the runs that do not
move. Assumed are `ConversionConstants` and `SourceConstants`.

`EntriesClosed` and `NoDisturbance` are proved on top of that invariant. `StoredOK` says which fragments a run has seen or written so far;
a rename never loses one (`PutKeepsFound`), so they are still there when the entry
that lists them is written, whoever was killed before. `FreshOK` says that what an
undisturbed run has read is what the source still is, so each of its comparisons
finds what it looks for (`FreshChecks`), and with `StoredOK` the assembly finds its
fragments. `StoredOK` is needed twice, with different excuses: for closedness until
the first tampering, for failures until this run is disturbed; the invariant has
both.

**JailProofs.** Any inputs, any number of choices, any cut into chunks. First what the
operators return. A search that starts less than a marker's length before the new text misses no
end marker (`SearchIsEnough`), and every branch of `process_content` leaves a settled
state: a choice that is not jailed holds at most a marker's beginning, a jailed one has
no partial marker, and its call is open once its text was searched (`Settled`,
`ProcessContentFacts`). The emissions of a chunk come in the order pass, call,
trailing, with the finish reason on the last or nowhere and the reasoning on the first
(`InOrder`, `Shaped`, `ContentChunk`). `ChunkOrderIsKept` is the "Ordering invariant"
of jail/mod.rs:2262: although `apply` yields three buckets, the client gets the
emissions in the order they were made, each once.

Then the invariant `JailInv`, which relates for each choice what was delivered, what is
held and who has ended it. `Live` holds until the stream ends: reasoning is delivered
or waits, and waits only if text does; after the engine's finish reason
`fix_finish_reason` has seen one exactly if no text is held; a delivered `stop` means no
call was delivered; and a choice that `fix_finish_reason` did not end has its finish
reason last, or none. `Done` holds after it. `LiveChunk`, `ContentlessChunk`,
`LiveSynthesized` and `LiveEnds` are the four actions for one choice. Neither
`FinishIsLast` nor `TurnEndsForItsCalls` is inductive alone: that nothing follows a
finish reason depends on nothing being held when it is sent. `TurnEndsForItsCalls` is an action property: when the
stream ends, the last thing a choice has sent is its finish reason, the only one, and
`tool_calls` if it made calls, all but the choices that were ended while they held text
(`EndedTooEarly`, which `jail_usage` shows). From `JailInv`:
`TypeCorrect`, `MarkersWait` (`OnlyMarkersWait`), `OpenCallsWait` (`OnlyOpenCallsWait`),
`FinishComesLast` (`FinishIsLast`), `TurnsEndForTheirCalls` (`TurnEndsForItsCalls`) and
`AllReasoningIsDelivered` (`ReasoningIsDelivered`). `JailConstants` is assumed: the
inputs are texts of the letters.

Last `NothingLost` (`NothingIsLost`). It needs a second invariant, `LostInv`: for each
choice there is a place of its text such that the client has the text before it, the
choice holds the streamed text after it, and no call of the text lies across it
(`Held`). The last part makes it inductive: cut inside a call, held text would begin
with half a call, and the parser would read it otherwise than the whole text. The place moves only where
`MarkerMatcher` cuts (`MatchCuts`), behind completed calls (`CompletedIsKept`, with
`CallsAreCounted`: in a balanced text the parser's count is the number of calls the
region has) or to the end, and each branch of `process_content` keeps it
(`ContentIsKept`, `ChunkIsKept`). `DeliverWrites` and `YieldWrites` carry the emitted
text to the client, through the three buckets. `CallsAreValid` is assumed: in what the
engine generates, start and end markers are those of whole calls with a valid body; the
stream may still stop anywhere. Without it the property is not what the code promises:
a jailed text that does not parse may be dropped with its markers (jail/mod.rs:2799).

Only model-checked:

- liveness (`EveryoneIsServed`, `JournalsAreRecovered`, `EveryOperationEnds`), which needs
  ENABLED;
- of the jail, `ClosedCallsAreDelivered`: it is stated with `SelectSeq`, a recursion
  in the library that tlapm does not unfold;
- the scanner, whose grammar is a RECURSIVE operator.

## 6. What the models found

1. **An interrupted recovery can lose files** (`transaction_partial_snapshot`).
   `recover_preserving` removes the snapshots (transaction.rs:325) while the
   journal still says prepared (it goes at line 326), and a directory is not
   removed in one step. Killed in between, the next recovery finds an incomplete
   snapshot and restores it over the destination. transaction.rs:180 says "Keep the
   rollback snapshot immutable so recovery can itself be interrupted." It takes two
   faults, one to leave the journal and one in its recovery: `OneFault` proves that one
   loses nothing.
2. **A character begun by the prompt can be lost** (`decode_stream_prompt`). The
   stream returns text only when it got longer in bytes (tokenizers/src/lib.rs:587);
   the replacement character is three bytes, so a completed two- or three-byte
   character is not longer. The test at lib.rs:698 tries a four-byte one.
3. **A stop sequence inside held text stops nothing** (`stop_words`). When the stop
   decoder's held text diverges, all of it is returned, also a stop sequence or the
   beginning of one inside it (tokenizers/src/lib.rs:989): with stop sequence `aba`, the
   letters `aaba` are returned whole. lib.rs:934 says that "The presence of any one of
   these should trigger a stop". `JailLosesNothing` holds of such a response: it says
   that no letter is lost, not where a response stops.
4. **A usage-only chunk ends a turn too early** (`jail_usage`). While a choice's finish
   reason waits for buffered text, a usage-only chunk makes `fix_finish_reason` end the
   choice in `tool_calls` (jail/mod.rs:3210); `finalize` then sends the text with the
   engine's deferred reason, and the choice has two. jail/mod.rs:3139 keeps the choices
   that have ended "to avoid synthesizing a duplicate".

Limits met on the way, which no run shows:

- A hidden stop token returns no text (tokenizers/src/lib.rs:980), so the beginning of a
  stop sequence that tokens before it left in the jail is dropped with it, though its
  comment has "the text for the matched token" not returned (lib.rs:926).
  `JailLosesNothing` says that this is all that can be dropped.
- A call that gives a parameter twice is made when it comes in one piece and missing when
  it is cut inside the first value, because what has been sent cannot be taken back
  (qwen3_coder.rs:364; the test at :1094 pins it), though CUSTOM_PARSERS.md asks for "the
  same ASSEMBLED output regardless of where the transport split them". `CutsDoNotMatter`
  says that this is the only exception, and that the rest of the answer is there.
- A call that is jailed again from trailing text (jail/mod.rs:1190) is not checked for
  completion before the next chunk; if none comes, `finalize` parses it and drops the
  prose behind it. `NothingIsLost` is therefore stated for the stream, and
  `ClosedCallsAreDelivered` for its end.
- After `reset`, a parser that has delivered a call of a block gives back the rest of
  that block without its opener (scan.rs:3866 clears it): parsed again, the rest is
  text. `ResetGivesBack` asks for the whole meaning only while the open block has
  delivered nothing.

## 7. Abstractions and what is not modelled

- *Transaction.* A data-only publication takes the leases on both parents exclusively,
  and its journal lies in the repository's root, which readers do not lease (they lease
  `conformance`, where full publications are): the data-only run has no readers, and the
  readers of its files take no lease at all (`CatalogsFindTheirGeneration`). The path of a
  generation is one destination of the model, whatever the generation. A publisher holds two leases, on the source and on the output's
  parent; the model has the one on the transaction's parent. A journal write is one
  step (it is a rename); its temporary file is left out. The removal of a stage is
  one step: nothing reads a stage that is being removed. A crash is the death of a
  process, not of the machine: `sync_tree` and the directory syncs are skipped.
- *Admission.* The validation of an archive's members is one outcome. Sizes are
  small numbers; `reserve`'s overflow checks are on constants.
- *Cache.* Digests are what they hash (blake3 does not collide). Hit and miss
  counters, observers and storage statistics are left out. `encode_segments` joins
  runs of short segments into one inner call; the model appends them one by one,
  which is the same for a tokenizer that neither truncates nor pads, the code's own
  assumption (cache/mod.rs:323). `encode_batch` is a loop over `encode`.
- *Detokenizer.* `skip_special_tokens` is on. `StopDecoder` is checked with the byte
  decoder alone: over `ByteFallback`, `Sequence` has no guard for an unstable suffix and
  `JailLosesNothing` does not hold.
- *Jail.* Each upstream chunk carries one choice, the bodies of calls are valid JSON, and
  log probabilities, whitespace, guided (Immediate) mode, kimi_k3's terminal marker
  and the holding of blank content are left out. `input` fixes what the engine will say;
  it may stop anywhere.

- *Source runs.* Identities of files (inode, size, times) stand for their versions. An
  index called by hand, without `viewer_catalog.py`, has only `IndexedFilesAgree`. An editor never brings an earlier version of a file back: a digest
  would not notice, and neither would the model. One family with one implementation,
  whose captures form one history; dataset units and batch histories, which have their
  own entries, are left out. All captures are read before the first fragment is
  written, and a fragment is made from the authored file and its own capture, though
  it also depends on the captures before it. `document_cached` of the catalog is left
  out, and so is the loss of power.
- *Scanner.* Texts have no quotation marks, so `ProseControlState` finds nothing to
  protect. One tool is known, with one declared string parameter; a value's type and
  JSON escapes are left out, so emitters never fail and `pending_parse_error` stays
  empty. The guided mode, channel envelopes, tool separators and the hooks of other
  families are left out. `ForcedStart` is false in the run: a forced thought is the
  starting state `Reasoning`, which the run has. After a reset the same text comes
  again.

Not modelled, with the reason, is every other component of `PROJECT.json`: those
that are pure functions of their input (renderer, protocols, decisions, structural
tags, batch parsers, pipeline), those that are someone else's code (tokenizer
backends), and those that are next (section 8).

## 8. Plan

Done: Transaction, Publication, MemoryBudget, Admission, SpecialTokens,
TokenizerCache, Detokenizer, DecodeStream, StopDecoder, Jail, ConversionCache,
SourceRun, QwenInvoke, Scanner, and the proofs above.

What is left, in this order:

1. `GuidedRouted` with a guided parser: the hand-over to native in the middle of a
   delta or at the end, prefill, fallback and what their reset gives back.
2. `GuidedCursor` (parsers/v2) and the Immediate mode of `Jail`
   (`guided_stream.rs`): a committed call never changes its name, released bytes are
   a prefix of the arguments.
3. `Leases`: the two leases of a publisher on two parents, and which outputs make
   two publishers wait for each other.
4. `PackWriter` and `RecipeValidator`: phases, reserved places, eviction by bytes;
   `History`: the cursor; `Registry`.
5. `Reasoning` in front of `Jail`, composed; `Pool` and `Fetch` of multimodal;
   `VocabularyLock`.

Hazards behind these that `PROJECT.json` does not list one by one: a guided call
committed before its payload has closed (`parsers/v2/src/unified/guided_cursor.rs:511`,
and `jail/guided_stream.rs:136`); a reasoning end marker split between chunks
(`parsers/v1/src/reasoning/base_parser.rs:523`); packs compressed in parallel into
places reserved before (`publisher/src/transport.rs:73`) and decoded packs evicted by
bytes (`transport.rs:224`); captures applied out of order (`publisher/src/history.rs:185`);
an error in the middle of an advance, after events already in the caller's output
(`unified/mod.rs:1476`); a factory unregistered between lookup and call
(`unified/mod.rs:6546`, documented as start-up only); vocabulary loaders that lock
different files (`harmony/encoding.rs:132`); two `init_pool` calls of different sizes
(`multimodal/src/execution.rs:51`); a data URL decoded on after its timeout
(`multimodal/src/fetch.rs:518`); a journal's temporary file that stays after a failed
write, and what survives a loss of power (`publisher/src/transaction.rs:110`, `:114`).

Proving more: `ClosedCallsAreDelivered` of the jail from `LostInv`.

## 9. Running it

    tlc -config MCTransactionDataOnly.cfg MCTransaction.tla
    tlapm TransactionProofs.tla

`PROJECT.json` lists the runs with their modules and configurations, the mutants,
the source lines of every definition, the findings, the hazards with the properties
that cover them, and the theorems.
