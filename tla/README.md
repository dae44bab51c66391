# Model-checked and proved models of `model-configs`

`model-configs` reads the configuration files of a machine-learning model
repository (JSON documents, a chat template, safetensors indexes) from a
directory or from memory, validates them, normalizes the ones that describe the
model, and writes a compatibility manifest that can be read again. A separate
Python tool fetches and audits a corpus of repositories. This directory holds TLA+
models of that code, TLC configurations that check them on small instances, and
theorems that TLAPS checks for every instance.

Source paths below are relative to `src/crates/model-configs/src/` unless they
begin with `src/`.

## Inventory of the system

| Component | State | Operations | Interacts with |
| --- | --- | --- | --- |
| Bounded diagnostics (`diagnostic.rs`, parts of `validation.rs`, `repository.rs`, `manifest.rs`) | three bounded lists | `push_bounded`, early stops, `merge_diagnostics`, `push_priority_diagnostic` | every part that reports a finding |
| Inventory and in-memory construction (`repository.rs`) | two maps of paths, the batch of documents | `insert_file`, `insert_directory`, `from_documents_with_inventory` | portable paths, validators (`has_file`, `has_directory`) |
| Directory reading (`repository.rs`, `document.rs`) | the frames of the walk, the lists found, counters | `collect_paths`, measuring, `SourceDocument::read` | the file system, which others change; diagnostics (skipped links) |
| Portable paths (`path_serde.rs`) | none | `validate`, `portable`, collision keys | both constructors, validators, the manifest |
| Source documents (`document.rs`) | none | `parse_owned`, `json_nesting_depth` | the parser behind it, the duplicate scan |
| Duplicate-key scan (`json_scan.rs`) | the open containers, the pointers kept, two flags | `observe_key`, `observe_text`, `record` | validation, the manifest reader |
| Selection (`selection.rs`) | none | generation source, chat template | documents of a scope; callers of the typed views |
| Normalization (`normalize.rs`) | the root object, emptied as it is read | root document, architecture, task, components, applied defaults, sensitivity, redaction | validation, manifest |
| Validators (`validation.rs`) | the pass and the document it is at | references, shapes, field tables, special tokens, executable metadata | inventory, documents, normalization |
| Typed views (`views.rs`) | none | accessors, `extra`, classification of components and tokens | the same documents as the validators |
| Manifest (`manifest.rs`) | a bounded output buffer | `from_repository`, `to_json_pretty`, `from_json` with its checks | normalization, diagnostics, the duplicate scan |
| Errors, crate surface (`error.rs`, `lib.rs`) | none | formatting, re-exports | - |
| Corpus tool (`src/tools/corpus_inventory.py`) | files and records on disk, a worker pool | fetch, retry, resume, merge, audit | the hub |

The library is sequential and keeps no global state. What makes it hard is
elsewhere: one small list is shared by parts that do not know of each other;
every limit is checked in more than one place against numbers that may be out of
date; a directory is read in three passes while other processes change it;
callers insert paths in any order, again, and after errors; the writer and the
reader of a manifest, and the validators and the views, are written twice for the
same documents with nothing to tie them. In the corpus tool it is threads, retries
and crashes.

What makes each component correct:

* diagnostics: bounded, never lossy without saying so, errors first;
* inventory: the closure of what was inserted, whatever the order; a limit that
  refuses exactly what exceeds it; a repository in which a path has one meaning;
* reading: bounded at every step, nothing missed that was there all along,
  nothing made up, exact when the directory stands still, and it ends;
* duplicate scan, nesting scan: agree with a plain definition over the whole
  document;
* normalization: no member of the root is lost or counted twice; what it refuses
  is reported;
* validators: each broken reference, misshapen value and executable locator is
  one finding, wherever it lies; they agree with normalization and with the views;
* selection: never merges, and never passes over a source in silence;
* manifest: nothing sensitive is written or accepted, nothing else is omitted,
  what is written can be read again, what is accepted is the work of the rules;
* corpus tool: no evidence is lost by a retry or a crash, every repository is
  fetched eventually.

## Modules

| Module | What it is |
| --- | --- |
| `Diagnostics` | collection, bounding, merging of findings and the manifest's own finding |
| `RepositoryPaths` | paths, portability, collision keys, limits; shared by all modules that have paths |
| `Snapshot` | the abstract contract of constructing a `ModelRepository` |
| `Inventory` | construction in memory; implements `Snapshot` |
| `RepositoryRead` | reading a directory that changes; implements `Snapshot` |
| `SourceParse` | the checks on one source and the scanner for nesting |
| `DuplicateScan` | the streaming scan for repeated members and sensitive strings |
| `Json` | JSON values, as far as the next six modules look at them |
| `Sensitivity` | what a manifest must not show; redaction |
| `Normalization` | from the root document to the normalized configuration |
| `Manifest` | writing a manifest, an edit of its text, reading it |
| `Fields` | the tables of fields and shapes that validation checks |
| `Views` | the members and types the typed views know |
| `Selection` | effective generation settings and chat template of a scope |
| `Validation` | the four passes over a repository; composes the four above with `Normalization` |
| `CorpusFetch` | the fetch command of the corpus tool |
| `MCDiagnostics`, `MCInventory`, `MCRepositoryRead`, `MCDuplicateScan`, `MCManifest`, `MCValidation`, `MCCorpusFetch` | the values TLC gives these modules; `SourceParse` needs numbers only |
| `DiagnosticsProofs`, `InventoryProofs`, `RepositoryReadProofs`, `DocumentProofs` (`SourceParse` and `DuplicateScan`), `ManifestProofs`, `ValidationProofs`, `CorpusFetchProofs` | theorems about them |
| `SharedProofs` | lemmas that several of these cite: paths and sums, JSON values and the places in them, lists of findings, orders |

`Inventory` and `RepositoryRead` both extend `RepositoryPaths` and both
implement `Snapshot`, by a refinement mapping that shows the repository once it is
ready and nothing before (`KeepsContract` in each). What `Snapshot` promises of a
repository, `Validation` assumes of the ones it is given (`ValidationAssumption`:
documents are files, a path lies in directories, no path is both). It also assumes what the
code's constants and types give: a path takes at least one segment (255 bytes of 1024), a
pointer at least the names of fields, and the members of a root index have different
bytes, since they are the keys of a map.

### Diagnostics

`scan`, `content` and `result` are `ModelRepository::scan_diagnostics`, the list
of `validate_repository`, and the list `diagnostics` returns and the manifest
goes on with. `stage` is the part that runs: the directory scan, the report of
the normalization error, the four loops over the documents in
`validate_repository`, the merge, the manifest. A finding is the part it comes
from and its number there; `findings` is how many each part has, chosen at the
start, `raised` how many it has reported. `Report` is any `push_bounded` of a
validator, `Stop` the `limit_reached` checks. A validator may check the limit
between its items and mostly does; since it need not, `Report` is also allowed on
a full list, where it changes nothing.

Two abstractions carry weight. Text and location of a finding are left out, and so
the order `sort_diagnostics` gives a list. The only code that depends on the order
is `push_priority_diagnostic`, which replaces the last finding: `LastInOrder` is
every finding of the greatest severity, a superset of what the sort can put
there. `Unmarked` takes the marker off the end instead of filtering the list,
which is the same since the marker is the last entry of a full list and no other
(`ListInv`, proved).

A note on that replacement: severities sort upwards, so the finding that makes
room for the manifest's own warning is an error whenever the list has one.
`ErrorsOutrankWarnings` is therefore stated up to the merge.

### RepositoryPaths, Inventory, Snapshot

A path is the sequence of its segments. What the code looks at in a segment is
given by constants: `UnsafeNames` (what `validate` refuses), `Fold` (NFC, case
fold, NFC), `RecognizedNames` (`DocumentKind::from_path`), and `Order` is the order
of the slash-separated strings, by which everything is sorted and searched.

`Inventory` has one action for a successful `insert`, one for a refused one, and
then the steps of `from_documents_with_inventory` in the order of the code: count,
bytes, duplicates, the insertions, the collision check. Sorting the batch is
modelled by its use: the next document is the first of those left. `accepted` is a
history variable with the insertions that took effect; the properties compare
the inventory with its closure under parents.

`validate_no_portable_collisions` fills a map and looks up every entry;
`Collides` is the relation between two entries that makes a lookup fail. The sum
of the sizes saturates at the width of `u64`, far above the limit each partial sum
is compared with, and sizes are not negative, so one comparison of the total
stands for the loop.

### RepositoryRead

`present` and `size` are the directory, changed by `Create`, `Delete` and
`Rewrite` between any two steps of the read. `stack` holds the frames of
`collect_paths`, each a directory and the entries of its listing not visited yet.
`ListFails`, `VisitFails`, `CheckFails`, `SizeFails`, `LimitFails`, `ProbeFails` and
`LoadFails` are the error returns, each with the condition of the code; the action
without `Fails` is the way on. `steady` and `seen` are history: the paths that
have existed all along, and at some time. `Starts` is what the directory may be at
first; `Volatile` bounds the directories that others change, and `MaxChanges` how
often they do.

The type of an entry comes with the listing on most file systems and from a
second call on others, which fails for an entry that has gone: after a removal
both `Visit` and `VisitFails` are possible.

Left out: a path that changes its type while the read runs, I/O errors on entries
that exist, a root that cannot be listed, the Windows test for reparse points. A
listing is one step; so is a read of a file's bytes.

### SourceParse

A source is written token by token, and `parser` goes along as a JSON parser
would: `open` is the containers it is in, `deepest` the most there have been, and
after the first mistake any byte may follow. That is the reference. `Scan` is
`json_nesting_depth`, byte by byte over `text`, which knows strings and escapes but
no grammar. The actions that answer are the returns of `parse_owned` in their
order: path, size, kind, nesting, template, parse. Five bytes matter to the scanner
and are kept; every other byte is `other`. What the external parser accepts of
numbers, literals and commas is left open: a text without a mistake here may still
be malformed there (`RetainMalformed`).

### DuplicateScan

The parser delivers one token per step, in any nesting, and may fail at any token.
`stack` is the visitor's recursion: the location of each open container, the keys
it has had, the index it is at. A location is the pointer (`path`), its length in
bytes and whether the visitor still has it (`named`): the code drops a pointer when
a child of it would be too long. `Key` is `observe_key` with `record` in it,
`String` is `observe_text`; `pointers`, `retained`, `truncated` and `sensitive` are
what the scan returns. `members` and `strings` are history: everything that was
read, from which the properties compute what a second pass over the whole document
would find. A string is judged as a pointer only where the visitor still has the
pointer of its place, so a place with a long index in front is judged as any other:
`SensitiveExact` says so, since for the statement without that exception the instance
has a counterexample. `BoundedChild` measures a key twice, as it is and after escaping, as the
code does.

### Json, Sensitivity, Normalization

A JSON value is a tuple that begins with its type. A number is the range it lies in
(`Numeral`), since `as_u64`, `as_i64` and `as_f64` are all the code asks. A string is
the sequence of its words: that is what `manifest_sensitive_message` splits it
into. What the character tests find in a word is given by constants (`Rooted`,
`TokenWords`, `Parameters`, ...), and what the functions combine from them is
modelled: how a string begins, what any word contains, a word in quotes, the
semantic key that is left when wrappers are taken off, the exceptions for
`bos_token` and its kind, redaction through lists and objects. Values nest as deep as the
parser lets them (`MaxNesting`, `MAX_SOURCE_JSON_DEPTH` in the code), and what the code does
by recursion into a value is done here level by level: `Within` is a value with all that is in it,
`Redacting` is what `redact_json` makes of each of these by what it makes of those
directly inside. The three tests that
are easy to mistake for one another (a text, a message, a path by its segments and
as a whole string) are three operators.

`Normalize` is `normalize` of a repository's documents: the root is
`model_index.json` whenever there is one, an architecture from three places of
`config.json`, the task, components with derived paths, the defaults that record
this, and everything left over in `extra`. Each `take_*` of the code is a pair: the
value, and the members it removes. `Spelling` gives the bytes of the words whose
order matters, so that a component named `vae-decoder` sorts as it does in Rust.
`ManifestSafe` is the projection a manifest may show, or none.

### Manifest

A repository is filled member by member (`AddDocument`, `AddMember`, `Spoil`), with
findings of its validation (`Report`), within the limits under which a repository can be
constructed at all (`Constructible`, as `Snapshot` has them), and written (`Write`: `from_repository` with
redaction, or the refusal of a path). The text, `wire`, may then be edited once, in
any field, by removing, repeating, changing or reordering (`Edit`), and is read
(`Read`). `FromJson` is the reader: a check is the kind of its error or `"ok"`, and
the first one that fails in the order of the code is the answer. `unknown`,
`malformed` and `repeated` stand for what only the text has: a field of no schema, a
missing or misshapen one, a repeated member. The digest is a constant.

### Fields, Views, Selection, Validation

`Fields` has the tables of `validation.rs` and the shapes, `Views` those of
`views.rs`: which member each accessor reads, with which conversion, and which
members are left to `extra`. They are translated separately, as they are written
separately, and the properties compare them. `Selection` has both precedences, at
the root and in a scope, with the list of legacy generation fields.

`Validation` takes one repository and goes through `validate_repository`: what
normalization says, then the passes over references, shapes and fields,
configuration references, executable metadata, each document in the order of the
code. A step is one document in one pass. Findings keep level, code, document,
pointer and related path. The order of findings about the members of one object is
that of the source and left open (`Each` takes any). Pointers are bounded by tokens
instead of bytes (`MaxPointer`), paths by segments (`MaxPath` in `Selection`, with `Wide` segments
that count for several). What the code finds by recursion into a value, executable
locators among it, is a recursive function over the places in that value (`Places`, in
`Json`), each place a sequence of keys and indices.

### CorpusFetch

`disk` is the corpus, `manifest` the metadata file as a function from the case fold
of an id to a record, `task` the thread pool: the stage of each repository and,
once it is done, its record. `Start` is `main` up to the submissions, with `Pending`
and `FirstOf` for what `--resume` and `--limit` leave; `Begin` is a worker taking the
next repository; `Lookup` to `Close` are `_fetch_repository`; `Save` is the end of
`main`. A document is compared and put into a temporary file in one step (`Unchanged`
or `Prepare`) and renamed in another (`Replace`), so that the tool can be killed between
the two. `Push` moves the hub to its next revision.

The retries within `_http_bytes` are one step with its last outcome; a status stands
for all that are treated alike. A record's content is what its digest was taken
of. The order `as_completed` gives the results matters to nobody, since they are
sorted. Left out: two commands at a time; documents that were in the corpus before
the first command; power loss, after which a renamed file may be empty since
nothing is flushed.

## Checks

| Run | Bounds | What it shows |
| --- | --- | --- |
| `diagnostics` | lists of 8 entries, 2 of them the scan's reserve; each of six parts has 0, 1, 7 or 8 findings | every combination of empty, small and saturating parts, among them lists one short of the limit, exactly at it and past it |
| `inventory` | 8 paths up to three segments deep, with two directories that fold together, a file that can also be a directory and an unsafe name; 4 entries, 2 documents, 3 bytes; batches of up to three documents of 1 or 2 bytes | every order of insertions with every batch; each error is reached |
| `read` | 15 paths: metadata directory, name that is not UTF-8, reserved name, links, socket, nested directories, three documents, a malformed one, a colliding file; trees of up to six of them; documents of 1 to 3 bytes, at most 2 each; 5 entries, 2 documents, 3 bytes; 2 changes within six of the paths | a still directory is read exactly when it is readable and exactly as it is; what survives interleaving with creation, removal and rewriting; that the read ends, and within the steps the limits allow |
| `source_parse` | sources of up to six bytes, a limit of five; nesting limit 2; strings of up to two characters or escapes | the scanner is where a parser would be, on every text and every mistake |
| `duplicate_scan` | documents of up to eight tokens; three keys, one of which needs escapes; list indices of one and two digits; pointers of 6 bytes, 2 locations, 8 bytes of them | every nesting, every repetition, each of the three reasons a location is missing; places where a manifest has pointers |
| `manifest` | 21 members for two roots, among them sensitive strings at the start, within and in quotes, sensitive and exempt names, null, misshapen and duplicate components; three other documents; three findings; four parts in all, one edit | writing and reading of each, unedited and with every edit |
| `manifest_order` | the same | that the reader refuses a text the crate wrote (below) |
| `validation` | families of repositories: every field of every kind with 17 values; index entries, shards, adapter bases with and without what they name; tokens; executable metadata at every depth; documents that cannot be interpreted; candidates of a selection; pointers of 3 tokens, paths of 3 segments | each pass on each of them |
| `validation_types` | the same | that a wrong type goes unreported (below) |
| `corpus_fetch` | two repositories, one in two spellings, with two documents and two revisions; limits of one and all; two workers; one kill | every interleaving of the workers, the hub and the kill |
| `corpus_repeated` | the same list every time, with `--resume` and a limit that all repositories meet | the liveness of the repetition |
| `corpus_batches` | the same with a limit of one and no kill | that batches can starve (below) |

The limits are small so that lists and counters reach them; nothing depends on
their value except that a list holds two entries at least and the reserve is a
quarter. Two changes are enough for a path to go and come back, for one document
to grow while another one goes, and for a directory to vanish with its last
entry. Four parts are two components with the root and its class, which is the
least for an order of components; a finding and its document; an extra with a
sensitive value within. One edit is enough since the reader's checks are each about
one or two places, and an edit may be combined with a reordering. Values of members nest
three levels deep at most in the runs, so that `MaxNesting` is 4 there (120 in the code) and every level
is one that some value has. A repository of a
family in `validation` has two or three documents: every validator looks at one
document and the paths it names. Where a document has to be deep for a case
(pointers that are too long), the bound is lowered instead.

A property with several parts is one definition that names them, and each part has
a comment of its own:

* `Diagnostics`: `DiagnosticsBounded`, `MarkerIffOmitted` (the limit marker is
  delivered exactly when a finding is missing), `ErrorsOutrankWarnings`,
  `ScanShare`, `IdentityReported`, `PriorityCostsOne`.
* `Inventory`: `InventoryIsClosure`, `RefusedOnlyWhenFull`, `ReadyIsUnambiguous`,
  `BuildIsExact`, `KeepsContract`. `EntriesBounded` and `NothingLost` are proved.
* `RepositoryRead`: `RetainedIsBounded`, `ReadIsFaithful` (`SteadyIsFound`,
  `NothingInvented`, `EveryDocumentRead`), `QuietReadIsExact`, `Terminates` (the read ends, and
  `StepsAreLimited`),
  `KeepsContract`.
* `SourceParse`: `NestingIsExact`, `LimitIsExact` (`ParserWithinLimit`,
  `RefusedOnlyWhenDeep`).
* `DuplicateScan`: `TruncatedIffMissing`, `PointersAreDuplicates`,
  `PointerKeptIffShort`, `SensitiveExact`. `ScanIsBounded` is proved.
* `Manifest`: `OwnManifestIsRead` (exactly which of the crate's own manifests come
  back, and as what), `NothingSensitiveIsShown` (`NothingSensitiveIsWritten`,
  `AcceptedIsSafe`), `OnlySensitiveIsOmitted` (`NothingElseIsOmitted`,
  `FindingsAreKept`), `EveryMemberIsAccountedFor`, `OrderIsIrrelevant`,
  `RecordsAreProducible` (`IndexIsAuthoritative`, `AcceptedIsProducible`).
* `Validation`: `BrokenReferencesAreReportedOnce` (components; shards and adapter
  bases), `NormalizationIsExplained` (`RootIsNormalizedOrReported`,
  `ConfigCandidatesAreDiagnosed`), `ComponentReadingsAgree`
  (`NormalizedComponentsAreChecked`, `ViewsAgreeWithNormalization`),
  `InvalidValuesAreReported` (`InvalidIffReported`, `InvalidTokensAreReported`),
  `UnreadableIsReported` (`RepeatedIsNotInterpreted`, `ViewsAreRefusedIffReported`),
  `SelectionIsNeverSilent`, `ExecutablesAreReportedOnce`.
* `CorpusFetch`: `DocumentsAreWhole` (`NoTornDocument`, `OneWriter`),
  `RecordsAreTrue` (`RevisionPinned`, `OkIsWhole`), `StaleIsRetried`,
  `CompletedKept`, `EveryoneReached`.

A definition whose comment begins with "Mutant of" is a plausible bug in the
definition after it. Put in its place it makes one property fail, which shows
that the property depends on the code; `PROJECT.json` pairs them.

Deadlock is checked in every run. A finished construction, delivery or reading has
an action that leaves everything as it is.

## Findings

**Batches starve.** `src/corpus/README.md` asks to fetch in batches of 450 with
`--resume --limit 450` and to repeat the command until no transient status remains.
The batch is always the first part of what is pending, in the order of the ids, and
a repository that failed transiently is pending again. Repositories that keep
failing therefore fill every batch, and those after them are never tried:
`corpus_batches` repeats the command forever without a record for the second
repository. When all repositories fit in one batch everyone is reached
(`corpus_repeated`).

**A manifest the reader refuses.** `take_components` sorts components by name, and
applied defaults by the pointer `/components/<name>/path` (`normalize.rs:792-793`). The
reader pairs the two lists by position (`manifest.rs:751-761`). The orders differ when
one name is the beginning of another and goes on with a byte below the slash: for
`vae` and `vae-decoder`, `from_json` answers `InvalidDinomlV1Normalization` to what
`to_json_pretty` wrote, although that error says "cannot be produced by the
immutable `dinoml-v1` rules" (`manifest.rs:1332`) and `src/docs/usage.md:365-376` shows
the round trip of any repository. `manifest_order` is the run.

**A wrong type without a diagnostic.** `normalize` takes `model_type` and
`transformers_version` from either root when they are strings
(`normalize.rs:332-333`); the field table of `model_index.json`
(`validation.rs:814-820`) has neither, so `{"model_type": 1}` there is left out
without a finding, against RFC 0001, lines 295-297. `validation_types` is the run;
`ConfigCandidatesAreDiagnosed` shows that `config.json` has no such gap.

One more disagreement has no run of its own, because `OwnManifestIsRead` describes
exactly where it lies. The writer judges an identity by how the string begins
(`manifest_sensitive_text`) and a path segment by segment, the reader's scan judges
every word of every string (`manifest.rs:312-316`). A class called `Foo ~bar`, or a
directory `x ~bar`, is written and then refused as `SensitiveContent`. RFC 0001, lines
634-636, leaves open which of the two is meant.

## Fairness

`Terminates` assumes weak fairness of `Read`, the disjunction of the reader's steps: the
calling thread is scheduled and its system calls return. Nothing is assumed of the
processes that change the directory. In the run there are finitely many paths and
changes, so that the read ends there in any case. That it ends whatever others add is
what `StepsAreLimited` is for, which needs no fairness: each step of the reader uses up
one of the steps that the limits on entries and documents allow (`StepsLeft`), and no
change by others gives any back. A walk that does not count some entry violates it, in a
tree of any size. It is proved for any number of changes.

`EveryoneReached` assumes weak fairness of the pool and of the save, since threads are
scheduled and a request ends (it has a timeout of 60 seconds and six attempts), and that
somebody repeats the command with `--resume`, as the README of the corpus asks; that
requests succeed is never assumed. The other specifications have no liveness property:
each operation there is a loop over a finite list.

## Theorems

All proofs hold for every value of the constants that satisfies the `ASSUME`s of the
modules; TLC evaluates those in the runs.

**Induction.** The provers here cannot instantiate a theorem that takes an operator, so
no induction theorem of the library is used. The lemma `Least` derives from the
well-foundedness of the natural numbers that a set of them that is not empty has a
least element, and an induction is a proof that the least counterexample is none.
`SharedProofs`, `DocumentProofs` and `CorpusFetchProofs` each have it.
Recursive functions are handled by a predicate that says what such a function
satisfies (`IsSum`, `IsLength`, `IsScan`), a lemma that it exists and is the one
chosen, and lemmas that add one element.

`SharedProofs` proves in this way what the modules with paths share: the
first of a set of paths, ancestors of ancestors, and the total of a list of sizes
when an element is added (`TotalOfAppend`) or when two lists differ in one place
(`TotalOfChange`). It has the same for what the modules with documents share: the levels of a
JSON value, which places there are in it (`PlacesAre`), that a finite set whose elements are
ordered can be put in a row and in one way (`PlacesInOrder`, `Ordered`), and how often a list
has findings of some set (`Hits`), for lists that are joined (`BothAre`) or that collect one list for
each member of a set (`IsEach`, `EachCounts`).

**Diagnostics**, for every limit of two or more and every number of findings of each
part: `TypeOK` and all properties of the run. None of these is inductive. `IInv` adds

* the shape of a list (`ListInv`): its entries differ, and the marker is the last
  of the `MaxDiagnostics`, when there are that many, and nowhere else;
* its contents (`Kept`): everything reported so far while it is not full, and a
  finding left out when it is;
* progress (`ProgressInv`): a part that is over has reported all it has, or is a
  pass that stopped on a full list;
* order (`OrderInv`): errors before warnings, so that the prefix the merge keeps
  drops warnings first;
* for the merged list, that it holds findings of the repository and nothing else
  (`Sound`), so that the one that makes room in the manifest is missing
  afterwards and the marker is right.

`ScanShare` needs one more (`ScanOrder`: the scan's list has its findings in the order of
their numbers), since what the merge keeps of a list is its beginning; the numbers of
the reserve are a lemma of their own (`ShareNumbers`).

There is one lemma for each action. Those about `PushBounded`, `Unmarked` and the numbers of
the merge are stated on their own and cited.

**Inventory**, for every finite set of paths closed under parents, every fold, limit,
batch and sequence of calls: every property of the run, `EntriesBounded` and
`NothingLost`. `IInv` is the type invariant, the two invariants on the inventory and

* `DocumentsInv`: the documents inserted are those of the batch that are no longer
  pending, as many as are missing from `pending`;
* `StageInv`: each stage remembers the checks that led to it, and a batch that
  was rejected cannot be built.

The argument is in three lemmas. `StoreCounts`: an insertion adds as many entries as
the limit check counts. `StoreCloses`: it adds what the closure gains.
`ClosureGrows`: more insertions never amount to fewer entries, so that a document
refused on the way means that the whole batch does not fit. The refinement needs a
second invariant, `ContentInv`: what is stored is portable, the documents so far are
in order and before all that are pending, and their bytes with those of the rest of
the batch make the bytes of the batch.

**RepositoryRead**, for every directory, every limit and any number of changes by
others: `TypeOK`, `RetainedIsBounded`, `ReadIsFaithful`, `QuietReadIsExact`, `StepsAreLimited` and the
refinement of `Snapshot`.
The invariant has the tree (`TreeInv`: what exists lies in what exists), the frames
(`WalkInv`: each is a directory within the one below it), what was found so far
(`FoundInv`), what is still to come (`CoverInv`: a path that has been there all along
is found, or lies beneath an entry some frame has left), the counters (`CountInv`: at
most one per entry found), the documents read (`DocumentsInv`, with their total in
`bytes`) and what the collision check established (`CollisionInv`). `CoverInv` is the
heart: it survives any change by others since `steady` only shrinks.

`QuietReadIsExact` says more than these bounds: while nobody changes the directory, a
read fails exactly when a limit is exceeded, and not before. Its invariant adds

* `NestInv`: the frames are listings of different directories, and no directory found
  still waits in another frame, so nothing is counted twice;
* `QuietWalk`: every counter is the number of what has been found, and what has been
  found and what waits make up what exists;
* `QuietDocuments`: the bytes counted are the weight of the documents read. `BytesNow`
  is a recursive function over sets; `WeightExists`, `WeightIsUnique` and `WeightStep`
  are what the proof needs of it;
* a failed read is of a directory nobody could read (`ReadableBy`).

Each of the three passes has its lemma that a check which fails is one that any reader
of the same directory would fail (`TooManyEntries` for the one that a listing is
counted with those above it).

`StepsRunOut` is `StepsAreLimited`, from the first invariant: an entry is counted when it is visited,
and is listed and left at most once after that (`VisitSteps`, `WalkSteps`); there are no more
documents to measure than entries counted, and no more to read than the limit (`Numbers`). A read
begins with `4 * MaxEntries + 2 * MaxDocuments + 5` steps (`StepsAtFirst`), so it takes no more,
however often the directory is changed.

**SourceParse**, for every limit and every source: both properties of the run. `ParserIInv` is
`ParseTypeOK`, `NestingIsExact`, that the parser has never been deeper than the scanner's
maximum (`ParserInv`), and what an answer says about the scan (`OutcomeInv`). The
heart is `OneString`: whatever a string holds, escapes and brackets among it, the
scanner is after it where it was before. After a mistake the two diverge; that the
maximum never falls (`ByteType`) is all that is needed then.

**DuplicateScan**, for every set of keys and texts of any length, every limit and every
document: `TypeOK`, `ScanIsBounded`, `TruncatedIffMissing`, `PointersAreDuplicates`,
`PointerKeptIffShort` and `SensitiveExact`. An object is named by the number of members read before it;
`MembersInv` and `StackInv` say that names are unique among what is open and that the
keys a frame has seen are those of its object, so the visitor and the reference see
the same repetition at the same moment. `DuplicatesGrow` is the effect of one member on
the reference, `RecordInv` the effect of one location on the list, and `CountInv` ties
their sizes. `PointerKeptIffShort` needs an invariant of its own (`LocationsInv`: the length each
location carries is that of its path, and it has its pointer as long as that is within
the limit). `SensitiveExact` needs the same of the strings read: each was judged
(`JudgedSensitive`) by the rule of the place it has in the document.

**Manifest**, for every set of members, findings and edits, every choice of sensitive words, every
limit and every order of strings: `NothingSensitiveIsShown`, `OnlySensitiveIsOmitted`,
`EveryMemberIsAccountedFor`, `OrderIsIrrelevant`, `OwnManifestIsRead` and `RecordsAreProducible`. A value may nest as deep as the parser
allows. None of them is inductive, since each is about what a long computation makes of the documents.
`IInv` remembers where the variables come from:

* `DocumentsInv`: each document is an object that grew from members by `AddMember`, or was
  spoiled;
* `LimitsInv`: the documents keep the limits of construction, and findings are of documents
  there are;
* `OutputInv`: a manifest that is written is `FromRepository` of the documents as they are, and
  `AnswerInv`: an answer is `FromJson` of the text as it is; `OwnInv`: a text that nobody
  edited is the manifest's;
* `WireInv`: whatever an edit does to the text, its record has the fields of a record, each with a
  value of its type in the code (`RecordFormed`: options, a task of a known kind or another, components,
  defaults), its lists are lists, and what decides an order is among the strings there are.

What the properties say is then proved of `FromRepository`, `FromJson` and `Normalize`
themselves. A redacted value is safe and has all that may be shown
(`RedactIsSafe`, `RedactIsFaithful`): both go down the levels of a value, of which `LevelsAre`,
`LastLevel` and `NoLevelBelow` say what is inside of what. `Ordered` is about `InOrder` of any finite
set whose elements have different byte strings: every element has its place, so that
sorting neither drops nor repeats. `WrittenIsSafe` and `AcceptedSafe` carry this through the
projection and through the checks of the reader, which look at
the same strings by other operators.

`OrderIsIrrelevant` needs that two texts with the same lists, in any order, are read alike
(`OrderIsForgotten`). What is kept of the lists is sorted, and there is one sorted sequence of a
set (`SortedForgets`). Of the checks, `TextIs`, `ConversionIs`, `WireIs`, `DocumentsAre` and
`OrderIs` say of each pass what every element must be for it to pass, which no order enters; only the
limit on the documents' bytes is checked along the list, and `TotalOfRearranged` shows that the
sum of all, which every partial sum stays below, is the same. For the second half,
`CanonicalResembles` and `WrittenResembles` show that what is written of an accepted manifest
has the lists of the text it came from.

`OwnManifestIsRead` needs every check of the reader to pass, or to fail as foretold, on what
the writer made by other code. `ListingIsRead` takes the documents, whose limits at construction are
those of the reader; `FindingsAreRead` the findings, which lose what the reader would refuse when they
are redacted; `RecordIsRead`, `RecordIsSafe` and `RecordIsRelated` the record. The check left is
whether the rules can produce the record (`RecordIsPossible`), and there the reader
derives the defaults from the components in the order of their names, while the writer has sorted
them by their fields, in which a slash follows the name. `WrappedOrder` says when
the two orders agree: always, unless one name goes on where another ends with a byte below the
slash; `DefaultsMatch`, that the lists are then one list, since two sorted lists of one set are equal
(`OneOrder`), and otherwise are not. `TupleStays` shows that redaction makes no component of a value
that was none. So the answer `InvalidDinomlV1Normalization`, which a run finds in a manifest of the
crate's own, has that one cause and no other.

`RecordsAreProducible` says that whatever record the reader accepts, edited or not, is what the
rules make of some root document: of `Rebuilt`, a root with one member for each scalar, each
component and each extra of the record. `AcceptedPassed` collects what the reader has established by
then (`Passed`). `MembersApart` shows that this forbids two members of one name, unless the record
is one of those the property excludes (`Unconsumed`: an extra that the rules would have consumed, or
one member twice), so that each value lies in the root under its name (`RebuiltIs`). Then each rule
reads back the field it would have made: `TextsRead`, `TaskRead`, `ArchitectureRead`,
`ComponentsRead`, `DefaultsRead`; `ConsumedIs` shows that what they leave are the extras, and
`RebuiltNormalizes` joins them. Components and defaults come back in their order because the reader
has checked that they are sorted and because there is one sorted list of a set.

The assumptions are `MembersAssumption` (values come out of the parser, which limits their depth),
`ReportsAssumption` (the code `manifest_sensitive_data_omitted` is the writer's own),
`BytesAssumption` (different strings have different bytes, and a name that is safe has no slash),
`UnderscoredAssumption` (the names with an underscore that the code has as constants begin with one;
stated in `Normalization` and used for `Validation` too), `LimitsKept` (findings are made with the
levels of their codes and within the limits of texts, and no safe name exceeds one) and
`MarkersAssumption` (what stands in for sensitive text, the rule of a default and the segments of
its field are not sensitive: constants of the code judged by constants of the model, true of
`normalize.rs:634`, `normalize.rs:804` and `manifest.rs:127`).

**Validation**, for every set of repositories, every rule of paths and names and every
limit: all seven properties of the run. Each of them is about the whole list of findings once validation is done, and
none says anything before that. `IInv` says it of every step, by counting:

* `Counts`: of every set of findings about one document, the list holds as many as the root has and
  the passes that are over, or have been at that document, have said. At the end this is
  the sum of what `RootFindings` and four calls of `PassFindings` say of that document alone, so
  that "exactly once" can be decided without the list;
* `Heard`: the list has no finding that neither the root nor a pass made;
* what is left of a pass are documents, and the repository is one that was constructed.

The rest is about the parts of a pass, for any document. `Tells` and `Locates` say which codes and
pointers the findings of one validator can have, so that all others drop out of a count (`Untold`).
`IsEach` carries a count through a loop: as many findings as there are members with one. For
executable metadata the loop is the walk over the places of a value: what it reports at a place
depends on that place and those above it (`StepIs`, `MarkedIs`). No two places have one pointer, and
a place too deep for a pointer is reported without one, which the property counts apart. `BaseIs`,
`LeadsTo` and `PartIsValid` do the same for paths: what a reference leads to is there under the path
that is looked up, and is a valid one. For the agreement of validators and views the tables of both
are sets of records, which the proof compares field by field (`ViewTables`, `KnownIfViewed`).
`ComponentReadingsAgree` compares three readings of one object: `ComponentsShown` says that sorting
the components loses none, which is where their names must differ in bytes, `ViewedAreTaken` that
the view shows what normalization took, and `InvalidAreExtra` that what it calls invalid or unknown
was left to `extra`.

**CorpusFetch**, for any number of repositories, documents, revisions, workers and kills:
`TypeOK`, `DocumentsAreWhole`, `RecordsAreTrue`, `StaleIsRetried` and `CompletedKept`.
`IInv` has what the pool has of each repository (`TasksInv`, with `Progress`: the documents
of the one revision it looked up, each to do or listed, those listed as written on the
disk; one task for all spellings of an id), what a command resumes from (`RunInv`) and the
revisions of the hub (`HubInv`). Every worker touches the files and the task of its own
repository only, so one lemma (`WorkerInv`) carries the invariant over each worker's
step, given what the step makes of that task.
A kill forgets the tasks and leaves the disk and the saved records, about which the
invariant never depends on a task. The assumption on the hub is that every repository
has a first revision and that revisions have no gaps.

### Only model-checked

* That the read ends (`<>Over` in `Terminates`) and `EveryoneReached`, the two liveness properties,
  since the provers do not handle fairness and `ENABLED`. Every safety property of a passing run is a theorem.

## Not modelled

* The manifest's output buffer (`BoundedManifestBuffer`), the size of its text, the
  reader's list of findings at its limit, the digest.
* The wording of messages and the `Debug` output of views and documents.
* Character classes, Unicode normalization and percent decoding: a segment, a
  word or a key is a member of sets that say how the code's tests answer for it.
* `serde_json` itself, the file system and the hub are modelled as far as the code in
  `src/` depends on them, and marked external in `PROJECT.json`.
* The audit and resolve commands of the corpus tool, and two fetch commands at a time on
  one metadata file. The second overwrites what the first recorded; nothing in the
  repository forbids or supports it.
* Errors and the crate's surface (`error.rs`, `lib.rs`): no state.
* Panics, memory, the Windows branch of the test for links.
* Tests, fuzz targets, benchmarks, documentation, continuous integration. They were
  read for what they say about the code.

## Plan

1. Diagnostics. Done, all properties proved.
2. Paths, inventory and the contract of construction. Done, all properties proved.
3. Reading a directory. Done; safety and refinement proved.
4. Corpus fetch. Done, safety proved.
5. Duplicate scan and nesting scan. Done, all properties proved.
6. Normalization and selection. Done.
7. Writing and reading of manifests. Done, all properties proved.
8. Validators and typed views. Done, all properties proved.
9. The audit and resolve commands of the corpus tool: which records they count and
   which they change. Left.
