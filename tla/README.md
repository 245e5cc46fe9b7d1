# Nova: formal models

TLA+ models of Nova: the server's deferred synchronisation, the index and its
two stores, the embedding pipeline, the preparation of files, the retrieval of
context, the query handlers, accounts, and the client that uploads a checkout.
TLC checks small instances; TLAPS proves safety properties for every value of
the constants. Paths below are relative to `src/` (`service/…`, `core/…`,
`client/…`).

Contents: 1 inventory · 2 modules · 3 the models, component by component ·
4 runs and bounds · 5 fairness · 6 proofs · 7 findings · 8 disagreements seen
without a run of their own · 9 not modelled

## 1. Inventory

Nova indexes repositories for code search. A Rust MCP client scans a checkout,
finds what changed and uploads the files; a FastAPI service keeps a mirror of
them and an index per project; the engine (`nova_core`) parses, chunks, stores
(SQLite), embeds (LanceDB) and searches. In local mode the server reads the
checkout itself.

| component | state | operations | hard behaviour | what makes it correct |
|---|---|---|---|---|
| sync ledger and blob mirror (`service/nova_service/sync_state.py`, `blobstore.py`, `routers/sync.py`) | `sync-state.json` (files, pending lists, skipped files), one file per blob | upload, deletion notice, checkpoint, flush | the ledger and the blobs are separate files, written in a fixed order; crash or I/O error between any two | a ledger entry always has its blob; the pending lists agree with the ledger; nothing is acknowledged that is not indexed |
| `EngineManager` (`runtime.py`) | project locks, `_deleting`, `_indexers` | `flush_sync`, `start_sync`, `delete_project`, local-mode attach and rescan | handlers on a thread pool, workers, two locks and an unlocked mark | at most one live run; a deletion leaves nothing behind and nothing brings it back |
| `ProjectIndexer` (`indexer.py`) | progress, error, `_cancelled`, thread | start, cancel, join, `_run` | it gives the project lock back before its thread ends; join gives up after 30 s | a cancelled run writes nothing new; the outcome shown is the outcome of the last run |
| project registry (`core/nova_core/engine.py`, `routers/projects.py`) | `project.json`, ownership rows | resolve, list, delete | directory and ownership are two stores | no directory without an owner, no owner without a directory |
| indexer and stores (`pipeline/indexer.py`, `pipeline/index_state.py`, `storage/store.py`, `vectors/store.py`, `chunking/resolver.py`) | SQLite chunks and graph, vectors, fingerprint, index-state marker | apply changes, resolve references, re-embed, full reparse, search | SQLite commits first, vectors follow; a search takes no lock | chunks and vectors agree, or the marker says they may not; the graph is the one a fresh index would have |
| embedding pipeline (`pipeline/embedding_sink.py`) | `_pending`, bounded queue, known hashes, vector table | submit, flush_pending, close, abort; consumers | one producer, K consumers, back-pressure, failure on either side | success means every chunk has its vector; nothing is written after the end; it always ends |
| embedding client (`embedding/api.py`, `local.py`, `factory.py`) | – (one call) | truncate, batch, send, retry, reassemble | a pool of threads; the service reorders, refuses, fails | the k-th vector is the k-th text's, or the call fails |
| upload prefetcher (`pipeline/prepare.py`) | pool of prepared files by content, byte budget | submit, take, discard, expire, close | results raced by deletions and re-uploads; a worker process that dies | a prepared file is exactly what the ingest would have computed |
| parsers, splitter (`parsing/`, `chunking/splitter.py`) | – (pure) | extract symbols, edges and references; cut into chunks | overlapping declarations, errors in the tree, hard cuts | no line of a file is lost, no id is used twice, a call belongs to the function that makes it |
| retrieval and packing (`engine.py`, `retrieval/`, `contextpack/`) | query cache | recall, fuse, expand, rerank, assemble, look for gaps | rows vanish while a search reads; an embed call outlives its search | the account of the pack is exact, its budgets hold, what is left out is said |
| query handlers (`routers/query.py`, `mcp.py`, `answer.py`, `llmconfig.py`, `audit.py`) | cached provider with its key, health of the provider, audit rows | search, ask, save and delete of a configuration | a provider is chosen in several steps beside others | an answer rests on its own pack and its asker's model; the audit says what the caller was told |
| accounts (`metadb.py`, `auth.py`, `invites.py`, `routers/auth.py`, `admin.py`) | `nova-meta.db` | bootstrap, register, login, invite, patch, ban, ownership | several transactions per request | an invite is used at most its number of times; an administrator remains; a ban ends sessions |
| Rust client (`client/src/remote.rs`, `index.rs`, `ignore.rs`) | cache of uploaded paths and hashes | scan, diff, upload, flush and wait, search | processes share the cache file; the cache survives the server's state | what a call searches is what it scanned |
| local mode (`runtime.py`, `core/…/pipeline/ignore.py`, `engine.py`) | manifest of the last scan, indexers | attach, start, rescan, delete | requests look at the registry before they have the lock | what a recorded scan claims is in the index; both walks list the same files |
| CLI, evaluation tools, web interface, npm launcher, packaging | – | – | front ends, tools | – |

They interact by calls in one process and through files: a handler takes the
project's lock, changes blobs and ledger, and either runs `flush_sync` itself
(synchronous upload) or leaves it to a worker that a later `POST /api/sync/flush`
starts. `flush_sync` reads the pending blobs, runs `Engine.apply_changes` →
`Indexer._run`, and acknowledges the pending lists. `Indexer._run` holds one SQLite
write transaction open while it submits chunks to the embedding pipeline, whose
consumers write the vector table. A search reads both stores without a lock.
`PROJECT.json` lists every component with its sources, and every hazard at its line.

## 2. Modules

| module | what it is |
|---|---|
| `SyncService` | ledger, mirror, handlers, project lock, `flush_sync`, `start_sync`, worker, deletion, queries, crashes |
| `VectorStage` | abstract: what an ingest asks of its vector stage |
| `EmbeddingPipeline` | the producer, the queue, the consumers; refines `VectorStage` |
| `SymbolGraph` | the tables of `index.db` and the resolution of references, as operators on a record |
| `IndexStore` | an ingest as its writes to the two stores, the marker and the fingerprint, with failures between any two and a search beside it |
| `TextSplit`, `Sections`, `Extraction` | the text splitter, the sections of Markdown, the C++, C and Python extractors on an abstract syntax tree |
| `Languages`, `FilePreparation` | the language of a file; `prepare_file`: a file's bytes to its chunks, or its refusal |
| `Prefetch` | the upload prefetcher with its worker process, limits and races |
| `EmbeddingClient` | one embed call: configuration, truncation, batches, threads, retries |
| `Indexing` | `SymbolGraph` to `EmbeddingClient` side by side, as an ingest uses them |
| `Lists` | sums, selections, stable sorting, the first match: what several parts do with a list |
| `ContextPack`, `Ranking`, `GapPlan` | the packing of the context, the channels and scores, the gap rules |
| `Search` | a search as its steps, with the query cache, an ingest beside it and a change of model |
| `AnswerRules` | what the handlers compute from a pack: evidence, text of a body, check of citations, storage warning, error codes |
| `QueryService` | the search and ask handlers, the provider cache, the configurations, the audit |
| `Accounts` | `nova-meta.db` and its handlers, each as its transactions |
| `IgnoreRules` | which files are indexed: the walk of the server and the walk of the client |
| `Checkout` | the checkout, its ignore files and the user's edits |
| `ClientSync` | the client's calls over a shared cache file, against the server as `SyncService` shows it |
| `LocalScan` | local mode: attach, background scans, rescans, deletion |
| `Workspace` | a checkout in either mode |
| `MC…` | the instances TLC checks |
| `…Proofs` | theorems and their proofs |
| `ListLemmas` | what the operators on lists compute, for the proofs |

`PROJECT.json` maps each definition to the lines it stands for. Operators headed
`Mutant:` in a comment are wrong on purpose: putting one in the place of the
operator that follows it makes a named property fail, which shows that the
property can tell the difference.

## 3. The models

### 3.1 SyncService

**State.** One project. `files`, `pendingFiles`, `pendingDeleted`, `skippedFiles`
are the ledger on disk (handlers load and save it only inside the lock, so the
loaded copy and the file agree whenever anyone else looks); `stored`/`torn` are
the mirror (`blob_hash` covers the path, so a blob is a pair of path and
content); `index` is what the search index holds per path; `project`, `database`
are `project.json` and `index.db`. In memory: `lock`, `deleting`, `current`
(the registered indexer), and per worker `progress`, `failure`, `cancelled`. `pc`,
`batch`, `deferred`, `report` are the locals of each thread.

**Actions.** A handler is split where it writes to a file others depend on, where
it waits for the lock and where it gives a lock back; what happens between two
such points is one action.

| code | actions |
|---|---|
| `batch_upload` | `UploadBegin` (lock, second look at the project), `UploadSave` (blobs are in; record, queue, save), then `Return` or the flush |
| `report_deletions` | `DeletionsSave` (ledger first), `DeletionsUnlink`, then `Return` or the flush |
| an `OSError` among the blobs | `BlobIOFails`: any part of the batch is in, one blob perhaps cut short |
| `flush_sync` | `FlushNothing`, `FlushDeletes`, `IngestWrite`, `FlushAcknowledge`; `IngestRaises` at each of these points |
| `start_sync` | `InitializeProject`, `StartSyncReturns`, `StartSync` |
| `ProjectIndexer._run` | `WorkerCount`, `WorkerLock`, the flush, `WorkerFinish` or `_fail` (in `Raise`), `WorkerExit` |
| `delete_project` | `DeleteBegin`, `StopIndexer`, `DeleteRemove`, `DeleteEnd` |
| status, search | `QueryBegin`, `QueryOpen` |
| the process dies | `Crash`: memory is gone, the disk stays, a blob write may be cut short |

Waiting for the lock is not a state: a waiting handler has not begun, and looks at
the project again once it has the lock. `thread.join(30)` may give up, so it
promises nothing and is left out. A file that cannot be parsed completely is
indexed and reported; a file that is too large or binary is skipped and keeps its
old rows; a file whose rows cannot be written is rolled back alone (SAVEPOINT).

**Assumptions.** The prefetcher is off (`NOVA_UPLOAD_PREFETCH=0`). A path has one
content per batch. Writing `project.json`, saving the ledger (tmp + replace) and
`rmtree` are each one step. Vectors and SQLite rows are one `index`.
`BlobSource.read` of a missing blob raises, as `flush_sync` reads eagerly;
`blobstore.py`'s header says that such a file is reported and the ingest goes on.
The difference is unreachable, by `LedgerBlobsStored`.

**Properties.** `LedgerBlobsStored`, `PendingAgreesWithFiles`,
`IndexFollowsLedger` (what `pendingJobs = 0` tells a client: every acknowledged
path that was not skipped is in the index exactly as its blob reads, and deleted
paths are not), `NoResurrection`, `IndexerOfLiveProject`, `OneLiveRun`; the action
property `AcknowledgedWhole` (an acknowledgement covers only what the ingest has
read); and, under fairness, `PendingDrains` and `DeletionEnds`.

### 3.2 VectorStage and EmbeddingPipeline

`VectorStage` promises, whatever threads, windows and caches do the work: rows are
written in any order, in place of the ids' old rows, only for submitted chunks and
only while the stage is open; it ends well only when every submitted chunk has its
row.

`EmbeddingPipeline` is the code: `fed`/`sent` are the chunks submitted and those
put on the queue (the rest is `_pending`), `queue` holds windows and sentinels, `pc`
is the place of the ingest's thread in submit → flush_pending → graph → close or
abort. A consumer takes a window (`Get`), looks for known hashes (`Present`), reads
their rows and the cache (`Fetch`), writes the rows whose vector it has (`Move`),
pays for the others (`Embed`) and writes them (`Add`). `snapshot` and `hashes` are
`KnownVectors`, made once before the first window. `ConsumerFails` stops a window
at any of the steps that can raise, after any part of its rows; the consumer keeps
draining. `MainRaises` is a failure of the write transaction or the graph, or an
interrupt; it leads to `abort`, as does an error raised by `submit` or `close`.

**Assumptions.** Chunk ids are numbered in the order of submission and are unique
within an ingest (`chunking/splitter.py` disambiguates them; `upsert_matrix` relies
on it). The shared embedding cache may hold any hash and may lose it: `Fetch`
chooses its hits freely. `upsert_matrix` and `KnownVectors.written` are one step (a
look in between finds less and only costs an embedding, as `KnownVectors` says
itself). `embed()` returns or raises, since every provider has a time-out. A second
interrupt inside `abort()` is left out. `queue_windows` smaller than the number of
consumers minus two would leave `abort()` without room for its sentinels when all
consumers have ended; production code always uses the default, which has room.

**Properties.** `Implements` (refinement of `VectorStage`), `NoDuplicateRows` (ids
the snapshot did not have are appended without a merge), `PaidOnce` (a consumer
never sends the same content to `embed()` twice in an ingest, even if the row it
counted on is overwritten before it reads it), and under fairness `Ends`. The bound of
the queue is part of `TypeOK`. Two consumers may pay for the same content at the same time;
the code accepts that.

### 3.3 SymbolGraph and IndexStore

**State.** `SymbolGraph` is a record `d` with the tables of `index.db` (files, edges,
unresolved references, specification references) and operators on it: `ApplyFile`,
`ApplyDeletions`, the name table, `Match`, the passes of the resolver. `IndexStore` has
the two stores (`db`, `vectors`), the open transaction (`tx`), the marker and the
fingerprint, what the project's files should be (`want`) and which paths no ingest has
acknowledged (`pending`; both stand for `SyncService`'s ledger), the local variables of
an ingest and those of a search.

**Actions.** `Begin` (marker "building", the paths to read), `DeleteRows`,
`DeleteVectors`, `Collect`, `IndexFile` per file in one transaction, `Commit`,
`ResolveGraph` as its own transactions, `WriteVector` for any queued chunk at any time
until the stage is closed (this is what `VectorStage` leaves open), `Drained`,
`DeleteRemoved`, `Finalize`, `Ready`; `IndexFileFails` is the SAVEPOINT of one file;
`Fail` and `Crash` can come between any two. `SearchReads` and `SearchAnswers` are a
search beside it, which takes no lock and looks at the marker last.

**Assumptions.** Writes of the marker succeed (`index_state.py:110-125` ignores an
`OSError`). The provider may be changed at any time between ingests, also after one that
failed. The parser's configuration in the fingerprint is constant. Files change between ingests
only (the project lock). One specification block per file; provenance of edges is left
out.

**Properties.** `VectorsMatchIndex` (after an ingest that came to its end every chunk
has the vector of its content and of the stored model, whatever failed before, and no
other id has one), `GapIsReported` (a search that saw a chunk without its vector says
that it is degraded), `GraphSettled` (nothing left
unprocessed, no failed reference whose match is in an up-to-date file and plain to see,
no unmoved edge with one target), `ReferencesKept` (what refers to a file survives what is
written beside it, at any moment between two transactions: an edge is moved at most to a
name with the same last part, a specification reference leads to a symbol or is stale).
Two histories are excepted from the first two, as the code goes wrong there and nothing
shows it: `mixed` (ingests with different models have worked on the vector table since it
was last made anew, because the fingerprint does not tell of an ingest that was cut off;
`maker` is the model of the last one) and `orphaned` (an ingest was cut off before it had
deleted the vectors it was to delete). Both end when the table is made anew.
`MarkerTellsTruth` is what `index_state.py` promises without an exception, that a marker
that is ready tells of missing, old and orphaned vectors; it is violated (section 7).
Three exceptions of the graph are the code's: a match that an exact match outside the files of an import
hides (`PlainToSee`), references to overloaded names (`Overloaded`), and edges whose source
is a name of two files (`Own`); section 8 has each.

### 3.4 File preparation: TextSplit, Sections, Extraction, FilePreparation, Prefetch

A text is a sequence of the characters the splitter tells apart, a document a sequence
of lines of the kinds the Markdown parser tells apart (a title is the number of its
line), a syntax tree a sequence of nodes, parents first. `Extraction` has the walks of
the C++, C and Python extractors, the scans for calls and the names of owners;
tree-sitter is outside. `FilePreparation` puts these together as `prepare_file`: refused,
or errors, symbols, edges and chunks. One declarator stands on a declaration; a class's
bases stand on its first line; `is_exported`, provenance, signatures, docstrings and
segments are left out.

`Prefetch` is `UploadPrefetcher`: entries by project and file, their keys, the worker
process, the bytes held, expiry by age, and uploads, ingests, deletions, the death of
the worker and shutdown. A result is named by the call it is the result of. The entries
are a set: of their order the code only uses that the oldest expire first, and the worker
may take them in any order here, which allows more than its queue does. Scope
thresholds and the recursion limit (part of the key) are constant; the time of dropped
tasks is not modelled, nor the inputs of a full reparse, which carry no hash and are
prepared inline.

**Properties.** `PrefetchIsInvisible` (an ingest gets from the prefetcher exactly what
preparing the file itself would give it), `PreparedWhole` (no character of a text, no
line of a document or source is lost, chunks follow each other, ids are not used twice),
`CallsHaveOwners` (a call edge starts at a symbol of the file, in both passes of an
extractor; functions the walk does not reach and dropped overloads excepted).

### 3.5 EmbeddingClient

One embed call. A text is the widths of its characters in bytes, of which each is a
token, and what the tokenizer counts in a text cut after k tokens (`recount`, assumed
never to be more than the bytes); a vector is the position of its text. The pool sends
batches first in, first out with as many threads as there are batches up to the
concurrency; the caller collects in order; the first failure cancels what waits and
waits for what runs. The service answers rows in any order, refuses, fails or answers
nonsense. The local variant may fail to load, cuts by ids, and is serial.

**Property.** `EmbedsInOrder`: a call ends with the k-th vector made of the k-th text,
whole or cut as the configuration says, or it fails and no request is left running.
The call is not composed with `EmbeddingPipeline`; there an embed call succeeds or
fails, which is what this property says of it. Left out: decoding, headers, redaction,
`Retry-After`, prefixes, normalisation, preload.

`Indexing` puts 3.3 to 3.5 into one specification. The parts are looked at one at a time
(the variable `subject` says which): an ingest uses of a prepared file only what
`PrefetchIsInvisible` says it is, `IndexStore` is given the results, and a call of the
provider ends as `EmbedsInOrder` says.

### 3.6 ContextPack, Ranking, GapPlan, Search

`Ranking` has the five channels, reciprocal rank fusion, one step along the graph and
the score of named features (integers, 10000 to the point); what a text matches is given
with the query. `ContextPack` is `assemble`: one greedy pass over the pool, two floors,
merged and degraded items, the account of what was used and left out; a token is a
rendered line. `GapPlan` is the gap check: four rules and the turns between groups.
`Search` is `Engine.search_with_trace` as steps, with the rows of the index (`live`)
deleted or added by an ingest between any two, and the cache of query vectors with
threads that were given up and go on.

**Assumptions.** Each stage of the retrieval reads the index in one step; ids of chunks
follow path and line; `::` and `.` are one separator; a re-export's name is a CHOOSE
where the code takes any member of a set; the limit of 200 in `members_of` and the
flows' truncated mark are left out. One search at a time: only the command line calls
`set_provider`, and it asks one question after the other; searches of the service share
the cache of one model, of which `CacheOfModel` says nothing.

**Properties.** `AccountsMatch` (used and omitted are what was packed and left out),
`Budgets` (hard cap, documents, backfill, reserve, with the exceptions the floors
and the notes make; the overhead is charged whatever the cap), `NothingUnsaid` (what the question asked for and the pack
lacks is reported), `CacheOfModel` (the cache holds vectors of the model it is labelled
with, but for late answers, section 8), `EveryGapServed` (no group of gaps starves another).

### 3.7 AnswerRules and QueryService

`AnswerRules` are the pure parts: the evidence block, the text of an upstream body in
three protocols, the check of citations, the meta data of the audit, the storage
warning, the code for an exception. `QueryService` is a request as its steps on a thread
of the pool: checks, search, choice of the provider (stamp, cached provider, its key,
build, keep, sign), posts with retries, audit; and the save of a configuration as its
read and its write, the deletion, the clock in whole seconds, users whose session ends.
A REST ask chooses its provider on the event loop, so two of them never overlap there;
an MCP ask chooses on its thread. The engine's answer is a pack or an exception.

**Properties.** `AuditTellsTruth`, `AnswersGrounded` (the model is called only with
evidence; citations outside it are removed and counted, the others and the words stay as
they were), `OwnModel` (a user is answered
by the configuration in force for him, outside the overlaps that `mixed` records,
section 8), `AskDegrades` (an ask that found its evidence
ends with it), `WarningMatchesLimit` (the warning and the refusal of an upload draw one
line). Left out: prompt wording, retry delays, latencies, pruning of audit rows,
`llmprobe.py`, mounting and identity of the MCP endpoint.

### 3.8 Accounts

One step is one transaction or one read; what a handler read before stays in its request
(the user the middleware saw, the target of a patch, a free member number). A session
or key stands for its user. `owner` is the ownership row, `dirs` the directories,
`content` whose files a directory holds. Ghosts record the overlaps that the code does
not exclude: `late` (a login between the look at the ban and the session), `raced` (a
number chosen from a list that was no longer true), `yielded` (an administrator who gave
up his role, or a patch written after its issuer had lost his), `torn` (a project
resolved while it was being deleted, or a restart in the middle).

**Properties.** `InvitesSpent` (an invite is spent once per registration, member numbers
are unique), `AdminRemains` (there is an administrator), `BanEndsSessions` (a banned user
has no session), `ProjectsOwned` (a directory has one owner and holds that owner's files
alone), each except what its ghost records; section 8 says what those overlaps do.
Left out: custom keys, `set_user_quota`, the local user, password hashing, listings.

### 3.9 IgnoreRules, Checkout, ClientSync, LocalScan, Workspace

`IgnoreRules`: a path is a sequence of names, a name stands for its spellings in any
case, a segment of a pattern for the set of names it matches. Four layers decide:
built-in directories, the allowlist, `.gitignore`, `.novaignore`. `Walk` is the server's
walk, `ClientWalk` the client's; with them the look-through into ignored directories and
its budget.

`ClientSync`: a call scans the checkout in one step, uploads what the cache does not
know (a file stands for a batch), sends the deletion notice, commits the cache, asks for
a flush, waits for the ingest, searches. Several processes share the cache file without
a lock; a process runs one call at a time; requests are handled in any order and also
after their caller gave up. The server is a ledger, a pending list, an index and one
background run. `LocalScan`: `attach`, background indexers and rescans of searches with
the project lock, the manifest written after the ingest, deletion, restart.
`Workspace` chooses one of the two modes, or the comparison of the walks over many more
rule sets.

**Assumptions.** One root per project; the environment's allowlist is constant; the
`.ignore` files that the client's walker reads too are left out, and the surveyed rules
hold no `!`; the fingerprint of the rules covers the root and the first level, as in the
code; a deferred upload accepts every file; legacy fallbacks of the protocol, a second
machine and the deletion of the project on the server are left out.

**Properties.** `WalksAgree` (both walks list the same files), `ScannedIsSearched` (a
call on its own searches what its scan saw, on the paths the cache was right about),
`SearchedIsIndexed`, `RescanReadsDisk` (a manifest claims only what the index has, outside
`astray`, the paths a cut-off ingest changed), and under fairness `CallEnds`. The paths
and the moments these except are in section 8.

## 4. Runs and bounds

| run | instance | result |
|---|---|---|
| `sync_safety` | 2 paths, 2 contents (one skippable), 2 handlers, 2 workers, 3 edits, 2 faults | all safety properties hold |
| `sync_live` | 1 path, contents the parser accepts, 2 handlers, 2 workers, 3 edits, 1 fault | `PendingDrains`, `DeletionEnds` hold |
| `sync_torn`, `sync_stale`, `sync_poison`, `sync_ghost` | small instances of the same module | each finds the disagreement of section 7 |
| `index_marker` | `IndexStore` alone: 3 files, no edit, 1 change of model, 1 fault | finds the disagreement of section 7 |
| `embedding` | 7 chunks of 2 contents in 4 windows, 2 consumers, the smallest queue, 2 faults; a table before the ingest that may hold chunk 3 | refinement, safety and `Ends` hold, no deadlock |
| `indexing` | 3 files of 2 versions and one refused, 2 models, 2 edits, 1 change of model, 1 fault; a prefetcher of 2 projects of 2 paths with 3 uploads and 1 stop; 42,047 texts, sources, trees and documents; 11 configurations of the client | the index, the prefetcher, the chunks, the call owners and the embed calls are as promised |
| `service` | the accounts: 3 names, 2 codes, 1 project, 3 requests (2 at a time), 1 restart, 3 databases to start from; or the searches: 4 questions over 9 chunks, 4 budgets, 2 searches, 1 ingest, 1 change of model | the nine properties hold |
| `workspace` | 2 files, 4 rule sets, 1 edit, 1 fault; 2 client processes with 2 calls, or 2 requests and 2 workers in local mode; 516 rule sets and 12 trees for the walks | the four invariants and `CallEnds` hold |
| `query` | 3 requests of 2 users on 2 threads, 3 models, 3 packs, 5 bodies, 3 usages, 1 fault, 2 seconds | the five properties hold |

*Sync.* `MaxEdits` bounds uploads, deletion notices, queries and project deletions;
`MaxFaults` I/O errors, ingest failures and crashes; resolves and flush requests are not
bounded. Three edits and two faults are enough for the patterns the properties are
about: an upload, a second upload or notice racing it, and a deletion; a failure and a
crash in the recovery from it. Two paths tell "the batch" from "the pending set"; two
workers are a cancelled one still running and its successor.

*Embedding.* Four windows are more than the queue holds, so the producer blocks while
both consumers may fail; two-chunk windows with a tail, a repeated content and a row
that is overwritten under its reader are among them.

*Indexing.* Three files refer to each other, two define the same name, one version of a
file is refused; one edit before a fault and one after it leave every store behind once.
Two edits, one fault and one change of the model are the shortest histories with a retry
of what was half done, under the same model or another; a change there and back needs two,
and the theorems hold for any number. Texts have up to 7 characters over {x, space, NL} and up to 4 with
FF, at 2 lines and 4 characters per block, so that each separator of the splitter is
tried and fails; documents have up to 4 lines over nine kinds and up to 6 over five;
trees are chains of up to 4 nodes around a call (3 for C and for trees with errors),
followed by a function with a call, and samples per language with overrides, macros,
pointers, includes, specialisations, typedefs, decorators and imports; sources are 2
texts of 8 lines with up to 4 of 10 symbols and 4 sets of errors. Batches of the client
are formed of up to 2 of 3 texts and two longer lists, with 2 rounds for 16 in the code
and 1 retry for 2.

*Service.* Accounts and searches share no state, so `MCService` looks at them one at a time,
as `MCIndexing` does with its parts.

*Accounts.* Two requests at a time are every pair of handlers; the third lets one end and
another begin beside the second. The start databases are an empty one, one with an
administrator, and one with members up to the limit of numbers.

*Search.* The corpus has a class with members, callers, a test, a document and two files
of one name; the four caps are too small for anything, for a floor, for all evidence and
for none of it. Two states are not reached: `used` beyond the hard cap through an
aggregation note, and four or more groups of gaps. A second search is followed only
until it has its vector, and packing beside a given-up call or changed model with the
smallest cap only (CONSTRAINT `MCFollowed`), as the cache is all that two searches share.

*Workspace.* Two files, one of them below an ignored directory that the allowlist looks
through; a content the server refuses. One edit and one fault of any kind (a lost answer,
a refused or failed request, a lost cache, a failed ingest, a restart).

*Query.* One thread chooses its provider while another does, saves or asks; two seconds
are one tick between two saves. Beside another request and after the second only saves
and plain asks are followed up to their first call, nothing after `mixed`, and the time
before the first save is of no account (CONSTRAINT `MCFollowed`).

`CHECK_DEADLOCK FALSE` is said where the bounds of the model let everything come to rest:
the requests of `service` and `query`, the searches of `service`, the edits and calls of
`workspace`, the uploads and surveys of `indexing`. `SyncService` cannot stop, as a new
flush request can always arrive or a thread can go on; `EmbeddingPipeline` stutters only
when the pipeline has ended and every consumer with it, so a blocked producer or join is
a deadlock that TLC reports. Symmetry is used for interchangeable threads, models or
contents, and in no run that checks a liveness property.

## 5. Fairness

`SyncService`: weak fairness of each handler that has begun and of each worker
(operating-system threads are scheduled), and of a flush request arriving while it is
possible (the client asks for one on every tool call, and again while it polls).
Weak fairness suffices for the lock: its holder always gives it back, and the edits,
the only other contenders, are bounded. Nothing is assumed of faults, edits, queries
or resolves.

`EmbeddingPipeline`: weak fairness of the ingest's thread and of each consumer. A
thread blocked on a full or empty queue is disabled, not delayed; no fairness is
assumed of failures.

`ClientSync`: weak fairness of each call that has begun (its process runs), of the
server handling each request, and of the server's worker. Nothing is assumed of edits,
faults, new calls or messages whose caller gave up. The liveness of local mode, of
`Search` and of `QueryService` is not checked.

## 6. Proofs

Every proof module follows one pattern: `Init => IndInv`, `IndInv /\ [Next]_vars =>
IndInv'` with one lemma per part of the invariant and one step per action, and each
property from `IndInv` by PTL. Where a property is not inductive, TLC checked its
strengthening as an invariant of a run before it was proved.

`SyncServiceProofs` proves `[]` of `TypeOK` and of every safety invariant of
`sync_safety`, and `AcknowledgedWhole`, for any number of paths, handlers, workers, edits
and faults. It assumes `ConstantsAssumption` (the sentinel values are distinct, threads
and workers are disjoint, bounds are naturals). `LockInv` (a thread is inside a critical
section iff it holds the lock) makes the ledger stable while a handler or an ingest works
on it. `UnlinkInv` says that what is about to be unlinked is named by no entry, for
`LedgerBlobsStored`. `IngestInv` records how far the ingest under way has come, for
`IndexFollowsLedger`. `ProjectInv` and `AbsentInv` say who may be inside while the
project is absent or being deleted, for `NoResurrection` and `IndexerOfLiveProject`.
`LiveInv` says that only the registered indexer runs uncancelled, for `OneLiveRun`.

`EmbeddingPipelineProofs` proves `TypeOK`, `NoDuplicateRows`, `PaidOnce` and
`Spec => Implements`, for any number of chunks, consumers and faults, any window and
any queue. It assumes `PipelineAssumption` (windows are not empty, there is at least one
consumer and finitely many). `PhaseInv` ties what has been sent and who has ended to the
place of the producer. `QueueInv` is first-in first-out: behind a sentinel, and once a
consumer has taken one, there are no windows. `HandInv` says who may hold chunks.
`NothingLost` says that without an error every chunk sent is on the queue, in a consumer's
hands or in the table. At the end of `close()` every consumer is dead, so the queue holds
only sentinels, nobody holds chunks, and every chunk is in the table: the step is
`Stage!Finish`. Writes come from consumers that are not dead, so the stage is still
open. `RowsInv` (rows of new ids are this ingest's rows) makes an append without a
merge harmless. `PaidInv` says that a consumer that paid for a hash has a row that
keeps it (a row that is up to date is never replaced by another hash), finds it again,
or has failed.

`AccountsProofs` proves `TypeOK`, `InvitesSpent`, `AdminRemains`, `BanEndsSessions` and
`ProjectsOwned` for any accounts, codes, projects and requests in flight. It assumes
`AccountsAssumption` and `StartAssumption` (the databases to start from are `Sound`).
`RequestInv` says what a request between two of its transactions may hold, and what it
has read about numbers and its target; `UserInv` that only members have numbers and only
accounts are among an invite's uses, so that the count of an invite grows by exactly the
account made with it. `WriterInv` (who writes holds the project's lock, the directory is
there and the project is his) and `ProjectInv` (an owner without a directory is about to
be removed, a directory without an owner is about to be claimed and empty) carry
`ProjectsOwned` through a deletion and a resolution of the same project.

`IndexingProofs` is about `IndexStore` and about the prefetcher. It begins with the lemmas about the tables: what `ApplyFile`, `ApplyDeletions` and
each pass of the resolver return and keep, when `Match` finds something, and that a
reference that could be matched by a file of this ingest is among those tried again
(`RetriedIfCould`). They assume `SymbolGraphAssumption` (finitely many files, the last part
of a last part is itself), `ParsedAssumption` (what a parser finds are rows, finitely many
symbols) and `ChunkIdAssumption` (an id names its file, and its chunk within a version:
`splitter.py: chunk_id`, `_disambiguate_ids`; `PreparedWhole` checks it of the splitter).
They assume nothing of what a parser finds, nor of the order of files.

Of `IndexStore` it proves `TypeOK`, `VectorsMatchIndex`, `GapIsReported`, `GraphSettled` and
`ReferencesKept` for any files, versions, names, edits, faults and changes of the model at any
time between ingests. Its invariant has two halves. `TableInv` says where an ingest is
(`PlaceInv`: its objects are empty before and after, the open transaction differs from the
database by exactly the files written, what is not acknowledged was pending), what the mode
says of the fingerprint (`ModeInv`: before the first ingest has ended every file there should
be is pending, so a first ingest without a rebuild has written all that is there), what
is queued and what is to be deleted (`QueueInv`, `RemovedInv`, `TightInv`), and how far the
passes have come (`RefInv`: no failed reference could be matched in a file that was
acknowledged and is as it should be; it is why acknowledging an ingest's files needs the
retry of what they could match). `RowInv` adds whose model the rows are of (`ProviderInv`: from the opening of the table to the
end of an ingest `maker` is the provider, what is stored when the marker says ready is
`maker`, and outside `mixed` every row is by `maker`) and which chunks have one (`CoverInv`:
outside `mixed`, those of up-to-date files as long as the marker says ready or `maker` is the
stored model; those written by this ingest, or on the queue; after a rebuild those of every
file). `TightInv` says which ids may be left over: none but those to be deleted, outside
`orphaned`. The ghosts are what makes this inductive: without `mixed` an ingest under the
stored model would have to know that an earlier one, cut off under another model, had left
its rows whole, and it has not. A row that is replaced is the row of the same chunk, since
ids are unique within the tables, and the ids deleted at the end are not those of a chunk
in use.

`QueryServiceProofs` proves `TypeOK` and all five properties, `OwnModel`, `AskDegrades`,
`AnswersGrounded`, `AuditTellsTruth` and `WarningMatchesLimit`, for any users, threads, models,
packs, upstream bodies and retries. It assumes `AnswerAssumption` (a kept answer has at least
one line, the ratio is a percentage) and `QueryAssumption`: overrides, limits and usages are
numbers, the local user is one of the users, bounds are naturals, the evidence of a pack is of
the types and in the lists `assembly.py` puts it in (a specification in the documents, code
and tests in the code, ids with an `E`, flows with an `F`), a line of a body is `thinking` if its
block is and a blank line cites nothing. What the lines say and cite is not restricted.
`Requests` says what the label of a request needs (before a post it has no posts, where it
chooses its model it has not failed) and that an ask that ended has its evidence. `StampInv`
says that a saved configuration carries a time it was saved at. `ProviderInv` says that, while
nothing is mixed, at most one request chooses a provider, what it has read is still true,
and the cached provider is the one its key is about, except between keeping a provider and
signing it. That part must say it also of a key whose configuration was deleted or replaced:
the cache keeps it, and it is harmless because no later save has the same time. With it a
provider that is called is the one due. `LimitIsOne` is arithmetic on the two places that
compare with the limit.

`Telling` is what the two theorems about answers need: only a finished request has a verdict;
an answer is one that was checked against the pack of its request and not empty, and a
request without that verdict has none; a verdict about evidence goes with code 200; who may
call the model has an answerable pack; the project is recorded only when it was found; and
the row, unless it was lost, is that of the request as it is. `Checked` says what
`verify_citations` does to any draft, by induction over its lines: a text is what its lines
cite and what they say, one after the other (`Each`), stripping keeps what is allowed of each
line (`StripKeeps`), trimming takes only lines that are silent (`TrimKeeps`), and the note is one
more silent line under a heading that is there or added with it, wherever it goes
(`NoteAppended`, `NotedKeeps`). That the prompt shows exactly the ids the check admits
(`PromptShowsAllowed`) rests on the groups of the code section being all of the code, that
the audit names them (`MetaNamesEvidence`) on sorting losing none.

`WorkspaceProofs` proves `ScannedIsSearched`, `SearchedIsIndexed` and `RescanReadsDisk` for
any paths, contents, rules, client processes, handlers, indexers, edits and faults. It
assumes `ClientConstants`, `LocalConstants` and `CheckoutConstants` (sentinel values are
distinct, handlers and indexers are disjoint sets of numbers, bounds are naturals). On the
client's side `NetInv` says which requests a call may have on their way (uploads while it
uploads, then one notice), `ServerInv` that what is not pending has been ingested or
skipped, and `SeenInv` that what the server recorded for a call stays pending until an ingest
covers it, which is `SearchedIsIndexed`. `AloneInv` is about a call no other overlaps: what
it knows of is in the ledger, on its way or about to be sent (`Arrives`), and the cache and
its entries have come as far as its label says (`EntriesOK`); once it searches nothing is on
its way and nothing is pending, so ledger, index and cache are what it scanned. In local mode
`LockInv` says that who works on the index holds the lock, `ManifestInv` that the manifest is
right outside `astray` about the rows, or about those there were when the scan under way
began, and `ScanInv` how far that scan has come. `astray` must outlive an ingest that is
cut off after it stored a path: it forgets the path only when a manifest is written, as the
next scan may be cut off too and the file deleted before the one after.

`ListLemmas` holds what the proofs about packs say of lists. The library states induction
with an operator as a parameter, which no prover here can instantiate; `Induction` states it
with the set of the numbers for which a claim holds, and `Recursion` says that a function
defined by `f[0]` and a step exists and satisfies its definition, for a step given as a
function on a set it stays in. From them follow what `Total` is of a list that is extended
or changed in one place (`TotalAppend`, `TotalReplace`), that `SortedBy` is the list in order
(`SortedByKeys`, from an injection of positions into themselves) and what a flattened list
is made of (`FlattenHolds`). Flattening the join of two lists joins what they flatten to
(`FlattenConcat`), hence a list made of what each element comes to can be taken apart and put
together anywhere (`EachConcat`), and so can a selection (`OnlyConcat`, `OnlyFlattens`).

`SearchProofs` proves `AccountsMatch`, `Budgets`, the half `LinesTold` of `NothingUnsaid`, and
`CacheOfModel`, for any corpus, questions, budgets, caps, rounds, ingests, late answers and
expiries. It assumes `ContextPackAssumption` (chunks are numbers and begin no later than
they end, budgets are numbers), `RankingAssumption` and `SearchAssumption` (the cache may
hold at least one entry, a cap is positive as the engine checks, files hold chunks).

* `PackInv` is about the items. Their segments are in order and apart (`Apart`), show the
  first line of every chunk the item stands for, and no chunk ends behind `upper`. A merge
  keeps this because the pieces that `UncoveredPieces` leaves are outside all segments and
  of them and the segments together `Coalesce` of the sorted list makes the same lines
  (`UncoveredLines`, `CoalesceLines`). `Sums` says that each running sum is the sum over the
  items. An item is merged only with one of its file and type, so that its change counts for
  the same file, and for the documents or not at all. The block held back is in it as it was
  built with this round's signals.
* `BudgetInv` is about the sums. An item that takes another in grows by no more than the
  other would cost alone: a line shown twice is charged once, and the note of the merge and the
  mark of a gap cost no more than the header and path it would have had. Hence what was checked before a candidate was taken bounds what
  was charged. The documents may exceed their share by the block held back, and only once it
  is placed (`FloorUsed`): without that clause a document taken afterwards could use what the
  block has been granted. A further chunk of a symbol adds one line that no budget is asked
  for, at most one for each item (`NotesCounted`); it is the exception of the bounds.

The proof corrected the model in one place: the block held back was built before the signals
of the round had been collected, and `_build_slot` is called after. It also corrected the
bound: `used` starts with the overhead, so a cap below it does not hold; that is what the
bound now says (`max(cap, overhead)`).

`CacheInv` says more than `CacheOfModel`: every entry is filed under the model the cache is
bound to *now*, since binding another one empties it, and the cache stays within its size
and holds one vector for a question. `SearchInv` gives the reason a vector belongs there: a
search that is still embedding does so with the bound model, however often the user's model
has changed since. An answer to a search that gave up has no such guarantee, and the
property excepts it.

`IndexingProofs` also proves `PrefetchIsInvisible` of `PrefetchSpec` (the prefetcher beside any
uploads, ingests and deletions; `Indexing` runs it with nothing else moving), for any
projects, files, sizes and limit. It assumes `PrefetchConstants` (sizes are numbers, a
batch is a sequence of files). `StoreInv` says that an entry is the result of the call its
key names, that no two have one key, and that the counter is what they add up to. The sum
is the number of pairs of a key and a byte (`BytesOf`), so that it follows from the
theorems about finite sets: what is dropped or added shares no key with what stays
(`SizesAdd`). `IngestInv` says that a project whose ingest does not run has used nothing,
which is why an upload or a deletion may change its mirror.

Left to TLC, and why:

* liveness: `PendingDrains`, `DeletionEnds`, `Ends`, `CallEnds`;
* what rests on recursion over data: `PreparedWhole` (the splitter's recursion over its
  separators), `CallsHaveOwners` (over syntax trees), `WalksAgree` (over directories);
* `EmbedsInOrder` and `EveryGapServed`: batches, turns and groups are made by folds and
  selections over sequences, which the provers do not compute;
* the other half of `NothingUnsaid`, `CandidatesTold`: it is about the pool, which comes
  out of the five channels, their fusion and a sort with a comparison.

## 7. Findings

Each is a run that must find its property violated; `PROJECT.json` quotes the lines.

* `sync_torn`: `BlobStore.put` writes in place and keeps an existing file. A write cut
  short and a repeated upload leave a truncated blob that no later upload repairs.
* `sync_stale`: a failed worker gives the project lock back before its thread ends. A
  synchronous upload that succeeds in between keeps the failed indexer, and the status
  goes on reporting the old failure.
* `sync_poison`: a syntax error counts as an ingest error, so one such file keeps the
  whole pending set unacknowledged for ever.
* `index_marker`: vectors are written while the files' transaction is open, and the marker
  counts as expected what the ingest finds when it ends. A first ingest that is cut off
  leaves vectors and no files; the next one, after a restart with another model of the same
  dimension, takes their hashes for its own, and the marker is ready over vectors of the old
  model. The same property fails with a model changed there and back around a re-embedding
  that was cut off (missing vectors that searches do not tell of) and with one edit and an
  ingest cut off between its commit and its deletion of vectors (orphans that are counted as
  expected from then on).
* `sync_ghost`: a status request or search that looked the project up before its
  deletion makes the project's directory and `index.db` again.

## 8. Disagreements seen without a run of their own

Met while modelling; the models do what the code does. Where a property makes an
exception, it is because of one of these.

Client and walks
* The deletion notice is computed from the cache alone. Also when the cache was lost or
  damaged, when a path fell out of it, when an earlier call failed after its uploads or
  calls overlap, the server keeps old files and search returns them. Nested ignore files
  below the first level do not void the cache.
* Changed ignore rules make the cache void, so nothing is reported deleted and the index
  keeps the files that are ignored now, though `client/src/ignore.rs:472` says that a void
  cache costs time only.
* The walks differ outside the surveyed rules: Rust's look-through counts every ancestor
  and needs an allowlisted child at each level; a nested `a/b/.claude/skills` is found by
  the core only; files named like built-in directories are pruned by Rust only; `!`
  patterns are treated differently. `NOVA_ALLOWLIST_DEPTH` has no effect in the core, and
  the scope "gitignored" never descends although the docs say it does.

Local mode
* A scan that waits for the lock of a deletion (`rescan_if_due`, `start_index`) makes the
  directory again, with rows in it, against the docstring at `runtime.py:243-244`.
* After an ingest that failed or crashed before the manifest was written, reverting the
  file leaves its rows for good; a lost manifest leaves the rows of deleted files; a file
  that could not be stored is recorded and never tried again; an unreadable file counts as
  deleted.

Index
* Edges of a file's module are not deleted with it; edges are found by names that are
  relative to a file, so re-indexing one file deletes those of another file's symbol of the
  same name. A refused file keeps its old rows. A search never checks the fingerprint.
* Specification references to one of several symbols of a name are neither moved nor marked
  when its lines change (`store.py:1111-1159` moves single ones only), and no later change
  finds them: they lead nowhere and are not stale, against `schema.sql:96`.
* An import whose name is defined exactly in a file outside its hints does not see a match
  by the last part inside them, as the exact matches are filtered after they were chosen
  (`resolver.py:325-346`). When that file is deleted the match is there, and nothing tries
  the failed reference again: `retry_failed` looks at names of files that were written.

Parsing and preparation
* `extern "C" { … }` yields no symbols; pointer, reference and array fields become
  methods; `size = n` anywhere in a file turns every `x.size()` into an edge to `n`
  (against `c.py`'s "宁多勿漏"); calls in constructor initialisers and default arguments are
  not scanned; methods of local classes and friends are sources without a symbol; a dropped
  overload takes its sibling's edges along; Python functions under `if` and `try` are no
  symbols; `__import__("x")` gives a calls edge although the docstring says it is left
  unresolved.
* Lines of a class after its first member that belong to no member are in no chunk.
  `splitlines()` ends lines at more characters than tree-sitter does, so the chunks after a
  form feed are shifted. `_clamp` does not skip a start beyond the end, as its docstring
  says. `_expire` runs only in `submit`, so an idle server keeps prepared files, against
  `prepare.py:73`.
* The local embedding model does not clamp `max_input_tokens`, though `base.py:9` says
  overlong input never fails; a row index the service repeats is not detected.

Retrieval
* The code floor uses `active.hard_cap`, its comment says `_hard_limit()`; the second
  assembly's reserve does squeeze the first round's evidence, though its comment says it
  does not; flows and aggregation notes can exceed the hard cap; a merged degraded slot
  loses its elision note; nested symbols are never among `callees_of`; a second merge
  considers the first slot only; `no_context_match` can never fire and
  `_with_query_coverage` is never called.
* An answer that comes after its search gave up is filed under the model the cache is bound
  to by then, against `vector.py:61-64`. Today only the command line calls `set_provider`.

Query handlers
* A provider and its key are stored and read in two steps each, so when two users choose
  theirs at once an ask can call another user's model with that user's key, against the
  docstring of `provider_for_request` (`llmconfig.py:223`).
* Two saves within one second keep the old model. A failed read of
  the stamp caches the user's provider for "no configuration", against its docstring.
* An address the client cannot parse, or a key it cannot put in a header, ends an ask with
  500 though "ask 绝不 500"; a degraded answer counts as succeeded in the usage; a key-less
  save beside a deletion revives the old key; two projects of one user can pass his limit
  together; in local mode a configuration cannot be saved though a docstring allows it.

Accounts
* An administrator can take his own role, and two can unseat each other with patches that
  overlap. A patch chooses a member number from a list that a registration may make untrue,
  so that two members have one number. `promote_first_admin` does not lift a ban.
* `bootstrap` counts the users and makes the first in two transactions, so two calls at
  once can make two first administrators, against `routers/auth.py:428-431`.
* A login beside a ban leaves a session that works when the ban is lifted, against
  `metadb.py:1162`.
* A resolution beside a deletion leaves a row without a directory or a directory without an
  owner, against `metadb.py:1229`.

Synchronisation
* `blobstore.py`'s header says that an unreadable blob is reported and the ingest goes on;
  `BlobSource.read` raises. `LedgerBlobsStored` makes it unreachable.

## 9. Not modelled

* Whole components: CLI, evaluation tools, benches, the web interface, the npm launcher
  and packaging. They are front ends and tools without state of their own.
* Inside the modelled components: checkpoints, branch and commit in the ledger; run
  statistics, index counters, the request log; schema migration, the FTS rows, compaction
  of the vector table; the parsing of the question and the text match; wire formats,
  decoding and redaction; MCP mounting, HTTP middleware, configuration; wording of prompts
  and markdown. `PROJECT.json` says per component what is left out.
* Four hazards have no property: the `rmtree` and `project.json` that are not atomic (H11;
  each is one step here), the deletion beside a local scan and the bootstrap in two
  transactions (H12, H16; the models reach both, and the code goes wrong there), and a
  refused file that keeps its old rows (H15; the code's comments describe it, and three
  properties except it). Of H17, H18, H24, H27, H28, H30 and H34 the properties except the
  part where the code itself goes wrong, so they say that nothing else goes wrong there;
  their notes and section 8 say which part.
