------------------------------ MODULE SyncService ------------------------------
(***************************************************************************)
(* The server half of deferred sync for ONE project of nova_service: the   *)
(* sync ledger (sync_state.py), the blob mirror (blobstore.py), the /api/  *)
(* sync handlers (routers/sync.py), the per-project lock, flush_sync,      *)
(* start_sync and delete_project (runtime.py) and the background worker    *)
(* (indexer.py).  Request handlers run on the server's thread pool, one    *)
(* worker thread per ProjectIndexer; the project lock serialises blob,     *)
(* ledger and index mutations, _locks_guard makes start_sync atomic.       *)
(*                                                                         *)
(* A file's content is a model value; blob_hash covers the path, so a blob *)
(* is the pair <<path, content>>.  The prefetcher is off                   *)
(* (NOVA_UPLOAD_PREFETCH=0), and Engine.apply_changes is the three steps   *)
(* that a failure can separate: deletions, one write transaction, vectors. *)
(***************************************************************************)
EXTENDS Naturals, FiniteSets

CONSTANTS
    Path,       \* repository paths
    Content,    \* contents a path can be uploaded with
    Broken,     \* contents (and perhaps Damaged) the parser reports errors for
    Skippable,  \* contents prepare_file refuses: too large, binary
    Request,    \* handler threads
    Worker,     \* ProjectIndexer objects, each with its thread
    NoFile,     \* a path that has no entry
    Damaged,    \* what is read from a blob whose write was cut short
    Nobody,     \* no lock holder, no registered indexer
    MaxEdits,   \* bound on uploads, deletion notices, queries and project deletions
    MaxFaults   \* bound on failures: I/O errors, ingest failures, crashes

ASSUME ConstantsAssumption ==
    /\ Broken \subseteq Content \cup {Damaged}
    /\ Skippable \subseteq Content
    /\ NoFile \notin Content \cup {Damaged}
    /\ Damaged \notin Content
    /\ Nobody \notin Request \cup Worker
    /\ Request \cap Worker = {}
    /\ MaxEdits \in Nat /\ MaxFaults \in Nat

Thread == Request \cup Worker
Blob == Path \X Content

VARIABLES
    project,        \* project.json exists
    database,       \* index.db exists
    deleting,       \* the project is in EngineManager._deleting
    files,          \* ledger "files": path -> content, NoFile when absent
    pendingFiles,   \* ledger "pendingFiles" (the added/modified kind only counts)
    pendingDeleted, \* ledger "pendingDeleted"
    skippedFiles,   \* ledger "skippedFiles"
    stored,         \* blobs that have a file in the mirror
    torn,           \* those of them whose bytes are incomplete
    index,          \* what the search index holds for each path
    lock,           \* holder of the project lock
    pc,             \* where each thread is
    batch,          \* the blobs an upload stores or a deletion notice unlinks
    deferred,       \* the request's deferIndexing
    report,         \* IngestReport.errors of the thread's ingest is not empty
    current,        \* EngineManager._indexers[project]
    progress,       \* IndexProgress.state of each indexer
    failure,        \* IndexProgress.error of each indexer is set
    cancelled,      \* the indexer's _cancelled event
    edits, faults   \* what is left of the two bounds

ledger == <<files, pendingFiles, pendingDeleted, skippedFiles>>
mirror == <<stored, torn>>
indexers == <<current, progress, failure, cancelled>>
bounds == <<edits, faults>>
vars == <<project, database, deleting, ledger, mirror, index, lock, pc, batch,
          deferred, report, indexers, bounds>>

--------------------------------------------------------------------------------
(* The ledger and the mirror, as the handlers read them.                   *)

\* SyncState.pending.
Pending == pendingFiles \cup pendingDeleted # {}

\* Mutant: put takes any blob of the path for the one it is asked to store.
StoredAfterPutByPath(items) == stored \cup {b \in items : files[b[1]] = NoFile}

\* A blob put never overwrites: an existing file, whole or torn, is kept.
StoredAfterPut(items) == stored \cup items

\* BlobSource.read: the bytes behind the ledger entry of p.
Read(p) == IF <<p, files[p]>> \in torn THEN Damaged ELSE files[p]

\* The pending blobs flush_sync cannot read (FileNotFoundError).
Unreadable == {p \in pendingFiles : <<p, files[p]>> \notin stored}

Skips(p) == Read(p) \in Skippable

\* One decoded batch: some paths, each with one content.
Batches == {items \in SUBSET Blob :
              /\ items # {}
              /\ \A a, b \in items : a[1] = b[1] => a = b}

PathsOf(items) == {b[1] : b \in items}

\* Mutant: the project is not looked up again once the lock is held.
ProjectUnchecked == TRUE

\* require_project_id.
ProjectExists == project

\* What may be on disk when thread t stops in the middle of its blob writes:
\* any of the batch, and one more blob of it cut short.
Interrupted(t) ==
    CASE pc[t] = "put" ->
           {<<stored \cup done \cup cut, torn \cup cut>> :
              done \in SUBSET batch[t],
              cut \in {c \in SUBSET (batch[t] \ stored) : Cardinality(c) <= 1}}
      [] pc[t] = "unlink" -> {<<stored \ gone, torn \ gone>> : gone \in SUBSET batch[t]}
      [] OTHER -> {<<stored, torn>>}

--------------------------------------------------------------------------------
Init ==
    /\ project = FALSE /\ database = FALSE /\ deleting = FALSE
    /\ files = [p \in Path |-> NoFile]
    /\ pendingFiles = {} /\ pendingDeleted = {} /\ skippedFiles = {}
    /\ stored = {} /\ torn = {}
    /\ index = [p \in Path |-> NoFile]
    /\ lock = Nobody
    /\ pc = [t \in Thread |-> IF t \in Request THEN "idle" ELSE "dead"]
    /\ batch = [r \in Request |-> {}]
    /\ deferred = [r \in Request |-> FALSE]
    /\ report = [t \in Thread |-> FALSE]
    /\ current = Nobody
    /\ progress = [w \in Worker |-> "idle"]
    /\ failure = [w \in Worker |-> FALSE]
    /\ cancelled = [w \in Worker |-> FALSE]
    /\ edits = MaxEdits /\ faults = MaxFaults

Goto(t, label) == pc' = [pc EXCEPT ![t] = label]

Edit == edits > 0 /\ edits' = edits - 1 /\ UNCHANGED faults
Fault == faults > 0 /\ faults' = faults - 1 /\ UNCHANGED edits

\* Thread t leaves its `with lock` block; a worker goes on outside it.
Leave(t, label) == lock' = Nobody /\ Goto(t, label)

\* The handler's thread returns to the pool.
Return(r) ==
    /\ Leave(r, "idle")
    /\ batch' = [batch EXCEPT ![r] = {}]
    /\ deferred' = [deferred EXCEPT ![r] = FALSE]

--------------------------------------------------------------------------------
(* POST /api/projects/resolve.  Neither the lock nor _deleting is looked   *)
(* at.                                                                     *)
Resolve(r) ==
    /\ pc[r] = "idle" /\ ~project
    /\ project' = TRUE
    /\ UNCHANGED <<database, deleting, ledger, mirror, index, lock, pc, batch,
                   deferred, report, indexers, bounds>>

--------------------------------------------------------------------------------
(* A status request or a search: the project is looked up, then its store  *)
(* is opened.  Store.open makes the directory and index.db when they are   *)
(* missing, and no lock is taken.                                          *)
QueryBegin(r) ==
    /\ pc[r] = "idle" /\ ProjectExists /\ Edit
    /\ Goto(r, "query")
    /\ UNCHANGED <<project, database, deleting, ledger, mirror, index, lock, batch, deferred,
                   report, indexers>>

QueryOpen(r) ==
    /\ pc[r] = "query"
    /\ database' = TRUE
    /\ Goto(r, "idle")
    /\ UNCHANGED <<project, deleting, ledger, mirror, index, lock, batch, deferred, report,
                   indexers, bounds>>

--------------------------------------------------------------------------------
(* POST /api/sync/batch-upload.                                            *)

\* Take the lock and look again: the project may have gone while waiting.
UploadBegin(r, items, dfr) ==
    /\ pc[r] = "idle" /\ lock = Nobody /\ ProjectExists /\ Edit
    /\ lock' = r
    /\ Goto(r, "put")
    /\ batch' = [batch EXCEPT ![r] = items]
    /\ deferred' = [deferred EXCEPT ![r] = dfr]
    /\ UNCHANGED <<project, database, deleting, ledger, mirror, index, report, indexers>>

\* Mutant: the batch replaces what was pending instead of joining it.
QueueOnlyFiles(paths) ==
    /\ pendingFiles' = paths
    /\ pendingDeleted' = pendingDeleted \ paths
    /\ skippedFiles' = skippedFiles \ paths

\* queue_file: the path is to be indexed, and neither deleted nor skipped.
QueueFiles(paths) ==
    /\ pendingFiles' = pendingFiles \cup paths
    /\ pendingDeleted' = pendingDeleted \ paths
    /\ skippedFiles' = skippedFiles \ paths

\* Every blob is in the mirror: record_file, queue_file, save, then the
\* in-request flush unless it is deferred.
UploadSave(r) ==
    /\ pc[r] = "put"
    /\ stored' = StoredAfterPut(batch[r]) /\ UNCHANGED torn
    /\ files' = [p \in Path |-> IF \E c \in Content : <<p, c>> \in batch[r]
                                THEN CHOOSE c \in Content : <<p, c>> \in batch[r]
                                ELSE files[p]]
    /\ QueueFiles(PathsOf(batch[r]))
    /\ IF deferred[r]
       THEN Return(r)
       ELSE Goto(r, "flush") /\ UNCHANGED <<lock, batch, deferred>>
    /\ UNCHANGED <<project, database, deleting, index, report, indexers, bounds>>

\* An I/O error among the blob writes or unlinks: HTTP 500, nothing is saved.
BlobIOFails(r) ==
    /\ pc[r] \in {"put", "unlink"} /\ Fault
    /\ \E left \in Interrupted(r) : stored' = left[1] /\ torn' = left[2]
    /\ Return(r)
    /\ UNCHANGED <<project, database, deleting, ledger, index, report, indexers>>

--------------------------------------------------------------------------------
(* POST /api/sync/deletions.                                               *)

\* Mutant: a deleted path stays queued for indexing.
QueueDeletionsOnly(paths) ==
    /\ pendingDeleted' = pendingDeleted \cup paths
    /\ skippedFiles' = skippedFiles \ paths
    /\ UNCHANGED pendingFiles

\* queue_deletions.
QueueDeletions(paths) ==
    /\ pendingFiles' = pendingFiles \ paths
    /\ pendingDeleted' = pendingDeleted \cup paths
    /\ skippedFiles' = skippedFiles \ paths

\* remove_paths, queue_deletions and save; unknown paths change nothing.  Every
\* blob covers its path, so those of the deleted paths are unreferenced now.
DeletionsSave(r, paths, dfr) ==
    LET deleted == {p \in paths : files[p] # NoFile} IN
    /\ pc[r] = "idle" /\ lock = Nobody /\ ProjectExists /\ Edit
    /\ lock' = r
    /\ Goto(r, "unlink")
    /\ batch' = [batch EXCEPT ![r] = {<<p, files[p]>> : p \in deleted}]
    /\ deferred' = [deferred EXCEPT ![r] = dfr]
    /\ files' = [p \in Path |-> IF p \in deleted THEN NoFile ELSE files[p]]
    /\ QueueDeletions(deleted)
    /\ UNCHANGED <<project, database, deleting, mirror, index, report, indexers>>

DeletionsUnlink(r) ==
    /\ pc[r] = "unlink"
    /\ stored' = stored \ batch[r] /\ torn' = torn \ batch[r]
    /\ IF deferred[r] \/ ~Pending
       THEN Return(r)
       ELSE Goto(r, "flush") /\ UNCHANGED <<lock, batch, deferred>>
    /\ UNCHANGED <<project, database, deleting, ledger, index, report, indexers, bounds>>

--------------------------------------------------------------------------------
(* flush_sync, run by the lock's holder: a handler or the worker.          *)

InFlush == {"flush", "write", "ack"}

\* The ingest raised.  A handler answers 500; a worker records the failure
\* (ProjectIndexer._fail) before it gives the lock back.
Raise(t) ==
    IF t \in Request
    THEN Return(t) /\ UNCHANGED indexers
    ELSE /\ Leave(t, "exit")
         /\ progress' = [progress EXCEPT ![t] = "failed"]
         /\ failure' = [failure EXCEPT ![t] = TRUE]
         /\ UNCHANGED <<current, cancelled, batch, deferred>>

\* flush_sync returned its report.
FlushReturns(t) ==
    IF t \in Request
    THEN Return(t)
    ELSE Leave(t, "finish") /\ UNCHANGED <<batch, deferred>>

\* Nothing pending: an empty report.
FlushNothing(t) ==
    /\ pc[t] = "flush" /\ ~Pending
    /\ report' = [report EXCEPT ![t] = FALSE]
    /\ FlushReturns(t)
    /\ UNCHANGED <<project, database, deleting, ledger, mirror, index, indexers, bounds>>

\* Read every pending blob, open the index, commit the deletions.
FlushDeletes(t) ==
    /\ pc[t] = "flush" /\ Pending
    /\ IF Unreadable # {}
       THEN Raise(t) /\ UNCHANGED <<database, index>>
       ELSE /\ database' = TRUE
            /\ index' = [p \in Path |-> IF p \in pendingDeleted THEN NoFile ELSE index[p]]
            /\ Goto(t, "write")
            /\ UNCHANGED <<lock, batch, deferred, indexers>>
    /\ UNCHANGED <<project, deleting, ledger, mirror, report, bounds>>

\* One write transaction for the pending files.  A skipped file keeps the rows
\* it had; a file with parse errors is indexed and reported; a file whose rows
\* cannot be written is rolled back alone (SAVEPOINT) and reported.
IngestWrite(t) ==
    /\ pc[t] = "write"
    /\ \E failed \in SUBSET {p \in pendingFiles : ~Skips(p)} :
         /\ IF failed = {} THEN UNCHANGED bounds ELSE Fault
         /\ index' = [p \in Path |-> IF p \in pendingFiles \ failed /\ ~Skips(p)
                                     THEN Read(p) ELSE index[p]]
         /\ report' = [report EXCEPT ![t] =
              failed # {} \/ \E p \in pendingFiles : Read(p) \in Broken]
    /\ Goto(t, "ack")
    /\ UNCHANGED <<project, database, deleting, ledger, mirror, lock, batch, deferred,
                   indexers>>

\* The provider, the store or the vector table fails: before the deletions are
\* committed, after that, in the write transaction (rolled back) or after its
\* commit, when the vectors or the ledger are to be written.
IngestRaises(t) ==
    /\ pc[t] \in InFlush /\ Pending /\ Fault
    /\ database' \in {database, TRUE}
    /\ Raise(t)
    /\ UNCHANGED <<project, deleting, ledger, mirror, index, report>>

\* complete_pending: all that was pending is acknowledged.
CompletePending ==
    /\ skippedFiles' = skippedFiles \cup {p \in pendingFiles : Skips(p)}
    /\ pendingFiles' = {} /\ pendingDeleted' = {}
    /\ UNCHANGED files

Running(w) == pc[w] # "dead"

\* A registered indexer whose run is over and left an error is forgotten.
ForgetFailedIndexer ==
    current' = IF current # Nobody /\ ~Running(current) /\ failure[current]
               THEN Nobody ELSE current

\* Mutant: the report's errors are not looked at.
AcknowledgeAlways(t) == CompletePending /\ ForgetFailedIndexer

\* Acknowledge only a report without errors.
Acknowledge(t) ==
    IF report[t] THEN UNCHANGED <<ledger, current>>
                 ELSE CompletePending /\ ForgetFailedIndexer

FlushAcknowledge(t) ==
    /\ pc[t] = "ack"
    /\ Acknowledge(t)
    /\ FlushReturns(t)
    /\ UNCHANGED <<project, database, deleting, mirror, index, report, progress, failure,
                   cancelled, bounds>>

--------------------------------------------------------------------------------
(* POST /api/sync/flush: start_sync.                                       *)

\* _initialize_project: at once when index.db is there, else under the lock,
\* with the project looked up again.
InitializeProject(r) ==
    /\ pc[r] = "idle" /\ ProjectExists
    /\ database \/ (lock = Nobody /\ ~deleting)
    /\ database' = TRUE
    /\ Goto(r, "start")
    /\ UNCHANGED <<project, deleting, ledger, mirror, index, lock, batch, deferred, report,
                   indexers, bounds>>

\* Mutants: the progress is asked instead of the thread; any registered indexer
\* counts as running.
BusyByProgress == current # Nobody /\ progress[current] = "running"
BusyOnceRegistered == current # Nobody

\* A live indexer is joined, never doubled.
Busy == current # Nobody /\ Running(current)

\* Mutant: the mark of a deletion under way is not looked at.
MayStartUnmarked == project

\* Under _locks_guard: the project is there and nobody is deleting it.
MayStart == project /\ ~deleting

\* 404, the running worker's progress, or nothing to do.
StartSyncReturns(r) ==
    /\ pc[r] = "start"
    /\ ~MayStart \/ Busy \/ ~Pending
    /\ Goto(r, "idle")
    /\ UNCHANGED <<project, database, deleting, ledger, mirror, index, lock, batch, deferred,
                   report, indexers, bounds>>

\* A new ProjectIndexer replaces the old one and its thread starts.
StartSync(r) ==
    /\ pc[r] = "start"
    /\ MayStart /\ ~Busy /\ Pending
    /\ \E w \in Worker :
         /\ pc[w] = "dead" /\ w # current
         /\ current' = w
         /\ pc' = [pc EXCEPT ![r] = "idle", ![w] = "count"]
         /\ progress' = [progress EXCEPT ![w] = "running"]
         /\ failure' = [failure EXCEPT ![w] = FALSE]
         /\ cancelled' = [cancelled EXCEPT ![w] = FALSE]
    /\ UNCHANGED <<project, database, deleting, ledger, mirror, index, lock, batch, deferred,
                   report, bounds>>

--------------------------------------------------------------------------------
(* ProjectIndexer._run.                                                    *)

\* _reset_to_idle, or the given outcome when the run was not cancelled.
Outcome(w, state, err) ==
    /\ progress' = [progress EXCEPT ![w] = IF cancelled[w] THEN "idle" ELSE state]
    /\ failure' = [failure EXCEPT ![w] = ~cancelled[w] /\ err]
    /\ UNCHANGED <<current, cancelled>>

\* First look at _cancelled; then the pending files are counted.
WorkerCount(w) ==
    /\ pc[w] = "count"
    /\ Outcome(w, "running", FALSE)
    /\ Goto(w, IF cancelled[w] THEN "exit" ELSE "wait")
    /\ UNCHANGED <<project, database, deleting, ledger, mirror, index, lock, batch, deferred,
                   report, bounds>>

\* Second look, with the lock held.
WorkerLock(w) ==
    /\ pc[w] = "wait" /\ lock = Nobody
    /\ Outcome(w, "running", FALSE)
    /\ IF cancelled[w] THEN Goto(w, "exit") /\ UNCHANGED lock
                       ELSE Goto(w, "flush") /\ lock' = w
    /\ UNCHANGED <<project, database, deleting, ledger, mirror, index, batch, deferred,
                   report, bounds>>

\* _finish runs after the lock was given back.
WorkerFinish(w) ==
    /\ pc[w] = "finish"
    /\ Outcome(w, "done", report[w])
    /\ Goto(w, "exit")
    /\ UNCHANGED <<project, database, deleting, ledger, mirror, index, lock, batch, deferred,
                   report, bounds>>

\* The thread ends: only now is the indexer no longer `running`.
WorkerExit(w) ==
    /\ pc[w] = "exit"
    /\ Goto(w, "dead")
    /\ UNCHANGED <<project, database, deleting, ledger, mirror, index, lock, batch, deferred,
                   report, indexers, bounds>>

--------------------------------------------------------------------------------
(* DELETE /api/projects/{id}: EngineManager.delete_project.                *)

\* Mark the project.  A second deletion meanwhile answers 404.
DeleteBegin(r) ==
    /\ pc[r] = "idle" /\ ProjectExists /\ ~deleting /\ Edit
    /\ deleting' = TRUE
    /\ Goto(r, "marked")
    /\ UNCHANGED <<project, database, ledger, mirror, index, lock, batch, deferred, report,
                   indexers>>

\* _stop_indexer: unregister the indexer and cancel it.
StopIndexer(r) ==
    /\ pc[r] = "marked"
    /\ current' = Nobody
    /\ cancelled' = [w \in Worker |-> cancelled[w] \/ w = current]
    /\ Goto(r, "stopped")
    /\ UNCHANGED <<project, database, deleting, ledger, mirror, index, lock, batch, deferred,
                   report, progress, failure, bounds>>

\* join() waits at most JOIN_TIMEOUT_S, so it promises nothing: with the lock,
\* the project's directory and all that is in it goes.
DeleteRemove(r) ==
    /\ pc[r] = "stopped" /\ lock = Nobody
    /\ project' = FALSE /\ database' = FALSE
    /\ files' = [p \in Path |-> NoFile]
    /\ pendingFiles' = {} /\ pendingDeleted' = {} /\ skippedFiles' = {}
    /\ stored' = {} /\ torn' = {}
    /\ index' = [p \in Path |-> NoFile]
    /\ Goto(r, "removed")
    /\ UNCHANGED <<deleting, lock, batch, deferred, report, indexers, bounds>>

\* Mutant: the mark is not taken back.
DeleteEndKeepsMark(r) ==
    /\ pc[r] = "removed"
    /\ Goto(r, "idle")
    /\ UNCHANGED <<project, database, deleting, ledger, mirror, index, lock, batch, deferred,
                   report, indexers, bounds>>

\* The `finally` of delete_project.
DeleteEnd(r) ==
    /\ pc[r] = "removed"
    /\ deleting' = FALSE
    /\ Goto(r, "idle")
    /\ UNCHANGED <<project, database, ledger, mirror, index, lock, batch, deferred, report,
                   indexers, bounds>>

--------------------------------------------------------------------------------
(* The process dies and starts again: threads, lock and registry are gone, *)
(* the ledger, the mirror and the index are what the disk holds.           *)
Crash ==
    /\ Fault
    /\ IF lock = Nobody THEN UNCHANGED mirror
       ELSE \E left \in Interrupted(lock) : stored' = left[1] /\ torn' = left[2]
    /\ deleting' = FALSE
    /\ lock' = Nobody
    /\ pc' = [t \in Thread |-> IF t \in Request THEN "idle" ELSE "dead"]
    /\ batch' = [r \in Request |-> {}]
    /\ deferred' = [r \in Request |-> FALSE]
    /\ report' = [t \in Thread |-> FALSE]
    /\ current' = Nobody
    /\ progress' = [w \in Worker |-> "idle"]
    /\ failure' = [w \in Worker |-> FALSE]
    /\ cancelled' = [w \in Worker |-> FALSE]
    /\ UNCHANGED <<project, database, ledger, index>>

--------------------------------------------------------------------------------
\* A client's request arrives.
Arrive(r) ==
    \/ Resolve(r)
    \/ QueryBegin(r)
    \/ InitializeProject(r)
    \/ \E items \in Batches, dfr \in BOOLEAN : UploadBegin(r, items, dfr)
    \/ \E paths \in (SUBSET Path) \ {{}}, dfr \in BOOLEAN : DeletionsSave(r, paths, dfr)
    \/ DeleteBegin(r)

\* flush_sync in thread t.
Flush(t) ==
    \/ FlushNothing(t)
    \/ FlushDeletes(t)
    \/ IngestWrite(t)
    \/ FlushAcknowledge(t)

\* A handler that has begun goes on.
Handle(r) ==
    \/ QueryOpen(r)
    \/ UploadSave(r)
    \/ DeletionsUnlink(r)
    \/ StartSyncReturns(r)
    \/ StartSync(r)
    \/ StopIndexer(r)
    \/ DeleteRemove(r)
    \/ DeleteEnd(r)
    \/ Flush(r)

Work(w) ==
    \/ WorkerCount(w)
    \/ WorkerLock(w)
    \/ WorkerFinish(w)
    \/ WorkerExit(w)
    \/ Flush(w)

Fail ==
    \/ \E r \in Request : BlobIOFails(r)
    \/ \E t \in Thread : IngestRaises(t)
    \/ Crash

Next ==
    \/ \E r \in Request : Arrive(r) \/ Handle(r)
    \/ \E w \in Worker : Work(w)
    \/ Fail

Spec == Init /\ [][Next]_vars

\* Threads are scheduled; the lock's holder always gives it back, and the
\* bounds leave finitely many contenders, so weak fairness is enough.  The
\* client asks for a flush on every tool call.
Fairness ==
    /\ \A r \in Request : WF_vars(Handle(r))
    /\ \A w \in Worker : WF_vars(Work(w))
    /\ WF_vars(\E r \in Request : InitializeProject(r))

FairSpec == Spec /\ Fairness

--------------------------------------------------------------------------------
(* Properties.                                                             *)

HandlerLabels ==
    {"idle", "query", "put", "unlink", "start", "marked", "stopped", "removed"} \cup InFlush
WorkerLabels == {"dead", "count", "wait", "finish", "exit"} \cup InFlush

TypeOK ==
    /\ project \in BOOLEAN /\ database \in BOOLEAN /\ deleting \in BOOLEAN
    /\ files \in [Path -> Content \cup {NoFile}]
    /\ pendingFiles \in SUBSET Path
    /\ pendingDeleted \in SUBSET Path
    /\ skippedFiles \in SUBSET Path
    /\ stored \in SUBSET Blob /\ torn \in SUBSET Blob
    /\ index \in [Path -> Content \cup {NoFile, Damaged}]
    /\ lock \in Thread \cup {Nobody}
    /\ pc \in [Thread -> HandlerLabels \cup WorkerLabels]
    /\ \A r \in Request : pc[r] \in HandlerLabels
    /\ \A w \in Worker : pc[w] \in WorkerLabels
    /\ batch \in [Request -> SUBSET Blob]
    /\ deferred \in [Request -> BOOLEAN]
    /\ report \in [Thread -> BOOLEAN]
    /\ current \in Worker \cup {Nobody}
    /\ progress \in [Worker -> {"idle", "running", "done", "failed"}]
    /\ failure \in [Worker -> BOOLEAN]
    /\ cancelled \in [Worker -> BOOLEAN]
    /\ edits \in Nat /\ faults \in Nat

\* Whatever a ledger entry names can be read back: no crash, I/O error or order
\* of uploads and deletions leaves an entry without its blob (batch_upload puts
\* before it saves, report_deletions saves before it unlinks).
LedgerBlobsStored == \A p \in Path : files[p] # NoFile => <<p, files[p]>> \in stored

\* The two pending lists agree with the ledger: what waits to be indexed is a
\* file, what waits to be deleted is none (queue_file and queue_deletions).
PendingAgreesWithFiles ==
    /\ \A p \in pendingFiles : files[p] # NoFile
    /\ \A p \in pendingDeleted : files[p] = NoFile

\* An acknowledged path is indexed as uploaded: whatever is neither pending nor
\* skipped has in the index exactly what its blob reads as, and a path without
\* an entry is not in the index.  This is what "pendingJobs = 0" tells a client
\* before it searches (complete_pending only after the whole ingest).
IndexFollowsLedger ==
    \A p \in Path \ (pendingFiles \cup pendingDeleted \cup skippedFiles) : index[p] = Read(p)

\* A deleted project leaves no data behind: no upload, deletion notice or
\* background run that was under way brings any of it back (delete_project).
NoResurrection ==
    ~project => /\ stored = {}
                /\ \A p \in Path : files[p] = NoFile /\ index[p] = NoFile

\* Only a project that exists has a registered indexer, and from the moment
\* delete_project has stopped it no other is registered until the project is
\* gone: start_sync cannot slip a worker past a deletion.
IndexerOfLiveProject ==
    current # Nobody => project /\ (deleting => \E r \in Request : pc[r] = "marked")

\* At most one background run per project is not cancelled (indexer.py: one
\* running task per project, no second one started beside it).
OneLiveRun ==
    \A v, w \in Worker : Running(v) /\ ~cancelled[v] /\ Running(w) /\ ~cancelled[w] => v = w

\* A path leaves the pending lists only when they are acknowledged whole, when
\* a later request moves it to the other list, or with its project: no upload
\* saved while an ingest was running is acknowledged by that ingest.
AcknowledgedWhole ==
    [][ \A p \in pendingFiles \cup pendingDeleted :
          p \notin pendingFiles' \cup pendingDeleted' =>
            \/ ~project'
            \/ pendingFiles' = {} /\ pendingDeleted' = {}
               /\ (p \in skippedFiles' \/ index'[p] = Read(p)) ]_vars

\* What a client waits for: as long as it keeps asking for a flush, what is
\* pending gets indexed and acknowledged, or the project is deleted.
PendingDrains == Pending ~> ~Pending

\* A deletion ends even when the worker it cancelled never finishes in time.
DeletionEnds == deleting ~> ~deleting

\* blobstore.py: a blob's file name is the hash of its content, so the bytes a
\* ledger entry leads to are the bytes that were uploaded.
BlobsAreWhole == \A p \in Path : files[p] # NoFile => <<p, files[p]>> \notin torn

\* delete_project: "no revived directory"; nothing makes the directory of a
\* deleted project, or an index.db in it, again.
NoRevivedDirectory == ~project => ~database

\* test_legacy_sync_repair_clears_old_background_failure: after a sync that
\* left nothing pending, no old background failure is reported.
NoStaleFailure ==
    ~Pending /\ current # Nobody /\ ~Running(current) => ~failure[current]

================================================================================
