------------------------------ MODULE LocalScan ------------------------------
(* Local mode: the server reads the checkout itself.  A project is attached to *)
(* it, background indexers and searches scan it, compare it with the manifest  *)
(* of the last scan and ingest the difference (EngineManager, ProjectIndexer,  *)
(* Engine.ingest_repo).  One lock per project; a request looks at the registry *)
(* of indexers before it has the lock and uses what it saw afterwards.         *)
EXTENDS Checkout

CONSTANTS
    Request,        \* handler threads, numbered: the first idle one takes a request
    Worker,         \* ProjectIndexer objects, numbered: the first unused one is new
    NoWorker,       \* no indexer is registered
    Unlocked        \* nobody holds the project's lock

ASSUME LocalConstants ==
    /\ Request \subseteq Nat /\ Worker \subseteq Nat \ Request /\ Worker # {}
    /\ NoWorker \notin Worker /\ Unlocked \notin Request \cup Worker

VARIABLES
    live,           \* project.json is there
    attached,       \* _local_roots has the project
    deleting,       \* _deleting has the project
    registered,     \* _indexers
    lock,           \* who holds the project's lock
    at,             \* per request: where it is
    target,         \* per request: the indexer it saw
    thread,         \* per indexer: where its thread is
    cancelled,      \* per indexer: _cancelled
    job,            \* the scan of the lock's holder
    manifest,       \* the scan manifest
    rows,           \* what the index holds
    astray          \* ghost: paths on which the manifest is no longer to be believed

registry == <<live, attached, deleting, registered>>
indexer == <<thread, cancelled>>
request == <<at, target>>
store == <<manifest, rows, astray>>
localVars == <<registry, lock, request, indexer, job, store>>

NoJob == [seen |-> None, changed |-> {}, gone |-> {}, before |-> None, lost |-> {}]
Alive(w) == thread[w] # "none"
Held == lock # Unlocked

\* The server starts with the checkout attached and an indexer at work
\* (nova-service local), or with nothing.
LocalInit ==
    /\ lock = Unlocked /\ deleting = FALSE /\ job = NoJob
    /\ at = [r \in Request |-> "idle"] /\ target = [r \in Request |-> NoWorker]
    /\ cancelled = [w \in Worker |-> FALSE]
    /\ manifest = None /\ rows = None /\ astray = {}
    /\ live \in BOOLEAN /\ attached = live
    /\ registered = IF live THEN Min(Worker) ELSE NoWorker
    /\ thread = [w \in Worker |-> IF w = registered THEN "count" ELSE "none"]

GoesTo(r, label) == at' = [at EXCEPT ![r] = label]
Walk(w, label) == thread' = [thread EXCEPT ![w] = label]

--------------------------------------------------------------------------------
(* Requests.                                                                 *)

Begins(r) == at[r] = "idle" /\ Called /\ \A q \in Request : q < r => at[q] # "idle"

\* attach_local: resolve_repo, then the root; the schema is made under the lock
\* when there is none.
Attach(r) ==
    /\ Begins(r) /\ live' = TRUE /\ GoesTo(r, "bind")
    /\ UNCHANGED <<checkout, attached, deleting, registered, lock, target, indexer, job, store>>

Bind(r) ==
    /\ at[r] = "bind" /\ attached' = TRUE
    /\ \/ GoesTo(r, "register")
       \/ rows = None /\ GoesTo(r, "initialize")
    /\ UNCHANGED <<checkout, bounds, live, deleting, registered, lock, target, indexer, job, store>>

\* _initialize_project: a project that is being deleted is refused.
Initialize(r) ==
    /\ at[r] = "initialize" /\ ~Held
    /\ GoesTo(r, IF deleting \/ ~live THEN "idle" ELSE "register")
    /\ UNCHANGED <<checkout, bounds, registry, lock, target, indexer, job, store>>

\* _indexer_for: an indexer no map and no thread knows stands for a new object.
Register(r) ==
    /\ at[r] = "register" /\ GoesTo(r, "start")
    /\ \/ registered # NoWorker /\ target' = [target EXCEPT ![r] = registered]
          /\ UNCHANGED <<registered, cancelled>>
       \/ LET unused == {w \in Worker : ~Alive(w) /\ \A q \in Request : target[q] # w}
              w == Min(unused)
          IN /\ registered = NoWorker /\ unused # {}
             /\ registered' = w /\ target' = [target EXCEPT ![r] = w]
             /\ cancelled' = [cancelled EXCEPT ![w] = FALSE]
    /\ UNCHANGED <<checkout, bounds, live, attached, deleting, lock, thread, job, store>>

\* rescan_project: attached_root, start_index.
Rescan(r) ==
    /\ Begins(r) /\ live
    /\ attached /\ registered # NoWorker /\ ~Alive(registered)
    /\ target' = [target EXCEPT ![r] = registered] /\ GoesTo(r, "start")
    /\ UNCHANGED <<checkout, registry, lock, indexer, job, store>>

\* ProjectIndexer.start: a thread, if the object has none.
StartWorker(r) ==
    /\ at[r] = "start" /\ GoesTo(r, "idle") /\ target' = [target EXCEPT ![r] = NoWorker]
    /\ LET w == target[r] IN
       IF Alive(w) THEN UNCHANGED indexer
       ELSE Walk(w, "count") /\ cancelled' = [cancelled EXCEPT ![w] = FALSE]
    /\ UNCHANGED <<checkout, bounds, registry, lock, job, store>>

\* rescan_if_due: attached, and no indexer at work.
ScanDue == attached /\ ~(registered # NoWorker /\ Alive(registered))

\* A search of an existing project; the last scan may have been just now.
Ask(r) ==
    /\ Begins(r) /\ live
    /\ \/ ScanDue /\ GoesTo(r, "wait")
       \/ GoesTo(r, "search")
    /\ UNCHANGED <<checkout, registry, lock, target, indexer, job, store>>

Answer(r) ==
    /\ at[r] = "search" /\ GoesTo(r, "idle")
    /\ UNCHANGED <<checkout, bounds, registry, lock, target, indexer, job, store>>

\* delete_project: mark, cancel the indexer and wait for it (30 seconds at
\* most), lock, remove.
Delete(r) ==
    /\ Begins(r) /\ live /\ ~deleting
    /\ deleting' = TRUE /\ GoesTo(r, "stop")
    /\ UNCHANGED <<checkout, live, attached, registered, lock, target, indexer, job, store>>

StopIndexer(r) ==
    /\ at[r] = "stop" /\ GoesTo(r, "remove")
    /\ attached' = FALSE /\ registered' = NoWorker
    /\ cancelled' = [w \in Worker |-> cancelled[w] \/ w = registered]
    /\ UNCHANGED <<checkout, bounds, live, deleting, lock, target, thread, job, store>>

Remove(r) ==
    /\ at[r] = "remove" /\ ~Held /\ GoesTo(r, "idle")
    /\ live' = FALSE /\ deleting' = FALSE
    /\ manifest' = None /\ rows' = None /\ astray' = {}
    /\ UNCHANGED <<checkout, bounds, attached, registered, lock, target, indexer, job>>

--------------------------------------------------------------------------------
(* The indexer's thread (_run).                                               *)

\* It was cancelled before it began, or counts the files, or cannot.
CountFiles(w) ==
    /\ thread[w] = "count"
    /\ \/ Walk(w, IF cancelled[w] THEN "none" ELSE "wait") /\ UNCHANGED bounds
       \/ ~cancelled[w] /\ Fault /\ Walk(w, "ending")
    /\ UNCHANGED <<checkout, registry, lock, request, cancelled, job, store>>

WorkerLocks(w) ==
    /\ thread[w] = "wait" /\ ~Held
    /\ IF cancelled[w] THEN Walk(w, "none") /\ UNCHANGED lock ELSE Walk(w, "scan") /\ lock' = w
    /\ UNCHANGED <<checkout, bounds, registry, request, cancelled, job, store>>

AskLocks(r) ==
    /\ at[r] = "wait" /\ ~Held /\ lock' = r /\ GoesTo(r, "scan")
    /\ UNCHANGED <<checkout, bounds, registry, target, indexer, job, store>>

\* _finish, _fail: the lock is free already, the thread is still alive.
WorkerEnds(w) ==
    /\ thread[w] = "ending" /\ Walk(w, "none")
    /\ UNCHANGED <<checkout, bounds, registry, lock, request, cancelled, job, store>>

--------------------------------------------------------------------------------
(* ingest_repo, by whoever holds the lock.                                    *)

Where == IF lock \in Worker THEN thread[lock] ELSE IF Held THEN at[lock] ELSE "idle"
Moves(label) ==
    IF lock \in Worker THEN Walk(lock, label) /\ UNCHANGED <<request, cancelled>>
    ELSE GoesTo(lock, label) /\ UNCHANGED <<indexer, target>>

\* plan_scan: what the walk lists and the process can read.
Hashes ==
    LET walk == ListFiles(rules, Here)
    IN [p \in Path |-> IF p \in walk /\ disk[p] # Unread THEN disk[p] ELSE Absent]

\* added and modified
Changed(previous, seen) == {p \in Path : seen[p] # Absent /\ seen[p] # previous[p]}

\* deleted
Gone(previous, seen) == {p \in Path : previous[p] # Absent /\ seen[p] = Absent}

\* read_manifest: one that cannot be read is an empty one.
PlanScan ==
    /\ Where = "scan" /\ Moves("delete")
    /\ \E previous \in {manifest, None} :
        /\ IF previous = manifest THEN UNCHANGED <<bounds, astray>>
           ELSE Fault /\ astray' = astray \cup {p \in Path : rows[p] # Absent}
        /\ job' = [seen |-> Hashes, changed |-> Changed(previous, Hashes),
                   gone |-> Gone(previous, Hashes), before |-> rows, lost |-> {}]
    /\ UNCHANGED <<checkout, registry, lock, manifest, rows>>

\* The deletions are committed first, then the files, together; a refused file
\* keeps the rows it had, and so does one that cannot be stored.
DeleteRows ==
    /\ Where = "delete" /\ Moves("store")
    /\ rows' = [p \in Path |-> IF p \in job.gone THEN Absent ELSE rows[p]]
    /\ UNCHANGED <<checkout, bounds, registry, lock, job, manifest, astray>>

StoreFiles ==
    /\ Where = "store" /\ Moves("record")
    /\ \E lost \in SUBSET job.changed :
        /\ IF lost = {} THEN UNCHANGED bounds ELSE Fault
        /\ rows' = [p \in Path |-> IF p \in job.changed \ lost /\ job.seen[p] \notin Refused
                                   THEN job.seen[p] ELSE rows[p]]
        /\ job' = [job EXCEPT !.lost = lost]
    /\ UNCHANGED <<checkout, registry, lock, manifest, astray>>

WriteManifest ==
    /\ Where = "record" /\ Moves("release") /\ manifest' = job.seen
    /\ astray' = (astray \ (job.changed \cup job.gone)) \cup job.lost
    /\ UNCHANGED <<checkout, bounds, registry, lock, job, rows>>

\* Mutant: the manifest is written whatever became of the ingest.
LeaveManifestAnyway == manifest' = job.seen

\* A failed ingest writes no manifest.
LeaveManifest == UNCHANGED manifest

\* What an ingest that was cut off has changed.
CutOff == astray' = astray \cup {p \in Path : rows[p] # job.before[p]}

Leaves(label) == lock' = Unlocked /\ job' = NoJob /\ Moves(label)

Release ==
    /\ Where = "release" /\ Leaves(IF lock \in Worker THEN "ending" ELSE "search")
    /\ UNCHANGED <<checkout, bounds, registry, store>>

\* The walk, a store or the vector stage fails: the search goes on without.
IngestFails ==
    /\ Where \in {"scan", "delete", "store", "record"} /\ Fault
    /\ IF Where = "scan" THEN UNCHANGED store ELSE CutOff /\ LeaveManifest /\ UNCHANGED rows
    /\ Leaves(IF lock \in Worker THEN "ending" ELSE "search")
    /\ UNCHANGED <<checkout, registry>>

\* The server ends and is started again, with the checkout or without.
Restart ==
    /\ Fault
    /\ IF Held /\ Where # "scan" /\ Where # "release" THEN CutOff ELSE UNCHANGED astray
    /\ lock' = Unlocked /\ deleting' = FALSE /\ job' = NoJob
    /\ at' = [r \in Request |-> "idle"] /\ target' = [r \in Request |-> NoWorker]
    /\ cancelled' = [w \in Worker |-> FALSE]
    /\ attached' \in BOOLEAN /\ live' = (live \/ attached')
    /\ registered' = IF attached' THEN Min(Worker) ELSE NoWorker
    /\ thread' = [w \in Worker |-> IF w = registered' THEN "count" ELSE "none"]
    /\ UNCHANGED <<checkout, manifest, rows>>

--------------------------------------------------------------------------------
Handle(r) ==
    \/ Bind(r) \/ Initialize(r) \/ Register(r) \/ StartWorker(r)
    \/ AskLocks(r) \/ Answer(r) \/ StopIndexer(r) \/ Remove(r)

Run(w) == CountFiles(w) \/ WorkerLocks(w) \/ WorkerEnds(w)

Scan == PlanScan \/ DeleteRows \/ StoreFiles \/ WriteManifest \/ Release

LocalNext ==
    \/ \E r \in Request : Attach(r) \/ Rescan(r) \/ Ask(r) \/ Delete(r) \/ Handle(r)
    \/ \E w \in Worker : Run(w)
    \/ Scan \/ IngestFails \/ Restart

--------------------------------------------------------------------------------
(* Properties.                                                               *)

\* When a scan has been recorded, the index holds what the scan read: every
\* file that is listed and can be read, unless the indexer refuses it, and no
\* other.  The manifest spares the rest of the work, so it must never claim
\* what the index does not have: across failed ingests, restarts and
\* deletions in any order.  Excepted are the paths a cut-off ingest changed, a
\* file that could not be stored, and what a manifest that cannot be read had
\* listed (ingest_repo, plan_scan, write_manifest).
RescanReadsDisk ==
    Where = "release" =>
        \A p \in Path \ astray : rows[p] = job.seen[p] \/ job.seen[p] \in Refused

================================================================================
