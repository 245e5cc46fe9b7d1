------------------------------- MODULE IndexStore -------------------------------
(***************************************************************************)
(* One project's index while it is written and searched: Engine._ingest,   *)
(* Indexer._run, the SQLite tables (SymbolGraph), the vector table, the    *)
(* fingerprint and the index-state marker.                                 *)
(*                                                                         *)
(* The two stores have no common transaction.  SQLite commits the files of *)
(* an ingest together; their vectors are written by the vector stage at    *)
(* any time between the hand-over of a file and the end of the stage       *)
(* (VectorStage); vectors are deleted before and after.  An ingest can     *)
(* fail or the process end between any two of these writes, and a search   *)
(* takes no lock.                                                          *)
(*                                                                         *)
(* `want` and `pending` stand for the ledger and the blob mirror of        *)
(* SyncService: what the project's files should be, and the paths that no  *)
(* ingest has acknowledged yet.                                            *)
(***************************************************************************)
EXTENDS SymbolGraph

CONSTANTS
    Provider,    \* embedding models (of one dimension)
    FirstUpload, \* what a new project's files can be
    NoProvider,  \* no fingerprint is stored
    MaxEdits,    \* bound on changes of the project's files
    MaxFaults,   \* bound on failures and crashes
    MaxSwitches  \* bound on changes of the provider

ASSUME IndexStoreAssumption ==
    /\ NoProvider \notin Provider
    /\ FirstUpload \subseteq [File -> Version \cup {NoFile}]
    /\ MaxEdits \in Nat /\ MaxFaults \in Nat /\ MaxSwitches \in Nat

VARIABLES
    want,       \* the version each path should have
    pending,    \* the paths that are not acknowledged
    provider,   \* the model the engine is configured with
    db,         \* what SQLite has committed
    stored,     \* the stored fingerprint: the model of the vectors
    vectors,    \* the vector table: rows [id, hash, by]
    marker,     \* index-state.json: [status, chunks, vectors]
    pc,         \* where the ingest is
    mode,       \* "none", "reembed" or "full_reparse"
    tx,         \* the write transaction's view of the tables
    todo,       \* the inputs of the ingest that are left
    parsed,     \* the paths it has written
    queued,     \* chunks handed to the vector stage that have no row yet
    removed,    \* the ids whose rows are to be deleted
    errors,     \* the report has errors
    search,     \* the search in flight: [at, gap, mixed, overtaken]
    maker,      \* the model of the last ingest that came to the vector table
    mixed,      \* ingests with several models have worked on one vector table
    orphaned,   \* an ingest was cut off before it had deleted the rows it was to
    edits, faults, switches

source == <<want, pending, provider>>
tables == <<db, stored, vectors>>
job == <<pc, mode, tx, todo, parsed, queued, removed, errors>>
history == <<maker, mixed, orphaned>>
bounds == <<edits, faults, switches>>
vars == <<source, tables, marker, job, search, history, bounds>>

Unmarked == [status |-> "none", chunks |-> 0, vectors |-> 0]
NoSearch == [at |-> "idle", gap |-> FALSE, mixed |-> FALSE, overtaken |-> FALSE]

Init ==
    /\ want \in FirstUpload
    /\ pending = {f \in File : want[f] # NoFile}
    /\ provider \in Provider
    /\ db = EmptyDb /\ stored = NoProvider /\ vectors = {}
    /\ marker = Unmarked
    /\ pc = "idle" /\ mode = "none" /\ tx = EmptyDb
    /\ todo = {} /\ parsed = {} /\ queued = {} /\ removed = {} /\ errors = FALSE
    /\ search = NoSearch
    /\ maker = NoProvider /\ mixed = FALSE /\ orphaned = FALSE
    /\ edits = MaxEdits /\ faults = MaxFaults /\ switches = MaxSwitches

Ids(chunks) == {c.id : c \in chunks}
RowsWithout(ids) == {r \in vectors : r.id \notin ids}

--------------------------------------------------------------------------------
(* The project's files and the configuration, between two ingests: uploads *)
(* wait for the project's lock, a new provider comes with a restart.       *)

Edit(f, v) ==
    /\ pc = "idle" /\ edits > 0 /\ want[f] # v
    /\ want' = [want EXCEPT ![f] = v]
    /\ pending' = pending \cup {f}
    /\ edits' = edits - 1
    /\ UNCHANGED <<provider, tables, marker, job, search, history, faults, switches>>

SwitchProvider ==
    /\ pc = "idle" /\ switches > 0
    /\ provider' \in Provider \ {provider}
    /\ switches' = switches - 1
    /\ UNCHANGED <<want, pending, tables, marker, job, search, history, edits, faults>>

--------------------------------------------------------------------------------
(* The ingest.                                                             *)

Goto(label) == pc' = label

\* What the indexer's objects held.
Forget ==
    /\ Goto("idle") /\ mode' = "none" /\ tx' = EmptyDb /\ errors' = FALSE
    /\ todo' = {} /\ parsed' = {} /\ queued' = {} /\ removed' = {}

\* check_fingerprint (the parser's configuration does not change here).
Invalidation ==
    IF stored = NoProvider /\ Held(db.files) = {} THEN "none"
    ELSE IF stored = NoProvider THEN "full_reparse"
    ELSE IF stored # provider THEN "reembed" ELSE "none"

Gone == {f \in pending : want[f] = NoFile}
Present == {f \in File : want[f] # NoFile}

\* _collect_inputs: what changed, and in a full reparse every file there is.
Inputs == IF mode = "full_reparse" THEN Present ELSE pending \ Gone

\* What the marker says while an ingest runs, and after it: the counts of that moment.
BuildingState == [status |-> "building", chunks |-> 0, vectors |-> 0]
ReadyState == [status |-> "ready", chunks |-> Cardinality(Chunks(db.files)),
               vectors |-> Cardinality(vectors)]
FailedState == [status |-> "failed", chunks |-> 0, vectors |-> 0]

\* flush_sync and Engine._ingest: the marker says building before anything is touched.
Begin ==
    /\ pc = "idle" /\ pending # {}
    /\ marker' = BuildingState
    /\ mode' = Invalidation
    /\ Goto("delete")
    /\ UNCHANGED <<source, tables, tx, todo, parsed, queued, removed, errors, search, history,
                   bounds>>

\* _delete_files: the rows of all deleted paths in one transaction, which
\* returns the ids of their chunks.
DeleteRows ==
    /\ pc = "delete"
    /\ db' = ApplyDeletions(db, Gone)
    /\ removed' = Ids(Chunks(db.files)) \ Ids(Chunks(db'.files))
    /\ Goto("delete_vectors")
    /\ UNCHANGED <<source, stored, vectors, marker, mode, tx, todo, parsed, queued, errors,
                   search, history, bounds>>

DeleteVectors ==
    /\ pc = "delete_vectors"
    /\ vectors' = RowsWithout(removed)
    /\ removed' = {}
    /\ Goto("collect")
    /\ UNCHANGED <<source, db, stored, marker, mode, tx, todo, parsed, queued, errors,
                   search, history, bounds>>

\* rebuild: an empty table takes the place of the old one.
Rebuilt == {}

\* The table was last worked on with another model, and this ingest does not know: the
\* fingerprint says nothing of an ingest that was cut off (check_fingerprint).
Foreign ==
    /\ vectors # {} \/ stored # NoProvider
    /\ mixed \/ maker \notin {provider, NoProvider}

\* The vector table is made anew when the fingerprint is out of date; the write
\* transaction begins.
Collect ==
    /\ pc = "collect"
    /\ todo' = Inputs
    /\ vectors' = IF mode = "none" THEN vectors ELSE Rebuilt
    /\ tx' = db
    /\ Goto("write")
    /\ maker' = provider
    /\ mixed' = (mode = "none" /\ Foreign)
    /\ orphaned' = (mode = "none" /\ orphaned)
    /\ UNCHANGED <<source, db, stored, marker, mode, parsed, queued, removed, errors, search,
                   bounds>>

\* FileDelta.removed_chunk_ids: the file's old ids the new version does not have.
RemovedIds(f) ==
    Ids(IF tx.files[f] = NoFile THEN {} ELSE Rows(tx.files, f).chunks)
        \ Ids(Parsed[<<f, want[f]>>].chunks)

\* prepare_file: too large, or binary.
Skipped(f) == want[f] \in Refused

NextInput == CHOOSE f \in todo : \A g \in todo : f <= g

\* _index_file: the file is skipped, or its rows are written under a savepoint
\* and its chunks handed to the vector stage.
IndexFile ==
    /\ pc = "write" /\ todo # {}
    /\ LET f == NextInput IN
       /\ todo' = todo \ {f}
       /\ IF Skipped(f)
          THEN UNCHANGED <<tx, parsed, queued, removed>>
          ELSE /\ tx' = ApplyFile(tx, f, want[f])
               /\ parsed' = parsed \cup {f}
               /\ queued' = queued \cup Parsed[<<f, want[f]>>].chunks
               /\ removed' = IF mode = "none" THEN removed \cup RemovedIds(f) ELSE removed
    /\ UNCHANGED <<source, tables, marker, pc, mode, errors, search, history, bounds>>

\* The file's rows are refused by the database: its savepoint is rolled back and
\* the ingest goes on.
IndexFileFails ==
    /\ pc = "write" /\ todo # {} /\ faults > 0
    /\ ~Skipped(NextInput)
    /\ todo' = todo \ {NextInput}
    /\ errors' = TRUE
    /\ faults' = faults - 1
    /\ UNCHANGED <<source, tables, marker, pc, mode, tx, parsed, queued, removed, search,
                   history, edits, switches>>

\* Mutant: the files of this ingest are all that is embedded again.
NothingElse == {}

\* _rebuild_vectors: the chunks of the other files that are in the tables, as the
\* present contents name them.
Existing ==
    LET ids == UNION {Ids(Parsed[<<f, want[f]>>].chunks) :
                         f \in {g \in Present \ parsed : ~Skipped(g)}}
    IN  {c \in Chunks(tx.files) : c.id \in ids}

\* The write transaction commits.
Commit ==
    /\ pc = "write" /\ todo = {}
    /\ queued' = IF mode = "none" THEN queued ELSE queued \cup Existing
    /\ db' = tx /\ tx' = EmptyDb
    /\ Goto("pending")
    /\ UNCHANGED <<source, stored, vectors, marker, mode, todo, parsed, removed, errors,
                   search, history, bounds>>

\* resolve_graph: each write is a transaction of its own; the symbols it matches
\* against do not change meanwhile.
Pass(from, to, result) ==
    /\ pc = from
    /\ db' = result
    /\ Goto(to)
    /\ UNCHANGED <<source, stored, vectors, marker, mode, tx, todo, parsed, queued, removed,
                   errors, search, history, bounds>>

ResolveGraph ==
    \/ Pass("pending", "pending_multi", ResolveSingles(db, Pending(db)))
    \/ Pass("pending_multi", "pending_none", ResolveMulti(db, Pending(db)))
    \/ Pass("pending_none", "retry", ResolveNone(db, Pending(db)))
    \/ Pass("retry", "retry_multi", ResolveSingles(db, RetryFailed(db, parsed)))
    \/ Pass("retry_multi", "edges", ResolveMulti(db, RetryFailed(db, parsed)))
    \/ Pass("edges", "specs", ResolveEdges(db))
    \/ Pass("specs", "drain", LinkSpecs(db, parsed))

Staging == {"write", "pending", "pending_multi", "pending_none", "retry", "retry_multi", "edges",
            "specs", "drain"}

\* A consumer of the vector stage writes the row of one chunk.  A vector of the
\* same content that is in the table is moved instead of computed again.
WriteVector(c) ==
    /\ pc \in Staging /\ c \in queued
    /\ LET same == {r \in vectors : r.hash = c.hash}
           own == {r \in same : r.id = c.id}
       IN  IF own # {} THEN UNCHANGED vectors
           ELSE \E m \in IF same # {} THEN {r.by : r \in same} ELSE {provider} :
                  vectors' = RowsWithout({c.id}) \cup {[id |-> c.id, hash |-> c.hash, by |-> m]}
    /\ queued' = queued \ {c}
    /\ UNCHANGED <<source, db, stored, marker, pc, mode, tx, todo, parsed, removed, errors,
                   search, history, bounds>>

\* close() returns when every chunk has its row.
Drained ==
    /\ pc = "drain" /\ queued = {}
    /\ Goto("vector_delete")
    /\ UNCHANGED <<source, tables, marker, mode, tx, todo, parsed, queued, removed, errors,
                   search, history, bounds>>

\* Rows are deleted only now: they may have been reused by content.
DeleteRemoved ==
    /\ pc = "vector_delete"
    /\ vectors' = RowsWithout(removed)
    /\ removed' = {}
    /\ Goto("finalize")
    /\ UNCHANGED <<source, db, stored, marker, mode, tx, todo, parsed, queued, errors, search,
                   history, bounds>>

Finalize ==
    /\ pc = "finalize"
    /\ stored' = IF mode # "none" \/ stored = NoProvider THEN provider ELSE stored
    /\ Goto("ready")
    /\ UNCHANGED <<source, db, vectors, marker, mode, tx, todo, parsed, queued, removed,
                   errors, search, history, bounds>>

\* The caller acknowledges the pending paths unless the report has errors (flush_sync).
Ready ==
    /\ pc = "ready"
    /\ marker' = ReadyState
    /\ pending' = IF errors THEN pending ELSE {}
    /\ search' = [search EXCEPT !.overtaken = @ \/ search.at = "read"]
    /\ Forget
    /\ UNCHANGED <<want, provider, tables, history, bounds>>

--------------------------------------------------------------------------------
(* Failures: what is not committed is lost, the vector stage stops.        *)

Abandon ==
    /\ pc # "idle" /\ faults > 0
    /\ faults' = faults - 1
    /\ orphaned' = (orphaned \/ pc = "write" \/ removed # {})
    /\ Forget
    /\ UNCHANGED <<source, tables, search, maker, mixed, edits, switches>>

\* Any exception of the indexer.
Fail ==
    /\ pc # "ready" /\ Abandon
    /\ marker' = FailedState

\* The process ends; the next one continues from the files.
Crash == Abandon /\ UNCHANGED marker

--------------------------------------------------------------------------------
(* A search reads both stores, then the marker.                            *)

\* The files the index has as they should be.
Current == {f \in Held(db.files) \ pending : db.files[f] = want[f]}

\* Their chunks that have no vector of their content.
Missing == {c \in UNION {Rows(db.files, f).chunks : f \in Current} :
               ~\E r \in vectors : r.id = c.id /\ r.hash = c.hash}

\* recall (exact, BM25 and vector channels).
SearchReads ==
    /\ search.at # "read"
    /\ search' = [at |-> "read", gap |-> Missing # {}, mixed |-> mixed, overtaken |-> FALSE]
    /\ UNCHANGED <<source, tables, marker, job, history, bounds>>

\* Mutant: an index that is being built is trusted.
FailedOnly == marker.status = "failed"

VectorIndexGap == vectors = {} /\ Chunks(db.files) # {}

\* IndexState.mismatch_reason: a count of zero is not compared.
Mismatch ==
    \/ marker.chunks # 0 /\ Cardinality(Chunks(db.files)) # marker.chunks
    \/ marker.vectors # 0 /\ Cardinality(vectors) # marker.vectors
    \/ VectorIndexGap

\* _index_state_gap.
Degraded ==
    \/ VectorIndexGap
    \/ marker.status \in {"building", "failed"}
    \/ marker.status = "ready" /\ Mismatch

SearchAnswers ==
    /\ search.at = "read"
    /\ search' = IF Degraded THEN NoSearch ELSE [search EXCEPT !.at = "answered"]
    /\ UNCHANGED <<source, tables, marker, job, history, bounds>>

--------------------------------------------------------------------------------
Ingest ==
    \/ Begin
    \/ DeleteRows
    \/ DeleteVectors
    \/ Collect
    \/ IndexFile
    \/ Commit
    \/ ResolveGraph
    \/ \E c \in queued : WriteVector(c)
    \/ Drained
    \/ DeleteRemoved
    \/ Finalize
    \/ Ready

Search == SearchReads \/ SearchAnswers

Next ==
    \/ \E f \in File, v \in Version \cup {NoFile} : Edit(f, v)
    \/ SwitchProvider
    \/ Ingest
    \/ IndexFileFails
    \/ Fail
    \/ Crash
    \/ Search

Spec == Init /\ [][Next]_vars

--------------------------------------------------------------------------------
(* Properties.                                                             *)

Labels == {"idle", "delete", "delete_vectors", "collect"} \cup Staging
             \cup {"vector_delete", "finalize", "ready"}

\* The variables hold what the tables, the marker and the indexer's objects can.
TypeOK ==
    /\ want \in Files /\ pending \subseteq File /\ provider \in Provider
    /\ db \in Database /\ stored \in Provider \cup {NoProvider}
    /\ \A r \in vectors : r = [id |-> r.id, hash |-> r.hash, by |-> r.by] /\ r.by \in Provider
    /\ marker.status \in {"none", "building", "failed", "ready"}
    /\ pc \in Labels /\ mode \in {"none", "reembed", "full_reparse"} /\ tx \in Database
    /\ todo \subseteq File /\ parsed \subseteq File /\ errors \in BOOLEAN
    /\ search \in [at : {"idle", "read", "answered"}, gap : BOOLEAN, mixed : BOOLEAN,
                     overtaken : BOOLEAN]
    /\ maker \in Provider \cup {NoProvider} /\ mixed \in BOOLEAN /\ orphaned \in BOOLEAN
    /\ edits \in 0..MaxEdits /\ faults \in 0..MaxFaults /\ switches \in 0..MaxSwitches

\* No ingest is running and the last one came to its end.
AtRest == pc = "idle" /\ marker.status = "ready"

\* Whatever failed before and however often the model was changed, once an ingest has
\* come to its end every chunk of the files it acknowledged has a vector of its content
\* and of the stored model, unless two models have worked on the table since it was last
\* made anew; and deleted and rewritten files take their vectors along, unless an ingest
\* was cut off before it had deleted them and none has made the table anew since
\* (engine.py: _ingest marks ready only after the vector stage).
VectorsMatchIndex ==
    AtRest =>
        /\ ~mixed => \A f \in Current : \A c \in Rows(db.files, f).chunks :
              [id |-> c.id, hash |-> c.hash, by |-> stored] \in vectors
        /\ ~orphaned => {r.id : r \in vectors} \subseteq Ids(Chunks(db.files))

\* A search that read an index with missing vectors says that it is degraded,
\* unless an ingest came to its end between its reads and its look at the marker, or
\* the table it read was one that two models have worked on.
GapIsReported ==
    search.at = "answered" /\ search.gap => search.overtaken \/ search.mixed

\* What index_state.py:55-57 says the comparison with the marker finds: vectors that
\* are missing, of an earlier model, or of no chunk any more.  When no ingest is under
\* way they are not there, or searches are told.  The code's claim, without the
\* exceptions above, and violated.
MarkerTellsTruth ==
    AtRest =>
        \/ Degraded
        \/ /\ \A f \in Current : \A c \in Rows(db.files, f).chunks :
                 [id |-> c.id, hash |-> c.hash, by |-> stored] \in vectors
           /\ {r.id : r \in vectors} \subseteq Ids(Chunks(db.files))

\* The match is found by the whole name, or it is not restricted to some files: an
\* exact match elsewhere hides a match by the last part inside them (_match).
PlainToSee(r, s) == s.fqn = r.name \/ Hints(r.name, r.file, r.kind) = {}

\* After an ingest no reference is left unprocessed, no failed reference has a
\* match in a file the index has that is plain to see, and no edge has a single
\* match it was not moved to (resolver.py: retry_failed).
GraphSettled ==
    AtRest =>
        /\ \A r \in db.refs : /\ r.status = "failed"
                              /\ \A s \in Match(db.files, r.name, r.file, r.kind) :
                                    s.file \in Current => ~PlainToSee(r, s)
        /\ \A e \in Bare(db) : Cardinality(EdgeTargets(db, e)) # 1

\* What refers to other files survives whatever is written or deleted beside it,
\* at any moment between two transactions (storage/schema.sql:100, store.py:25-27).
ReferencesKept == SpecsKept(db) /\ EdgesKept(db)

================================================================================
