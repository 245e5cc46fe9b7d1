------------------------------ MODULE ClientSync ------------------------------
(* The Rust client's lazy synchronisation: every tool call scans the checkout, *)
(* uploads what its cache does not know, reports what its cache knows and the  *)
(* checkout has no more, waits for the index, and searches.  The cache is one  *)
(* file that every client process of the machine uses for this project and     *)
(* server; a process runs one call at a time.  Requests travel: they are       *)
(* handled in any order, and one whose caller gave up may still be handled.    *)
(* The server is what SyncService shows of it: a ledger, a pending list, an    *)
(* index, one background run.                                                  *)
EXTENDS Checkout

CONSTANTS
    Process,        \* client processes (an editor starts one each)
    InFlight,       \* UPLOADS_IN_FLIGHT
    NoScope,        \* a session without a checkpoint id
    Nobody          \* the caller of a request nobody waits for any more

ASSUME ClientConstants ==
    /\ Nobody \notin Process
    /\ InFlight \in Nat \ {0}

VARIABLES
    cache,          \* index.json: the rules it was made under, its entries
    session,        \* per process: the scope its checkpoint id stands for
    pc,             \* where each process is in its call
    call,           \* the locals of sync_project
    net,            \* requests sent and not handled
    files, pending, skippedFiles,   \* the server's ledger
    index,          \* what the server's search finds
    progress        \* IndexProgress.state

server == <<files, pending, skippedFiles, index, progress>>
client == <<cache, session, pc, call, net>>

--------------------------------------------------------------------------------
(* The scan (index.rs).                                                      *)

\* load: a cache made under other rules is as good as none.
Loaded == IF cache.rules = Fingerprint(rules) THEN cache.entries ELSE None

\* walk and read_content: the files that are neither ignored nor unreadable,
\* too large or binary.
Walked ==
    LET walk == WalkUnion(rules, Here)
    IN [p \in Path |-> IF p \notin walk \/ disk[p] = Unread THEN Absent ELSE disk[p]]

\* A cached entry counts only when it has the content's hash.
VerifiedHit(p) == Loaded[p] = Walked[p]

\* Mutant: a file that is still there is not deleted, whatever it holds.
DeletedOnDisk == {p \in Path : Loaded[p] # Absent /\ disk[p] = Absent}

\* The cached paths the scan does not have.
Deleted == {p \in Path : Loaded[p] # Absent /\ Walked[p] = Absent}

--------------------------------------------------------------------------------
(* A call: what the scan decided, and ghosts.  `scanned` is what the files     *)
(* held, `sent` the paths the call has sent a request about, `trusted` those   *)
(* on which cache and ledger agreed when it began; `alone` says that no other  *)
(* call and no left-over request was there at any time of it; `unseen` are the *)
(* paths the server recorded for it and no ingest has covered.                 *)

Mine(c) == {m \in net : m.by = c}
Busy == {c \in Process : pc[c] # "idle"}

\* What one scan decides: the new entries, what to upload, what to report
\* deleted.
ScanStreaming ==
    [entries |-> Walked,
     rules   |-> Fingerprint(rules),
     send    |-> {p \in Path : Walked[p] # Absent /\ ~VerifiedHit(p)},
     gone    |-> Deleted,
     scanned |-> Walked, sent |-> {}, unseen |-> {},
     trusted |-> {p \in Path : Loaded[p] = files[p]},
     alone   |-> Busy = {} /\ net = {}]

NoCall == [entries |-> None, rules |-> Fingerprint(FirstRules), send |-> {}, gone |-> {},
           scanned |-> None, sent |-> {}, trusted |-> {}, alone |-> TRUE, unseen |-> {}]

Goto(c, label) == pc' = [pc EXCEPT ![c] = label]
ClientInit ==
    /\ cache = [rules |-> Fingerprint(FirstRules), entries |-> None]
    /\ session = [c \in Process |-> NoScope]
    /\ pc = [c \in Process |-> "idle"] /\ call = [c \in Process |-> NoCall]
    /\ net = {}
    /\ files = None /\ pending = {} /\ skippedFiles = {} /\ index = None /\ progress = "idle"

--------------------------------------------------------------------------------
(* sync_project.                                                             *)

\* resolve, then the scan; the uploads overlap the rest of it.
Start(c) ==
    /\ pc[c] = "idle" /\ Called
    /\ Goto(c, "upload")
    /\ call' = [d \in Process |->
                  IF d = c
                  THEN ScanStreaming
                  ELSE IF d \in Busy THEN [call[d] EXCEPT !.alone = FALSE] ELSE call[d]]
    /\ UNCHANGED <<checkout, cache, session, net, server>>

\* upload_stream sends another batch.
Room(c) == Cardinality(Mine(c)) < InFlight

\* send_upload_batch: a file stands for a batch.
SendUploadBatch(c, p) ==
    /\ pc[c] = "upload" /\ p \in call[c].send /\ Room(c)
    /\ net' = net \cup {[by |-> c, paths |-> {p}, content |-> call[c].entries[p]]}
    /\ call' = [call EXCEPT ![c].send = @ \ {p}, ![c].sent = @ \cup {p}]
    /\ UNCHANGED <<checkout, cache, session, pc, server, bounds>>

\* Every batch is answered; require_non_empty.
Uploaded(c) ==
    /\ pc[c] = "upload" /\ call[c].send = {} /\ Mine(c) = {}
    /\ call[c].entries # None
    /\ Goto(c, IF call[c].gone = {} THEN "commit" ELSE "delete")
    /\ UNCHANGED <<checkout, cache, session, call, net, server, bounds>>

NotifyDeletions(c) ==
    /\ pc[c] = "delete" /\ Mine(c) = {}
    /\ net' = net \cup {[by |-> c, paths |-> call[c].gone, content |-> Absent]}
    /\ call' = [call EXCEPT ![c].sent = @ \cup call[c].gone]
    /\ Goto(c, "deleting")
    /\ UNCHANGED <<checkout, cache, session, server, bounds>>

\* IndexManager::commit: tmp and rename.
Commit(c) ==
    /\ pc[c] = "commit" /\ Goto(c, "flush")
    /\ cache' = [rules |-> call[c].rules, entries |-> call[c].entries]
    /\ UNCHANGED <<checkout, session, call, net, server, bounds>>

\* POST /api/sync/flush: start_sync.
StartSync ==
    /\ progress' = IF progress # "running" /\ pending # {} THEN "running" ELSE progress
    /\ UNCHANGED <<files, pending, skippedFiles, index>>

Flush(c) ==
    /\ pc[c] = "flush" /\ Goto(c, "poll") /\ StartSync
    /\ UNCHANGED <<checkout, cache, session, call, net, bounds>>

\* Mutant: only a running worker counts.
RunningJobs == progress = "running"

\* pendingJobs of the status.
PendingJobs == progress = "running" \/ pending # {}

\* Mutant: a worker that is gone is waited for.
FlushAfterDone == progress = "done"

\* The worker ended, or the server was started again, with work left.
FlushAgain == progress \in {"done", "idle"}

\* flush_and_poll: ready, and what was skipped.
PollReady(c) ==
    /\ pc[c] = "poll" /\ progress # "failed" /\ ~PendingJobs /\ progress # "running"
    /\ call' = [call EXCEPT ![c].entries = [p \in Path |-> IF p \in skippedFiles THEN Absent ELSE @[p]]]
    /\ Goto(c, IF skippedFiles = {} THEN "checkpoint" ELSE "forget")
    /\ UNCHANGED <<checkout, cache, session, net, server, bounds>>

PollAgain(c) ==
    /\ pc[c] = "poll" /\ progress # "failed" /\ PendingJobs /\ FlushAgain
    /\ StartSync
    /\ UNCHANGED <<checkout, cache, session, pc, call, net, bounds>>

\* The skipped files leave the cache.
Forget(c) ==
    /\ pc[c] = "forget" /\ Goto(c, "checkpoint")
    /\ cache' = [rules |-> call[c].rules, entries |-> call[c].entries]
    /\ UNCHANGED <<checkout, session, call, net, server, bounds>>

\* A checkpoint of the same scope is used again; a failure costs only the id.
Checkpoint(c) ==
    /\ pc[c] = "checkpoint" /\ Goto(c, "search")
    /\ \/ session' = [session EXCEPT ![c] = call[c].entries] /\ UNCHANGED bounds
       \/ session[c] # call[c].entries /\ Fault /\ session' = [session EXCEPT ![c] = NoScope]
    /\ UNCHANGED <<checkout, cache, call, net, server>>

Leave(c) ==
    /\ Goto(c, "idle") /\ call' = [call EXCEPT ![c] = NoCall]
    /\ net' = {[m EXCEPT !.by = IF @ = c THEN Nobody ELSE @] : m \in net}

Search(c) ==
    /\ pc[c] = "search" /\ Leave(c)
    /\ UNCHANGED <<checkout, cache, session, server, bounds>>

\* Nothing to upload, or the index failed: the call answers with an error.
Refuse(c) ==
    /\ \/ pc[c] = "upload" /\ call[c].send = {} /\ Mine(c) = {} /\ call[c].entries = None
       \/ pc[c] = "poll" /\ progress = "failed"
    /\ Leave(c)
    /\ UNCHANGED <<checkout, cache, session, server, bounds>>

\* A request is refused or not answered in time, a file cannot be written, the
\* wait is over, the process dies.  Requests on their way stay there.
Fail(c) ==
    /\ pc[c] # "idle" /\ Fault /\ Leave(c)
    /\ session' \in {session, [session EXCEPT ![c] = NoScope]}
    /\ UNCHANGED <<checkout, cache, server>>

--------------------------------------------------------------------------------
(* The server.                                                               *)

Recorded(m, paths) ==
    call' = IF m.by = Nobody THEN call ELSE [call EXCEPT ![m.by].unseen = @ \cup paths]

\* batch_upload, deferred.
BatchUpload(m) ==
    /\ m.content # Absent /\ net' = net \ {m}
    /\ files' = [p \in Path |-> IF p \in m.paths THEN m.content ELSE files[p]]
    /\ pending' = pending \cup m.paths /\ skippedFiles' = skippedFiles \ m.paths
    /\ Recorded(m, m.paths)
    /\ UNCHANGED <<checkout, cache, session, pc, index, progress, bounds>>

\* report_deletions: paths the ledger does not have change nothing.
ReportDeletions(m) ==
    LET deleted == {p \in m.paths : files[p] # Absent} IN
    /\ m.content = Absent /\ net' = net \ {m}
    /\ files' = [p \in Path |-> IF p \in deleted THEN Absent ELSE files[p]]
    /\ pending' = pending \cup deleted /\ skippedFiles' = skippedFiles \ deleted
    /\ Recorded(m, deleted)
    /\ pc' = IF m.by = Nobody THEN pc ELSE [pc EXCEPT ![m.by] = "commit"]
    /\ UNCHANGED <<checkout, cache, session, index, progress, bounds>>

\* Files are committed one by one; a skipped file keeps the rows it had.
Stored(paths) == [p \in Path |-> IF p \in paths /\ files[p] \notin Refused THEN files[p] ELSE index[p]]

\* flush_sync holds the project's lock: no handler comes between.
Ingest ==
    /\ progress = "running" /\ progress' = "done"
    /\ index' = Stored(pending)
    /\ skippedFiles' = skippedFiles \cup {p \in pending : files[p] \in Refused}
    /\ pending' = {} /\ UNCHANGED files
    /\ call' = [c \in Process |-> [call[c] EXCEPT !.unseen = {}]]
    /\ UNCHANGED <<checkout, cache, session, pc, net, bounds>>

\* The worker fails, or the server is started again: part of the work is there.
IngestStops ==
    /\ Fault
    /\ \/ progress = "running" /\ progress' \in {"failed", "idle"}
          /\ \E done \in SUBSET pending : index' = Stored(done)
       \/ progress \in {"done", "failed"} /\ progress' = "idle" /\ UNCHANGED index
    /\ UNCHANGED <<checkout, cache, session, pc, call, net, files, pending, skippedFiles>>

--------------------------------------------------------------------------------
(* The cache file.                                                           *)

\* index.json is gone or cannot be read; a call reads it once, when it begins.
LoseCache ==
    /\ Fault /\ Busy = {} /\ cache.entries # None
    /\ cache' = [cache EXCEPT !.entries = None]
    /\ UNCHANGED <<checkout, session, pc, call, net, server>>

--------------------------------------------------------------------------------
Step(c) ==
    \/ \E p \in Path : SendUploadBatch(c, p)
    \/ Uploaded(c) \/ NotifyDeletions(c) \/ Commit(c) \/ Flush(c)
    \/ PollReady(c) \/ PollAgain(c) \/ Forget(c) \/ Checkpoint(c) \/ Search(c) \/ Refuse(c)

Serve(m) == BatchUpload(m) \/ ReportDeletions(m)

ClientNext ==
    \/ \E c \in Process : Start(c) \/ Step(c) \/ Fail(c)
    \/ \E m \in net : Serve(m)
    \/ Ingest \/ IngestStops \/ LoseCache

clientVars == <<checkout, bounds, client, server>>

\* A call goes on by itself, the server handles what it is sent and its worker runs.
ClientFairness ==
    /\ \A c \in Process : WF_clientVars(Step(c))
    /\ WF_clientVars(\E m \in net : Serve(m))
    /\ WF_clientVars(Ingest)

--------------------------------------------------------------------------------
(* Properties.                                                               *)

Known(c) == call[c].trusted \cup call[c].sent

\* What a call searches is what it scanned: for every path on which the cache
\* was right when the call began, and every path it sent a request about, the
\* index holds what the scan read, or the server said that it skipped the file.
\* And the cache is right again for these paths, so that the next call can trust
\* it: it names what the ledger has, or nothing for a skipped file.
\* (sync_project between resolve and search, with the server's ledger, worker
\* and restarts; calls that overlap are excepted.)
ScannedIsSearched ==
    \A c \in Process : pc[c] = "search" /\ call[c].alone =>
        \A p \in Known(c) :
            /\ index[p] = call[c].scanned[p] \/ p \in skippedFiles
            /\ \/ cache.entries[p] = files[p]
               \/ cache.entries[p] = Absent /\ p \in skippedFiles

\* A call that searches has waited for an ingest of everything the server
\* recorded for it, whoever else uploads, and whether the worker it started was
\* still there (wait_for_indexing).
SearchedIsIndexed ==
    \A c \in Process : pc[c] \in {"forget", "checkpoint", "search"} => call[c].unseen = {}

================================================================================
