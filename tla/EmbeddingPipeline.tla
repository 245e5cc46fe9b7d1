--------------------------- MODULE EmbeddingPipeline ---------------------------
(***************************************************************************)
(* EmbeddingPipeline (nova_core/pipeline/embedding_sink.py): the ingest's  *)
(* thread cuts the chunks it is given into windows and puts them on a      *)
(* bounded queue; K consumer threads turn windows into rows of the vector  *)
(* table.  `with EmbeddingPipeline(...)` in Indexer._run ends in close()   *)
(* or, when anything raised, in abort().                                   *)
(*                                                                         *)
(* Chunk ids are numbered in the order they are submitted.  A vector is    *)
(* determined by the content hash, so a row is a chunk id and a hash.      *)
(***************************************************************************)
EXTENDS Naturals, Sequences, FiniteSets

CONSTANTS
    Chunks,       \* how many chunk ids there are
    Digest,       \* content hashes
    Want,         \* the content hash each chunk has in this ingest
    Consumer,     \* the consumer threads
    Window,       \* embed_window_size: chunks in a window
    QueueWindows, \* the constructor's queue_windows, 0 for None
    MaxSubmit,    \* bound on the chunks of one submit (one file)
    MaxFaults,    \* bound on failures
    NoDigest      \* the hash of an id that is not in the table

Chunk == 1..Chunks
Workers == Cardinality(Consumer)

\* _SENTINEL: windows are never empty.
Sentinel == {}

\* Queue(maxsize=max(2, (queue_windows or workers) + 2)).
Capacity == 2 + (IF QueueWindows = 0 THEN Workers ELSE QueueWindows)

ASSUME PipelineAssumption ==
    /\ Chunks \in Nat /\ Window \in Nat \ {0} /\ MaxSubmit \in Nat /\ MaxFaults \in Nat
    /\ QueueWindows \in Nat
    /\ Want \in [Chunk -> Digest]
    /\ NoDigest \notin Digest
    /\ IsFiniteSet(Consumer) /\ Consumer # {}

VARIABLES
    pc,        \* where the ingest's thread is
    fed,       \* chunks 1..fed have been submitted
    sent,      \* chunks 1..sent have been put on the queue, the rest is in _pending
    queue,     \* _queue: windows and sentinels
    left,      \* sentinels still to be put
    error,     \* _error is set
    cpc,       \* where each consumer is
    todo,      \* the chunks of its window that have no vector yet
    reuse,     \* the hashes for which it needs no embed()
    snapshot,  \* KnownVectors._ids: the table when the pipeline was made
    hashes,    \* KnownVectors._hashes
    rows,      \* the vector table
    paid,      \* the hashes each consumer has sent to embed()
    repaid,    \* a consumer has sent a hash to embed() once more
    faults     \* what is left of MaxFaults

main == <<pc, fed, sent, left>>
sinks == <<cpc, todo, reuse>>
table == <<hashes, rows>>
bill == <<paid, repaid>>
vars == <<main, queue, error, sinks, snapshot, table, bill, faults>>

--------------------------------------------------------------------------------
Stored(c) == snapshot[c] # NoDigest
Digests(S) == {Want[c] : c \in S}

Init ==
    /\ pc = "write" /\ fed = 0 /\ sent = 0 /\ left = 0
    /\ queue = <<>> /\ error = FALSE
    /\ cpc = [k \in Consumer |-> "get"]
    /\ todo = [k \in Consumer |-> {}]
    /\ reuse = [k \in Consumer |-> {}]
    /\ snapshot \in [Chunk -> Digest \cup {NoDigest}]
    /\ rows = {<<c, snapshot[c]>> : c \in {x \in Chunk : Stored(x)}}
    /\ hashes = {snapshot[c] : c \in {x \in Chunk : Stored(x)}}
    /\ paid = [k \in Consumer |-> {}] /\ repaid = FALSE
    /\ faults = MaxFaults

Fault == faults > 0 /\ faults' = faults - 1

\* put does not block: windows hold whole file texts, so the queue is bounded.
Room == Len(queue) < Capacity

--------------------------------------------------------------------------------
(* The ingest's thread: submit for each file inside the write transaction, *)
(* flush_pending, graph resolution, close.                                 *)

\* One file's chunks go to _pending, and from there in whole windows.
Submit(n) ==
    /\ pc = "write" /\ ~error /\ fed + n <= Chunks
    /\ fed' = fed + n
    /\ pc' = IF fed + n - sent >= Window THEN "put" ELSE "write"
    /\ UNCHANGED <<sent, left, queue, error, sinks, snapshot, table, bill, faults>>

\* put blocks while the queue is full.
PutWindow ==
    /\ pc = "put" /\ Room
    /\ queue' = Append(queue, (sent + 1)..(sent + Window))
    /\ sent' = sent + Window
    /\ pc' = IF fed - (sent + Window) >= Window THEN "put" ELSE "write"
    /\ UNCHANGED <<fed, left, error, sinks, snapshot, table, bill, faults>>

\* The write transaction commits; what is left in _pending is a last window.
FlushPending ==
    /\ pc = "write"
    /\ IF sent = fed
       THEN UNCHANGED <<sent, queue>>
       ELSE /\ Room
            /\ queue' = Append(queue, (sent + 1)..fed)
            /\ sent' = fed
    /\ pc' = "graph"
    /\ UNCHANGED <<fed, left, error, sinks, snapshot, table, bill, faults>>

\* close(): one sentinel for each consumer, after all the windows.
Close ==
    /\ pc = "graph"
    /\ pc' = "sentinels" /\ left' = Workers
    /\ UNCHANGED <<fed, sent, queue, error, sinks, snapshot, table, bill, faults>>

PutSentinel(from, to) ==
    /\ pc = from
    /\ IF left = 0
       THEN pc' = to /\ UNCHANGED <<left, queue>>
       ELSE /\ Room
            /\ queue' = Append(queue, Sentinel)
            /\ left' = left - 1 /\ UNCHANGED pc
    /\ UNCHANGED <<fed, sent, error, sinks, snapshot, table, bill, faults>>

\* Mutant: the first consumer to end is enough.
SomeoneEnded == \E k \in Consumer : cpc[k] = "dead"

\* thread.join() of every consumer has returned.
AllEnded == \A k \in Consumer : cpc[k] = "dead"

\* The end of close(): the first consumer error is raised, inside the `with`.
Joined ==
    /\ pc = "join" /\ AllEnded
    /\ pc' = IF error THEN "abort" ELSE "ok"
    /\ UNCHANGED <<fed, sent, left, queue, error, sinks, snapshot, table, bill, faults>>

\* submit raises a consumer's error.
SubmitRaises ==
    /\ pc = "write" /\ error
    /\ pc' = "abort"
    /\ UNCHANGED <<fed, sent, left, queue, error, sinks, snapshot, table, bill, faults>>

\* The write transaction or the graph fails, or a KeyboardInterrupt ends a
\* blocking put or join.
MainRaises ==
    /\ pc \in {"write", "put", "graph", "sentinels", "join"} /\ Fault
    /\ pc' = "abort"
    /\ UNCHANGED <<fed, sent, left, queue, error, sinks, snapshot, table, bill>>

\* abort() throws away what is queued, one get_nowait at a time.
Drain ==
    /\ pc = "abort"
    /\ IF queue = <<>>
       THEN pc' = "stop" /\ left' = Workers /\ UNCHANGED queue
       ELSE queue' = Tail(queue) /\ UNCHANGED <<pc, left>>
    /\ UNCHANGED <<fed, sent, error, sinks, snapshot, table, bill, faults>>

AbortJoined ==
    /\ pc = "rejoin" /\ AllEnded
    /\ pc' = "raised"
    /\ UNCHANGED <<fed, sent, left, queue, error, sinks, snapshot, table, bill, faults>>

--------------------------------------------------------------------------------
(* A consumer: _consume and EmbeddingSink._process_window.                 *)

\* A sentinel ends the thread; after an error windows are only drained.
\* Chunks whose row is up to date need nothing.
Get(k) ==
    /\ cpc[k] = "get" /\ queue # <<>>
    /\ queue' = Tail(queue)
    /\ IF Head(queue) = Sentinel
       THEN cpc' = [cpc EXCEPT ![k] = "dead"] /\ UNCHANGED todo
       ELSE LET pending == {c \in Head(queue) : snapshot[c] # Want[c]} IN
            IF error \/ pending = {}
            THEN UNCHANGED <<cpc, todo>>
            ELSE /\ todo' = [todo EXCEPT ![k] = pending]
                 /\ cpc' = [cpc EXCEPT ![k] = "present"]
    /\ UNCHANGED <<main, error, reuse, snapshot, table, bill, faults>>

\* Mutant: only what was in the table at the beginning is reused.
PresentAtStart(S) == S \cap {snapshot[c] : c \in Chunk}

\* KnownVectors.present.
PresentHashes(S) == S \cap hashes

Present(k) ==
    /\ cpc[k] = "present"
    /\ reuse' = [reuse EXCEPT ![k] = PresentHashes(Digests(todo[k]))]
    /\ cpc' = [cpc EXCEPT ![k] = "fetch"]
    /\ UNCHANGED <<main, queue, error, todo, snapshot, table, bill, faults>>

\* get_vector_arrays_by_hash, then the cache shared by all projects, which may
\* hold any of the others.  A row with the hash may have been overwritten since.
Fetch(k) ==
    /\ cpc[k] = "fetch"
    /\ LET found == {r[2] : r \in rows} \cap reuse[k] IN
       \E hits \in SUBSET (Digests(todo[k]) \ found) :
         /\ reuse' = [reuse EXCEPT ![k] = found \cup hits]
         /\ cpc' = [cpc EXCEPT ![k] =
              IF found \cup hits = {} THEN "embed" ELSE "move"]
    /\ UNCHANGED <<main, queue, error, todo, snapshot, table, bill, faults>>

\* Mutant: every row is appended.
AppendsAlways(c) == TRUE

\* new_ids: an id the table did not have is appended without a merge.
Appends(c) == ~Stored(c)

\* upsert_matrix.
Upserted(S) ==
    {r \in rows : r[1] \notin S \/ Appends(r[1])} \cup {<<c, Want[c]>> : c \in S}

\* The window's chunks in S get their rows and KnownVectors learns the hashes
\* (a consumer that looks between the two only embeds once more).
WriteRows(k, S) ==
    /\ rows' = Upserted(S)
    /\ hashes' = hashes \cup Digests(S)
    /\ todo' = [todo EXCEPT ![k] = @ \ S]
    /\ cpc' = [cpc EXCEPT ![k] = IF todo[k] \subseteq S THEN "get" ELSE "embed"]

\* Rows whose vector is known already.
Move(k) ==
    /\ cpc[k] = "move"
    /\ WriteRows(k, {c \in todo[k] : Want[c] \in reuse[k]})
    /\ UNCHANGED <<main, queue, error, reuse, snapshot, bill, faults>>

\* embed(): each hash of the window once.
Embed(k) ==
    /\ cpc[k] = "embed"
    /\ paid' = [paid EXCEPT ![k] = @ \cup Digests(todo[k])]
    /\ repaid' = (repaid \/ paid[k] \cap Digests(todo[k]) # {})
    /\ cpc' = [cpc EXCEPT ![k] = "add"]
    /\ UNCHANGED <<main, queue, error, todo, reuse, snapshot, table, faults>>

Add(k) ==
    /\ cpc[k] = "add"
    /\ WriteRows(k, todo[k])
    /\ UNCHANGED <<main, queue, error, reuse, snapshot, bill, faults>>

\* Mutant: a consumer that failed ends.
EndsOnError(k) == "dead"

\* A consumer that failed goes on draining the queue.
AfterError(k) == "get"

\* A lookup, embed() or a write fails, perhaps after some of the rows: the
\* first error is kept for the ingest's thread.
ConsumerFails(k) ==
    /\ cpc[k] \in {"fetch", "move", "embed", "add"} /\ Fault
    /\ \E S \in SUBSET (IF cpc[k] = "move" THEN {c \in todo[k] : Want[c] \in reuse[k]}
                        ELSE IF cpc[k] = "add" THEN todo[k] ELSE {}) :
         rows' = Upserted(S)
    /\ error' = TRUE
    /\ todo' = [todo EXCEPT ![k] = {}]
    /\ cpc' = [cpc EXCEPT ![k] = AfterError(k)]
    /\ UNCHANGED <<main, queue, reuse, snapshot, hashes, bill>>

--------------------------------------------------------------------------------
Ended == pc \in {"ok", "raised"}

Main ==
    \/ \E n \in 1..MaxSubmit : Submit(n)
    \/ PutWindow
    \/ FlushPending
    \/ Close
    \/ PutSentinel("sentinels", "join")
    \/ Joined
    \/ SubmitRaises
    \/ Drain
    \/ PutSentinel("stop", "rejoin")
    \/ AbortJoined

Consume(k) ==
    \/ Get(k)
    \/ Present(k)
    \/ Fetch(k)
    \/ Move(k)
    \/ Embed(k)
    \/ Add(k)

Fails ==
    \/ MainRaises
    \/ \E k \in Consumer : ConsumerFails(k)

\* The ingest goes on without the pipeline.
Terminated == Ended /\ AllEnded /\ UNCHANGED vars

Next ==
    \/ Main
    \/ \E k \in Consumer : Consume(k)
    \/ Fails
    \/ Terminated

Spec == Init /\ [][Next]_vars

\* Threads are scheduled, and embed() returns or raises: the provider has a
\* timeout.
FairSpec == Spec /\ WF_vars(Main) /\ \A k \in Consumer : WF_vars(Consume(k))

--------------------------------------------------------------------------------
(* Properties.                                                             *)

MainLabels == {"write", "put", "graph", "sentinels", "join", "abort", "stop", "rejoin",
               "ok", "raised"}
ConsumerLabels == {"get", "present", "fetch", "move", "embed", "add", "dead"}

TypeOK ==
    /\ pc \in MainLabels
    /\ fed \in 0..Chunks /\ sent \in 0..fed /\ left \in 0..Workers
    /\ queue \in Seq(SUBSET Chunk) /\ Len(queue) <= Capacity
    /\ error \in BOOLEAN
    /\ cpc \in [Consumer -> ConsumerLabels]
    /\ todo \in [Consumer -> SUBSET Chunk]
    /\ reuse \in [Consumer -> SUBSET Digest]
    /\ snapshot \in [Chunk -> Digest \cup {NoDigest}]
    /\ hashes \in SUBSET Digest
    /\ rows \in SUBSET (Chunk \X Digest)
    /\ paid \in [Consumer -> SUBSET Digest]
    /\ repaid \in BOOLEAN
    /\ faults \in Nat

\* No chunk id has two rows: upsert_matrix appends the ids the snapshot did not
\* have without looking again, so nobody may have written them since.
NoDuplicateRows == \A q, r \in rows : q[1] = r[1] => q = r

\* A consumer never pays for the same content twice in an ingest, even when the
\* row it counted on is overwritten (embedding_sink.py: reuse by content).
PaidOnce == ~repaid

\* The pipeline is a vector stage: close() returns only when every submitted
\* chunk has its row, and after close() or abort() nothing is written.
Stage == INSTANCE VectorStage WITH
    stage <- IF pc = "ok" THEN "ok" ELSE IF pc = "raised" THEN "failed" ELSE "open",
    submitted <- 1..fed

Implements == Stage!Spec

\* close() and abort() come to an end: no put on the full queue and no join
\* waits for ever, whichever consumers have failed.
Ends == <>Ended

================================================================================
