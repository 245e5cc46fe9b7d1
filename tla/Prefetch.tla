-------------------------------- MODULE Prefetch --------------------------------
(* The upload prefetcher (pipeline/prepare.py: UploadPrefetcher): files are      *)
(* prepared by a process of low priority while the client still uploads, and an  *)
(* ingest takes the results that are done by then.                               *)
(*                                                                               *)
(* Uploads, ingests and deletions of one project exclude each other by its lock; *)
(* an upload hands its files over after it has let the lock go, and the          *)
(* prefetcher has a lock of its own.  A result is named by the call it is the    *)
(* result of: prepare_file is a function of the path, the bytes and the          *)
(* language (FilePreparation), the thresholds and the recursion limit do not     *)
(* change while the server runs.  Of the age of entries the code only uses that  *)
(* the oldest come first: they are a set here, and the worker may take them in   *)
(* any order.                                                                    *)
EXTENDS Integers, Sequences, FiniteSetsExt, Languages

CONSTANTS
    Project,
    Path,           \* paths of each project
    Suffix,         \* their suffixes
    Content,        \* contents a file can have, hashed with its path
    Size,           \* their sizes
    MaxHeld,        \* max_source_bytes
    Batch,          \* the files an upload can bring: sequences of [path, content]
    NoContent,
    MaxUploads,     \* bound on uploads
    MaxStops,       \* bound on ends of the worker process, deletions and shutdowns
    MaxAge          \* bound on the clock, in lifetimes of an entry

ASSUME PrefetchConstants ==
    /\ Size \in [Content -> Nat] /\ MaxHeld \in Nat
    /\ Batch \subseteq Seq([path : Path, content : Content])
    /\ NoContent \notin Content
    /\ MaxUploads \in Nat /\ MaxStops \in Nat /\ MaxAge \in Nat

VARIABLES
    mirror,     \* project -> path -> the content uploaded last
    changed,    \* project -> paths its next ingest takes
    languages,  \* project -> the languages its index has seen
    ingest,     \* project -> [todo, cpp, used]: the ingest that runs, or NoIngest
    handing,    \* [project, files]: uploads about to be handed over
    entries,    \* the prefetched files: [key, call, size, at, state]
    heldBytes,
    executor,   \* "none", "up" or "broken"
    closed,
    clock,
    uploads, stops

prefetchVars == <<mirror, changed, languages, ingest, handing, entries, heldBytes, executor,
                  closed, clock, uploads, stops>>
project == <<mirror, changed, languages, ingest>>
store == <<entries, heldBytes, executor, closed>>
limits == <<clock, uploads, stops>>

NoIngest == [todo |-> {}, cpp |-> FALSE, used |-> {}, runs |-> FALSE]

PrefetchInit ==
    /\ mirror = [p \in Project |-> [f \in Path |-> NoContent]]
    /\ changed = [p \in Project |-> {}]
    /\ languages = [p \in Project |-> {}]
    /\ ingest = [p \in Project |-> NoIngest]
    /\ handing = {} /\ entries = {} /\ heldBytes = 0
    /\ executor = "up" /\ closed = FALSE
    /\ clock = 0 /\ uploads = MaxUploads /\ stops = MaxStops

--------------------------------------------------------------------------------
(* The store, under its lock.                                                    *)

Call(f, content, language) == [path |-> f, content |-> content, language |-> language]

\* Mutant: the result for any language is taken.
KeyWithoutLanguage(p, f, content, language) == [project |-> p, path |-> f, hash |-> content]

\* The key of an entry; the hash of a blob is one of its path and content.
Key(p, f, content, language) ==
    [project |-> p, path |-> f, hash |-> content, language |-> language]

\* The bytes of the files that entries are of, and how many they are.
BytesOf(some) == UNION {{e.key} \X (1..e.size) : e \in some}
Sizes(some) == Cardinality(BytesOf(some))

\* _drop: a task that runs is not stopped, its result is lost.
Drop(some) ==
    /\ entries' = entries \ some
    /\ heldBytes' = heldBytes - Sizes(some)

Discard(p) == Drop({e \in entries : e.key.project = p})

\* _expire.
Expired == {e \in entries : clock # e.at}
Fresh == entries \ Expired

Entry(p, file) ==
    LET language == Detect(Suffix[file.path]) IN
    [key |-> Key(p, file.path, file.content, language), size |-> Size[file.content], at |-> clock,
     call |-> Call(file.path, file.content, language), state |-> "waiting"]

\* The entries the first n files of an upload add; what is held already stays.
Added(h, n) ==
    {e \in {Entry(h.project, h.files[i]) : i \in 1..n} : \A held \in Fresh : held.key # e.key}
HeldWith(h, n) == heldBytes - Sizes(Expired) + Sizes(Added(h, n))

--------------------------------------------------------------------------------
(* Requests.                                                                     *)

\* What the paths of a project hold after a batch.
Written(contents, batch) ==
    [f \in Path |->
        LET at == {i \in DOMAIN batch : batch[i].path = f} IN
        IF at = {} THEN contents[f] ELSE batch[Max(at)].content]

\* batch_upload: the blobs are written under the project's lock ...
Upload(p, batch) ==
    /\ uploads > 0 /\ ~ingest[p].runs
    /\ mirror' = [mirror EXCEPT ![p] = Written(@, batch)]
    /\ changed' = [changed EXCEPT ![p] = @ \cup {batch[i].path : i \in DOMAIN batch}]
    /\ handing' = handing \cup {[project |-> p, files |-> batch]}
    /\ uploads' = uploads - 1
    /\ UNCHANGED <<languages, ingest, store, clock, stops>>

\* ... and handed over when it is free again (submit): files are added until one
\* does not fit, or the executor is found broken by the first.
Submit(h) ==
    /\ h \in handing
    /\ handing' = handing \ {h}
    /\ IF closed THEN UNCHANGED store
       ELSE \E n \in 0..Len(h.files) :
            /\ HeldWith(h, n) <= MaxHeld
            /\ n < Len(h.files) => HeldWith(h, n + 1) > MaxHeld
            /\ IF executor = "broken" /\ Added(h, n) # {}
               THEN /\ Drop(Expired) /\ executor' = "none"
               ELSE /\ entries' = Fresh \cup Added(h, n) /\ heldBytes' = HeldWith(h, n)
                    /\ executor' = IF executor = "none" THEN "up" ELSE executor
            /\ UNCHANGED closed
    /\ UNCHANGED <<project, limits>>

Waiting == {e \in entries : e.state = "waiting"}
Ended(some, state) == {[e EXCEPT !.state = state] : e \in some}

\* The worker process prepares a file.
Prepare(e) ==
    /\ executor = "up" /\ e \in Waiting
    /\ entries' = (entries \ {e}) \cup Ended({e}, "done")
    /\ UNCHANGED <<project, handing, heldBytes, executor, closed, limits>>

\* The worker process ends: what it had not done raises.
WorkerEnds ==
    /\ executor = "up" /\ stops > 0
    /\ executor' = "broken"
    /\ entries' = (entries \ Waiting) \cup Ended(Waiting, "failed")
    /\ stops' = stops - 1
    /\ UNCHANGED <<project, handing, heldBytes, closed, clock, uploads>>

Tick ==
    /\ clock < MaxAge /\ entries # {}
    /\ clock' = clock + 1
    /\ UNCHANGED <<project, handing, store, uploads, stops>>

--------------------------------------------------------------------------------
(* The ingest of a project, under the project's lock.                            *)

Seen(p) == languages[p] \cup {Detect(Suffix[f]) : f \in changed[p]}

BeginIngest(p) ==
    /\ ~ingest[p].runs /\ changed[p] # {}
    /\ ingest' = [ingest EXCEPT ![p] = [todo |-> changed[p], cpp |-> "cpp" \in Seen(p),
                                        used |-> {}, runs |-> TRUE]]
    /\ UNCHANGED <<mirror, changed, languages, handing, store, limits>>

\* _index_file with _take: a result that is done is used, anything else is
\* prepared here.
TakeFile(p, f) ==
    /\ f \in ingest[p].todo
    /\ LET content == mirror[p][f]
           language == LanguageFor(Suffix[f], ingest[p].cpp)
           hits == {e \in entries : e.key = Key(p, f, content, language)}
           done == {e \in hits : e.state = "done"}
           result == IF done = {} THEN Call(f, content, language)
                     ELSE (CHOOSE e \in done : TRUE).call
       IN  /\ Drop(hits)
           /\ ingest' = [ingest EXCEPT ![p].todo = @ \ {f}, ![p].used = @ \cup {result}]
    /\ UNCHANGED <<mirror, changed, languages, handing, executor, closed, limits>>

\* It ends, with an error or not, and closes its view of the prefetcher.
EndIngest(p) ==
    /\ ingest[p].runs
    /\ \/ /\ ingest[p].todo = {}
          /\ changed' = [changed EXCEPT ![p] = {}]
          /\ languages' = [languages EXCEPT ![p] = Seen(p)]
       \/ UNCHANGED <<changed, languages>>
    /\ ingest' = [ingest EXCEPT ![p] = NoIngest]
    /\ Discard(p)
    /\ UNCHANGED <<mirror, handing, executor, closed, limits>>

\* delete_project, when its indexer has stopped.
Delete(p) ==
    /\ stops > 0 /\ ~ingest[p].runs
    /\ mirror' = [mirror EXCEPT ![p] = [f \in Path |-> NoContent]]
    /\ changed' = [changed EXCEPT ![p] = {}]
    /\ languages' = [languages EXCEPT ![p] = {}]
    /\ Discard(p)
    /\ stops' = stops - 1
    /\ UNCHANGED <<ingest, handing, executor, closed, clock, uploads>>

\* The server shuts down; an ingest may still run.
Close ==
    /\ stops > 0 /\ ~closed
    /\ closed' = TRUE
    /\ Drop(entries)
    /\ executor' = "none"
    /\ stops' = stops - 1
    /\ UNCHANGED <<project, handing, clock, uploads>>

PrefetchNext ==
    \/ \E p \in Project, b \in Batch : Upload(p, b)
    \/ \E h \in handing : Submit(h)
    \/ \E e \in entries : Prepare(e)
    \/ WorkerEnds
    \/ Tick
    \/ \E p \in Project : \/ BeginIngest(p)
                          \/ \E f \in Path : TakeFile(p, f)
                          \/ EndIngest(p)
                          \/ Delete(p)
    \/ Close

PrefetchSpec == PrefetchInit /\ [][PrefetchNext]_prefetchVars

\* What an ingest uses of a file is what it would have prepared itself, from the
\* bytes it was given and in the language the whole project decides, whatever was
\* prefetched, expired, discarded or lost before; and what the prefetcher counts
\* against its limit is what it holds (prepare.py:24-25).
PrefetchIsInvisible ==
    /\ \A p \in Project : \A r \in ingest[p].used :
          r = Call(r.path, mirror[p][r.path], LanguageFor(Suffix[r.path], ingest[p].cpp))
    /\ heldBytes = Sizes(entries) /\ heldBytes <= MaxHeld

================================================================================
