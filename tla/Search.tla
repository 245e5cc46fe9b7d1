--------------------------------- MODULE Search --------------------------------
(***************************************************************************)
(* Engine.search_with_trace: recall, expand, rerank, assemble, look for    *)
(* gaps, assemble again.  A search takes no lock and reads the index       *)
(* statement by statement: an ingest may delete or add the rows of a file  *)
(* between any two of its steps.                                           *)
(*                                                                         *)
(* The query's vector comes from a cache that outlives the search, or from *)
(* a thread the search waits for until a time limit.  A thread that missed *)
(* it goes on, and stores its vector whenever the answer comes.            *)
(***************************************************************************)
EXTENDS GapPlan

CONSTANTS
    Queries,     \* what may be asked, with what the channels match
    Caps,        \* the token budgets a caller may give
    Files,       \* the sets of chunks an ingest deletes or adds
    Models,      \* the embedding models
    MaxSearches, MaxIngests, MaxSwitches,
    CacheSize    \* entries of the query cache

\* The engine refuses a budget that is not positive.
ASSUME SearchAssumption ==
    /\ CacheSize \in Nat \ {0} /\ Caps \subseteq Nat \ {0}
    /\ \A file \in Files : file \subseteq Chunk

VARIABLES
    model,     \* the engine's provider
    cache,     \* the query cache, oldest entry first: [model, query, maker, late]
    cacheModel,\* the model the cache is bound to
    threads,   \* embedding calls nobody waits for: [query, model]
    phase, query, searchModel, channels, ranked, degraded,
    gaps,      \* the groups of the gap check and what was planned of each
    spent      \* how many searches, ingests and switches there were

index == <<live, gone>>
cacheVars == <<cache, cacheModel, threads>>
search == <<phase, query, searchModel, channels, ranked, degraded, gaps>>
searchVars == <<packVars, gone, model, cacheVars, search, spent>>

NoChannels == [k \in Channel |-> <<>>]
NoGaps == [groups |-> <<>>, plan |-> <<>>]
NoQuery == [symbols |-> <<>>, inferred |-> <<>>]

SearchIdle ==
    /\ phase = "idle" /\ query = NoQuery /\ searchModel = model /\ channels = NoChannels
    /\ ranked = <<>> /\ degraded = FALSE /\ gaps = NoGaps
    /\ hardCap = 0 /\ pool = <<>> /\ backfill = <<>> /\ reserve = 0 /\ flow = 0 /\ stale = {}
    /\ stage = "done" /\ cursor = 1 /\ reserved = NoSlot /\ slots = <<>> /\ placed = {}
    /\ acc = NoSums /\ cuts = NoCuts /\ pack = NoPack

SearchInit ==
    /\ gone \in {{}} \cup Files /\ live \in {Chunk \ gone} \cup {Chunk \ (gone \cup f) : f \in Files}
    /\ model \in Models /\ cache = <<>> /\ cacheModel = "none" /\ threads = {}
    /\ SearchIdle
    /\ spent = [searches |-> 0, ingests |-> 0, switches |-> 0]

Spend(field) == spent' = [spent EXCEPT ![field] = @ + 1]

--------------------------------------------------------------------------------
(* The query cache.                                                        *)

\* Mutant: the cache is bound once.
IdentityOnce == IF cacheModel = "none" THEN model ELSE cacheModel

\* _bind_query_cache_identity: the cache is bound to the provider of the engine.
Identity == model

\* bind_identity: another model empties the cache.
Bound(entries) == IF cacheModel = Identity THEN entries ELSE <<>>

Key(q) == [model |-> cacheModel, query |-> q]
KeyOf(entry) == [model |-> entry.model, query |-> entry.query]
Cached(q) == \E i \in DOMAIN cache : KeyOf(cache[i]) = Key(q)

\* QueryEmbeddingCache.put, under the model the cache is bound to by now.
Put(q, maker, late) ==
    LET entry == [model |-> cacheModel, query |-> q, maker |-> maker, late |-> late]
    IN  IF Cached(q) THEN [i \in DOMAIN cache |-> IF KeyOf(cache[i]) = Key(q) THEN entry ELSE cache[i]]
        ELSE Append(IF Len(cache) >= CacheSize THEN Tail(cache) ELSE cache, entry)

\* QueryEmbeddingCache.get finds an entry that is too old.
Expire ==
    /\ phase = "embedding"
    /\ \E k \in DOMAIN cache : KeyOf(cache[k]) = Key(query) /\ cache' = RemoveAt(cache, k)
    /\ UNCHANGED <<packVars, gone, model, cacheModel, threads, search, spent>>

--------------------------------------------------------------------------------
(* Recall.                                                                 *)

\* _open_project binds the cache; the channels that need no vector are read.
Search(q, cap) ==
    /\ phase = "idle" /\ spent.searches < MaxSearches /\ Spend("searches")
    /\ cache' = Bound(cache) /\ cacheModel' = Identity
    /\ phase' = "embedding" /\ query' = q /\ hardCap' = cap /\ searchModel' = model
    /\ channels' = RecallText(q) /\ degraded' = FALSE
    /\ UNCHANGED <<live, gone, model, threads, ranked, gaps, pool, backfill, reserve, flow, stale,
                   assembly, pack>>

VectorHits ==
    /\ phase' = "rank" /\ channels' = [channels EXCEPT !["vector"] = RecallVector(query.vector)]
    /\ UNCHANGED <<packVars, gone, model, query, searchModel, ranked, degraded, gaps, spent>>

FromCache ==
    /\ phase = "embedding" /\ Cached(query)
    /\ VectorHits /\ UNCHANGED cacheVars

\* embed_query: the answer came in time.
Embed ==
    /\ phase = "embedding" /\ ~Cached(query)
    /\ cache' = Put(query, searchModel, FALSE) /\ VectorHits /\ UNCHANGED <<cacheModel, threads>>

VectorDegraded ==
    /\ phase = "embedding" /\ ~Cached(query)
    /\ phase' = "rank" /\ degraded' = TRUE
    /\ UNCHANGED <<packVars, gone, model, query, searchModel, channels, ranked, gaps, spent, cache, cacheModel>>

EmbedFails == VectorDegraded /\ UNCHANGED threads

\* _call_with_timeout: the thread cannot be cancelled once it runs.
EmbedTimesOut == VectorDegraded /\ threads' = threads \cup {[query |-> query, model |-> searchModel]}

LateAnswer(t) ==
    /\ threads' = threads \ {t}
    /\ cache' \in {cache, Put(t.query, t.model, TRUE)}
    /\ UNCHANGED <<packVars, gone, model, cacheModel, search, spent>>

--------------------------------------------------------------------------------
(* Ranking, the two assemblies and the gap check between them.             *)

Rank ==
    /\ phase = "rank" /\ phase' = "first"
    /\ LET found == Merge(channels, query)
       IN  ranked' = Rerank(query, found \o Expand(query, found)) /\ flow' = FlowTokens(query, found)
    /\ stale' = StaleSpecs
    /\ Assemble(ranked', <<>>, 0)
    /\ UNCHANGED <<live, gone, hardCap, model, cacheVars, query, searchModel, channels, degraded, gaps, spent>>

AssemblePack ==
    /\ phase \in {"first", "second"} /\ AssembleStep
    /\ UNCHANGED <<gone, model, cacheVars, search, spent>>

\* _backfill_gaps: the missing candidates are ranked again with all the others.
AssembleAgain(missing) ==
    /\ ranked' = Rerank(query, ranked \o missing)
    /\ Assemble(ranked', [i \in DOMAIN missing |-> [cand |-> missing[i]]], BackfillReserve(hardCap))

Backfill(groups) ==
    /\ groups # <<>>
    /\ gaps' = [groups |-> groups, plan |-> PlanGaps(groups)]
    /\ AssembleAgain(BackfillOrder(query, ranked, gaps'.plan))

FillGaps ==
    /\ phase = "first" /\ stage = "done" /\ phase' = "second"
    /\ stale' = StaleSpecs
    /\ Backfill(AllGroups(query, ranked))
    /\ UNCHANGED <<live, gone, hardCap, flow, model, cacheVars, query, searchModel, channels, degraded, spent>>

\* A search that is over leaves nothing behind but the cache.
Answer ==
    /\ stage = "done"
    /\ phase = "second" \/ (phase = "first" /\ AllGroups(query, ranked) = <<>>)
    /\ phase' = "idle" /\ query' = NoQuery /\ searchModel' = model /\ channels' = NoChannels
    /\ ranked' = <<>> /\ degraded' = FALSE /\ gaps' = NoGaps
    /\ hardCap' = 0 /\ pool' = <<>> /\ backfill' = <<>> /\ reserve' = 0 /\ flow' = 0 /\ stale' = {}
    /\ stage' = "done" /\ cursor' = 1 /\ reserved' = NoSlot /\ slots' = <<>> /\ placed' = {}
    /\ acc' = NoSums /\ cuts' = NoCuts /\ pack' = NoPack
    /\ UNCHANGED <<live, gone, model, cacheVars, spent>>

--------------------------------------------------------------------------------
(* Beside the searches.                                                    *)

\* One write transaction of an ingest: the rows of a file go, or come.
Ingest(file) ==
    /\ spent.ingests < MaxIngests /\ Spend("ingests")
    /\ \/ /\ file \subseteq live
          /\ live' = live \ file /\ gone' = gone \cup file
       \/ /\ file \cap (live \cup gone) = {}
          /\ live' = live \cup file /\ gone' = gone
    /\ UNCHANGED <<inputs, assembly, pack, model, cacheVars, search>>

SwitchModel ==
    /\ spent.switches < MaxSwitches /\ Spend("switches")
    /\ \E m \in Models \ {model} : model' = m
    /\ searchModel' = IF phase = "idle" THEN model' ELSE searchModel
    /\ UNCHANGED <<packVars, gone, cacheVars, phase, query, channels, ranked, degraded, gaps>>

SearchNext ==
    \/ \E q \in Queries, cap \in Caps : Search(q, cap)
    \/ Expire \/ FromCache \/ Embed \/ EmbedFails \/ EmbedTimesOut
    \/ \E t \in threads : LateAnswer(t)
    \/ Rank \/ AssemblePack \/ FillGaps \/ Answer
    \/ \E file \in Files : Ingest(file)
    \/ SwitchModel

SearchSpec == SearchInit /\ [][SearchNext]_searchVars

--------------------------------------------------------------------------------
(* Properties.                                                             *)

\* The account of a pack is the sum over its items, in every step, whatever was
\* merged, cut short or noted: `used`, the share of the documents and the share
\* of each file are never off (Module/03: usedTokens is what the pack costs), and
\* what has been placed is what the items hold, in segments that are in order and
\* apart.
AccountsMatch ==
    LET Cost(s) == Tokens(s)
        SpecCost(s) == IF IsSpec(s.cand) THEN Tokens(s) ELSE 0
    IN  /\ acc.used = Budget.overhead + Sum(Cost, slots)
        /\ acc.spec = Sum(SpecCost, slots)
        /\ \A p \in Path : acc.file[p] = Sum(LAMBDA s : IF s.cand.path = p THEN Tokens(s) ELSE 0, slots)
        /\ placed = UNION {slots[i].ids : i \in DOMAIN slots}
        /\ \A i \in DOMAIN slots : \A k \in DOMAIN slots[i].segments :
              LET s == slots[i].segments
              IN  s[k].start <= s[k].end /\ (k > 1 => s[k].start > s[k - 1].end + 1)

\* The budgets hold but for the notes that count further chunks of a symbol:
\* the hard cap, the documents' share beside code and the specification floor,
\* the backfill's own share; and until the floors, what the second assembly
\* keeps for the backfill is still there.
Budgets ==
    LET notes == Cardinality({i \in DOMAIN slots : slots[i].note = "aggregated"})
        floor == IF reserved = NoSlot THEN 0 ELSE Tokens(reserved)
    IN  phase \in {"first", "second"} =>
        /\ acc.used <= Larger(hardCap, Budget.overhead) + notes
        /\ HasCode => acc.spec <= DocsCap + floor + notes
        /\ acc.backfill <= BackfillCap
        /\ stage = "greedy" => acc.used <= Larger(hardCap - reserve, Budget.overhead) + notes

\* Nothing is left out in silence.  A candidate whose row is still there is in
\* the pack, or stands behind an item of its symbol, or the pack says that the
\* candidates were cut; and of a chunk in the pack each line is shown, or lies
\* where a note tells of lines that are not (but for the end of a chunk that
\* was cut short and then merged, whose note the merge drops).
CandidatesTold ==
    (phase \in {"first", "second"} /\ stage = "done") =>
        \A c \in ToSet(pool) :
            \/ c.id \in placed \/ c.id \notin live \/ SymbolSlot(c) # 0
            \/ "retrieval_truncated" \in pack.missing

LinesTold ==
    \A i \in DOMAIN slots : \A c \in slots[i].ids :
        LET s == slots[i]
            Said(line) == line >= Head(s.segments).start /\ line <= s.upper
        IN  s.tailLost \/ \A line \in Corpus[c].start .. Corpus[c].end : Said(line)

NothingUnsaid == CandidatesTold /\ LinesTold

\* A vector in the query cache was made by the model it is filed under, so a
\* change of the model never compares vectors of two models: but for a thread
\* that answered after its search had given up.
CacheOfModel == \A e \in ToSet(cache) : e.late \/ e.maker = e.model

\* The gap check shares its total: no group is shut out by the length of
\* another one, and what is planned was found by the first round.
EveryGapServed ==
    LET n == Len(gaps.groups) IN
    /\ n <= GapLimits.total => \A g \in 1..n : gaps.plan[g].ids # <<>>
    /\ \A g, h \in 1..n :
          Len(gaps.plan[g].ids) > Len(gaps.plan[h].ids) + 1 => gaps.plan[h].ids = gaps.groups[h].ids
    /\ n > 0 => Planned(gaps.plan) \subseteq {c.id : c \in ToSet(ranked)}

================================================================================
