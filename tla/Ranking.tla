--------------------------------- MODULE Ranking -------------------------------
(***************************************************************************)
(* How the candidates of a search are found and put in order               *)
(* (retrieval/): five channels, reciprocal rank fusion, one step along the *)
(* graph, a score of named features.                                       *)
(*                                                                         *)
(* A score is an integer, 10000 to the point.  What a text matches is      *)
(* given with the query: `phrases`, `bm25` and `vector` are hits in order. *)
(***************************************************************************)
EXTENDS ContextPack

CONSTANTS
    Limits  \* RecallLimits, ExpansionLimits

ASSUME RankingAssumption == Limits.flowNodes \in Nat \ {0} /\ Limits.flowSeeds \in Nat

VARIABLES
    gone    \* chunks whose rows were deleted: references to them are stale

Take(s, n) == SubSeq(s, 1, Smaller(n, Len(s)))
Distinct(s) == FoldLeft(LAMBDA seen, x : IF x \in ToSet(seen) THEN seen ELSE Append(seen, x), <<>>, s)
FlatMap(f(_), s) == FlattenSeq([i \in DOMAIN s |-> f(s[i])])
InIndex(s) == SelectSeq(s, LAMBDA c : c \in live)

--------------------------------------------------------------------------------
(* The index, as the channels read it.                                     *)

NameOf(fqn) == Last(fqn)
HasSymbol(c) == Corpus[c].kind \in {"code", "test"} /\ Corpus[c].fqn # <<>>
Exported(c) == "exported" \in Corpus[c].marks

SymbolsNamed(name) == {c \in live : HasSymbol(c) /\ name \in {Corpus[c].fqn, <<NameOf(Corpus[c].fqn)>>}}

\* Exported first, then the qualified name, then where they are.
ExactSymbols(name) ==
    LET Before(a, b) ==
            IF Exported(a) # Exported(b) THEN Exported(a)
            ELSE IF (Corpus[a].fqn = name) # (Corpus[b].fqn = name) THEN Corpus[a].fqn = name
            ELSE a < b
    IN  SetToSortSeq(SymbolsNamed(name), Before)

\* _symbol_row: the chunk of a qualified name, as a sequence of none or one.
SymbolRow(fqn) == Take(SelectSeq(ExactSymbols(fqn), LAMBDA c : Corpus[c].fqn = fqn), 1)
HasRow(fqn) == \E c \in live : HasSymbol(c) /\ Corpus[c].fqn = fqn

\* edges_for: the symbols that call one.
CallersOf(fqn) ==
    SetToSortSeq({c \in live : HasSymbol(c) /\ fqn \in ToSet(Corpus[c].calls)}, <)
CalleesOf(fqn) == FlatMap(LAMBDA c : Corpus[c].calls,
                          SelectSeq(ExactSymbols(fqn), LAMBDA c : Corpus[c].fqn = fqn))

\* _stale_spec_chunk_ids: a block with a reference to a symbol that was deleted.
StaleSpecs == {c \in live : ToSet(Corpus[c].refs) \cap gone # {}}

\* reexport_sources, chunk_covering: the narrowest chunk on the first line of a file.
ReexportSources(name) == {Corpus[c].path : c \in {d \in live : name \in Corpus[d].reexports}}
ChunkForFile(path) ==
    Take(SetToSortSeq({c \in live : Corpus[c].path = path /\ Corpus[c].start <= 1},
                      LAMBDA a, b : Corpus[a].end < Corpus[b].end
                                    \/ (Corpus[a].end = Corpus[b].end /\ a < b)), 1)

--------------------------------------------------------------------------------
(* The channels.                                                           *)

\* recall_explicit, recall_inferred
RecallExplicit(names) == Take(Distinct(FlatMap(ExactSymbols, names)), Limits.explicit)
RecallInferred(names) == Take(Distinct(FlatMap(ExactSymbols, names)), Limits.inferred)

\* recall_literal: each phrase is [strong, hits].
RecallLiteral(phrases) ==
    Take(Distinct(FlatMap(LAMBDA phrase : InIndex(phrase.hits), phrases)), Limits.literal)
FoundBy(phrases, c) == phrases[SelectInSeq(phrases, LAMBDA phrase : c \in ToSet(phrase.hits))]

RecallBm25(hits) == Take(InIndex(hits), Limits.bm25)
RecallVector(hits) == Take(InIndex(hits), Limits.vector)

Channel == {"exact", "literal", "inferred", "bm25", "vector"}
RecallText(query) ==
    [exact |-> RecallExplicit(query.symbols), literal |-> RecallLiteral(query.phrases),
     inferred |-> RecallInferred(query.inferred), bm25 |-> RecallBm25(query.bm25),
     vector |-> <<>>]

--------------------------------------------------------------------------------
(* Fusion.                                                                 *)

RankIn(channels, k, c) == SelectInSeq(channels[k], LAMBDA d : d = c)
FoundIn(channels, c) == {k \in Channel : c \in ToSet(channels[k])}

\* reciprocal_rank, times the scale of the rerank base
ReciprocalRank(rank) == 250000 \div (60 + rank)
RrfScore(channels, c) ==
    FoldSet(LAMBDA k, sum : sum + ReciprocalRank(RankIn(channels, k, c)), 0, FoundIn(channels, c))

\* _entry_sort_key
EntryBefore(channels, a, b) ==
    LET BestRank(c) == Min({RankIn(channels, k, c) : k \in FoundIn(channels, c)})
        Key(c) == <<-RrfScore(channels, c), -Cardinality(FoundIn(channels, c)), BestRank(c), c>>
    IN  Lexicographic(Key(a), Key(b))

Tier(channels, query, c) ==
    LET Of(k) == CASE k = "exact" -> 0
                   [] k = "literal" -> IF FoundBy(query.phrases, c).strong THEN 0 ELSE 1
                   [] k \in {"inferred", "bm25"} -> 1
                   [] k = "vector" -> 2
    IN  Min({Of(k) : k \in FoundIn(channels, c)})

Reasons(channels, query, c) ==
    (IF c \notin ToSet(channels["literal"]) THEN {}
     ELSE IF FoundBy(query.phrases, c).strong THEN {"explicit literal"} ELSE {"literal root"})
    \cup (IF c \in ToSet(channels["inferred"]) THEN {"inferred symbol"} ELSE {})

\* _enrich: what the row says.
FromRow(c) == [id |-> c, path |-> Corpus[c].path, fqn |-> Corpus[c].fqn, kind |-> Corpus[c].kind]

\* _apply_explicit_paths
Named(query, path) == path \in query.paths

Merged(channels, query, c) ==
    FromRow(c) @@
    [tier |-> IF Named(query, Corpus[c].path) THEN 0 ELSE Tier(channels, query, c),
     rrf |-> RrfScore(channels, c), score |-> RrfScore(channels, c),
     channels |-> FoundIn(channels, c), vectorRank |-> RankIn(channels, "vector", c),
     reasons |-> Reasons(channels, query, c)
                 \cup IF Named(query, Corpus[c].path) THEN {"explicit path"} ELSE {},
     parent |-> 0]

Merge(channels, query) ==
    LET found == UNION {ToSet(channels[k]) : k \in Channel}
        entries == SetToSortSeq(found, LAMBDA a, b : EntryBefore(channels, a, b))
        kept == InIndex(Take(entries, Limits.pool))
    IN  [i \in DOMAIN kept |-> Merged(channels, query, kept[i])]

--------------------------------------------------------------------------------
(* Expansion: one step from the best seeds.                                *)

\* _callee_rank: a private helper of the repository, another symbol of it,
\* a name from outside.
CalleeRank(query, fqn) ==
    IF ~HasRow(fqn) THEN 2 ELSE IF NameOf(fqn) \in query.private THEN 0 ELSE 1

Callees(query, fqn) ==
    SortSeq(CalleesOf(fqn), LAMBDA a, b : CalleeRank(query, a) < CalleeRank(query, b))

\* _caller_sort_key: of too many callers, entry points and exported ones.
Callers(fqn) ==
    LET all == CallersOf(fqn)
        Entry(c) == Exported(c) /\ CallersOf(Corpus[c].fqn) = <<>>
        Before(a, b) == IF Entry(a) # Entry(b) THEN Entry(a)
                        ELSE IF Exported(a) # Exported(b) THEN Exported(a) ELSE a < b
    IN  IF Len(all) <= Limits.callerThreshold THEN all
        ELSE Take(SortSeq(all, Before), Limits.callerCap)

\* _candidate_from_chunk
Expanded(c, seed, why) ==
    FromRow(c) @@ [tier |-> 3, rrf |-> 0, score |-> 0, channels |-> {}, vectorRank |-> 0,
                   reasons |-> {"graph"} \cup why, parent |-> seed.id]

ReexportSites(seed) ==
    FlatMap(ChunkForFile, SetToSortSeq(ReexportSources(NameOf(seed.fqn)),
                                       LAMBDA p, q : Min({c \in Chunk : Corpus[c].path = p})
                                                     < Min({c \in Chunk : Corpus[c].path = q})))

SpecsOf(seed) ==
    SetToSortSeq({c \in live : seed.id \in ToSet(Corpus[c].refs)}, <)

\* _expand_code_seed, _expand_spec_seed
Neighbours(query, seed) ==
    LET With(ids, why) == [i \in DOMAIN ids |-> Expanded(ids[i], seed, why)] IN
    IF IsSpec(seed) THEN With(InIndex(Corpus[seed.id].refs), {})
    ELSE IF seed.fqn = <<>> THEN <<>>
    ELSE With(ReexportSites(seed), {"re-export site"})
         \o With(FlatMap(SymbolRow, Callees(query, seed.fqn)), {})
         \o With(FlatMap(SymbolRow, [i \in DOMAIN Callers(seed.fqn) |-> Corpus[Callers(seed.fqn)[i]].fqn]), {})
         \o With(SpecsOf(seed), {})

Seeds(cands) == Take(SortSeq(cands, ScoreBefore), Limits.seeds)

Expand(query, cands) ==
    LET Known(list, c) == \E d \in ToSet(cands \o list) : d.id = c.id
        Add(list, c) == IF Known(list, c) \/ Len(list) >= Limits.expanded THEN list ELSE Append(list, c)
    IN  FoldLeft(Add, <<>>, FlatMap(LAMBDA seed : Neighbours(query, seed), Seeds(cands)))

\* _walk_callees: always the first callee that has a row and is not in the chain.
WalkCallees(query, fqn) ==
    LET Next(chain) ==
            LET callees == Callees(query, Last(chain))
                k == FirstWhere(callees, LAMBDA f : HasRow(f) /\ f \notin ToSet(chain))
            IN  IF k = 0 THEN chain ELSE Append(chain, callees[k])
        chain[n \in 1 .. Limits.flowNodes] == IF n = 1 THEN <<fqn>> ELSE Next(chain[n - 1])
    IN  IF HasRow(fqn) THEN chain[Limits.flowNodes] ELSE <<>>

\* build_flows: the chains of the first seeds that are code; a node costs its
\* symbol and its path.
FlowTokens(query, cands) ==
    LET seeds == Seeds(cands)
        Cost(chain) == IF Len(chain) < 2 THEN 0 ELSE 2 * Len(chain)
    IN  Total([i \in 1 .. Limits.flowSeeds |->
                   IF i \in DOMAIN seeds /\ ~IsSpec(seeds[i]) /\ seeds[i].fqn # <<>>
                   THEN Cost(WalkCallees(query, seeds[i].fqn)) ELSE 0])

--------------------------------------------------------------------------------
(* Rerank: features and their weights.                                     *)

\* chunks_with_marker
ChunksWithMarker(ids) == {c \in ids \cap live : "deprecated" \in Corpus[c].marks}

\* _deprecated_chunk_ids: the other chunks of a marked symbol count too.
Deprecated(cands, c) ==
    \E d \in ToSet(cands) :
        /\ d.id \in ChunksWithMarker({e.id : e \in ToSet(cands)})
        /\ d.id = c.id \/ (d.path = c.path /\ d.fqn = c.fqn /\ c.fqn # <<>>)

\* is_test_intent, _query_names_test_symbol
TestIntent(query) ==
    query.testIntent
    \/ \E i \in DOMAIN (query.symbols \o query.inferred) :
          \E c \in ToSet(ExactSymbols((query.symbols \o query.inferred)[i])) : Corpus[c].kind = "test"

\* collect_signals
Signals(query, cands) ==
    [top |-> IF cands = <<>> THEN 0 ELSE SortSeq(cands, ScoreBefore)[1].id,
     symbols |-> ToSet(query.symbols \o query.inferred),
     deprecated |-> {c.id : c \in {d \in ToSet(cands) : Deprecated(cands, d)}},
     exported |-> {c.id : c \in {d \in ToSet(cands) : \E s \in live :
                                     HasSymbol(s) /\ Corpus[s].fqn = d.fqn /\ Exported(s)}},
     stale |-> StaleSpecs, testIntent |-> TestIntent(query)]

\* features, and RerankWeights
Features(c, signals) ==
    {<<"explicit", IF "exact" \in c.channels \/ "explicit path" \in c.reasons THEN 20000 ELSE 0>>,
     <<"literal", IF "explicit literal" \in c.reasons THEN 10000 ELSE 0>>,
     <<"root", IF "literal root" \in c.reasons THEN 4000 ELSE 0>>,
     <<"symbol", IF c.fqn # <<>> /\ {c.fqn, <<NameOf(c.fqn)>>} \cap signals.symbols # {}
                 THEN 10000 ELSE 0>>,
     <<"consensus", IF Cardinality(c.channels) >= 3 THEN 5000 ELSE 0>>,
     <<"vector", IF c.vectorRank \in 1..8 THEN 15000 ELSE IF c.vectorRank \in 9..10 THEN 7000 ELSE 0>>,
     <<"graph", IF c.parent # 0 /\ c.parent = signals.top THEN 5000 ELSE 0>>,
     <<"doctype", IF IsSpec(c) /\ "design" \in Corpus[c.id].marks THEN 8000 ELSE 0>>,
     <<"entry", IF c.id \in signals.exported THEN 2000 ELSE 0>>,
     <<"generated", IF "generated" \in Corpus[c.id].marks THEN -10000 ELSE 0>>,
     <<"deprecated", IF c.id \in signals.deprecated THEN -3500 ELSE 0>>,
     <<"test", IF c.kind = "test" /\ ~signals.testIntent THEN -15000 ELSE 0>>,
     <<"stale", IF c.id \in signals.stale THEN -8000 ELSE 0>>,
     <<"fallback", IF c.kind = "fallback" THEN -5000 ELSE 0>>}

Scored(c, signals) ==
    [c EXCEPT !.score = c.rrf + FoldSet(LAMBDA feature, sum : sum + feature[2], 0, Features(c, signals))]

Rerank(query, cands) ==
    LET signals == Signals(query, cands)
        scored == [i \in DOMAIN cands |-> Scored(cands[i], signals)]
    IN  SortSeq(scored, ScoreBefore)

================================================================================
