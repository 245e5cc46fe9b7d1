--------------------------------- MODULE GapPlan -------------------------------
(***************************************************************************)
(* The gap check between the two assemblies of a search (retrieval/gap.py, *)
(* Engine._backfill_gaps): what the pack's anchors imply, the pool holds   *)
(* and the pack does not.  Four rules, then turns between their groups     *)
(* until the total is reached.                                             *)
(***************************************************************************)
EXTENDS Ranking

CONSTANTS
    GapLimits  \* GapLimits: containers, members, anchors, refs, callees, total

ASSUME GapAssumption == \A field \in DOMAIN GapLimits : GapLimits[field] \in Nat \ {0}

Under(fqn, container) == Len(fqn) > Len(container) /\ SubSeq(fqn, 1, Len(container)) = container

--------------------------------------------------------------------------------
(* What the engine reads off the pack and the index.                       *)

\* in_pack: the lines of the candidate meet the span of an item.
InPack(c) ==
    \E i \in DOMAIN slots :
        /\ slots[i].cand.path = c.path
        /\ Corpus[c.id].end >= Head(slots[i].segments).start
        /\ Corpus[c.id].start <= Last(slots[i].segments).end

PackedSymbols == {slots[i].cand.fqn : i \in {j \in DOMAIN slots : ~IsSpec(slots[j].cand)}} \ {<<>>}
PackedIds(ranked) == {c.id : c \in {d \in ToSet(ranked) : InPack(d)}}
Ids(cands) == [i \in DOMAIN cands |-> cands[i].id]
InPoolOrder(ranked, ids) == SelectSeq(Distinct(Ids(ranked)), LAMBDA c : c \in ids)

\* The symbols the query names, if the pack holds them or something in them.
Anchors(query) ==
    Take(SelectSeq(Distinct(query.symbols \o query.inferred),
                   LAMBDA s : \E p \in PackedSymbols : p = s \/ Under(p, s)),
         GapLimits.containers)

\* callees_of: a name of the query first, then private helpers, then what has a chunk.
Landing(fqn) == Take(ExactSymbols(fqn), 1)
CalleesByMatch(query, container) ==
    LET Key(f) == <<IF NameOf(f) \in query.words THEN 0 ELSE 1,
                    IF NameOf(f) \in query.private THEN 0 ELSE IF SymbolsNamed(f) # {} THEN 1 ELSE 2,
                    IF SymbolsNamed(f) # {} THEN 0 ELSE 2>>
        Before(a, b) == Lexicographic(Key(a), Key(b))
    IN  SortSeq(Distinct(CalleesOf(container)), Before)

\* The re-export sites in the pool, with the packed symbol each one exports.
ExportedName(c) ==
    {NameOf(f) : f \in {g \in PackedSymbols : c.path \in ReexportSources(NameOf(g))}}

--------------------------------------------------------------------------------
(* The rules: sequences of groups, a group being [rule, ids].              *)

Groups(rule, all) == SelectSeq([i \in DOMAIN all |-> [rule |-> rule, ids |-> all[i]]],
                               LAMBDA g : g.ids # <<>>)

\* symbols_in_container
SymbolsInContainer(name) == {c \in live : HasSymbol(c) /\ Under(Corpus[c].fqn, name)}

\* _named_containers
NamedContainers(query, ranked) ==
    LET Missing(anchor) ==
            {c \in SymbolsInContainer(anchor) :
                Corpus[c].fqn \notin PackedSymbols /\ c \notin PackedIds(ranked)}
    IN  Groups("container", [i \in DOMAIN Anchors(query) |->
            Take(InPoolOrder(ranked, Missing(Anchors(query)[i])), GapLimits.members)])

\* _callee_closure
CalleeClosure(query, ranked) ==
    LET Targets(anchor) ==
            SelectSeq(Distinct(FlatMap(Landing, CalleesByMatch(query, anchor))),
                      LAMBDA c : c \notin PackedIds(ranked) /\ c \in ToSet(Ids(ranked)))
    IN  Groups("callee", [i \in DOMAIN Anchors(query) |->
            Take(Targets(Anchors(query)[i]), GapLimits.callees)])

\* _reexport_closure: a group for each exported name.  Which name a site that
\* exports several is filed under is the order of a set.
ReexportClosure(ranked) ==
    LET Name(c) == CHOOSE name \in ExportedName(c) : TRUE
        marked == SelectSeq(ranked, LAMBDA c : "re-export site" \in c.reasons /\ ExportedName(c) # {}
                                                /\ c.id \notin PackedIds(ranked))
        names == Distinct([i \in DOMAIN marked |-> Name(marked[i])])
    IN  Groups("reexport", [i \in DOMAIN names |->
            Distinct(Ids(SelectSeq(marked, LAMBDA c : Name(c) = names[i])))])

\* _spec_anchor_closure
SpecAnchorClosure(ranked) ==
    LET specs == Distinct(Ids(SelectSeq(ranked, LAMBDA c : IsSpec(c) /\ InPack(c) /\ c.id \in live)))
        Usable(s) == InPoolOrder(ranked, ToSet(Corpus[s].refs) \ PackedIds(ranked))
        groups == Groups("spec", [i \in DOMAIN specs |-> Take(Usable(specs[i]), GapLimits.refs)])
    IN  Take(groups, GapLimits.anchors)

AllGroups(query, ranked) ==
    ReexportClosure(ranked) \o NamedContainers(query, ranked)
    \o CalleeClosure(query, ranked) \o SpecAnchorClosure(ranked)

\* Mutant: one group after the other.
TurnsInOrder(groups) ==
    LET all == UNION {{<<round, g>> : round \in DOMAIN groups[g].ids} : g \in DOMAIN groups}
    IN  Take(SetToSortSeq(all, LAMBDA a, b : a[2] < b[2] \/ (a[2] = b[2] /\ a[1] < b[1])),
             GapLimits.total)

\* The turns: one of each group, until the total is reached.
Turns(groups) ==
    LET all == UNION {{<<round, g>> : round \in DOMAIN groups[g].ids} : g \in DOMAIN groups}
    IN  Take(SetToSortSeq(all, LAMBDA a, b : a[1] < b[1] \/ (a[1] = b[1] /\ a[2] < b[2])),
             GapLimits.total)

PlanGaps(groups) ==
    [g \in DOMAIN groups |->
        [groups[g] EXCEPT !.ids = Take(@, Len(SelectSeq(Turns(groups), LAMBDA t : t[2] = g)))]]

--------------------------------------------------------------------------------
(* The order in which the backfill is tried.                               *)

Planned(plan) == UNION {ToSet(plan[g].ids) : g \in DOMAIN plan}

\* reason_for: the first rule that names the chunk; source_priority
Source(plan, c) ==
    LET By(rule) == \E g \in DOMAIN plan : plan[g].rule = rule /\ c \in ToSet(plan[g].ids)
    IN  IF By("container") THEN 2 ELSE IF By("spec") THEN 3 ELSE IF By("callee") THEN 0 ELSE 1

\* chain_priority: called by something in the pack.
ChainPriority(ranked, c) ==
    IF Corpus[c].fqn = <<>> THEN 2
    ELSE IF \E d \in PackedIds(ranked) : Corpus[d].fqn # <<>> /\ Corpus[c].fqn \in ToSet(CalleesOf(Corpus[d].fqn))
    THEN 0 ELSE 1

\* order_key
BackfillOrder(query, ranked, plan) ==
    LET Of(c) == ranked[SelectInSeq(ranked, LAMBDA d : d.id = c)]
        Key(c) == <<Source(plan, c), ChainPriority(ranked, c),
                    IF Corpus[c].fqn # <<>> /\ NameOf(Corpus[c].fqn) \in query.words THEN 0 ELSE 1,
                    -Of(c).score, Corpus[c].end - Corpus[c].start, c>>
        Before(a, b) == Lexicographic(Key(a), Key(b))
        order == SetToSortSeq(Planned(plan), Before)
    IN  [i \in DOMAIN order |-> Of(order[i])]

================================================================================
