------------------------------- MODULE ContextPack -----------------------------
(***************************************************************************)
(* assemble (contextpack/assembly.py): ranked candidates are packed into a *)
(* token budget.  One greedy pass over the pool, two floors (a             *)
(* specification block, a number of code blocks), and a second budget for  *)
(* what the gap check asked for.                                           *)
(*                                                                         *)
(* The chunks' rows are read one by one while an ingest may delete them:   *)
(* `live` is the set of rows there are.  A token is a line of the rendered *)
(* pack: what counts is that every part of an item is paid for.            *)
(***************************************************************************)
EXTENDS Lists, FiniteSets

CONSTANTS
    Corpus,     \* [id -> [path, fqn, kind, start, end, body, ...]], ids in line order
    Budget,     \* BudgetConfig, but for the hard cap; ratios in percent
    Unresolved, \* failed references: the first one's name, or NoName
    NoName      \* no symbol

Chunk == DOMAIN Corpus
Path == {Corpus[c].path : c \in Chunk}

BudgetField ==
    {"overhead", "fileTokens", "docsTokens", "tier3Ratio", "scoreRatio", "specFloor", "codeFloor",
     "skeletonLines", "contextLines", "adjacentGap", "backfillRatio", "backfillSingle",
     "backfillLines", "reserveMin"}

ASSUME ContextPackAssumption ==
    /\ Chunk \subseteq Nat
    /\ \A c \in Chunk : Corpus[c].start \in Nat /\ Corpus[c].end \in Nat
                        /\ Corpus[c].start <= Corpus[c].end
    /\ Budget \in [BudgetField -> Nat]

VARIABLES
    live,     \* the chunks whose rows are in the index
    hardCap,  \* the caller's max_tokens
    pool,     \* the candidates, best first
    backfill, \* what the gap check adds: [cand, why]
    reserve,  \* tokens the greedy pass leaves to the backfill
    flow,     \* tokens of the call chains shown beside the evidence
    stale,    \* the specification blocks that name a symbol that is gone
    stage,    \* where assemble is
    cursor,   \* the next candidate of the stage
    reserved, \* the specification block that is held back, or NoSlot
    slots,    \* the items of the pack
    placed,   \* the chunks that are in them
    acc,      \* the running sums
    cuts,     \* what was left out, and why
    pack      \* the result

assembly == <<stage, cursor, reserved, slots, placed, acc, cuts>>
inputs == <<hardCap, pool, backfill, reserve, flow, stale>>
packVars == <<live, inputs, assembly, pack>>

Larger(a, b) == IF a > b THEN a ELSE b
Smaller(a, b) == IF a < b THEN a ELSE b
Percent(ratio, n) == (ratio * n) \div 100
Lexicographic(k, l) == \E i \in DOMAIN k : k[i] < l[i] /\ \A j \in 1..(i - 1) : k[j] = l[j]
Sum(f(_), s) == Total([i \in DOMAIN s |-> f(s[i])])
IsSpec(c) == c.kind = "spec"

--------------------------------------------------------------------------------
(* Segments: sorted intervals of lines.                                    *)

Segment(start, end) == [start |-> start, end |-> end]
LineCount(segment) == segment.end - segment.start + 1

\* _uncovered_pieces: one interval without another.
Beside(piece, other) ==
    IF other.end < piece.start \/ other.start > piece.end THEN <<piece>>
    ELSE (IF other.start > piece.start THEN <<Segment(piece.start, other.start - 1)>> ELSE <<>>)
         \o (IF other.end < piece.end THEN <<Segment(other.end + 1, piece.end)>> ELSE <<>>)

UncoveredPieces(segment, existing) ==
    LET pieces[n \in 0 .. Len(existing)] ==
            IF n = 0 THEN <<segment>>
            ELSE LET before == pieces[n - 1]
                 IN  FlattenSeq([i \in DOMAIN before |-> Beside(before[i], existing[n])])
    IN  pieces[Len(existing)]

\* The list is sorted by where the segments start.
SortedSegments(segments) == SortedBy([i \in DOMAIN segments |-> segments[i].start], segments)

\* _coalesce: neighbours become one interval.
Joined(merged, s) ==
    IF merged # <<>> /\ s.start <= Last(merged).end + 1
    THEN Append(Front(merged), Segment(Last(merged).start, Larger(Last(merged).end, s.end)))
    ELSE Append(merged, s)

Coalesce(segments) ==
    LET merged[n \in 0 .. Len(segments)] == IF n = 0 THEN <<>> ELSE Joined(merged[n - 1], segments[n])
    IN  merged[Len(segments)]

\* _gap_lines, _segments_distance
GapLines(a, b) ==
    IF b.start > a.end THEN b.start - a.end - 1
    ELSE IF a.start > b.end THEN a.start - b.end - 1 ELSE 0

Distance(left, right) == Min({GapLines(l, r) : l \in ToSet(left), r \in ToSet(right)})

--------------------------------------------------------------------------------
(* Items of the pack.  `ids` and `tailLost` are not in the code: the       *)
(* chunks an item stands for, and whether one of them was cut short and    *)
(* lost its note.                                                          *)

NoSlot == [ids |-> {}]

\* _build_slot, with the blocks that the signals call stale.
BuildSlot(c, blocks) ==
    LET row == Corpus[c.id] IN
    [cand |-> c, segments |-> <<Segment(row.start, row.end)>>, upper |-> row.end,
     prelude |-> FALSE, note |-> "none", why |-> FALSE, stale |-> c.id \in blocks,
     ids |-> {c.id}, tailLost |-> FALSE]

Slot(c) == BuildSlot(c, stale)

TailHidden(slot) == slot.upper > Last(slot.segments).end

\* _Slot.tokens: header and reason, the notes in the reason, the stale
\* references, the signature, the lines, and a line for each elision.
Tokens(slot) ==
    2 + Cardinality({n \in {"aggregated", "merged"} : slot.note = n})
      + (IF slot.why THEN 1 ELSE 0)
      + (IF slot.stale THEN 1 ELSE 0)
      + (IF slot.prelude THEN 1 ELSE 0)
      + Sum(LineCount, slot.segments)
      + (Len(slot.segments) - 1) + (IF TailHidden(slot) THEN 1 ELSE 0)

\* _degrade: the signature and the first lines.
Degrade(slot, threshold, force) ==
    LET all == Head(slot.segments) IN
    IF slot.cand.id \notin live \/ (~force /\ LineCount(all) <= threshold) THEN slot
    ELSE [slot EXCEPT
             !.segments = <<Segment(all.start, Smaller(all.start + Budget.contextLines, all.end))>>,
             !.prelude = ~IsSpec(slot.cand)]

\* _try_merge: the first item of the same file and type that is near enough.
MergeTarget(slot) ==
    FirstWhere(slots, LAMBDA s :
        /\ s.cand.path = slot.cand.path /\ IsSpec(s.cand) = IsSpec(slot.cand)
        /\ Distance(s.segments, slot.segments) <= Budget.adjacentGap)

\* Mutant: what the merged chunk adds at the end is not known to the item.
MergeKeepsUpper(slot, incoming) ==
    LET more == UncoveredPieces(Head(incoming.segments), slot.segments)
        sorted == SortedSegments(slot.segments \o more)
    IN  [slot EXCEPT !.segments = Coalesce(sorted), !.note = "merged",
                     !.ids = @ \cup incoming.ids, !.tailLost = @ \/ TailHidden(incoming)]

\* _merge_segments, _sync
MergeSegments(slot, incoming) ==
    LET more == UncoveredPieces(Head(incoming.segments), slot.segments)
        merged == Coalesce(SortedSegments(slot.segments \o more))
    IN  [slot EXCEPT !.segments = merged,
                     !.upper = Larger(@, Last(merged).end),
                     !.note = "merged",
                     !.ids = @ \cup incoming.ids,
                     !.tailLost = @ \/ TailHidden(incoming)]

--------------------------------------------------------------------------------
(* Quotas.                                                                 *)

HasCode == \E i \in DOMAIN pool : ~IsSpec(pool[i])
SingleFileCap == Budget.fileTokens
\* _docs_cap
DocsCap == IF HasCode THEN Budget.docsTokens ELSE Larger(hardCap - Budget.overhead, 0)

\* The best score of what is not a specification; its share is the gate.
TopScore == Max({0} \cup {c.score : c \in {d \in ToSet(pool) : ~IsSpec(d)}})
BelowFloor(c) ==
    TopScore > 0 /\ Budget.scoreRatio > 0 /\ 100 * c.score < Budget.scoreRatio * TopScore

\* Mutant: nothing is left to the backfill.
HardLimitGreedy ==
    LET pending == reserved # NoSlot /\ reserved.cand.id \notin placed
    IN  Larger(hardCap - (IF pending THEN Tokens(reserved) ELSE 0), Budget.overhead)

\* _hard_limit: what is held back for the specification block and for the backfill.
HardLimit ==
    LET pending == reserved # NoSlot /\ reserved.cand.id \notin placed
        held == IF pending THEN Tokens(reserved) ELSE 0
    IN  Larger(hardCap - held - reserve, Budget.overhead)

\* backfill_reserve
BackfillReserve(cap) ==
    IF cap >= Budget.reserveMin
    THEN Smaller(Percent(Budget.backfillRatio, cap), cap \div 2) ELSE 0

BackfillCap == Percent(Budget.backfillRatio, hardCap)
BackfillSingleCap == Percent(Budget.backfillSingle, BackfillCap)

FileFull(c, tokens) == acc.file[c.path] + tokens > SingleFileCap
Tier3Full(c, tokens) ==
    c.tier = 3 /\ 100 * (acc.tier3 + tokens) > Budget.tier3Ratio * acc.used
DocsFull(c, tokens) == HasCode /\ IsSpec(c) /\ acc.spec + tokens > DocsCap

--------------------------------------------------------------------------------
(* Placing.                                                                *)

\* symbol_slots: the first item placed for a symbol, or 0.
SymbolSlot(c) ==
    IF c.fqn = <<>> THEN 0 ELSE FirstWhere(slots, LAMBDA s : s.cand.fqn = c.fqn)

Charged(sums, c, tokens) ==
    [sums EXCEPT !.used = @ + tokens,
                 !.spec = @ + IF IsSpec(c) THEN tokens ELSE 0,
                 !.file[c.path] = @ + tokens]

\* _place
Place(slot) ==
    /\ slots' = Append(slots, slot)
    /\ placed' = placed \cup {slot.cand.id}
    /\ acc' = [Charged(acc, slot.cand, Tokens(slot)) EXCEPT
                  !.tier3 = @ + IF slot.cand.tier = 3 THEN Tokens(slot) ELSE 0,
                  !.code = @ + IF ~IsSpec(slot.cand) /\ stage \in {"greedy", "code"} THEN 1 ELSE 0,
                  !.backfill = @ + IF stage = "backfill" THEN Tokens(slot) ELSE 0,
                  !.backfilled = @ + IF stage = "backfill" THEN 1 ELSE 0]

\* Mutant: a merged candidate is charged whole, not by what it adds.
MergeChargesWhole(slot) ==
    LET k == MergeTarget(slot) IN
    \/ /\ k = 0
       /\ Place(slot)
    \/ /\ k # 0
       /\ slots' = [slots EXCEPT ![k] = MergeSegments(slots[k], slot)]
       /\ placed' = placed \cup {slot.cand.id}
       /\ acc' = Charged(acc, slot.cand, Tokens(slot))

\* A candidate that fits: into a neighbour, or on its own.
ChargeMerge(slot, delta) ==
    acc' = [Charged(acc, slot.cand, delta) EXCEPT
               !.code = @ + IF stage = "code" THEN 1 ELSE 0,
               !.backfill = @ + IF stage = "backfill" THEN delta ELSE 0,
               !.backfilled = @ + IF stage = "backfill" THEN 1 ELSE 0]

MergeOrPlace(slot) ==
    LET k == MergeTarget(slot) IN
    \/ /\ k = 0
       /\ Place(slot)
    \/ /\ k # 0
       /\ slots' = [slots EXCEPT ![k] = MergeSegments(@, slot)]
       /\ placed' = placed \cup {slot.cand.id}
       /\ ChargeMerge(slot, Tokens(slots'[k]) - Tokens(slots[k]))

--------------------------------------------------------------------------------
(* _prefer_definition_representatives: of several chunks of one symbol the *)
(* one that has the body stands for all.                                   *)

OfSymbol(cands, fqn) == SelectSeq(cands, LAMBDA c : c.fqn = fqn)
WithBody(cands) == SelectSeq(cands, LAMBDA c : c.id \in live /\ Corpus[c.id].body)

Superseded(cands, c) ==
    /\ c.fqn # <<>> /\ WithBody(OfSymbol(cands, c.fqn)) # <<>>
    /\ WithBody(OfSymbol(cands, c.fqn))[1].id # OfSymbol(cands, c.fqn)[1].id

ScoreBefore(a, b) ==
    \/ a.score > b.score
    \/ a.score = b.score /\ a.rrf > b.rrf
    \/ a.score = b.score /\ a.rrf = b.rrf /\ a.id < b.id

Representatives(cands) ==
    LET Keep(kept, c) ==
            IF ~Superseded(cands, c) THEN Append(kept, c)
            ELSE IF OfSymbol(kept, c.fqn) # <<>> THEN kept
            ELSE Append(kept, WithBody(OfSymbol(cands, c.fqn))[1])
    IN  SortSeq(FoldLeft(Keep, <<>>, cands), ScoreBefore)

--------------------------------------------------------------------------------
(* The stages of assemble.                                                 *)

NoPack == [used |-> 0]
NoCuts == [omitted |-> 0, capacity |-> 0, below |-> 0, docs |-> 0]
NoSums == [used |-> Budget.overhead, spec |-> 0, tier3 |-> 0, code |-> 0, backfill |-> 0,
           backfilled |-> 0, file |-> [p \in Path |-> 0]]

\* The best specification block is built and its tokens are held back.
Reserved(cands, blocks) ==
    LET k == FirstWhere(cands, LAMBDA c : IsSpec(c) /\ c.id \in live)
    IN  IF Budget.specFloor = 0 \/ k = 0 THEN NoSlot ELSE BuildSlot(cands[k], blocks)

\* The signals are collected first: `stale'` is given with the call.
Assemble(ranked, extra, keep) ==
    LET cands == SortSeq(ranked, ScoreBefore) IN
    /\ pool' = Representatives(cands)
    /\ backfill' = extra /\ reserve' = keep
    /\ reserved' = Reserved(pool', stale')
    /\ pack' = NoPack
    /\ stage' = "greedy" /\ cursor' = 1
    /\ slots' = <<>> /\ placed' = {} /\ acc' = NoSums
    /\ cuts' = [NoCuts EXCEPT !.omitted = Len(cands) - Len(pool')]

Candidate == pool[cursor]
Left == cursor <= Len(pool)
Advance == cursor' = cursor + 1 /\ stage' = stage
ToStage(next) == stage' = next /\ cursor' = 1

\* What the candidate would cost here, cut short if it does not fit whole.
Fitted(c, limit) ==
    LET whole == Slot(c) IN
    IF FileFull(c, Tokens(whole)) \/ acc.used + Tokens(whole) > limit
    THEN Degrade(whole, Budget.skeletonLines, FALSE) ELSE whole

VerdictAt(c, cost, limit) ==
    CASE c.id \in placed -> "packed"
      [] c.id \notin placed /\ BelowFloor(c) -> "weak"
      [] c.id \notin placed /\ ~BelowFloor(c) ->
           IF c.id \notin live THEN "gone"
           ELSE IF SymbolSlot(c) # 0 THEN "symbol"
           ELSE IF FileFull(c, cost) \/ Tier3Full(c, cost) THEN "quota"
           ELSE IF DocsFull(c, cost) /\ c.id \notin reserved.ids THEN "docs"
           ELSE IF acc.used + cost > limit THEN "full" ELSE "fits"

Verdict(c) == VerdictAt(c, Tokens(Fitted(c, HardLimit)), HardLimit)

\* The candidate meets the named cut, if it meets one.
Greedy(verdict) == stage = "greedy" /\ Left /\ Verdict(Candidate) = verdict

\* The same chunk again, or one whose row is gone.
LeaveOut ==
    /\ \E verdict \in {"packed", "gone"} : Greedy(verdict)
    /\ Advance
    /\ cuts' = [cuts EXCEPT !.omitted = @ + 1]
    /\ UNCHANGED <<live, inputs, reserved, slots, placed, acc, pack>>

\* Another chunk of a symbol in the pack: the item's reason counts it.
Aggregate ==
    /\ Greedy("symbol") /\ Advance
    /\ LET k == SymbolSlot(Candidate)
           noted == [slots[k] EXCEPT !.note = "aggregated"]
       IN  /\ slots' = [slots EXCEPT ![k] = noted]
           /\ acc' = Charged(acc, slots[k].cand, Tokens(noted) - Tokens(slots[k]))
    /\ cuts' = [cuts EXCEPT !.omitted = @ + 1]
    /\ UNCHANGED <<live, inputs, reserved, placed, pack>>

\* A quota is full: later candidates may still fit.
CutByQuota ==
    /\ \E verdict \in {"quota", "docs"} :
          /\ Greedy(verdict)
          /\ cuts' = [cuts EXCEPT !.omitted = @ + 1, !.capacity = @ + 1,
                                  !.docs = @ + IF verdict = "docs" THEN 1 ELSE 0]
    /\ Advance
    /\ UNCHANGED <<live, inputs, reserved, slots, placed, acc, pack>>

\* The score or the budget: the pass is over, and what follows is not counted.
StopGreedy ==
    /\ \E verdict \in {"weak", "full"} :
          /\ Greedy(verdict)
          /\ cuts' = [cuts EXCEPT !.omitted = @ + 1,
                                  !.below = @ + IF verdict = "weak" THEN 1 ELSE 0,
                                  !.capacity = @ + IF verdict = "full" THEN 1 ELSE 0]
    /\ ToStage("spec")
    /\ UNCHANGED <<live, inputs, reserved, slots, placed, acc, pack>>

Pack ==
    /\ Greedy("fits") /\ Advance
    /\ MergeOrPlace(Fitted(Candidate, HardLimit))
    /\ UNCHANGED <<live, inputs, reserved, cuts, pack>>

GreedyEnds ==
    /\ stage = "greedy" /\ ~Left /\ ToStage("spec")
    /\ UNCHANGED <<live, inputs, reserved, slots, placed, acc, cuts, pack>>

\* The specification floor: only the hard cap counts.
PlaceReserved ==
    LET fits == /\ reserved # NoSlot /\ reserved.ids \cap placed = {}
                /\ acc.used + Tokens(reserved) <= hardCap
    IN  /\ stage = "spec" /\ ToStage("code")
        /\ IF fits THEN Place(reserved) ELSE UNCHANGED <<slots, placed, acc>>
        /\ UNCHANGED <<live, inputs, reserved, cuts, pack>>

\* The code floor: against the hard cap, not against the limit of the pass.
CodeLeft == Left /\ HasCode /\ acc.code < Budget.codeFloor

FillsFloor(c, cost) ==
    /\ ~IsSpec(c) /\ c.id \notin placed /\ c.id \in live /\ SymbolSlot(c) = 0
    /\ ~FileFull(c, cost) /\ ~Tier3Full(c, cost)
    /\ acc.used + cost <= hardCap

TryFloor(slot) ==
    IF FillsFloor(slot.cand, Tokens(slot)) THEN MergeOrPlace(slot)
    ELSE UNCHANGED <<slots, placed, acc>>

FillCodeFloor ==
    /\ stage = "code" /\ CodeLeft /\ Advance
    /\ TryFloor(Fitted(Candidate, hardCap))
    /\ UNCHANGED <<live, inputs, reserved, cuts, pack>>

CodeEnds ==
    /\ stage = "code" /\ ~CodeLeft /\ ToStage("backfill")
    /\ UNCHANGED <<live, inputs, reserved, slots, placed, acc, cuts, pack>>

\* The backfill has a budget of its own; what it has used counts twice
\* against the hard cap, because `used` holds it already.
OverBackfill(tokens) == acc.backfill + tokens > BackfillCap
OverBudget(tokens) == flow + acc.used + acc.backfill + tokens > hardCap
FirstBackfill == acc.backfilled = 0

BackfillLeft ==
    /\ cursor <= Len(backfill)
    /\ flow + acc.used + acc.backfill < hardCap
    /\ acc.backfill < BackfillCap

\* The first one may exceed the quotas of a file and of a single item.
Exempt(tokens) == FirstBackfill /\ ~OverBackfill(tokens) /\ ~OverBudget(tokens)

BackfillSlot(c) ==
    LET whole == [Slot(c) EXCEPT !.why = TRUE]
        cost == Tokens(whole)
        single == cost > BackfillSingleCap /\ ~FirstBackfill
    IN  IF (FileFull(c, cost) /\ ~Exempt(cost)) \/ OverBackfill(cost) \/ OverBudget(cost) \/ single
        THEN Degrade(whole, Budget.backfillLines, single) ELSE whole

Backfills(c, cost) ==
    /\ c.id \notin placed /\ c.id \in live /\ SymbolSlot(c) = 0
    /\ cost <= BackfillSingleCap \/ FirstBackfill
    /\ \/ Exempt(Tokens([Slot(c) EXCEPT !.why = TRUE])) \/ ~FileFull(c, cost)
       \/ cost <= BackfillSingleCap
    /\ ~DocsFull(c, cost) /\ ~OverBackfill(cost) /\ ~OverBudget(cost)

TryBackfill(slot) ==
    IF Backfills(slot.cand, Tokens(slot)) THEN MergeOrPlace(slot)
    ELSE UNCHANGED <<slots, placed, acc>>

FillBackfill ==
    /\ stage = "backfill" /\ BackfillLeft /\ Advance
    /\ TryBackfill(BackfillSlot(backfill[cursor].cand))
    /\ UNCHANGED <<live, inputs, reserved, cuts, pack>>

BackfillEnds ==
    /\ stage = "backfill" /\ ~BackfillLeft /\ ToStage("judge")
    /\ UNCHANGED <<live, inputs, reserved, slots, placed, acc, cuts, pack>>

--------------------------------------------------------------------------------
(* The verdict: what the candidates support, what is missing, what to ask. *)

Consensus == SelectSeq(pool, LAMBDA c : Cardinality(c.channels) >= 2)
ConsensusFiles == {c.path : c \in ToSet(Consensus)}
ConsensusPeak == Max({0} \cup {c.score : c \in ToSet(Consensus)})
\* Twice the median score; the pool is sorted.
Median2 == LET n == Len(pool) IN
           IF n = 0 THEN 0 ELSE pool[(n + 1) \div 2].score + pool[(n + 2) \div 2].score

ExplicitHit == \E c \in ToSet(pool) : "exact" \in c.channels \/ "explicit path" \in c.reasons
InferredHit == \E c \in ToSet(pool) : "inferred" \in c.channels \/ "inferred symbol" \in c.reasons

Corroborated ==
    /\ Cardinality(ConsensusFiles) >= 2
    /\ \/ Cardinality(pool[1].channels) >= 2
       \/ Median2 > 0 /\ 200 * ConsensusPeak >= 215 * Median2
    /\ \E c \in ToSet(Consensus) : c.kind \in {"code", "test"}

Answerable == ExplicitHit \/ InferredHit \/ Corroborated
SpecOnly == slots # <<>> /\ \A i \in DOMAIN slots : IsSpec(slots[i].cand)

\* _assess: the second half
Confidence ==
    IF ~Answerable THEN "low"
    ELSE IF ExplicitHit /\ Len(Consensus) >= 3 THEN "high"
    ELSE IF (Consensus # <<>> /\ ~ExplicitHit) \/ SpecOnly THEN "medium" ELSE "low"

StaleDocs == {i \in DOMAIN slots : slots[i].stale}

\* _missing_evidence: the freshness of a stored index is always empty.
MissingEvidence ==
    {code \in {"unresolved_reference", "stale_doc_reference", "retrieval_truncated",
               "no_context_match"} :
        CASE code = "unresolved_reference" -> Unresolved # {}
          [] code = "stale_doc_reference" -> StaleDocs # {}
          [] code = "retrieval_truncated" -> cuts.capacity + cuts.docs + cuts.below > 0
          [] code = "no_context_match" -> slots = <<>>}

\* _query_for_gap: the gaps that name a symbol.
Asks(missing) ==
    missing \cap ({"stale_doc_reference"}
                  \cup IF Unresolved \ {NoName} # {} THEN {"unresolved_reference"} ELSE {})

\* _fallback_queries: the paths of the first evidence and of the first document.
FallbackQueries ==
    {q \in {"evidence", "document"} :
        \E i \in DOMAIN slots : IsSpec(slots[i].cand) <=> q = "document"}

NextQueries(missing) ==
    IF Answerable THEN {}
    ELSE IF Asks(missing) # {} THEN Asks(missing)
    ELSE IF "retrieval_truncated" \in missing THEN {} ELSE FallbackQueries

Judge ==
    /\ stage = "judge" /\ ToStage("done")
    /\ pack' = [used |-> acc.used + flow, hardCap |-> hardCap,
                truncated |-> cuts.capacity > 0, omitted |-> cuts.omitted,
                answerable |-> Answerable, confidence |-> Confidence,
                missing |-> MissingEvidence, next |-> NextQueries(MissingEvidence)]
    /\ UNCHANGED <<live, inputs, reserved, slots, placed, acc, cuts>>

AssembleStep ==
    \/ LeaveOut \/ Aggregate \/ CutByQuota \/ StopGreedy \/ Pack \/ GreedyEnds
    \/ PlaceReserved \/ FillCodeFloor \/ CodeEnds \/ FillBackfill \/ BackfillEnds \/ Judge

================================================================================
