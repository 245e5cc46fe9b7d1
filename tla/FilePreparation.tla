---------------------------- MODULE FilePreparation ----------------------------
(* What a file's bytes become before they are stored (prepare_file): refused,  *)
(* or parsed and cut into chunks.  A pure computation, done by an ingest or by *)
(* the prefetcher for it.                                                      *)
(*                                                                             *)
(* The syntax tree is the grammar's (tree_sitter, outside this code); what the *)
(* language's extractor takes from it (Extraction) comes here with the errors  *)
(* of the tree, each with its lines.  Fully qualified names are sequences of   *)
(* names.  Signatures, docstrings, word segments and hashes are functions of a *)
(* chunk's content and left out.                                               *)
EXTENDS TextSplit, Sections, Extraction, Languages

CONSTANT MaxToleratedMissing \* CppParser.max_tolerated_missing

--------------------------------------------------------------------------------
(* Parsing.                                                                    *)

Unparsed == [fallback |-> TRUE, symbols |-> {}, edges |-> {}, refs |-> {}, specs |-> {}]

Overlaps(symbol, spans) == \E e \in spans : symbol.start <= e.end /\ symbol.end >= e.start

\* A few missing tokens are what an expanded macro looks like.
Tolerated(language, errors) ==
    /\ language = "cpp"
    /\ \A e \in errors : e.missing
    /\ Cardinality(errors) <= MaxToleratedMissing

\* What the errors of the tree leave of what was found.  A symbol that is dropped
\* takes everything of its name with it, an overload's edges as well.
Recovered(language, found) ==
    LET dropped == {s \in found.symbols : s.kind # "namespace" /\ Overlaps(s, found.errors)}
        Safe(uses) == {u \in uses : /\ \A s \in dropped : s.fqn # u.from
                                    /\ \A e \in found.errors : u.line \notin e.start..e.end}
    IN  IF Tolerated(language, found.errors) THEN found
        ELSE [found EXCEPT !.symbols = @ \ dropped, !.edges = Safe(@), !.refs = Safe(@)]

\* TreeSitterParser.parse: Python is strict, C and C++ recover.
ParseTree(language, found) ==
    LET kept == Recovered(language, found) IN
    IF \/ found.fails
       \/ found.errors # {} /\ (language = "python" \/ kept.symbols = {})
    THEN Unparsed
    ELSE [Unparsed EXCEPT !.fallback = FALSE, !.symbols = kept.symbols,
                          !.edges = kept.edges, !.refs = kept.refs]

ParseFile(language, found, lines) ==
    CASE language = "none" -> Unparsed
      [] language = "markdown" ->
            [Unparsed EXCEPT !.fallback = FALSE, !.specs = SpecBlocks(lines)]
      [] OTHER -> ParseTree(language, found)

--------------------------------------------------------------------------------
(* Splitting.                                                                  *)

\* `(module)`, the name of what has none.
ModuleFqn == <<>>

\* normalize_newlines and splitlines.
Lines(text) ==
    LET ends == {i \in DOMAIN text : text[i] \in {NL, FF}}
        pieces == IF text = <<>> THEN <<>>
                  ELSE CutAt(text, {1} \cup {i + 1 : i \in ends \ {Len(text)}})
    IN  [k \in DOMAIN pieces |->
            SelectSeq(pieces[k].text, LAMBDA c : c \notin {NL, FF})]

\* _slice.
Joined(lines, from, to) ==
    FoldLeft(LAMBDA acc, i : (IF i = from THEN acc ELSE Append(acc, NL)) \o lines[i],
             <<>>, [k \in 1..(to - from + 1) |-> from + k - 1])

NoSpan == [start |-> 0, end |-> 0]

Clamp(block, total) ==
    IF total = 0 \/ block.start < 1 \/ block.end < block.start THEN NoSpan
    ELSE [start |-> block.start, end |-> IF block.end < total THEN block.end ELSE total]

IsMember(container, s) ==
    /\ IsStrictPrefix(container.fqn, s.fqn)
    /\ container.start <= s.start /\ s.start <= container.end

\* The first line of a member of a class of this name; 0 without one.
FirstMember(symbols, fqn) ==
    LET first == {s.start : s \in {m \in symbols :
                     \E c \in symbols : /\ c.fqn = fqn /\ c.kind \in {"class", "struct"}
                                        /\ c # m /\ IsMember(c, m)}}
    IN  IF first = {} THEN 0 ELSE Min(first)

\* A class is cut down to its declaration, the members are chunks of their own.
SymbolChunk(symbols, s, span) ==
    LET first == FirstMember(symbols, s.fqn)
        skeleton == s.kind = "class" \/ (s.kind = "struct" /\ first # 0)
    IN  [id |-> [fqn |-> s.fqn, line |-> s.start, n |-> 1],
         kind |-> IF skeleton THEN "class_skeleton" ELSE s.kind,
         start |-> span.start,
         end |-> IF skeleton /\ first > span.start THEN first - 1 ELSE span.end]

SpecChunk(s, span) ==
    [id |-> [fqn |-> s.path, line |-> s.start, n |-> 1], kind |-> "spec_block",
     start |-> span.start, end |-> span.end]

\* The runs of lines that nothing covers.
Gaps(total, covered) ==
    LET free == {l \in 1..total : ~\E s \in covered : s.start <= l /\ l <= s.end}
    IN  {[start |-> a, end |-> CHOOSE b \in free : /\ a <= b /\ a..b \subseteq free
                                                  /\ b + 1 \notin free] :
            a \in {l \in free : l - 1 \notin free}}

Blocks(lines, gap) ==
    LET pieces == SplitFallback(Joined(lines, gap.start, gap.end))
        placed == [k \in DOMAIN pieces |->
                     [start |-> pieces[k].start + gap.start - 1,
                      end |-> pieces[k].end + gap.start - 1, text |-> pieces[k].text]]
    IN  SelectSeq(placed, LAMBDA b : ~Blank(b.text))

\* Blocks that begin on one line are numbered.
FallbackChunks(blocks) ==
    {[of |-> [block |-> k],
      chunk |-> [id |-> [fqn |-> ModuleFqn, line |-> blocks[k].start,
                         n |-> Cardinality({j \in 1..k : blocks[j].start = blocks[k].start})],
                 kind |-> "fallback_block", start |-> blocks[k].start, end |-> blocks[k].end]] :
        k \in DOMAIN blocks}

Whole(lines) == IF lines = <<>> THEN {} ELSE {[start |-> 1, end |-> Len(lines)]}

\* The file's chunks by structure, each beside what it stands for.
Structural(parsed, lines) ==
    LET total == Len(lines)
        kept == {s \in parsed.symbols : s.kind # "namespace" /\ Clamp(s, total) # NoSpan}
    IN  {[of |-> s, chunk |-> SpecChunk(s, Clamp(s, total))] :
            s \in {b \in parsed.specs : Clamp(b, total) # NoSpan}}
        \cup {[of |-> s, chunk |-> SymbolChunk(parsed.symbols, s, Clamp(s, total))] : s \in kept}

\* The parts of the file that are cut without structure.
Uncovered(parsed, lines) ==
    IF parsed.fallback THEN Whole(lines)
    ELSE Gaps(Len(lines), {Clamp(p.of, Len(lines)) : p \in Structural(parsed, lines)})

NoChunks == [id |-> ModuleFqn]

\* split_file: the file is refused when two chunks have one id.
SplitFile(parsed, lines) ==
    LET parts == (IF parsed.fallback THEN {} ELSE Structural(parsed, lines))
                 \cup UNION {FallbackChunks(Blocks(lines, g)) : g \in Uncovered(parsed, lines)}
    IN  IF \E p, q \in parts : p # q /\ p.chunk.id = q.chunk.id THEN {NoChunks}
        ELSE {p.chunk : p \in parts}

================================================================================
