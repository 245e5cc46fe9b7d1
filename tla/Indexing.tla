-------------------------------- MODULE Indexing --------------------------------
(* What happens to an uploaded file: it is prepared, perhaps before the ingest   *)
(* asks for it (FilePreparation, Prefetch), and its rows and vectors are written *)
(* (IndexStore); its chunks are embedded by calls of the provider                *)
(* (EmbeddingClient).  They are looked at one at a time: an ingest uses of a     *)
(* prepared file only what PrefetchIsInvisible says it is, IndexStore is given   *)
(* the results (Parsed), and a call of the provider ends as EmbedsInOrder says.  *)
EXTENDS IndexStore, FilePreparation, Prefetch, EmbeddingClient

CONSTANTS
    SurveyTexts,        \* texts that are cut without structure
    SurveySources,      \* sources: [text, language, found]
    SurveyTrees,        \* sources by their tree: [language, tree, errors]
    SurveyDocuments     \* documents, as sequences of lines

VARIABLE subject        \* what is looked at

indexingVars == <<vars, prefetchVars, clientCallVars, subject>>

Tables == [kind |-> "tables"]
Prefetching == [kind |-> "prefetch"]
Embedding == [kind |-> "embedding"]

\* The index and the prefetcher while something else is looked at.
Idle == Init /\ want = (CHOOSE w \in FirstUpload : TRUE) /\ PrefetchInit

\* What the parser makes of a file, and the chunks it is cut into.
Prepared(kind, of, lines, file) ==
    [kind |-> kind, of |-> of, lines |-> lines, file |-> file, chunks |-> SplitFile(file, lines)]

\* The lines of a source that is given by its tree, and of a document.
TreeLines(tree) == [l \in 1..Max({n.end : n \in ToSet(tree)}) |-> <<"x">>]
DocumentLines(lines) ==
    [i \in DOMAIN lines |-> IF lines[i].is = "blank" THEN <<>> ELSE <<lines[i].is>>]

\* The sources given by their tree, with what the extractor finds in it.
Extracted == {s @@ [found |-> Extract(s.language, s.tree, <<>>)] : s \in SurveyTrees}
FoundIn(s) ==
    [symbols |-> s.found.symbols, edges |-> s.found.edges, refs |-> s.found.refs,
     errors |-> s.errors, fails |-> FALSE]

Surveyed ==
    {Prepared("text", t, Lines(t), ParseFile("none", {}, <<>>)) : t \in SurveyTexts}
    \cup {Prepared("source", s, Lines(s.text), ParseFile(s.language, s.found, <<>>)) : s \in SurveySources}
    \cup {Prepared("tree", s, TreeLines(s.tree), ParseFile(s.language, FoundIn(s), <<>>)) : s \in Extracted}
    \cup {Prepared("document", d, DocumentLines(d), ParseFile("markdown", {}, d)) : d \in SurveyDocuments}

TablesInit == subject = Tables /\ Init /\ PrefetchInit /\ NoEmbedding

IndexingInit ==
    \/ TablesInit
    \/ subject = Embedding /\ EmbedInit /\ Idle
    \/ subject \in {Prefetching} \cup Surveyed /\ Idle /\ NoEmbedding

IndexingNext ==
    /\ UNCHANGED subject
    /\ \/ subject = Tables /\ Next /\ UNCHANGED <<prefetchVars, clientCallVars>>
       \/ subject = Prefetching /\ PrefetchNext /\ UNCHANGED <<vars, clientCallVars>>
       \/ subject = Embedding /\ EmbedNext /\ UNCHANGED <<vars, prefetchVars>>

IndexingSpec == IndexingInit /\ [][IndexingNext]_indexingVars

\* The index alone.
TablesSpec == TablesInit /\ [][IndexingNext]_indexingVars

--------------------------------------------------------------------------------
(* Properties.                                                                   *)

IsClass(s) == s.kind \in {"class", "struct"}

\* A line of a class after its first member begins.
InClassBody(file, l) ==
    \E c \in {s \in file.symbols : IsClass(s)} :
        \E m \in file.symbols \ {c} :
            IsMember(c, m) /\ m.start <= l /\ l <= c.end

\* A text cut without structure is whole again when its pieces are put together,
\* and each piece is as small as it must be and says truly where it is.
PiecesAreExact(text) ==
    LET pieces == SplitFallback(text)
        Upto(k) == FlattenSeq([i \in 1..k |-> pieces[i].text])
    IN  /\ Upto(Len(pieces)) = text
        /\ \A k \in DOMAIN pieces :
              /\ Fits(pieces[k].text)
              /\ pieces[k].start = 1 + Cardinality(LineEnds(Upto(k - 1)))
              /\ pieces[k].end = CountLines(Upto(k))

\* A file that is accepted loses nothing: every line that is not blank is in one
\* of its chunks, except the lines of a class between and after its members, and
\* what has no structure is cut into exact pieces.  It is refused only when two
\* symbols of one name begin on one line.
ChunksHoldFile ==
    subject.kind \in {"text", "source", "tree", "document"} =>
        LET lines == subject.lines
            file == subject.file
            chunks == subject.chunks
        IN  /\ \/ chunks = {NoChunks} /\ \E s, t \in file.symbols :
                      s # t /\ s.fqn = t.fqn /\ s.start = t.start
               \/ \A l \in DOMAIN lines :
                     \/ Blank(lines[l]) \/ InClassBody(file, l)
                     \/ \E c \in chunks : c.start <= l /\ l <= c.end
            /\ \A g \in Uncovered(file, lines) : PiecesAreExact(Joined(lines, g.start, g.end))

\* The definition whose body a node is in: 0 for the file, -1 for what is in the
\* head of something (initialisers, default arguments, decorators, bases).
BodyOf(t, definitions) ==
    LET in[n \in DOMAIN t] ==
            CASE t[n].part = "head" -> -1
              [] t[n].up = 0 -> 0
              [] t[t[n].up].is \in definitions -> t[n].up
              [] OTHER -> in[t[n].up]
    IN  in

\* s is the symbol of the definition n.
IsSymbolOf(s, n) ==
    /\ s.kind \in {"function", "method", "class"} /\ Last(s.fqn) = n.name
    /\ s.start <= n.start /\ s.end = n.end

\* The walk that finds the symbols and the scan that finds the calls name things
\* alike: a call in the body of a function that is a symbol is an edge, or an open
\* reference, of that symbol, one outside every function is the file's; and what
\* has an edge is a symbol, unless it is a function the walk does not come to.
\* (Errors of the tree take edges away, an overload's as well.)
CallsHaveOwners ==
    subject.kind = "tree" =>
        LET from == subject.of
            t == from.tree
            found == from.found
            file == subject.file
            uses == file.edges \cup file.refs
            in == BodyOf(t, IF from.language = "python" THEN Definitions ELSE {"function"})
            Has(fqn, n) == \E u \in uses : /\ u.from = fqn /\ u.line = t[n].start
                                            /\ u.kind \in {"calls", "call", "import"}
            clean == {n \in OfKind(t, DOMAIN t, {"call"}) :
                         \A e \in from.errors : t[n].start \notin e.start..e.end}
        IN  /\ ~file.fallback => \A n \in clean :
                  /\ in[n] = 0 => Has(<<>>, n)
                  /\ in[n] > 0 => \A s \in file.symbols : IsSymbolOf(s, t[in[n]]) =>
                        \/ Has(s.fqn, n)
                        \/ \E d \in found.symbols \ file.symbols : d.fqn = s.fqn
            /\ \A u \in uses :
                  \/ u.from = <<>> \/ u.kind = "reference"
                  \/ \E s \in file.symbols : s.fqn = u.from
                  \/ /\ from.language # "python"
                     /\ \E n \in OfKind(t, DOMAIN t, {"function"}) :
                           /\ t[n].name = Last(u.from)
                           /\ ~\E s \in found.symbols : IsSymbolOf(s, t[n])

\* The sections of a document nest, the chain of titles a section goes by is the
\* chain of the sections it is in, and a code fence lies in the section that owns it.
SectionsNest ==
    subject.kind = "document" =>
        LET lines == subject.of
            blocks == SpecBlocks(lines)
            fences == ToSet(Scan(lines, FrontMatter(lines) + 1).fences)
            Within(a, b) == b.start <= a.start /\ a.end <= b.end
            titled == {b \in blocks : b.path \notin {FrontMatterPath, PreamblePath}}
        IN  /\ \A a, b \in blocks : \/ Within(a, b) \/ Within(b, a)
                                    \/ a.end < b.start \/ b.end < a.start
            /\ \A b \in titled : b.path = InOrder({a.start : a \in {c \in titled : Within(b, c)}}, Len(lines))
            /\ \A f \in fences : \E b \in blocks :
                  /\ {c \in blocks : f \in c.fences} = {b}
                  /\ b.start <= f.line /\ f.close <= b.end + 1

\* What is prepared of a file is the whole file, in pieces and sections that say
\* truly where they are (splitter.py:94, markdown.py:300).
PreparedWhole == ChunksHoldFile /\ SectionsNest

\* A call of the provider ends in one of two ways.  It returns the vector of each
\* text at the text's place, whatever order the rows and the batches came in,
\* unless the service gave two rows one index; or it raises the error of the first
\* batch that failed (or of a model that cannot be loaded), with every batch before
\* it there and none still on its way (api.py:256).  No text is longer than the model
\* takes nor shorter than it had to be cut, no text is lost between two batches, and
\* no batch is posted too often.
EmbedsInOrder ==
    subject = Embedding =>
        LET batches == Batches(client, texts)
            CostOf(b) == Total([i \in DOMAIN b |-> Cost(client, texts[b[i]])])
        IN  /\ FlattenSeq(batches) = [k \in DOMAIN texts |-> k]
            /\ \A i \in DOMAIN batches :
                  /\ Len(batches[i]) <= client.size
                  /\ client.local \/ Len(batches[i]) = 1 \/ CostOf(batches[i]) <= client.budget
                  /\ sent[i].posts <= PostRetries + 1
            /\ \A k \in DOMAIN texts :
                  LET kept == Kept(client, texts[k])
                  IN  /\ Cost(client, texts[k]) <= client.limit
                      /\ ~client.exact /\ kept < Len(texts[k].widths) =>
                            Bytes(texts[k], kept + 1) > client.limit
            /\ outcome.at = "returned" =>
                  /\ Len(outcome.vectors) = Len(texts)
                  /\ \A i \in DOMAIN batches : ~sent[i].twice =>
                        \A k \in ToSet(batches[i]) : outcome.vectors[k] = k
            /\ outcome.at = "raised" =>
                  /\ OnTheirWay = {}
                  /\ \/ outcome.error = "unavailable" /\ \A i \in DOMAIN sent : sent[i] = NotSent
                     \/ \E i \in DOMAIN sent :
                            /\ sent[i].at = "failed" /\ sent[i].error = outcome.error
                            /\ \A j \in 1..(i - 1) : sent[j].at = "done"

================================================================================
