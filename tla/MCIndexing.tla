------------------------------ MODULE MCIndexing -------------------------------
(* Indexing for TLC.  For the index, two modules that call each other's        *)
(* functions and both define run, and a document that mentions one of them;    *)
(* for the prefetcher, two projects with a header and a C++ source; for the    *)
(* preparation, every short text and document and a C++ source of eight lines. *)
EXTENDS Indexing, TLC

CONSTANTS v1, v2, big, h1, h2, h3, m1, m2, run, go, KLoad, load, save, header, body,
          small, large

MCFile == 1..3
MCVersion == {v1, v2, big}
MCFirst == {<<v1, v1, v1>>}
MCName == {run, go, KLoad, load, save}
MCSegment == [n \in MCName |-> IF n = KLoad THEN load ELSE n]
MCHint == [p \in MCFile \X MCName |-> IF p[2] = save THEN {2} ELSE {}]

Sym(n, l, x) == [fqn |-> n, line |-> l, exported |-> x]
Edge(s, t, k, l) == [src |-> s, tgt |-> t, kind |-> k, line |-> l]
Ref(s, n, k, l) == [src |-> s, name |-> n, kind |-> k, line |-> l]
Chunk(i, h) == [id |-> i, hash |-> h]
File0 == [chunks |-> {}, symbols |-> {}, edges |-> {}, refs |-> {}, mentions |-> {}]

\* A document; the second version mentions nothing.
Document(v) ==
    [File0 EXCEPT !.chunks = {Chunk("3:readme", h3)},
                  !.mentions = IF v = v1 THEN {load, run} ELSE {}]

\* 1: run calls load and imports save; the second version has moved by a line.
Caller(v) ==
    [File0 EXCEPT
        !.chunks = {Chunk(IF v = v1 THEN "1:run:1" ELSE "1:run:2", h1)},
        !.symbols = {Sym(run, IF v = v1 THEN 1 ELSE 2, FALSE), Sym(go, 9, TRUE)},
        !.edges = {Edge(go, load, "calls", 1), Edge(1, save, "imports", 1)},
        !.refs = {Ref(go, save, "imports", 2), Ref(go, run, "calls", 3)}]

\* 2: defines K.load; the second version defines run as well, and save twice
\* (overloads).
Callee(v) ==
    [File0 EXCEPT
        !.chunks = {Chunk("2:K.load", IF v = v1 THEN h1 ELSE h2)},
        !.symbols = {Sym(KLoad, 1, TRUE)} \cup
                    IF v = v1 THEN {} ELSE {Sym(save, 3, TRUE), Sym(save, 7, TRUE), Sym(run, 5, TRUE)},
        !.edges = IF v = v1 THEN {} ELSE {Edge(save, run, "calls", 4)}]

MCParsed ==
    [p \in MCFile \X MCVersion |->
        CASE p[2] = big -> File0
          [] p[1] = 1 -> Caller(p[2])
          [] p[1] = 2 -> Callee(p[2])
          [] p[1] = 3 -> Document(p[2])]

MCSuffix == [f \in Path |-> IF f = header THEN "h" ELSE "cc"]
MCSize == [c \in Content |-> IF c = small THEN 1 ELSE 2]

Brings(f, c) == [path |-> f, content |-> c]
MCBatch == {<<Brings(header, small)>>, <<Brings(header, large), Brings(body, small)>>}

MCTexts == BoundedSeq({"x", Space, NL}, 7) \cup BoundedSeq({"x", Space, NL, FF}, 4)

\* Symbols of one source, as the extractor of C++ can find them: overloads, two
\* symbols of one name on one line, a class in a namespace, members defined after
\* their class, a record with and without members.
Found(n, k, a, b) == [fqn |-> n, kind |-> k, start |-> a, end |-> b]
Candidates ==
    {Found(<<"N">>, "namespace", 1, 8), Found(<<"N", "A">>, "class", 2, 6),
     Found(<<"N", "A", "m">>, "method", 3, 3), Found(<<"N", "A", "m">>, "method", 5, 6),
     Found(<<"N", "A", "m">>, "method", 3, 4), Found(<<"N", "A", "B">>, "struct", 4, 6),
     Found(<<"N", "A", "B", "f">>, "method", 4, 4), Found(<<"g">>, "function", 7, 7),
     Found(<<"S">>, "struct", 7, 8), Found(<<"N", "A", "n">>, "method", 8, 8)}
ErrorSets ==
    {{}, {[missing |-> TRUE, start |-> 3, end |-> 3]}, {[missing |-> FALSE, start |-> 5, end |-> 5]},
     {[missing |-> TRUE, start |-> 1, end |-> 1], [missing |-> TRUE, start |-> 6, end |-> 6]}}
SourceTexts ==
    {<<"x", NL, "x", NL, NL, "x", NL, "x", NL, "x", NL, Space, NL, "x">>,
     <<"x", "x", Space, "x", "x", Space, "x", NL, "x", NL, "x", NL, "x", NL, "x", NL, "x", NL,
       "x", NL, "x", "x", "x", "x", "x", "x", NL>>}
MCSources ==
    [text : SourceTexts, language : {"c", "cpp"},
     found : [symbols : UNION {kSubset(k, Candidates) : k \in 0..4}, errors : ErrorSets,
              edges : {{}}, refs : {{}}, fails : {FALSE}]
             \cup [symbols : {Candidates}, errors : {{}}, edges : {{}}, refs : {{}}, fails : {TRUE}]]

\* Trees: a chain of nodes in each other around a call, and a function after it.
Node(is, name) ==
    [is |-> is, name |-> name, up |-> 0, part |-> "body", start |-> 1, end |-> 1, body |-> TRUE,
     path |-> <<>>, form |-> "name", type |-> None, init |-> {}, fields |-> {}, bases |-> {},
     open |-> FALSE]
CallNode(name) == [Node("call", None) EXCEPT !.path = <<name>>]

Nested(chain) ==
    [i \in DOMAIN chain |->
        [chain[i] EXCEPT !.up = i - 1, !.start = i, !.end = 2 * Len(chain) - i]]
After(tree, nodes) ==
    LET last == Max({0} \cup {n.end : n \in ToSet(tree)}) IN
    tree \o [i \in DOMAIN nodes |->
        [nodes[i] EXCEPT !.up = IF @ = 0 THEN 0 ELSE @ + Len(tree),
                         !.start = @ + last, !.end = @ + last]]
CalleeIn(f) == <<[f EXCEPT !.end = 3], [CallNode("h") EXCEPT !.up = 1, !.start = 2, !.end = 2]>>

Member(name) == [Node("function", name) EXCEPT !.path = <<"A">>]
CppWraps ==
    {Node("namespace", "N"), Node("namespace", None), [Node("class", "A") EXCEPT !.bases = {<<"B">>}],
     Node("struct", None), Node("group", None), Node("braces", None), Node("template", None),
     Node("function", "f"), Member("f"), Node("statement", None), Node("declaration", "v")}
Block == {"namespace", "group", "braces", "template"}
CppMayHold(above, n) ==
    CASE above.is = "template" -> n.is \in {"class", "struct", "function"}
      [] above.is = "declaration" -> n.is \in {"class", "struct", "call"}
      [] n.is = "braces" -> above.is = "group"
      [] n.is \in {"namespace", "template"} -> above.is \in Block
      [] n.is = "function" -> above.is \in Block \/ (above.is \in Records /\ n.path = <<>>)
      [] OTHER -> n.is # "call" \/ above.is \in {"function", "statement"}

CWraps == {Node("group", None), Node("braces", None), Node("function", "f"), Node("struct", "S"),
           Node("statement", None), Node("declaration", "v"), Node("typedef", "S")}
CMayHold(above, n) ==
    CASE above.is = "typedef" -> n.is = "struct"
      [] above.is = "declaration" -> n.is \in {"struct", "call"}
      [] above.is = "struct" -> n.is \in {"declaration", "group"}
      [] n.is = "braces" -> above.is = "group"
      [] n.is \in {"function", "group"} -> above.is \in {"group", "braces"}
      [] OTHER -> n.is # "call" \/ above.is \in {"function", "statement"}

PyWraps == {Node("class", "A"), Node("function", "f"), Node("decorated", None), Node("statement", None)}
PyMayHold(above, n) ==
    IF above.is = "decorated" THEN n.is \in Definitions \/ (n.is = "call" /\ n.part = "head")
    ELSE n.part = "body" \/ above.is \in Definitions

\* Every chain of up to k nodes around a call.
Chains(wraps, MayHold(_, _), k) ==
    {c \in {Append(w, call) : w \in BoundedSeq(wraps, k),
             call \in {CallNode("g"), [CallNode("g") EXCEPT !.part = "head"]}} :
        /\ \A i \in 2..Len(c) : MayHold(c[i - 1], c[i])
        /\ Len(c) = 1 => c[1].part = "body"
        /\ c[1].is # "braces"}

Spans == {{}} \cup {{[missing |-> FALSE, start |-> l, end |-> l]} : l \in {1, 2, 4}}
Trees(language, chains, spans) ==
    [language : {language}, errors : spans,
     tree : {After(Nested(c), CalleeIn(Node("function", "f"))) : c \in chains}]

\* A sample of each language, with what else the extractors look at.
CppSample(name) ==
    After(Nested(<<Node("class", "B"), [Node("declaration", name) EXCEPT !.form = "function"]>>),
        <<[Node("class", "A") EXCEPT !.bases = {<<"B">>}, !.end = 3],
          [Node("declaration", "f") EXCEPT !.up = 1, !.start = 2, !.end = 2, !.form = "function",
                                           !.open = TRUE],
          [Node("macro", "M") EXCEPT !.start = 4, !.end = 4],
          [Node("declaration", "p") EXCEPT !.start = 5, !.end = 5, !.form = "pointer",
                                           !.init = {<<"h">>}],
          [Node("include", None) EXCEPT !.start = 6, !.end = 6, !.form = "quoted",
                                        !.path = <<"..", "x">>],
          [Node("declaration", "M") EXCEPT !.start = 7, !.end = 7, !.type = "M"],
          [Member(name) EXCEPT !.start = 8, !.end = 10],
          [CallNode("p") EXCEPT !.up = 7, !.start = 9, !.end = 9],
          [Node("typedef", "T") EXCEPT !.start = 11, !.end = 11, !.form = "pointer"],
          [Node("parameter", "q") EXCEPT !.up = 7, !.part = "head", !.start = 8, !.end = 8,
                                         !.type = "T"],
          [CallNode("q") EXCEPT !.up = 7, !.start = 10, !.end = 10],
          [Node("template", None) EXCEPT !.start = 12, !.end = 13, !.open = TRUE],
          [Node("class", "A") EXCEPT !.up = 12, !.start = 13, !.end = 13]>>)
CSample(field) ==
    After(Nested(<<Node("typedef", "P"), Node("struct", "S")>>),
        <<[Node("typedef", "T") EXCEPT !.start = 1, !.end = 1, !.form = "pointer"],
          [Node("declaration", "v") EXCEPT !.start = 2, !.end = 2, !.type = "P",
                                           !.fields = {[name |-> field, init |-> {<<"h">>}]}],
          [Node("declaration", "p") EXCEPT !.start = 3, !.end = 3, !.type = "T", !.init = {<<"k">>}],
          [Node("function", "f") EXCEPT !.start = 4, !.end = 7],
          [CallNode("m") EXCEPT !.up = 4, !.start = 5, !.end = 5, !.path = <<"v", "m">>],
          [CallNode("p") EXCEPT !.up = 4, !.start = 6, !.end = 6, !.form = "subscript"],
          [Node("include", None) EXCEPT !.start = 8, !.end = 8, !.form = "system", !.path = <<"x">>]>>)
PySample(form) ==
    After(Nested(<<Node("class", "A"), Node("decorated", None), Node("function", "f"), CallNode("g")>>),
        <<[Node("import", None) EXCEPT !.bases = {<<"m", "x">>}],
          [Node("variable", "v") EXCEPT !.start = 2, !.end = 2],
          [CallNode("g") EXCEPT !.up = 2, !.start = 2, !.end = 2, !.form = form],
          [Node("class", "C") EXCEPT !.start = 3, !.end = 4, !.bases = {<<"A">>}],
          [CallNode("g") EXCEPT !.up = 4, !.part = "head", !.start = 3, !.end = 3]>>)

MCTrees ==
    Trees("cpp", Chains(CppWraps, CppMayHold, 4), {{}})
    \cup Trees("cpp", Chains(CppWraps, CppMayHold, 3), Spans)
    \cup Trees("c", Chains(CWraps, CMayHold, 3), Spans)
    \cup Trees("python", Chains(PyWraps, PyMayHold, 4), Spans)
    \cup [language : {"cpp"}, errors : Spans, tree : {CppSample("f"), CppSample("k")}]
    \cup [language : {"c"}, errors : Spans, tree : {CSample("m"), CSample("n")}]
    \cup [language : {"python"}, errors : Spans, tree : {PySample("name"), PySample("importlib")}]

Plain(k) == [is |-> k]
Heading(n) == [is |-> "heading", level |-> n]
Fence(m, n, i) == [is |-> "fence", mark |-> m, size |-> n, info |-> i]
MCDocuments ==
    BoundedSeq({Plain("text"), Plain("blank"), Plain("delim"), Heading(1), Heading(2),
                Fence("backtick", 3, "none"), Fence("backtick", 4, "none"),
                Fence("backtick", 3, "backtick"), Fence("tilde", 3, "text")}, 4)
    \cup BoundedSeq({Plain("text"), Heading(1), Heading(2), Heading(3),
                     Fence("tilde", 3, "none")}, 6)

\* Two models and an alias, two vendors and the generic one.
Model(m, s, b, c, v) == [max |-> m, size |-> s, budget |-> b, concurrency |-> c, vendor |-> v]
MCModels == [near |-> Model(5, 0, 0, 0, "v1"), far |-> Model(4, 2, 5, 2, "v2")]
MCAlias == [alias |-> "near"]
Vendor(i, t, s, h) == [items |-> i, tokens |-> t, safe |-> s, host |-> h]
MCVendors == [v1 |-> Vendor(3, 7, 2, "h1"), v2 |-> Vendor(2, 6, 2, "h2"),
              generic |-> Vendor(2, 4, 1, "none")]

Config(model) == [mode |-> "api", model |-> model, dim |-> FALSE, max |-> 0, size |-> 0,
                  budget |-> 0, concurrency |-> 0, vendor |-> "none", host |-> "none"]
Registered ==
    {Config("near"), [Config("near") EXCEPT !.concurrency = 2, !.max = 9],
     [Config("alias") EXCEPT !.max = 3, !.vendor = "v2"], Config("far"),
     [Config("far") EXCEPT !.concurrency = 3, !.size = 1], [Config("near") EXCEPT !.size = 4]}
Unregistered ==
    {Config("other"), [Config("other") EXCEPT !.dim = TRUE, !.max = 3],
     [Config("other") EXCEPT !.dim = TRUE, !.host = "h1", !.concurrency = 2]}
LocalOnes ==
    {[Config("near") EXCEPT !.mode = "local"], [Config("near") EXCEPT !.mode = "local", !.max = 3]}

\* Two short texts and two that are cut, one of them twice or in half.
Text(w, r) == [widths |-> w, recount |-> r]
MCText == {Text(<<1>>, <<1>>), Text(<<1, 3>>, <<1, 2>>),
           Text(<<1, 1, 2, 1, 1, 3, 1>>, <<1, 2, 3, 4, 6, 6, 7>>),
           Text(<<2, 2, 2, 1, 1, 1>>, <<1, 2, 6, 5, 6, 6>>)}
Short == Text(<<1>>, <<1>>)
MCTextLists ==
    BoundedSeq(MCText \ {Text(<<1, 3>>, <<1, 2>>)}, 2)
    \cup {<<Short, Short, Short, Short>>, <<Short, Text(<<1, 3>>, <<1, 2>>), Short>>}
MCEmbedCalls ==
    [config : Registered, exact : BOOLEAN, texts : MCTextLists]
    \cup [config : Unregistered, exact : {FALSE}, texts : MCTextLists]
    \cup [config : LocalOnes, exact : {TRUE}, texts : MCTextLists]

Symmetry == Permutations(Provider) \cup Permutations(Project)

================================================================================
