-------------------------------- MODULE MCSearch -------------------------------
(***************************************************************************)
(* A repository of a class with two methods, a helper they call, a test, a *)
(* header, a package file that exports the class, and two documents.       *)
(***************************************************************************)
EXTENDS Search

Row(path, fqn, kind, start, end) ==
    [path |-> path, fqn |-> fqn, kind |-> kind, start |-> start, end |-> end, body |-> TRUE,
     calls |-> <<>>, refs |-> <<>>, reexports |-> {}, marks |-> {}]

MCCorpus == <<
    [Row("f", <<"K">>, "code", 1, 2) EXCEPT !.calls = <<<<"h">>>>, !.marks = {"exported"}],
    [Row("f", <<"K", "a">>, "code", 4, 12) EXCEPT !.calls = <<<<"h">>, <<"K", "b">>>>],
    [Row("f", <<"K", "b">>, "code", 13, 15) EXCEPT !.marks = {"deprecated"}],
    [Row("g", <<"h">>, "code", 1, 5) EXCEPT !.calls = <<<<"ext">>>>],
    [Row("gh", <<"h">>, "code", 1, 1) EXCEPT !.body = FALSE],
    [Row("d", <<>>, "spec", 1, 3) EXCEPT !.refs = <<3, 4>>, !.marks = {"design"}],
    [Row("d", <<>>, "spec", 12, 16) EXCEPT !.refs = <<2>>],
    [Row("t", <<"tk">>, "test", 1, 4) EXCEPT !.calls = <<<<"K", "a">>>>],
    [Row("init", <<>>, "fallback", 1, 2) EXCEPT !.reexports = {"K"}] >>

MCBudget ==
    [overhead |-> 2, fileTokens |-> 14, docsTokens |-> 8, tier3Ratio |-> 50, scoreRatio |-> 40,
     specFloor |-> 1, codeFloor |-> 2, skeletonLines |-> 4, contextLines |-> 2, adjacentGap |-> 2,
     backfillRatio |-> 35, backfillSingle |-> 50, backfillLines |-> 3, reserveMin |-> 20]

MCLimits ==
    [explicit |-> 3, literal |-> 2, inferred |-> 3, bm25 |-> 4, vector |-> 3, pool |-> 7,
     seeds |-> 4, expanded |-> 5, callerThreshold |-> 1, callerCap |-> 1, flowSeeds |-> 2, flowNodes |-> 3]

MCGapLimits == [containers |-> 2, members |-> 2, anchors |-> 2, refs |-> 2, callees |-> 2, total |-> 2]

Question == [symbols |-> <<>>, inferred |-> <<>>, paths |-> {}, phrases |-> <<>>, bm25 |-> <<>>,
             vector |-> <<>>, words |-> {}, private |-> {"h"}, testIntent |-> FALSE]

MCQueries == {
    [Question EXCEPT !.symbols = <<<<"K">>>>, !.bm25 = <<6, 1, 8>>, !.vector = <<7, 2, 9>>, !.words = {"b"}],
    [Question EXCEPT !.inferred = <<<<"K", "a">>, <<"h">>>>, !.bm25 = <<2, 5, 6>>, !.vector = <<4, 6, 3>>,
                     !.paths = {"gh"}],
    [Question EXCEPT !.phrases = <<[strong |-> TRUE, hits |-> <<9, 3>>], [strong |-> FALSE, hits |-> <<1, 3>>]>>,
                     !.vector = <<6, 7>>, !.testIntent = TRUE],
    [Question EXCEPT !.bm25 = <<6, 7, 4, 5>>, !.vector = <<4, 6, 5>>] }

MCFiles == {{1, 2, 3}, {4}, {6, 7}}

MCSymmetry == Permutations(Models)

\* A second search is followed until it has its vector, for what it finds in the
\* query cache; and one that packs beside a call that was given up, or under a
\* model that was changed, only with the smallest budget: the two do not meet.
MCFollowed ==
    phase \in {"rank", "first", "second"} =>
        /\ spent.searches = 1
        /\ \/ hardCap = Min(Caps)
           \/ /\ spent.switches = 0 /\ threads = {}
              /\ \A e \in ToSet(cache) : ~e.late
================================================================================
