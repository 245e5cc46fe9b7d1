------------------------------ MODULE SymbolGraph ------------------------------
(***************************************************************************)
(* The tables of one project's index.db (nova_core/storage/store.py) and   *)
(* the two-phase resolution of references (chunking/resolver.py), as       *)
(* operators on a record d:                                                *)
(*                                                                         *)
(*   files  the version of each path whose rows are stored: it stands for  *)
(*          the rows of files, chunks, chunks_fts, symbols and spec_blocks *)
(*   edges  [src, tgt, kind, line]: the edges table                        *)
(*   refs   [src, name, kind, line, file, status]: unresolved_refs         *)
(*   specs  [block, sym, stale]: spec_references                           *)
(*                                                                         *)
(* What the parser makes of a version is a constant.  Every name is a      *)
(* fully qualified name inside its file, so two files may define the same  *)
(* one; the source of a module's own edges is its path.                    *)
(***************************************************************************)
EXTENDS Integers, FiniteSets

CONSTANTS
    File,      \* paths, in their sorted order: natural numbers
    Version,   \* contents
    Refused,   \* the versions prepare_file skips: too large or binary
    Name,      \* fully qualified names
    Segment,      \* name_tail: the last part of a name
    Hint,      \* <<path, name>> -> the modules an import of the name can mean
    Parsed,    \* <<path, version>> -> [chunks, symbols, edges, refs, mentions]
    NoFile     \* a path that is not there

ASSUME SymbolGraphAssumption ==
    /\ File \subseteq Nat /\ NoFile \notin Version /\ NoFile \notin File
    /\ IsFiniteSet(File)
    /\ Refused \subseteq Version
    /\ Segment \in [Name -> Name] /\ \A n \in Name : Segment[Segment[n]] = Segment[n]
    /\ Hint \in [File \X Name -> SUBSET File]
    /\ DOMAIN Parsed = File \X Version

\* What a parser finds: rows of the tables.
ASSUME ParsedAssumption ==
    \A f \in File, v \in Version :
        LET p == Parsed[<<f, v>>] IN
        /\ IsFiniteSet(p.symbols)
        /\ p.symbols \subseteq [fqn : Name, line : Nat, exported : BOOLEAN]
        /\ p.edges \subseteq [src : Name \cup File, tgt : Name \cup File, kind : STRING, line : Nat]
        /\ p.refs \subseteq [src : Name \cup File, name : Name, kind : STRING, line : Nat]
        /\ p.mentions \subseteq Name

\* The id of a chunk is <path>:<name>:<line>, with a suffix where a version would
\* use it twice (splitter.py: chunk_id, _disambiguate_ids).
ASSUME ChunkIdAssumption ==
    \A f, g \in File, v, w \in Version :
        \A c \in Parsed[<<f, v>>].chunks, d \in Parsed[<<g, w>>].chunks :
            c.id = d.id => f = g /\ (v = w => c = d)

\* The tables' columns.
Files == [File -> Version \cup {NoFile}]
EdgeRow == [src : Name \cup File, tgt : Name \cup File, kind : STRING, line : Nat]
RefRow == [src : Name \cup File, name : Name, kind : STRING, line : Nat, file : File,
           status : {"pending", "failed"}]
SpecRow == [block : File, sym : File \X Name \X Nat, stale : BOOLEAN]
Database == [files : Files, edges : SUBSET EdgeRow, refs : SUBSET RefRow, specs : SUBSET SpecRow]

EmptyDb == [files |-> [f \in File |-> NoFile], edges |-> {}, refs |-> {}, specs |-> {}]

Held(files) == {f \in File : files[f] # NoFile}
Rows(files, f) == Parsed[<<f, files[f]>>]

\* The rows of the chunks table: [id, hash]; an id names its path.
Chunks(files) == UNION {Rows(files, f).chunks : f \in Held(files)}

Located(f, symbols) ==
    {[file |-> f, fqn |-> s.fqn, line |-> s.line, exported |-> s.exported] : s \in symbols}

\* The symbols table.
Symbols(files) == UNION {Located(f, Rows(files, f).symbols) : f \in Held(files)}

Id(s) == <<s.file, s.fqn, s.line>>
Fqns(symbols) == {s.fqn : s \in symbols}

--------------------------------------------------------------------------------
(* Writes of one file's rows.                                              *)

\* Rows of spec_references whose symbol is in f when its symbols go from old to
\* new: a name that is gone makes them stale, a name that has one place before
\* and after takes them along.
Rehung(specs, f, old, new) ==
    LET At(S, n) == {s \in S : s.fqn = n}
        Moved(r) ==
            LET before == At(old, r.sym[2])
                after == At(new, r.sym[2])
            IN  IF r.sym[1] # f \/ r.sym \notin {Id(s) : s \in before} THEN r
                ELSE IF after = {} THEN [r EXCEPT !.stale = TRUE]
                ELSE IF Cardinality(before) = 1 /\ Cardinality(after) = 1
                     THEN [r EXCEPT !.sym = Id(CHOOSE s \in after : TRUE)]
                     ELSE r
    IN  {Moved(r) : r \in specs}

SameRef(q, r) == q.src = r.src /\ q.name = r.name /\ q.kind = r.kind /\ q.line = r.line

\* Mutant: the edges that lead to the file's symbols go as well.
EdgesOfBothEnds(d, f, new) ==
    LET names == Fqns(IF d.files[f] = NoFile THEN {} ELSE Rows(d.files, f).symbols)
    IN  {e \in d.edges : e.src \in names \cup Fqns(new.symbols) \/ e.tgt \in names}

\* An edge belongs to the file of its source: those the file's symbols had, have
\* or (module-level edges) the new version brings.
EdgesOf(d, f, new) ==
    LET old == IF d.files[f] = NoFile THEN {} ELSE Fqns(Rows(d.files, f).symbols)
    IN  {e \in d.edges :
            e.src \in old \cup Fqns(new.symbols) \cup {n.src : n \in new.edges}}

\* _insert_unresolved_rows: the references of a file are pending rows, unless a row
\* of another file says the same.
InsertRefs(others, f, refs) ==
    others \cup {[src |-> r.src, name |-> r.name, kind |-> r.kind, line |-> r.line,
                  file |-> f, status |-> "pending"] :
                     r \in {n \in refs : \A q \in others : ~SameRef(q, n)}}

\* apply_file_change: one transaction (a savepoint of write_batch).
ApplyFile(d, f, v) ==
    LET new == Parsed[<<f, v>>]
        old == IF d.files[f] = NoFile THEN {} ELSE Located(f, Rows(d.files, f).symbols)
    IN  [files |-> [d.files EXCEPT ![f] = v],
         edges |-> (d.edges \ EdgesOf(d, f, new)) \cup new.edges,
         refs  |-> InsertRefs({r \in d.refs : r.file # f}, f, new.refs),
         specs |-> {r \in Rehung(d.specs, f, old, Located(f, new.symbols)) : r.block # f}]

\* apply_deletions: one transaction for all the paths.  Only the edges of the
\* files' symbols are deleted, not those whose source is the path.
ApplyDeletions(d, paths) ==
    LET gone == UNION {Located(f, Rows(d.files, f).symbols) : f \in paths \cap Held(d.files)}
    IN  [files |-> [f \in File |-> IF f \in paths THEN NoFile ELSE d.files[f]],
         edges |-> {e \in d.edges : e.src \notin Fqns(gone)},
         refs  |-> {r \in d.refs : r.file \notin paths},
         specs |-> {IF r.sym \in {Id(s) : s \in gone} THEN [r EXCEPT !.stale = TRUE] ELSE r :
                       r \in {q \in d.specs : q.block \notin paths}}]

--------------------------------------------------------------------------------
(* Resolution.                                                             *)

\* The symbols a name can mean: by full name, otherwise by its last part.
Named(files, n) ==
    LET all == Symbols(files)
        exact == {s \in all : s.fqn = n}
    IN  IF exact # {} THEN exact
        ELSE {s \in all : Segment[s.fqn] = Segment[n] \/ s.fqn = Segment[n]}

\* One symbol is the answer; of several, those of the same file, of those the
\* exported ones.
Narrowed(found, file) ==
    LET near == {s \in found : s.file = file}
        kept == IF near # {} THEN near ELSE found
        exported == {s \in kept : s.exported}
    IN  IF Cardinality(found) <= 1 THEN found
        ELSE IF Cardinality(near) = 1 THEN near
        ELSE IF exported # {} THEN exported ELSE kept

\* The files an import can mean; other references are not restricted.
Hints(n, file, kind) == IF kind = "imports" /\ file # NoFile THEN Hint[<<file, n>>] ELSE {}

\* _match.  An import must lie in a module its name can mean.
Match(files, n, file, kind) ==
    LET hints == Hints(n, file, kind)
        found == {s \in Named(files, n) : hints # {} => s.file \in hints}
    IN  Narrowed(found, file)

Targets(d, r) == Fqns(Match(d.files, r.name, r.file, r.kind))
MatchCount(d, r) == Cardinality(Match(d.files, r.name, r.file, r.kind))

\* A reference becomes an edge to each of its targets and goes (resolve_refs for
\* those with one target, then resolve_ref_targets for those with several).
ResolveRefs(d, rows) ==
    [d EXCEPT
        !.edges = @ \cup UNION {{[src |-> r.src, tgt |-> t, kind |-> r.kind, line |-> r.line] :
                                    t \in Targets(d, r)} : r \in rows},
        !.refs = @ \ rows]

\* A reference without a target is kept for a later ingest.
MarkRefsFailed(d, rows) ==
    [d EXCEPT !.refs = (@ \ rows) \cup {[r EXCEPT !.status = "failed"] : r \in rows}]

\* The three transactions of _resolve_rows.
ResolveSingles(d, rows) == ResolveRefs(d, {r \in rows : MatchCount(d, r) = 1})
ResolveMulti(d, rows) == ResolveRefs(d, {r \in rows : MatchCount(d, r) > 1})
ResolveNone(d, rows) == MarkRefsFailed(d, {r \in rows : MatchCount(d, r) = 0})

\* resolve_pending looks at the references that are new.
Pending(d) == {r \in d.refs : r.status = "pending"}

Retried(names, r) ==
    LET keys == names \cup {Segment[n] : n \in names} IN Segment[r.name] \in keys \/ r.name \in keys

\* Mutant: only the references of the files of this ingest are tried again.
RetryOwn(d, parsed) == {r \in d.refs : r.status = "failed" /\ r.file \in parsed}

\* retry_failed looks at the failed ones the files of this ingest could help.
RetryFailed(d, parsed) ==
    LET names == UNION {LET own == Fqns(Rows(d.files, f).symbols)
                        IN  own \cup {Segment[n] : n \in own} : f \in parsed}
    IN  {r \in d.refs : r.status = "failed" /\ Retried(names, r)}

\* _source_file: the path itself, or the first file that defines the name.
SourceFile(files, src) ==
    LET owners == {s \in Symbols(files) : s.fqn = src}
        Before(s, t) == \/ s.exported /\ ~t.exported
                        \/ s.exported = t.exported /\ s.file <= t.file
    IN  IF src \in File THEN src
        ELSE IF owners = {} THEN NoFile
        ELSE (CHOOSE s \in owners : \A t \in owners : Before(s, t)).file

\* The edges that do not end at a symbol (but are not paths) and what they match.
Bare(d) == {e \in d.edges : e.tgt \in Name \ Fqns(Symbols(d.files))}
EdgeTargets(d, e) == Match(d.files, e.tgt, SourceFile(d.files, e.src), e.kind)

\* resolve_edges and retarget_edges: an edge is moved only to a single target.
ResolveEdges(d) ==
    LET sure == {e \in Bare(d) : Cardinality(EdgeTargets(d, e)) = 1}
    IN  [d EXCEPT !.edges = (@ \ sure) \cup
            {[e EXCEPT !.tgt = (CHOOSE s \in EdgeTargets(d, e) : TRUE).fqn] : e \in sure}]

\* add_spec_refs: a row that is there stays as it is, stale or not.
AddSpecRefs(d, pairs) ==
    LET known == {<<r.block, r.sym>> : r \in d.specs}
    IN  [d EXCEPT !.specs = @ \cup
            {[block |-> p[1], sym |-> p[2], stale |-> FALSE] : p \in pairs \ known}]

\* The symbols a mention can mean: all of them, whatever their file.
Mentioned(d, f) == UNION {Named(d.files, n) : n \in Rows(d.files, f).mentions}

\* link_spec_references: of the files of this ingest only.
LinkSpecs(d, parsed) ==
    AddSpecRefs(d, UNION {{<<f, Id(s)>> : s \in Mentioned(d, f)} : f \in parsed})

--------------------------------------------------------------------------------
(* What survives the writes of other files.                                *)

\* Some version of the file has several symbols of the name: references to them
\* are not moved when the lines change, and later changes do not find them.
Overloaded(f, n) ==
    \E v \in Version : Cardinality({s \in Parsed[<<f, v>>].symbols : s.fqn = n}) > 1

\* A spec reference that is not marked stale leads to a symbol its file has.
SpecsKept(d) ==
    \A r \in d.specs : \/ r.stale
                        \/ Overloaded(r.sym[1], r.sym[2])
                        \/ \E s \in Symbols(d.files) : Id(s) = r.sym

\* The edge sources that occur in no other file.
Sources(f) == UNION {Fqns(Parsed[<<f, v>>].symbols) \cup {e.src : e \in Parsed[<<f, v>>].edges} :
                        v \in Version}
Own(f) == Sources(f) \ UNION {Sources(g) : g \in File \ {f}}

\* An edge is where it was, moved at most to another name with the same last part.
Follows(k, e) ==
    /\ k.src = e.src /\ k.kind = e.kind /\ k.line = e.line
    /\ \/ k.tgt = e.tgt
       \/ {k.tgt, e.tgt} \subseteq Name /\ Segment[k.tgt] = Segment[e.tgt]

\* The edges of a file's own symbols stay as long as its rows do, they are moved
\* and never lost.
EdgesKept(d) ==
    \A f \in Held(d.files) : \A e \in Rows(d.files, f).edges :
        e.src \in Own(f) => \E k \in d.edges : Follows(k, e)

================================================================================
