----------------------------- MODULE IndexingProofs ----------------------------
(***************************************************************************)
(* What holds of one project's index, and of the prefetcher, in every      *)
(* state, for any files, versions, models and number of edits, faults and  *)
(* changes of the model, and any projects, batches, sizes and limits.      *)
(*                                                                         *)
(* The invariant of the index comes in two halves.  TableInv says where an *)
(* ingest is, what it has written and what the resolution of references    *)
(* has done.  RowInv says whose model the vectors are of and which chunks  *)
(* have one.  Neither needs more than the assumptions on the constants:    *)
(* the model may change whenever no ingest is running, also after one that *)
(* was cut off; `maker` and `mixed` tell what that leaves in the table.    *)
(* PrefetchInv says of the prefetcher that its entries are what they are   *)
(* filed as and counted once, and of an ingest that what it used is what   *)
(* it would have prepared itself.                                          *)
(*                                                                         *)
(* First, what the operators of SymbolGraph return and keep, for every     *)
(* content of the tables.                                                  *)
(***************************************************************************)
EXTENDS IndexStore, Prefetch, FiniteSetTheorems, TLAPS

\* The symbols a reference is matched with if there is no better one: by name in the
\* files an import can mean, or by the last part where it is not restricted.
Could(r, s) ==
    LET hints == Hints(r.name, r.file, r.kind) IN
    \/ s.fqn = r.name /\ (hints # {} => s.file \in hints)
    \/ hints = {} /\ (Segment[s.fqn] = Segment[r.name] \/ s.fqn = Segment[r.name])

SymbolRow == [file : File, fqn : Name, line : Nat, exported : BOOLEAN]

--------------------------------------------------------------------------------
(* Symbols and their match.                                                *)

\* The values of a function are finitely many if its arguments are.
LEMMA FiniteValues ==
    ASSUME NEW g, IsFiniteSet(DOMAIN g), g = [x \in DOMAIN g |-> g[x]]
    PROVE  IsFiniteSet({g[x] : x \in DOMAIN g})
<1> DEFINE T == {g[x] : x \in DOMAIN g}
<1>1. g \in Surjection(DOMAIN g, T)
    BY DEF Surjection
<1> QED BY <1>1, FS_Surjection

\* What the parser makes of a version are rows of the tables.
LEMMA ParsedRows ==
    ASSUME NEW f \in File, NEW v \in Version
    PROVE  /\ IsFiniteSet(Parsed[<<f, v>>].symbols)
           /\ Parsed[<<f, v>>].symbols \subseteq [fqn : Name, line : Nat, exported : BOOLEAN]
           /\ Parsed[<<f, v>>].edges \subseteq EdgeRow
           /\ Parsed[<<f, v>>].refs \subseteq
                 [src : Name \cup File, name : Name, kind : STRING, line : Nat]
           /\ Parsed[<<f, v>>].mentions \subseteq Name
BY ParsedAssumption DEF EdgeRow

\* The rows of a held file are those of its version.
LEMMA HeldRows ==
    ASSUME NEW files \in Files, NEW f \in Held(files)
    PROVE  f \in File /\ files[f] \in Version /\ Rows(files, f) = Parsed[<<f, files[f]>>]
BY SymbolGraphAssumption DEF Files, Held, Rows

\* The symbols of a version, with their file.
LEMMA LocatedRows ==
    ASSUME NEW f \in File, NEW v \in Version
    PROVE  /\ IsFiniteSet(Located(f, Parsed[<<f, v>>].symbols))
           /\ Located(f, Parsed[<<f, v>>].symbols) \subseteq SymbolRow
           /\ \A s \in Located(f, Parsed[<<f, v>>].symbols) :
                 s.file = f /\ \E p \in Parsed[<<f, v>>].symbols :
                                  s.fqn = p.fqn /\ s.line = p.line /\ s.exported = p.exported
           /\ \A p \in Parsed[<<f, v>>].symbols :
                 [file |-> f, fqn |-> p.fqn, line |-> p.line, exported |-> p.exported]
                    \in Located(f, Parsed[<<f, v>>].symbols)
<1> DEFINE P == Parsed[<<f, v>>].symbols
           Row(p) == [file |-> f, fqn |-> p.fqn, line |-> p.line, exported |-> p.exported]
<1>1. IsFiniteSet(P) /\ P \subseteq [fqn : Name, line : Nat, exported : BOOLEAN]
    BY ParsedRows
<1>2. IsFiniteSet({Row(p) : p \in P})
  <2> DEFINE g == [p \in P |-> Row(p)]
  <2>1. DOMAIN g = P /\ g = [x \in DOMAIN g |-> g[x]] /\ {g[x] : x \in DOMAIN g} = {Row(p) : p \in P}
      OBVIOUS
  <2> HIDE DEF g
  <2> QED BY <1>1, <2>1, FiniteValues
<1>3. Located(f, P) = {Row(p) : p \in P}
    BY DEF Located
<1>4. \A p \in P : Row(p) \in SymbolRow
    BY <1>1 DEF SymbolRow
<1>5. /\ \A s \in {Row(p) : p \in P} : s.file = f /\ \E p \in P : s = Row(p)
      /\ \A p \in P : Row(p) \in {Row(q) : q \in P}
    OBVIOUS
<1> DEFINE R == {Row(p) : p \in P}
<1>6. R \subseteq SymbolRow
    BY <1>4
<1>7. /\ \A s \in R : s.file = f /\ \E p \in P : s.fqn = p.fqn /\ s.line = p.line /\ s.exported = p.exported
      /\ \A p \in P : Row(p) \in R
    BY <1>5
<1>8. IsFiniteSet(R) /\ Located(f, P) = R
    BY <1>2, <1>3
<1> HIDE DEF R
<1> QED BY <1>6, <1>7, <1>8

\* The symbols table holds the symbols of the held files and no others.
LEMMA SymbolFacts ==
    ASSUME NEW files \in Files
    PROVE  /\ IsFiniteSet(Symbols(files))
           /\ Symbols(files) \subseteq SymbolRow
           /\ \A s \in Symbols(files) :
                 /\ s.file \in Held(files)
                 /\ s \in Located(s.file, Rows(files, s.file).symbols)
           /\ \A f \in Held(files) : Located(f, Rows(files, f).symbols) \subseteq Symbols(files)
<1> DEFINE L(f) == Located(f, Rows(files, f).symbols)
<1>1. ASSUME NEW f \in Held(files)
      PROVE  IsFiniteSet(L(f)) /\ L(f) \subseteq SymbolRow /\ \A s \in L(f) : s.file = f
  <2>1. f \in File /\ files[f] \in Version /\ Rows(files, f) = Parsed[<<f, files[f]>>]
      BY HeldRows
  <2> QED BY <2>1, LocatedRows
<1>2. IsFiniteSet({L(f) : f \in Held(files)})
  <2>1. IsFiniteSet(Held(files))
      BY SymbolGraphAssumption, FS_Subset DEF Held
  <2> DEFINE g == [f \in Held(files) |-> L(f)]
  <2>2. /\ DOMAIN g = Held(files) /\ g = [x \in DOMAIN g |-> g[x]]
        /\ {g[x] : x \in DOMAIN g} = {L(f) : f \in Held(files)}
      OBVIOUS
  <2> HIDE DEF g
  <2> QED BY <2>1, <2>2, FiniteValues
<1>3. IsFiniteSet(UNION {L(f) : f \in Held(files)})
  <2> HIDE DEF L
  <2> QED BY <1>1, <1>2, FS_UNION
<1>4. Symbols(files) = UNION {L(f) : f \in Held(files)}
    BY DEF Symbols
<1> HIDE DEF L
<1>5. \A s \in Symbols(files) : s.file \in Held(files) /\ s \in L(s.file)
    BY <1>1, <1>4
<1>6. Symbols(files) \subseteq SymbolRow /\ \A f \in Held(files) : L(f) \subseteq Symbols(files)
    BY <1>1, <1>4
<1> QED BY <1>3, <1>4, <1>5, <1>6 DEF L

\* Narrowing several matches leaves some of them.
LEMMA NarrowedFacts ==
    ASSUME NEW S, IsFiniteSet(S), NEW file
    PROVE  Narrowed(S, file) \subseteq S /\ (S # {} => Narrowed(S, file) # {})
<1> DEFINE near == {s \in S : s.file = file}
           kept == IF near # {} THEN near ELSE S
           exported == {s \in kept : s.exported}
<1>1. Narrowed(S, file) = IF Cardinality(S) <= 1 THEN S
                          ELSE IF Cardinality(near) = 1 THEN near
                          ELSE IF exported # {} THEN exported ELSE kept
    BY DEF Narrowed
<1>2. near \subseteq S /\ kept \subseteq S /\ exported \subseteq S /\ (S # {} => kept # {})
    OBVIOUS
<1>3. Cardinality(near) = 1 => near # {}
  <2> HIDE DEF near
  <2> QED BY FS_EmptySet
<1> HIDE DEF near, kept, exported
<1> QED BY <1>1, <1>2, <1>3

\* A match is a symbol that is there, with the name or its last part.
LEMMA MatchFacts ==
    ASSUME NEW files \in Files, NEW n, NEW file, NEW kind
    PROVE  /\ Match(files, n, file, kind) \subseteq Symbols(files)
           /\ Cardinality(Match(files, n, file, kind)) \in Nat
           /\ Cardinality(Match(files, n, file, kind)) = 0 <=> Match(files, n, file, kind) = {}
           /\ \A s \in Match(files, n, file, kind) :
                 /\ s.fqn = n \/ Segment[s.fqn] = Segment[n] \/ s.fqn = Segment[n]
                 /\ Hints(n, file, kind) # {} => s.file \in Hints(n, file, kind)
<1> DEFINE hints == Hints(n, file, kind)
           S == {s \in Named(files, n) : hints # {} => s.file \in hints}
<1>1. Named(files, n) \subseteq Symbols(files)
    BY DEF Named
<1>2. \A s \in Named(files, n) : s.fqn = n \/ Segment[s.fqn] = Segment[n] \/ s.fqn = Segment[n]
    BY DEF Named
<1>3. IsFiniteSet(S)
    BY <1>1, SymbolFacts, FS_Subset
<1>4. Match(files, n, file, kind) = Narrowed(S, file)
    BY DEF Match
<1>5. Narrowed(S, file) \subseteq S
  <2> HIDE DEF S
  <2> QED BY <1>3, NarrowedFacts
<1>6. IsFiniteSet(Narrowed(S, file))
  <2> HIDE DEF S
  <2> QED BY <1>3, <1>5, FS_Subset
<1>7. Cardinality(Narrowed(S, file)) \in Nat
  <2> HIDE DEF S
  <2> QED BY <1>6, FS_CardinalityType
<1>8. Cardinality(Narrowed(S, file)) = 0 <=> Narrowed(S, file) = {}
  <2> HIDE DEF S
  <2> QED BY <1>6, FS_EmptySet
<1> HIDE DEF hints
<1>9. \A s \in Narrowed(S, file) :
         /\ s \in Symbols(files)
         /\ s.fqn = n \/ Segment[s.fqn] = Segment[n] \/ s.fqn = Segment[n]
         /\ hints # {} => s.file \in hints
    BY <1>1, <1>2, <1>5
<1> QED BY <1>4, <1>7, <1>8, <1>9 DEF hints

\* A symbol that could be meant is enough for a match.
LEMMA CouldMatch ==
    ASSUME NEW files \in Files, NEW r, NEW s \in Symbols(files), Could(r, s)
    PROVE  Match(files, r.name, r.file, r.kind) # {}
<1> DEFINE hints == Hints(r.name, r.file, r.kind)
           S == {t \in Named(files, r.name) : hints # {} => t.file \in hints}
<1>1. IsFiniteSet(S)
  <2>1. S \subseteq Symbols(files)
      BY DEF Named
  <2> QED BY <2>1, SymbolFacts, FS_Subset
<1>2. S # {}
  <2> HIDE DEF hints
  <2>1. CASE s.fqn = r.name /\ (hints # {} => s.file \in hints)
      BY <2>1 DEF Named
  <2>2. CASE hints = {} /\ (Segment[s.fqn] = Segment[r.name] \/ s.fqn = Segment[r.name])
      BY <2>2 DEF Named
  <2> QED BY <2>1, <2>2 DEF Could, hints
<1>3. Match(files, r.name, r.file, r.kind) = Narrowed(S, r.file)
    BY DEF Match
<1> HIDE DEF S
<1> QED BY <1>1, <1>2, <1>3, NarrowedFacts

--------------------------------------------------------------------------------
(* The writes of one file's rows.                                          *)

\* An empty database has its tables and nothing in them.
LEMMA EmptyDbFacts ==
    /\ EmptyDb \in Database /\ Held(EmptyDb.files) = {} /\ EmptyDb.refs = {}
    /\ SpecsKept(EmptyDb) /\ EdgesKept(EmptyDb)
BY DEF EmptyDb, Database, Files, Held, SpecsKept, EdgesKept

\* The tables of a database.
LEMMA DatabaseFields ==
    ASSUME NEW d \in Database
    PROVE  /\ d.files \in Files /\ d.edges \subseteq EdgeRow
           /\ d.refs \subseteq RefRow /\ d.specs \subseteq SpecRow
BY DEF Database

\* Where a spec reference into a file comes from when its symbols are replaced.
Rehangs(q, specs, f, old, new) ==
    \E r \in specs :
        /\ r.block = q.block /\ r.sym[1] = q.sym[1] /\ r.sym[2] = q.sym[2]
        /\ \/ q = r /\ (r.sym[1] # f \/ r.sym \notin {Id(s) : s \in old})
           \/ q.stale
           \/ \E s \in new : Id(s) = q.sym
           \/ /\ q = r /\ r.sym[1] = f
              /\ \E S \in {old, new} : /\ {s \in S : s.fqn = r.sym[2]} # {}
                                       /\ Cardinality({s \in S : s.fqn = r.sym[2]}) # 1

\* It leads to the same name of the same file, or is stale.
LEMMA RehungFacts ==
    ASSUME NEW specs, specs \subseteq SpecRow, NEW f \in File, NEW old,
           NEW new, new \subseteq SymbolRow, \A s \in new : s.file = f,
           NEW q \in Rehung(specs, f, old, new)
    PROVE  q \in SpecRow /\ Rehangs(q, specs, f, old, new)
<1> SUFFICES q \in SpecRow /\
    \E r \in specs :
        /\ r.block = q.block /\ r.sym[1] = q.sym[1] /\ r.sym[2] = q.sym[2]
        /\ \/ q = r /\ (r.sym[1] # f \/ r.sym \notin {Id(s) : s \in old})
           \/ q.stale
           \/ \E s \in new : Id(s) = q.sym
           \/ /\ q = r /\ r.sym[1] = f
              /\ \E S \in {old, new} : /\ {s \in S : s.fqn = r.sym[2]} # {}
                                       /\ Cardinality({s \in S : s.fqn = r.sym[2]}) # 1
    BY DEF Rehangs
<1> DEFINE At(S, n) == {s \in S : s.fqn = n}
           before(r) == At(old, r.sym[2])
           after(r) == At(new, r.sym[2])
           Moved(r) == IF r.sym[1] # f \/ r.sym \notin {Id(s) : s \in before(r)} THEN r
                       ELSE IF after(r) = {} THEN [r EXCEPT !.stale = TRUE]
                       ELSE IF Cardinality(before(r)) = 1 /\ Cardinality(after(r)) = 1
                            THEN [r EXCEPT !.sym = Id(CHOOSE s \in after(r) : TRUE)]
                            ELSE r
<1>1. Rehung(specs, f, old, new) = {Moved(r) : r \in specs}
    BY DEF Rehung
<1>2. PICK r \in specs : q = Moved(r)
  <2> HIDE DEF Moved
  <2> QED BY <1>1
<1>3. r \in SpecRow /\ r = [block |-> r.block, sym |-> r.sym, stale |-> r.stale]
      /\ r.block \in File /\ r.sym \in File \X Name \X Nat
    BY DEF SpecRow
<1>4. CASE r.sym[1] # f \/ r.sym \notin {Id(s) : s \in before(r)}
  <2>1. q = r
      BY <1>2, <1>4
  <2>2. r.sym[1] # f \/ r.sym \notin {Id(s) : s \in old}
      BY <1>4, <1>3 DEF Id
  <2> QED BY <1>3, <2>1, <2>2
<1>5. CASE ~(r.sym[1] # f \/ r.sym \notin {Id(s) : s \in before(r)}) /\ after(r) = {}
  <2>1. q = [r EXCEPT !.stale = TRUE]
      BY <1>2, <1>5
  <2>2. q = [block |-> r.block, sym |-> r.sym, stale |-> TRUE]
      BY <1>3, <2>1
  <2> QED BY <1>3, <2>2 DEF SpecRow
<1>6. CASE /\ ~(r.sym[1] # f \/ r.sym \notin {Id(s) : s \in before(r)}) /\ after(r) # {}
           /\ Cardinality(before(r)) = 1 /\ Cardinality(after(r)) = 1
  <2> DEFINE s == CHOOSE t \in after(r) : TRUE
  <2>1. s \in after(r)
      BY <1>6
  <2>2. s \in new /\ s.fqn = r.sym[2] /\ s \in SymbolRow /\ s.file = f /\ r.sym[1] = f
      BY <1>6, <2>1
  <2>3. q = [r EXCEPT !.sym = Id(s)]
      BY <1>2, <1>6
  <2> HIDE DEF s
  <2>4. q = [block |-> r.block, sym |-> Id(s), stale |-> r.stale]
      BY <1>3, <2>3
  <2>5. Id(s) = <<f, r.sym[2], s.line>> /\ Id(s) \in File \X Name \X Nat
      BY <1>3, <2>2 DEF Id, SymbolRow
  <2>6. q \in SpecRow
      BY <1>3, <2>4, <2>5 DEF SpecRow
  <2>7. r.block = q.block /\ r.sym[1] = q.sym[1] /\ r.sym[2] = q.sym[2] /\ Id(s) = q.sym
      BY <1>3, <2>2, <2>4, <2>5
  <2> QED BY <2>2, <2>6, <2>7
<1>7. CASE /\ ~(r.sym[1] # f \/ r.sym \notin {Id(s) : s \in before(r)}) /\ after(r) # {}
           /\ ~(Cardinality(before(r)) = 1 /\ Cardinality(after(r)) = 1)
  <2>1. q = r
      BY <1>2, <1>7
  <2>2. before(r) # {} /\ after(r) # {} /\ r.sym[1] = f
      BY <1>7
  <2>3. Cardinality(before(r)) # 1 \/ Cardinality(after(r)) # 1
      BY <1>7
  <2>4. \E S \in {old, new} : At(S, r.sym[2]) # {} /\ Cardinality(At(S, r.sym[2])) # 1
      BY <2>2, <2>3
  <2> QED BY <1>3, <2>1, <2>2, <2>4
<1> QED BY <1>4, <1>5, <1>6, <1>7


\* Several rows of one name: a version of the file has several symbols of it.
LEMMA SeveralRows ==
    ASSUME NEW f \in File, NEW v \in Version, NEW n,
           {s \in Located(f, Parsed[<<f, v>>].symbols) : s.fqn = n} # {},
           Cardinality({s \in Located(f, Parsed[<<f, v>>].symbols) : s.fqn = n}) # 1
    PROVE  Overloaded(f, n)
<1> DEFINE P == Parsed[<<f, v>>].symbols
           L == Located(f, P)
           Row(p) == [file |-> f, fqn |-> p.fqn, line |-> p.line, exported |-> p.exported]
           Pn == {p \in P : p.fqn = n}
           Ln == {s \in L : s.fqn = n}
<1>1. L = {Row(p) : p \in P}
    BY DEF Located
<1>2. Ln = {Row(p) : p \in Pn}
    BY <1>1
<1>3. IsFiniteSet(Pn) /\ IsFiniteSet(Ln)
  <2>1. IsFiniteSet(P) /\ IsFiniteSet(L)
      BY ParsedRows, LocatedRows
  <2> HIDE DEF P, L
  <2> QED BY <2>1, FS_Subset
<1>4. Pn # {}
    BY <1>2
<1>5. ~\E x : Pn = {x}
  <2> SUFFICES ASSUME NEW x, Pn = {x} PROVE FALSE
      OBVIOUS
  <2>1. Ln = {Row(x)}
      BY <1>2
  <2>2. Cardinality(Ln) = 1
    <3> HIDE DEF Ln, Row
    <3> QED BY <2>1, FS_Singleton
  <2> QED BY <2>2
<1>6. Cardinality(Pn) \in Nat /\ Cardinality(Pn) # 0 /\ Cardinality(Pn) # 1
  <2> HIDE DEF Pn
  <2> QED BY <1>3, <1>4, <1>5, FS_CardinalityType, FS_EmptySet, FS_Singleton
<1>7. Cardinality(Pn) > 1
  <2> HIDE DEF Pn
  <2> QED BY <1>6
<1> QED BY <1>7 DEF Overloaded

\* What an ingest's write of one file leaves.
LEMMA ApplyFileFacts ==
    ASSUME NEW d \in Database, NEW f \in File, NEW v \in Version
    PROVE  /\ ApplyFile(d, f, v) \in Database
           /\ ApplyFile(d, f, v).files = [d.files EXCEPT ![f] = v]
           /\ \A r \in ApplyFile(d, f, v).refs : r \in d.refs \/ r.status = "pending"
           /\ SpecsKept(d) => SpecsKept(ApplyFile(d, f, v))
           /\ EdgesKept(d) => EdgesKept(ApplyFile(d, f, v))
<1> DEFINE new == Parsed[<<f, v>>]
           old == IF d.files[f] = NoFile THEN {} ELSE Located(f, Rows(d.files, f).symbols)
           a == ApplyFile(d, f, v)
           R == Rehung(d.specs, f, old, Located(f, new.symbols))
<1>1. /\ a.files = [d.files EXCEPT ![f] = v]
      /\ a.edges = (d.edges \ EdgesOf(d, f, new)) \cup new.edges
      /\ a.refs = InsertRefs({r \in d.refs : r.file # f}, f, new.refs)
      /\ a.specs = {r \in R : r.block # f}
      /\ a = [files |-> a.files, edges |-> a.edges, refs |-> a.refs, specs |-> a.specs]
    BY DEF ApplyFile
<1>2. /\ d.files \in Files /\ d.edges \subseteq EdgeRow
      /\ d.refs \subseteq RefRow /\ d.specs \subseteq SpecRow
    BY DatabaseFields
<1>3. /\ new.edges \subseteq EdgeRow
      /\ new.refs \subseteq [src : Name \cup File, name : Name, kind : STRING, line : Nat]
      /\ Located(f, new.symbols) \subseteq SymbolRow
      /\ \A s \in Located(f, new.symbols) : s.file = f
    BY ParsedRows, LocatedRows
<1>4. a.files \in Files /\ a.files[f] = v /\ \A g \in File \ {f} : a.files[g] = d.files[g]
    BY <1>1, <1>2 DEF Files
<1>5. \A r \in a.refs : r \in RefRow /\ (r \in d.refs \/ r.status = "pending")
    BY <1>1, <1>2, <1>3 DEF InsertRefs, RefRow
<1>6. v # NoFile
    BY SymbolGraphAssumption
<1>7. /\ f \in Held(a.files) /\ Rows(a.files, f) = new
      /\ \A g \in File \ {f} : /\ g \in Held(a.files) <=> g \in Held(d.files)
                               /\ Rows(a.files, g) = Rows(d.files, g)
    BY <1>4, <1>6 DEF Held, Rows
<1> HIDE DEF a, new
<1>8. ASSUME NEW q \in a.specs
      PROVE  q \in SpecRow /\ (SpecsKept(d) => \/ q.stale
                                               \/ Overloaded(q.sym[1], q.sym[2])
                                               \/ \E s \in Symbols(a.files) : Id(s) = q.sym)
  <2>1. q \in R
      BY <1>1
  <2> DEFINE rows == Located(f, new.symbols)
  <2>2. q \in SpecRow /\ Rehangs(q, d.specs, f, old, rows)
    <3>1. /\ d.specs \subseteq SpecRow /\ rows \subseteq SymbolRow /\ \A s \in rows : s.file = f
          /\ q \in Rehung(d.specs, f, old, rows)
        BY <1>2, <1>3, <2>1
    <3> HIDE DEF old, rows, R
    <3> QED BY <3>1, RehungFacts
  <2>3. PICK r \in d.specs :
              /\ r.block = q.block /\ r.sym[1] = q.sym[1] /\ r.sym[2] = q.sym[2]
              /\ \/ q = r /\ (r.sym[1] # f \/ r.sym \notin {Id(s) : s \in old})
                 \/ q.stale
                 \/ \E s \in Located(f, new.symbols) : Id(s) = q.sym
                 \/ /\ q = r /\ r.sym[1] = f
                    /\ \E S \in {old, Located(f, new.symbols)} :
                          /\ {s \in S : s.fqn = r.sym[2]} # {}
                          /\ Cardinality({s \in S : s.fqn = r.sym[2]}) # 1
      BY <2>2 DEF Rehangs
  <2>4. SUFFICES ASSUME SpecsKept(d), ~q.stale, ~Overloaded(q.sym[1], q.sym[2])
                 PROVE  \E s \in Symbols(a.files) : Id(s) = q.sym
      BY <2>2
  <2>5. CASE q = r /\ (r.sym[1] # f \/ r.sym \notin {Id(s) : s \in old})
    <3>1. PICK s \in Symbols(d.files) : Id(s) = r.sym
        BY <2>4, <2>5 DEF SpecsKept
    <3>2. s.file \in Held(d.files) /\ s \in Located(s.file, Rows(d.files, s.file).symbols)
        BY <1>2, SymbolFacts
    <3>3. s.file = r.sym[1]
        BY <3>1 DEF Id
    <3>4. s.file # f
      <4>1. SUFFICES ASSUME s.file = f PROVE FALSE
          OBVIOUS
      <4>2. d.files[f] # NoFile
          BY <3>2, <4>1 DEF Held
      <4>3. s \in old
          BY <3>2, <4>1, <4>2
      <4> HIDE DEF old
      <4> QED BY <2>5, <3>1, <3>3, <4>1, <4>3
    <3>5. s.file \in Held(a.files) /\ Rows(a.files, s.file) = Rows(d.files, s.file)
        BY <1>7, <3>2, <3>4 DEF Held
    <3>6. s \in Symbols(a.files)
        BY <1>4, <3>2, <3>5, SymbolFacts
    <3> QED BY <2>5, <3>1, <3>6
  <2>6. CASE \E s \in Located(f, new.symbols) : Id(s) = q.sym
    <3>1. Located(f, new.symbols) \subseteq Symbols(a.files)
        BY <1>4, <1>7, SymbolFacts
    <3> QED BY <2>6, <3>1
  <2>7. CASE /\ q = r /\ r.sym[1] = f
             /\ \E S \in {old, Located(f, new.symbols)} :
                   /\ {s \in S : s.fqn = r.sym[2]} # {}
                   /\ Cardinality({s \in S : s.fqn = r.sym[2]}) # 1
    <3>1. PICK S \in {old, Located(f, new.symbols)} :
                   /\ {s \in S : s.fqn = r.sym[2]} # {}
                   /\ Cardinality({s \in S : s.fqn = r.sym[2]}) # 1
        BY <2>7
    <3>2. CASE S = old
      <4>1. d.files[f] # NoFile
          BY <3>1, <3>2
      <4>2. d.files[f] \in Version /\ S = Located(f, Parsed[<<f, d.files[f]>>].symbols)
          BY <1>2, <3>2, <4>1 DEF Files, Rows
      <4>3. Overloaded(f, r.sym[2])
        <5> HIDE DEF old
        <5> QED BY <3>1, <4>2, SeveralRows
      <4> QED BY <2>4, <2>7, <4>3
    <3>3. CASE S = Located(f, new.symbols)
      <4>1. Overloaded(f, r.sym[2])
          BY <3>1, <3>3, SeveralRows DEF new
      <4> QED BY <2>4, <2>7, <4>1
    <3> QED BY <3>1, <3>2, <3>3
  <2> QED BY <2>3, <2>4, <2>5, <2>6, <2>7
<1>9. a \in Database
  <2>1. a.edges \subseteq EdgeRow /\ a.refs \subseteq RefRow /\ a.specs \subseteq SpecRow
      BY <1>1, <1>2, <1>3, <1>5, <1>8
  <2> QED BY <1>1, <1>4, <2>1 DEF Database
<1>10. ASSUME EdgesKept(d) PROVE EdgesKept(a)
  <2>1. SUFFICES ASSUME NEW g \in Held(a.files), NEW e \in Rows(a.files, g).edges, e.src \in Own(g)
                 PROVE  \E k \in a.edges : Follows(k, e)
      BY DEF EdgesKept
  <2>2. CASE g = f
    <3>1. e \in a.edges
        BY <1>1, <1>7, <2>2
    <3> QED BY <3>1 DEF Follows
  <2>3. CASE g # f
    <3>1. g \in File /\ g \in Held(d.files) /\ e \in Rows(d.files, g).edges
        BY <1>7, <2>3 DEF Held
    <3>2. PICK k \in d.edges : Follows(k, e)
        BY <1>10, <2>1, <3>1 DEF EdgesKept
    <3>3. e.src \notin Sources(f)
        BY <2>1, <2>3, <3>1 DEF Own
    <3>4. \A w \in Version : /\ Fqns(Parsed[<<f, w>>].symbols) \subseteq Sources(f)
                             /\ \A n \in Parsed[<<f, w>>].edges : n.src \in Sources(f)
        BY DEF Sources
    <3>5. k.src = e.src
        BY <3>2 DEF Follows
    <3>6. d.files[f] # NoFile => Fqns(Rows(d.files, f).symbols) \subseteq Sources(f)
        BY <1>2, <3>4 DEF Files, Rows
    <3>7. Fqns(new.symbols) \subseteq Sources(f) /\ \A n \in new.edges : n.src \in Sources(f)
        BY <3>4 DEF new
    <3>8. k \notin EdgesOf(d, f, new)
        BY <3>3, <3>5, <3>6, <3>7 DEF EdgesOf
    <3> QED BY <1>1, <3>2, <3>8
  <2> QED BY <2>2, <2>3
<1>11. SpecsKept(d) => SpecsKept(a)
    BY <1>8 DEF SpecsKept
<1> QED BY <1>1, <1>5, <1>9, <1>10, <1>11 DEF a

\* What a deletion of some paths leaves.
LEMMA ApplyDeletionsFacts ==
    ASSUME NEW d \in Database, NEW paths \in SUBSET File
    PROVE  /\ ApplyDeletions(d, paths) \in Database
           /\ ApplyDeletions(d, paths).files =
                 [f \in File |-> IF f \in paths THEN NoFile ELSE d.files[f]]
           /\ ApplyDeletions(d, paths).refs \subseteq d.refs
           /\ SpecsKept(d) => SpecsKept(ApplyDeletions(d, paths))
           /\ EdgesKept(d) => EdgesKept(ApplyDeletions(d, paths))
<1> DEFINE gone == UNION {Located(f, Rows(d.files, f).symbols) : f \in paths \cap Held(d.files)}
           Mark(r) == IF r.sym \in {Id(s) : s \in gone} THEN [r EXCEPT !.stale = TRUE] ELSE r
           a == ApplyDeletions(d, paths)
<1>1. /\ a.files = [f \in File |-> IF f \in paths THEN NoFile ELSE d.files[f]]
      /\ a.edges = {e \in d.edges : e.src \notin Fqns(gone)}
      /\ a.refs = {r \in d.refs : r.file \notin paths}
      /\ a.specs = {Mark(r) : r \in {q \in d.specs : q.block \notin paths}}
      /\ a = [files |-> a.files, edges |-> a.edges, refs |-> a.refs, specs |-> a.specs]
    BY DEF ApplyDeletions
<1> HIDE DEF a, gone
<1>2. /\ d.files \in Files /\ d.edges \subseteq EdgeRow
      /\ d.refs \subseteq RefRow /\ d.specs \subseteq SpecRow
    BY DatabaseFields
<1>3. a.files \in Files
    BY <1>1, <1>2 DEF Files
<1>4. \A f \in Held(a.files) : /\ f \in Held(d.files) /\ f \notin paths
                               /\ Rows(a.files, f) = Rows(d.files, f)
    BY <1>1 DEF Held, Rows
<1>5. \A f \in Held(d.files) \ paths : f \in Held(a.files)
    BY <1>1 DEF Held
<1>6. ASSUME NEW q \in a.specs
      PROVE  q \in SpecRow /\ (SpecsKept(d) => \/ q.stale
                                               \/ Overloaded(q.sym[1], q.sym[2])
                                               \/ \E s \in Symbols(a.files) : Id(s) = q.sym)
  <2>1. PICK r \in d.specs : q = Mark(r)
      BY <1>1
  <2>2. r \in SpecRow /\ r = [block |-> r.block, sym |-> r.sym, stale |-> r.stale]
      BY <1>2 DEF SpecRow
  <2>3. CASE r.sym \in {Id(s) : s \in gone}
    <3>1. q = [r EXCEPT !.stale = TRUE]
        BY <2>1, <2>3
    <3>2. q = [block |-> r.block, sym |-> r.sym, stale |-> TRUE]
        BY <2>2, <3>1
    <3> QED BY <2>2, <3>2 DEF SpecRow
  <2>4. CASE r.sym \notin {Id(s) : s \in gone}
    <3>1. q = r
        BY <2>1, <2>4
    <3>2. ASSUME NEW s \in Symbols(d.files), Id(s) = q.sym PROVE s \in Symbols(a.files)
      <4>1. s.file \in Held(d.files) /\ s \in Located(s.file, Rows(d.files, s.file).symbols)
          BY <1>2, SymbolFacts
      <4>2. s \notin gone
          BY <2>4, <3>1, <3>2
      <4>3. s.file \notin paths
          BY <4>1, <4>2 DEF gone
      <4>4. s.file \in Held(a.files) /\ Rows(a.files, s.file) = Rows(d.files, s.file)
          BY <1>4, <1>5, <4>1, <4>3
      <4> QED BY <1>3, <4>1, <4>4, SymbolFacts
    <3> QED BY <2>2, <3>1, <3>2 DEF SpecsKept
  <2> QED BY <2>3, <2>4
<1>7. a \in Database
  <2>1. a.edges \subseteq EdgeRow /\ a.refs \subseteq RefRow /\ a.specs \subseteq SpecRow
      BY <1>1, <1>2, <1>6
  <2> QED BY <1>1, <1>3, <2>1 DEF Database
<1>8. ASSUME EdgesKept(d) PROVE EdgesKept(a)
  <2>1. SUFFICES ASSUME NEW f \in Held(a.files), NEW e \in Rows(a.files, f).edges, e.src \in Own(f)
                 PROVE  \E k \in a.edges : Follows(k, e)
      BY DEF EdgesKept
  <2>2. f \in Held(d.files) /\ f \notin paths /\ e \in Rows(d.files, f).edges
      BY <1>4, <2>1
  <2>3. PICK k \in d.edges : Follows(k, e)
      BY <1>8, <2>1, <2>2 DEF EdgesKept
  <2>4. k.src \notin Fqns(gone)
    <3>1. SUFFICES ASSUME e.src \in Fqns(gone) PROVE FALSE
        BY <2>3 DEF Follows
    <3>2. PICK g \in paths \cap Held(d.files) :
                  \E s \in Located(g, Rows(d.files, g).symbols) : s.fqn = e.src
        BY <3>1 DEF Fqns, gone
    <3>3. g \in File /\ d.files[g] \in Version /\ Rows(d.files, g) = Parsed[<<g, d.files[g]>>]
        BY <1>2, HeldRows
    <3>4. e.src \in Fqns(Parsed[<<g, d.files[g]>>].symbols)
        BY <3>2, <3>3 DEF Located, Fqns
    <3>5. e.src \in Sources(g)
        BY <3>3, <3>4 DEF Sources
    <3> QED BY <2>1, <2>2, <3>2, <3>3, <3>5 DEF Own
  <2> QED BY <1>1, <2>3, <2>4
<1>9. SpecsKept(d) => SpecsKept(a)
    BY <1>6 DEF SpecsKept
<1>10. a.refs \subseteq d.refs
    BY <1>1
<1> QED BY <1>1, <1>7, <1>8, <1>9, <1>10 DEF a

--------------------------------------------------------------------------------
(* Resolution.                                                             *)

\* A table that has no fewer edges, and the same files and spec references, keeps
\* what it has to keep.
LEMMA MoreEdges ==
    ASSUME NEW d, NEW a, a.files = d.files, a.specs = d.specs, d.edges \subseteq a.edges
    PROVE  (SpecsKept(d) => SpecsKept(a)) /\ (EdgesKept(d) => EdgesKept(a))
BY DEF SpecsKept, EdgesKept

\* A database with two tables replaced,
LEMMA TwoTables ==
    ASSUME NEW d \in Database, NEW a, NEW edges, NEW refs,
           a = [d EXCEPT !.edges = edges, !.refs = refs]
    PROVE  a = [files |-> d.files, edges |-> edges, refs |-> refs, specs |-> d.specs]
BY DEF Database

\* and with one.
LEMMA OneTable ==
    ASSUME NEW d \in Database, NEW a, NEW rows
    PROVE  /\ a = [d EXCEPT !.refs = rows] =>
                 a = [files |-> d.files, edges |-> d.edges, refs |-> rows, specs |-> d.specs]
           /\ a = [d EXCEPT !.edges = rows] =>
                 a = [files |-> d.files, edges |-> rows, refs |-> d.refs, specs |-> d.specs]
           /\ a = [d EXCEPT !.specs = rows] =>
                 a = [files |-> d.files, edges |-> d.edges, refs |-> d.refs, specs |-> rows]
BY DEF Database

\* References that are resolved become edges and go.
LEMMA ResolveRefsFacts ==
    ASSUME NEW d \in Database, NEW rows \in SUBSET d.refs
    PROVE  /\ ResolveRefs(d, rows) \in Database
           /\ ResolveRefs(d, rows).files = d.files
           /\ ResolveRefs(d, rows).refs = d.refs \ rows
           /\ SpecsKept(d) => SpecsKept(ResolveRefs(d, rows))
           /\ EdgesKept(d) => EdgesKept(ResolveRefs(d, rows))
<1> DEFINE a == ResolveRefs(d, rows)
           More(r) == {[src |-> r.src, tgt |-> t, kind |-> r.kind, line |-> r.line] :
                          t \in Targets(d, r)}
<1>1. /\ d.files \in Files /\ d.edges \subseteq EdgeRow
      /\ d.refs \subseteq RefRow /\ d.specs \subseteq SpecRow
    BY DatabaseFields
<1>2. /\ a.files = d.files /\ a.specs = d.specs
      /\ a.edges = d.edges \cup UNION {More(r) : r \in rows}
      /\ a.refs = d.refs \ rows
      /\ a = [files |-> a.files, edges |-> a.edges, refs |-> a.refs, specs |-> a.specs]
  <2> DEFINE E == d.edges \cup UNION {More(r) : r \in rows}
             R == d.refs \ rows
  <2>1. a = [d EXCEPT !.edges = E, !.refs = R]
      BY DEF ResolveRefs
  <2> HIDE DEF E, R, a
  <2>2. a = [files |-> d.files, edges |-> E, refs |-> R, specs |-> d.specs]
      BY ONLY <2>1, d \in Database DEF Database
  <2> QED BY <2>2 DEF E, R
<1> HIDE DEF a, More
<1>3. ASSUME NEW r \in rows PROVE More(r) \subseteq EdgeRow
  <2>1. r \in RefRow
      BY <1>1
  <2>2. \A s \in Match(d.files, r.name, r.file, r.kind) : s.fqn \in Name
      BY <1>1, MatchFacts, SymbolFacts DEF SymbolRow
  <2>3. Targets(d, r) \subseteq Name
      BY <2>2 DEF Targets, Fqns
  <2> QED BY <2>1, <2>3 DEF More, RefRow, EdgeRow
<1>4. a.edges \subseteq EdgeRow /\ a.refs \subseteq RefRow /\ d.edges \subseteq a.edges
    BY <1>1, <1>2, <1>3
<1>5. a \in Database
    BY <1>1, <1>2, <1>4 DEF Database
<1> QED BY <1>2, <1>4, <1>5, MoreEdges DEF a

\* References without a match stay and are marked.
LEMMA MarkRefsFailedFacts ==
    ASSUME NEW d \in Database, NEW rows \in SUBSET d.refs
    PROVE  /\ MarkRefsFailed(d, rows) \in Database
           /\ MarkRefsFailed(d, rows).files = d.files
           /\ \A q \in MarkRefsFailed(d, rows).refs :
                 \/ q \in d.refs \ rows
                 \/ /\ q.status = "failed"
                    /\ \E r \in rows : q.name = r.name /\ q.file = r.file /\ q.kind = r.kind
           /\ SpecsKept(d) => SpecsKept(MarkRefsFailed(d, rows))
           /\ EdgesKept(d) => EdgesKept(MarkRefsFailed(d, rows))
<1> DEFINE a == MarkRefsFailed(d, rows)
           Failed(r) == [r EXCEPT !.status = "failed"]
<1>1. /\ d.files \in Files /\ d.edges \subseteq EdgeRow
      /\ d.refs \subseteq RefRow /\ d.specs \subseteq SpecRow
    BY DatabaseFields
<1>2. /\ a.files = d.files /\ a.specs = d.specs /\ a.edges = d.edges
      /\ a.refs = (d.refs \ rows) \cup {Failed(r) : r \in rows}
      /\ a = [files |-> a.files, edges |-> a.edges, refs |-> a.refs, specs |-> a.specs]
  <2> DEFINE R == (d.refs \ rows) \cup {Failed(r) : r \in rows}
  <2>1. a = [d EXCEPT !.refs = R]
      BY DEF MarkRefsFailed
  <2> HIDE DEF R, a
  <2>2. a = [files |-> d.files, edges |-> d.edges, refs |-> R, specs |-> d.specs]
      BY <2>1, OneTable
  <2> QED BY <2>2 DEF R
<1> HIDE DEF a
<1>3. ASSUME NEW r \in rows
      PROVE  /\ Failed(r) \in RefRow /\ Failed(r).status = "failed" /\ Failed(r).name = r.name
             /\ Failed(r).file = r.file /\ Failed(r).kind = r.kind
  <2>1. r \in RefRow
      BY <1>1
  <2> QED BY <2>1 DEF RefRow
<1> HIDE DEF Failed
<1>4. \A q \in a.refs : \/ q \in d.refs \ rows
                        \/ /\ q \in RefRow /\ q.status = "failed"
                           /\ \E r \in rows : q.name = r.name /\ q.file = r.file /\ q.kind = r.kind
    BY <1>2, <1>3
<1>5. a \in Database
    BY <1>1, <1>2, <1>4 DEF Database
<1> QED BY <1>2, <1>4, <1>5, MoreEdges DEF a

\* How many symbols a reference matches depends on the files alone.
LEMMA SameCount ==
    ASSUME NEW d, NEW a, a.files = d.files
    PROVE  \A r : MatchCount(a, r) = MatchCount(d, r)
BY DEF MatchCount

\* Whether a reference has a match is what its count says.
LEMMA CountFacts ==
    ASSUME NEW d \in Database, NEW r
    PROVE  /\ MatchCount(d, r) \in Nat
           /\ MatchCount(d, r) = 0 <=> Match(d.files, r.name, r.file, r.kind) = {}
BY DatabaseFields, MatchFacts DEF MatchCount

\* The first two transactions take the references with a match away, the third marks
\* those without.
LEMMA PassFacts ==
    ASSUME NEW d \in Database, NEW rows \in SUBSET d.refs,
           NEW a, a \in {ResolveSingles(d, rows), ResolveMulti(d, rows), ResolveNone(d, rows)}
    PROVE  /\ a \in Database /\ a.files = d.files
           /\ SpecsKept(d) => SpecsKept(a)
           /\ EdgesKept(d) => EdgesKept(a)
           /\ a = ResolveSingles(d, rows) =>
                 \A r \in a.refs : r \in d.refs /\ (r \in rows => MatchCount(d, r) # 1)
           /\ a = ResolveMulti(d, rows) =>
                 \A r \in a.refs : r \in d.refs /\ (r \in rows => ~(MatchCount(d, r) > 1))
           /\ a = ResolveNone(d, rows) =>
                 \A r \in a.refs : \/ r \in d.refs /\ (r \in rows => MatchCount(d, r) # 0)
                                   \/ r.status = "failed" /\ MatchCount(d, r) = 0
<1>1. CASE a = ResolveSingles(d, rows)
  <2> DEFINE S == {r \in rows : MatchCount(d, r) = 1}
  <2>1. S \in SUBSET d.refs /\ a = ResolveRefs(d, S)
      BY <1>1 DEF ResolveSingles
  <2>2. a \in Database /\ a.files = d.files /\ a.refs = d.refs \ S
        /\ (SpecsKept(d) => SpecsKept(a)) /\ (EdgesKept(d) => EdgesKept(a))
    <3> HIDE DEF S
    <3> QED BY <2>1, ResolveRefsFacts
  <2>3. \A r \in a.refs : r \in d.refs /\ (r \in rows => MatchCount(d, r) # 1)
      BY <2>2
  <2>4. ASSUME a = ResolveMulti(d, rows)
        PROVE  \A r \in a.refs : r \in d.refs /\ (r \in rows => ~(MatchCount(d, r) > 1))
    <3> DEFINE T == {r \in rows : MatchCount(d, r) > 1}
    <3>1. T \in SUBSET d.refs /\ a = ResolveRefs(d, T)
        BY <2>4 DEF ResolveMulti
    <3>2. a.refs = d.refs \ T
      <4> HIDE DEF T
      <4> QED BY <3>1, ResolveRefsFacts
    <3> QED BY <3>2
  <2>5. ASSUME a = ResolveNone(d, rows)
        PROVE  \A r \in a.refs : \/ r \in d.refs /\ (r \in rows => MatchCount(d, r) # 0)
                                 \/ r.status = "failed" /\ MatchCount(d, r) = 0
    <3> DEFINE T == {r \in rows : MatchCount(d, r) = 0}
    <3>1. T \in SUBSET d.refs /\ a = MarkRefsFailed(d, T)
        BY <2>5 DEF ResolveNone
    <3>2. \A q \in a.refs :
             \/ q \in d.refs \ T
             \/ /\ q.status = "failed"
                /\ \E r \in T : q.name = r.name /\ q.file = r.file /\ q.kind = r.kind
      <4> HIDE DEF T
      <4> QED BY <3>1, MarkRefsFailedFacts
    <3> QED BY <3>2 DEF MatchCount
  <2> QED BY <2>2, <2>3, <2>4, <2>5
<1>2. CASE a = ResolveMulti(d, rows) /\ a # ResolveSingles(d, rows)
  <2> DEFINE S == {r \in rows : MatchCount(d, r) > 1}
  <2>1. S \in SUBSET d.refs /\ a = ResolveRefs(d, S)
      BY <1>2 DEF ResolveMulti
  <2>2. a \in Database /\ a.files = d.files /\ a.refs = d.refs \ S
        /\ (SpecsKept(d) => SpecsKept(a)) /\ (EdgesKept(d) => EdgesKept(a))
    <3> HIDE DEF S
    <3> QED BY <2>1, ResolveRefsFacts
  <2>3. \A r \in a.refs : r \in d.refs /\ (r \in rows => ~(MatchCount(d, r) > 1))
      BY <2>2
  <2>5. ASSUME a = ResolveNone(d, rows)
        PROVE  \A r \in a.refs : \/ r \in d.refs /\ (r \in rows => MatchCount(d, r) # 0)
                                 \/ r.status = "failed" /\ MatchCount(d, r) = 0
    <3> DEFINE T == {r \in rows : MatchCount(d, r) = 0}
    <3>1. T \in SUBSET d.refs /\ a = MarkRefsFailed(d, T)
        BY <2>5 DEF ResolveNone
    <3>2. \A q \in a.refs :
             \/ q \in d.refs \ T
             \/ /\ q.status = "failed"
                /\ \E r \in T : q.name = r.name /\ q.file = r.file /\ q.kind = r.kind
      <4> HIDE DEF T
      <4> QED BY <3>1, MarkRefsFailedFacts
    <3> QED BY <3>2 DEF MatchCount
  <2> QED BY <1>2, <2>2, <2>3, <2>5
<1>3. CASE a = ResolveNone(d, rows) /\ a # ResolveSingles(d, rows) /\ a # ResolveMulti(d, rows)
  <2> DEFINE T == {r \in rows : MatchCount(d, r) = 0}
  <2>1. T \in SUBSET d.refs /\ a = MarkRefsFailed(d, T)
      BY <1>3 DEF ResolveNone
  <2>2. a \in Database /\ a.files = d.files
        /\ (SpecsKept(d) => SpecsKept(a)) /\ (EdgesKept(d) => EdgesKept(a))
        /\ \A q \in a.refs :
             \/ q \in d.refs \ T
             \/ /\ q.status = "failed"
                /\ \E r \in T : q.name = r.name /\ q.file = r.file /\ q.kind = r.kind
    <3> HIDE DEF T
    <3> QED BY <2>1, MarkRefsFailedFacts
  <2>3. \A r \in a.refs : \/ r \in d.refs /\ (r \in rows => MatchCount(d, r) # 0)
                          \/ r.status = "failed" /\ MatchCount(d, r) = 0
      BY <2>2 DEF MatchCount
  <2> QED BY <1>3, <2>2, <2>3
<1> QED BY <1>1, <1>2, <1>3

\* retry_failed tries each failed reference that a symbol of the files could match.
LEMMA RetriedIfCould ==
    ASSUME NEW d \in Database, NEW paths, NEW f \in paths, f \in Held(d.files),
           NEW r \in d.refs, r.status = "failed",
           NEW s \in Located(f, Rows(d.files, f).symbols), Could(r, s)
    PROVE  r \in RetryFailed(d, paths)
<1> DEFINE N(g) == Fqns(Rows(d.files, g).symbols)
                      \cup {Segment[n] : n \in Fqns(Rows(d.files, g).symbols)}
           names == UNION {N(g) : g \in paths}
<1>1. RetryFailed(d, paths) = {q \in d.refs : q.status = "failed" /\ Retried(names, q)}
    BY DEF RetryFailed
<1>2. s.fqn \in Fqns(Rows(d.files, f).symbols)
    BY DEF Located, Fqns
<1>3. s.fqn \in N(f) /\ Segment[s.fqn] \in N(f)
    BY <1>2
<1>4. s.fqn \in names /\ Segment[s.fqn] \in names
  <2> HIDE DEF N
  <2> QED BY <1>3
<1> HIDE DEF names
<1>5. s.fqn = r.name \/ Segment[s.fqn] = Segment[r.name] \/ s.fqn = Segment[r.name]
    BY DEF Could
<1>6. Retried(names, r)
    BY <1>4, <1>5 DEF Retried
<1> QED BY <1>1, <1>6

\* After resolve_edges no edge has a single match it does not end at.
LEMMA ResolveEdgesFacts ==
    ASSUME NEW d \in Database
    PROVE  /\ ResolveEdges(d) \in Database
           /\ ResolveEdges(d).files = d.files /\ ResolveEdges(d).refs = d.refs
           /\ SpecsKept(d) => SpecsKept(ResolveEdges(d))
           /\ EdgesKept(d) => EdgesKept(ResolveEdges(d))
           /\ \A e \in Bare(ResolveEdges(d)) : Cardinality(EdgeTargets(ResolveEdges(d), e)) # 1
<1> DEFINE a == ResolveEdges(d)
           sure == {e \in Bare(d) : Cardinality(EdgeTargets(d, e)) = 1}
           The(e) == CHOOSE s \in EdgeTargets(d, e) : TRUE
           Moved(e) == [e EXCEPT !.tgt = The(e).fqn]
           E == (d.edges \ sure) \cup {Moved(e) : e \in sure}
<1>1. /\ d.files \in Files /\ d.edges \subseteq EdgeRow
      /\ d.refs \subseteq RefRow /\ d.specs \subseteq SpecRow
    BY DatabaseFields
<1>2. /\ a.files = d.files /\ a.refs = d.refs /\ a.specs = d.specs /\ a.edges = E
      /\ a = [files |-> a.files, edges |-> a.edges, refs |-> a.refs, specs |-> a.specs]
  <2>1. a = [d EXCEPT !.edges = E]
      BY DEF ResolveEdges
  <2> HIDE DEF E, a
  <2>2. a = [files |-> d.files, edges |-> E, refs |-> d.refs, specs |-> d.specs]
      BY <2>1, OneTable
  <2> QED BY <2>2
<1> HIDE DEF a
<1>3. \A e \in sure : e \in d.edges /\ e \in Bare(d) /\ e.tgt \in Name
    BY DEF Bare
<1>4. ASSUME NEW e \in sure
      PROVE  /\ The(e) \in Symbols(d.files)
             /\ The(e).fqn \in Name
             /\ Segment[The(e).fqn] = Segment[e.tgt]
  <2>1. EdgeTargets(d, e) = Match(d.files, e.tgt, SourceFile(d.files, e.src), e.kind)
      BY DEF EdgeTargets
  <2>2. EdgeTargets(d, e) # {}
      BY <1>1, <2>1, MatchFacts
  <2>3. The(e) \in EdgeTargets(d, e)
      BY <2>2
  <2>4. The(e) \in Symbols(d.files)
        /\ (\/ The(e).fqn = e.tgt \/ Segment[The(e).fqn] = Segment[e.tgt]
            \/ The(e).fqn = Segment[e.tgt])
    <3> HIDE DEF The
    <3> QED BY <1>1, <2>1, <2>3, MatchFacts
  <2>5. The(e).fqn \in Name
    <3> HIDE DEF The
    <3> QED BY <1>1, <2>4, SymbolFacts DEF SymbolRow
  <2> HIDE DEF The
  <2>6. Segment[Segment[e.tgt]] = Segment[e.tgt]
      BY <1>3, SymbolGraphAssumption
  <2> QED BY <2>4, <2>5, <2>6
<1>5. ASSUME NEW e \in sure
      PROVE  /\ Moved(e) \in EdgeRow /\ Moved(e).tgt = The(e).fqn
             /\ Moved(e).src = e.src /\ Moved(e).kind = e.kind /\ Moved(e).line = e.line
  <2>1. e \in EdgeRow /\ The(e).fqn \in Name
      BY <1>1, <1>3, <1>4
  <2> HIDE DEF The, sure
  <2> QED BY <2>1 DEF EdgeRow
<1>6. E \subseteq EdgeRow
  <2> HIDE DEF Moved, sure
  <2> QED BY <1>1, <1>5
<1>7. a \in Database
    BY <1>1, <1>2, <1>6 DEF Database
<1>8. ASSUME NEW e \in Bare(a) PROVE Cardinality(EdgeTargets(a, e)) # 1
  <2>1. EdgeTargets(a, e) = EdgeTargets(d, e)
      BY <1>2 DEF EdgeTargets
  <2>2. e \in E /\ e.tgt \in Name \ Fqns(Symbols(d.files))
      BY <1>2 DEF Bare
  <2>3. \A k \in sure : Moved(k).tgt \in Fqns(Symbols(d.files))
    <3> HIDE DEF Moved, The, sure
    <3> QED BY <1>4, <1>5 DEF Fqns
  <2>4. e \in d.edges \ sure
    <3> HIDE DEF Moved, sure
    <3> QED BY <2>2, <2>3
  <2>5. e \in Bare(d)
      BY <2>2, <2>4 DEF Bare
  <2> QED BY <2>1, <2>4, <2>5
<1>9. ASSUME EdgesKept(d) PROVE EdgesKept(a)
  <2>1. SUFFICES ASSUME NEW f \in Held(d.files), NEW e \in Rows(d.files, f).edges, e.src \in Own(f)
                 PROVE  \E k \in a.edges : Follows(k, e)
      BY <1>2 DEF EdgesKept
  <2>2. PICK k \in d.edges : Follows(k, e)
      BY <1>9, <2>1 DEF EdgesKept
  <2>3. CASE k \notin sure
      BY <1>2, <2>2, <2>3
  <2>4. CASE k \in sure
    <3>1. Moved(k) \in a.edges
        BY <1>2, <2>4
    <3>2. k.tgt \in Name /\ e.tgt \in Name /\ Segment[k.tgt] = Segment[e.tgt]
        BY <1>3, <2>2, <2>4 DEF Follows
    <3>3. Follows(Moved(k), e)
      <4> HIDE DEF Moved, The, sure
      <4> QED BY <1>4, <1>5, <2>2, <2>4, <3>2 DEF Follows
    <3> QED BY <3>1, <3>3
  <2> QED BY <2>3, <2>4
<1>10. SpecsKept(d) => SpecsKept(a)
    BY <1>2 DEF SpecsKept
<1> QED BY <1>2, <1>7, <1>8, <1>9, <1>10 DEF a

\* link_spec_references adds references to symbols that are there.
LEMMA LinkSpecsFacts ==
    ASSUME NEW d \in Database, NEW paths, paths \subseteq Held(d.files)
    PROVE  /\ LinkSpecs(d, paths) \in Database
           /\ LinkSpecs(d, paths).files = d.files /\ LinkSpecs(d, paths).refs = d.refs
           /\ LinkSpecs(d, paths).edges = d.edges
           /\ SpecsKept(d) => SpecsKept(LinkSpecs(d, paths))
           /\ EdgesKept(d) => EdgesKept(LinkSpecs(d, paths))
<1> DEFINE a == LinkSpecs(d, paths)
           Links(f) == {<<f, Id(s)>> : s \in Mentioned(d, f)}
           pairs == UNION {Links(f) : f \in paths}
           known == {<<r.block, r.sym>> : r \in d.specs}
           New(p) == [block |-> p[1], sym |-> p[2], stale |-> FALSE]
           S == d.specs \cup {New(p) : p \in pairs \ known}
<1>1. /\ d.files \in Files /\ d.edges \subseteq EdgeRow
      /\ d.refs \subseteq RefRow /\ d.specs \subseteq SpecRow
    BY DatabaseFields
<1>2. a = [d EXCEPT !.specs = S]
    BY DEF LinkSpecs, AddSpecRefs
<1>3. /\ a.files = d.files /\ a.refs = d.refs /\ a.specs = S /\ a.edges = d.edges
      /\ a = [files |-> a.files, edges |-> a.edges, refs |-> a.refs, specs |-> a.specs]
  <2> HIDE DEF S, a
  <2>2. a = [files |-> d.files, edges |-> d.edges, refs |-> d.refs, specs |-> S]
      BY <1>2, OneTable
  <2> QED BY <2>2
<1> HIDE DEF a
<1>4. ASSUME NEW p \in pairs
      PROVE  New(p) \in SpecRow /\ \E s \in Symbols(d.files) : Id(s) = New(p).sym
  <2>1. PICK f \in paths : p \in Links(f)
    <3> HIDE DEF Links
    <3> QED OBVIOUS
  <2>2. PICK s \in Mentioned(d, f) : p = <<f, Id(s)>>
      BY <2>1
  <2>3. s \in Symbols(d.files)
      BY <2>2 DEF Mentioned, Named
  <2>4. s \in SymbolRow /\ f \in File
      BY <1>1, <2>3, SymbolFacts DEF Held
  <2> QED BY <2>2, <2>3, <2>4 DEF SymbolRow, SpecRow, Id
<1>5. a.specs \subseteq SpecRow
  <2> HIDE DEF New, pairs, known
  <2> QED BY <1>1, <1>3, <1>4
<1>6. a \in Database
    BY <1>1, <1>3, <1>5 DEF Database
<1>7. ASSUME SpecsKept(d) PROVE SpecsKept(a)
  <2> SUFFICES ASSUME NEW q \in a.specs
               PROVE  \/ q.stale
                      \/ Overloaded(q.sym[1], q.sym[2])
                      \/ \E s \in Symbols(d.files) : Id(s) = q.sym
      BY <1>3 DEF SpecsKept
  <2>1. q \in d.specs \/ \E p \in pairs : q = New(p)
    <3> HIDE DEF New, pairs, known
    <3> QED BY <1>3
  <2>2. CASE q \in d.specs
      BY <1>7, <2>2 DEF SpecsKept
  <2>3. CASE \E p \in pairs : q = New(p)
    <3> HIDE DEF New, pairs
    <3> QED BY <1>4, <2>3
  <2> QED BY <2>1, <2>2, <2>3
<1>8. EdgesKept(d) => EdgesKept(a)
    BY <1>3 DEF EdgesKept
<1> QED BY <1>3, <1>6, <1>7, <1>8 DEF a

--------------------------------------------------------------------------------
(* The inductive invariant.                                                *)

\* Places before the write transaction, after it, and all from it on.
Early == {"idle", "delete", "delete_vectors", "collect"}
Late == Labels \ Early
Committed == Late \ {"write"}

\* Where the ingest is and what its objects hold: the input, what is written of it,
\* and the transaction's view, which differs from the database by what is written.
PlaceInv ==
    /\ pc # "idle" => marker.status = "building"
    /\ pc \in Early => todo = {} /\ parsed = {} /\ queued = {} /\ ~errors
    /\ pc = "idle" => mode = "none"
    /\ pc \in {"idle", "delete", "collect", "finalize", "ready"} => removed = {}
    /\ pc \in {"vector_delete", "finalize", "ready"} => queued = {}
    /\ pc # "write" => tx = EmptyDb /\ todo = {}
    /\ todo \cup parsed \subseteq pending /\ todo \cap parsed = {}
    /\ \A f \in todo \cup parsed : want[f] # NoFile
    /\ \A f \in parsed : want[f] \notin Refused
    /\ pc = "write" =>
          \A f \in File : tx.files[f] = IF f \in parsed THEN want[f] ELSE db.files[f]
    /\ pc # "write" => \A f \in parsed : db.files[f] = want[f]
    /\ pc \in Late /\ ~errors =>
          \A f \in pending \ (todo \cup parsed) : want[f] = NoFile \/ want[f] \in Refused
    /\ \A f \in File : db.files[f] \notin Refused

\* The mode follows from the fingerprint, which is first stored when the first
\* ingest ends: until then every file there should be is pending.
ModeInv ==
    /\ pc \notin {"idle", "ready"} =>
          /\ mode = "none" => stored \in {provider, NoProvider}
          /\ mode = "reembed" => stored \notin {provider, NoProvider}
          /\ mode = "full_reparse" => stored = NoProvider
    /\ pc = "ready" => stored = provider
    /\ stored = NoProvider => \A f \in File \ pending : want[f] = NoFile
    /\ pc # "idle" /\ mode = "none" /\ stored = NoProvider =>
          /\ Held(db.files) \subseteq parsed
          /\ pc = "write" => Held(tx.files) \subseteq parsed
    /\ marker.status = "ready" => stored # NoProvider
    /\ marker.status = "none" => stored = NoProvider /\ vectors = {} /\ Held(db.files) = {}

\* An ingest has begun and not come to its end.
Unfinished == marker.status \in {"building", "failed"}

HasRow(c) == \E r \in vectors : r.id = c.id /\ r.hash = c.hash
By(p) == \A r \in vectors : r.by = p

\* Whose model the rows are of: that of the last ingest that came to the table, which
\* is the stored one when it came to its end, unless others were at work before it.
ProviderInv ==
    /\ pc \in Late => maker = provider
    /\ marker.status = "ready" => maker = stored
    /\ maker = NoProvider => vectors = {} /\ stored = NoProvider
    /\ ~mixed => By(maker)

\* The chunks an ingest has written, and the tables they are in.
WrittenChunks == UNION {Parsed[<<f, want[f]>>].chunks : f \in parsed}
View == IF pc = "write" THEN tx ELSE db

\* Which chunks have a row, and which rows are to go.
CoverInv ==
    /\ ~mixed /\ maker = stored =>
          \A f \in Current : \A c \in Rows(db.files, f).chunks : HasRow(c)
    /\ \A c \in WrittenChunks : c \in queued \/ HasRow(c)
    /\ pc \in Committed /\ mode # "none" =>
          \A f \in Held(db.files) : db.files[f] = want[f] =>
              \A c \in Rows(db.files, f).chunks : c \in queued \/ HasRow(c)

QueueInv ==
    /\ pc = "write" => queued \subseteq WrittenChunks
    /\ queued \subseteq Chunks(View.files)

RemovedInv ==
    /\ pc = "delete_vectors" =>
          \A i \in removed : \E f \in pending, v \in Version : i \in Ids(Parsed[<<f, v>>].chunks)
    /\ pc \in Late => \A i \in removed : \E f \in parsed, v \in Version :
          i \in Ids(Parsed[<<f, v>>].chunks) /\ i \notin Ids(Parsed[<<f, want[f]>>].chunks)
    /\ pc \in Late /\ mode # "none" => removed = {}

\* Rows of chunks that are not in the tables are known, until an ingest is cut off that
\* knew some.
TightInv ==
    /\ pc = "write" /\ mode # "none" => \A r \in vectors : r.id \in Ids(WrittenChunks)
    /\ ~orphaned => \A r \in vectors : r.id \in Ids(Chunks(View.files)) \cup removed

SearchInv ==
    search.at = "read" /\ search.gap /\ ~search.overtaken /\ ~search.mixed => Unfinished

KeptInv == SpecsKept(db) /\ EdgesKept(db) /\ SpecsKept(tx) /\ EdgesKept(tx)

\* No failed reference could be matched with a symbol of a file that is as it should be.
FailedOK(d) ==
    \A r \in d.refs : r.status = "failed" =>
        \A f \in Held(d.files) \ pending : d.files[f] = want[f] =>
            \A s \in Located(f, Rows(d.files, f).symbols) : ~Could(r, s)

\* What the passes of the resolution have done.
Resolved == {"retry", "retry_multi", "edges", "specs", "drain", "vector_delete", "finalize", "ready"}
Retargeted == {"specs", "drain", "vector_delete", "finalize", "ready"}

RefInv ==
    /\ FailedOK(db) /\ FailedOK(tx)
    /\ pc = "pending_multi" => \A r \in Pending(db) : MatchCount(db, r) # 1
    /\ pc = "pending_none" => \A r \in Pending(db) : MatchCount(db, r) = 0
    /\ pc \in Resolved \/ AtRest => Pending(db) = {}
    /\ pc = "retry_multi" => \A r \in RetryFailed(db, parsed) : MatchCount(db, r) # 1
    /\ pc \in {"edges"} \cup Retargeted =>
          \A r \in RetryFailed(db, parsed) : MatchCount(db, r) = 0
    /\ pc \in Retargeted \/ AtRest =>
          \A e \in Bare(db) : Cardinality(EdgeTargets(db, e)) # 1

TableInv ==
    TypeOK /\ PlaceInv /\ ModeInv /\ QueueInv /\ RemovedInv /\ TightInv /\ KeptInv /\ RefInv

RowInv == ProviderInv /\ CoverInv /\ SearchInv /\ GapIsReported

--------------------------------------------------------------------------------
(* Steps, and the types.                                                   *)

\* A set of naturals that is not empty has a smallest member.
LEMMA SmallestOf ==
    ASSUME NEW S, S \subseteq Nat, S # {}
    PROVE  \E n \in S : \A m \in S : n <= m
<1> DEFINE T == {0..n : n \in S}
<1>1. T \subseteq FiniteSubsetsOf(Nat) /\ T # {}
  <2>1. ASSUME NEW n \in S PROVE 0..n \in FiniteSubsetsOf(Nat)
    <3>1. IsFiniteSet(0..n)
        BY FS_Interval, 0 \in Int, n \in Int
    <3> QED BY <3>1 DEF FiniteSubsetsOf
  <2> QED BY <2>1
<1>2. PICK t \in T : \A u \in T : <<u, t>> \notin StrictSubsetOrdering(Nat)
  <2> HIDE DEF T
  <2>1. IsWellFoundedOn(StrictSubsetOrdering(Nat), FiniteSubsetsOf(Nat))
      BY FS_StrictSubsetOrderingWellFounded
  <2> QED BY <1>1, <2>1, WFMin
<1>3. PICK n \in S : t = 0..n
    OBVIOUS
<1>4. ASSUME NEW m \in S PROVE n <= m
  <2>1. SUFFICES ASSUME m < n PROVE FALSE
      BY <1>3
  <2>2. 0..m \subseteq 0..n /\ 0..m # 0..n
      BY <2>1
  <2>3. <<0..m, t>> \in StrictSubsetOrdering(Nat)
      BY <1>3, <2>2 DEF StrictSubsetOrdering
  <2> QED BY <1>2, <2>3
<1> QED BY <1>4

\* The ingest's next file is one that is left.
LEMMA NextIsLeft ==
    ASSUME TypeOK, todo # {}
    PROVE  NextInput \in todo /\ NextInput \in File
<1>1. todo \subseteq Nat /\ todo \subseteq File
    BY SymbolGraphAssumption DEF TypeOK
<1>2. \E f \in todo : \A g \in todo : f <= g
    BY <1>1, SmallestOf
<1> QED BY <1>1, <1>2 DEF NextInput

\* What a write of a file does to the ingest's objects.
Writes(f) ==
    /\ todo' = todo \ {f}
    /\ tx' = ApplyFile(tx, f, want[f])
    /\ parsed' = parsed \cup {f}
    /\ queued' = queued \cup Parsed[<<f, want[f]>>].chunks
    /\ removed' = IF mode = "none" THEN removed \cup RemovedIds(f) ELSE removed

Skips(f) == todo' = todo \ {f} /\ UNCHANGED <<tx, parsed, queued, removed>>

\* A step of the write loop skips its file or writes it.
LEMMA IndexFileCases ==
    ASSUME TypeOK, PlaceInv, IndexFile
    PROVE  \E f \in todo :
              /\ f \in File /\ want[f] \in Version
              /\ \/ want[f] \in Refused /\ Skips(f)
                 \/ want[f] \notin Refused /\ Writes(f)
<1>1. NextInput \in todo /\ NextInput \in File
    BY NextIsLeft DEF IndexFile
<1> DEFINE f == NextInput
<1>2. want[f] \in Version
    BY <1>1 DEF TypeOK, PlaceInv, Files
<1>3. CASE Skipped(f)
    BY <1>1, <1>2, <1>3 DEF IndexFile, Skipped, Skips
<1>4. CASE ~Skipped(f)
    BY <1>1, <1>2, <1>4 DEF IndexFile, Skipped, Writes
<1> QED BY <1>3, <1>4

\* A pass of the resolution keeps the files and what has to be kept.
LEMMA PassKeeps ==
    ASSUME TypeOK, PlaceInv, ResolveGraph
    PROVE  /\ db' \in Database /\ db'.files = db.files
           /\ SpecsKept(db) => SpecsKept(db') 
           /\ EdgesKept(db) => EdgesKept(db') 
           /\ UNCHANGED <<source, stored, vectors, marker, mode, tx, todo, parsed, queued, removed,
                          errors, search, history, bounds>>
           /\ \/ pc = "pending" /\ pc' = "pending_multi"
              \/ pc = "pending_multi" /\ pc' = "pending_none"
              \/ pc = "pending_none" /\ pc' = "retry"
              \/ pc = "retry" /\ pc' = "retry_multi"
              \/ pc = "retry_multi" /\ pc' = "edges"
              \/ pc = "edges" /\ pc' = "specs"
              \/ pc = "specs" /\ pc' = "drain"
<1>1. db \in Database /\ Pending(db) \in SUBSET db.refs /\ RetryFailed(db, parsed) \in SUBSET db.refs
    BY DEF TypeOK, Pending, RetryFailed
<1>2. CASE Pass("pending", "pending_multi", ResolveSingles(db, Pending(db)))
    BY <1>1, <1>2, PassFacts DEF Pass, Goto
<1>3. CASE Pass("pending_multi", "pending_none", ResolveMulti(db, Pending(db)))
    BY <1>1, <1>3, PassFacts DEF Pass, Goto
<1>4. CASE Pass("pending_none", "retry", ResolveNone(db, Pending(db)))
    BY <1>1, <1>4, PassFacts DEF Pass, Goto
<1>5. CASE Pass("retry", "retry_multi", ResolveSingles(db, RetryFailed(db, parsed)))
    BY <1>1, <1>5, PassFacts DEF Pass, Goto
<1>6. CASE Pass("retry_multi", "edges", ResolveMulti(db, RetryFailed(db, parsed)))
    BY <1>1, <1>6, PassFacts DEF Pass, Goto
<1>7. CASE Pass("edges", "specs", ResolveEdges(db))
    BY <1>1, <1>7, ResolveEdgesFacts DEF Pass, Goto
<1>8. CASE Pass("specs", "drain", LinkSpecs(db, parsed))
  <2>1. parsed \subseteq Held(db.files)
      BY <1>8 DEF TypeOK, PlaceInv, Held, Pass
  <2> QED BY <1>1, <1>8, <2>1, LinkSpecsFacts DEF Pass, Goto
<1> QED BY <1>2, <1>3, <1>4, <1>5, <1>6, <1>7, <1>8 DEF ResolveGraph

\* Every step keeps the types.
LEMMA TypeStep ==
    ASSUME TypeOK, PlaceInv, [Next]_vars
    PROVE  TypeOK'
<1> USE DEF Labels, Staging, Goto, source, tables, job, history, bounds
<1>1. ASSUME NEW f \in File, NEW v \in Version \cup {NoFile}, Edit(f, v) PROVE TypeOK'
    BY <1>1, IndexStoreAssumption DEF Edit, TypeOK, Files
<1>2. CASE SwitchProvider
    BY <1>2, IndexStoreAssumption DEF SwitchProvider, TypeOK
<1>3. CASE Begin
    BY <1>3 DEF Begin, TypeOK, BuildingState, Invalidation
<1>4. CASE DeleteRows
  <2>1. Gone \in SUBSET File
      BY DEF Gone, TypeOK
  <2>2. db' \in Database
      BY <1>4, <2>1, ApplyDeletionsFacts DEF DeleteRows, TypeOK
  <2> QED BY <1>4, <2>2 DEF DeleteRows, TypeOK
<1>5. CASE DeleteVectors
    BY <1>5 DEF DeleteVectors, TypeOK, RowsWithout
<1>6. CASE Collect
  <2>1. mixed' \in BOOLEAN /\ orphaned' \in BOOLEAN
      BY <1>6 DEF Collect
  <2> QED BY <1>6, <2>1 DEF Collect, TypeOK, Rebuilt, Inputs, Present, Gone
<1>7. CASE IndexFile
  <2>1. PICK f \in todo :
              /\ f \in File /\ want[f] \in Version
              /\ \/ want[f] \in Refused /\ Skips(f)
                 \/ want[f] \notin Refused /\ Writes(f)
      BY <1>7, IndexFileCases
  <2>2. tx' \in Database
    <3>1. tx \in Database
        BY DEF TypeOK
    <3>2. ApplyFile(tx, f, want[f]) \in Database
        BY <2>1, <3>1, ApplyFileFacts
    <3> QED BY <2>1, <3>1, <3>2 DEF Skips, Writes
  <2>3. todo' \subseteq File /\ parsed' \subseteq File
      BY <2>1 DEF TypeOK, Skips, Writes
  <2> QED BY <1>7, <2>2, <2>3 DEF IndexFile, TypeOK
<1>8. CASE IndexFileFails
    BY <1>8, IndexStoreAssumption DEF IndexFileFails, TypeOK
<1>9. CASE Commit
    BY <1>9, EmptyDbFacts DEF Commit, TypeOK
<1>10. CASE ResolveGraph
    BY <1>10, PassKeeps DEF TypeOK
<1>11. ASSUME NEW c \in queued, WriteVector(c) PROVE TypeOK'
  <2>1. \A r \in vectors' : r = [id |-> r.id, hash |-> r.hash, by |-> r.by] /\ r.by \in Provider
      BY <1>11 DEF WriteVector, TypeOK, RowsWithout
  <2> QED BY <1>11, <2>1 DEF WriteVector, TypeOK
<1>12. CASE Drained
    BY <1>12 DEF Drained, TypeOK
<1>13. CASE DeleteRemoved
    BY <1>13 DEF DeleteRemoved, TypeOK, RowsWithout
<1>14. CASE Finalize
    BY <1>14 DEF Finalize, TypeOK
<1>15. CASE Ready
  <2>1. search' \in [at : {"idle", "read", "answered"}, gap : BOOLEAN, mixed : BOOLEAN,
                     overtaken : BOOLEAN]
      BY <1>15 DEF Ready, TypeOK
  <2> QED BY <1>15, <2>1, EmptyDbFacts DEF Ready, Forget, TypeOK, ReadyState
<1>16. CASE Abandon /\ (marker' = FailedState \/ UNCHANGED marker)
  <2>1. marker'.status \in {"none", "building", "failed", "ready"}
      BY <1>16 DEF FailedState, TypeOK
  <2>2. faults' \in 0..MaxFaults
      BY <1>16, IndexStoreAssumption DEF Abandon, TypeOK
  <2>3. orphaned' \in BOOLEAN
      BY <1>16 DEF Abandon
  <2> QED BY <1>16, <2>1, <2>2, <2>3, EmptyDbFacts DEF Abandon, Forget, TypeOK
<1>17. CASE SearchReads
  <2>1. (Missing # {}) \in BOOLEAN
      OBVIOUS
  <2>2. search' \in [at : {"idle", "read", "answered"}, gap : BOOLEAN, mixed : BOOLEAN,
                     overtaken : BOOLEAN]
      BY <1>17, <2>1 DEF SearchReads, TypeOK
  <2> QED BY <1>17, <2>2 DEF SearchReads, TypeOK
<1>18. CASE SearchAnswers
    BY <1>18 DEF SearchAnswers, TypeOK, NoSearch
<1>19. CASE UNCHANGED vars
    BY <1>19 DEF vars, TypeOK
<1> QED
    BY <1>1, <1>2, <1>3, <1>4, <1>5, <1>6, <1>7, <1>8, <1>9, <1>10, <1>11, <1>12, <1>13, <1>14,
       <1>15, <1>16, <1>17, <1>18, <1>19
    DEF Next, Ingest, Search, Fail, Crash

--------------------------------------------------------------------------------
(* Where the ingest is.                                                    *)

\* Every step keeps the order of an ingest (Indexer._run).
LEMMA PlaceStep ==
    ASSUME TypeOK, PlaceInv, ModeInv, [Next]_vars
    PROVE  PlaceInv'
<1> USE DEF Labels, Early, Late, Staging, Goto, source, tables, job, bounds
<1>1. ASSUME NEW f \in File, NEW v \in Version \cup {NoFile}, Edit(f, v) PROVE PlaceInv'
    BY <1>1 DEF Edit, PlaceInv, TypeOK, Files
<1>2. CASE SwitchProvider
    BY <1>2 DEF SwitchProvider, PlaceInv
<1>3. CASE Begin
    BY <1>3 DEF Begin, PlaceInv, BuildingState
<1>4. CASE DeleteRows
  <2>1. Gone \in SUBSET File
      BY DEF Gone, TypeOK
  <2>2. db'.files = [f \in File |-> IF f \in Gone THEN NoFile ELSE db.files[f]]
      BY <1>4, <2>1, ApplyDeletionsFacts DEF DeleteRows, TypeOK
  <2>3. \A f \in File : db'.files[f] \notin Refused
      BY <2>2, SymbolGraphAssumption DEF PlaceInv
  <2> QED BY <1>4, <2>3 DEF DeleteRows, PlaceInv
<1>5. CASE DeleteVectors
    BY <1>5 DEF DeleteVectors, PlaceInv
<1>6. CASE Collect
  <2>1. Inputs \subseteq pending /\ \A f \in Inputs : want[f] # NoFile
    <3>1. mode = "full_reparse" => Present \subseteq pending
        BY <1>6 DEF Collect, ModeInv, Present
    <3> QED BY <3>1 DEF Inputs, Present, Gone
  <2>2. \A f \in pending \ Inputs : want[f] = NoFile
      BY DEF Inputs, Present, Gone, TypeOK
  <2> QED BY <1>6, <2>1, <2>2 DEF Collect, PlaceInv
<1>7. CASE IndexFile
  <2>1. PICK f \in todo :
              /\ f \in File /\ want[f] \in Version
              /\ \/ want[f] \in Refused /\ Skips(f)
                 \/ want[f] \notin Refused /\ Writes(f)
      BY <1>7, IndexFileCases
  <2>2. /\ pc = "write" /\ UNCHANGED <<source, tables, marker, pc, mode, errors, search, bounds>>
      BY <1>7 DEF IndexFile
  <2>3. CASE want[f] \in Refused /\ Skips(f)
      BY <2>1, <2>2, <2>3 DEF Skips, PlaceInv
  <2>4. CASE want[f] \notin Refused /\ Writes(f)
    <3>1. tx'.files = [tx.files EXCEPT ![f] = want[f]] /\ tx.files \in Files
        BY <2>1, <2>4, ApplyFileFacts, DatabaseFields DEF TypeOK, Writes
    <3>2. \A g \in File : tx'.files[g] = IF g \in parsed' THEN want[g] ELSE db.files[g]
        BY <2>1, <2>2, <2>4, <3>1 DEF PlaceInv, Writes, Files
    <3>3. /\ todo' = todo \ {f} /\ parsed' = parsed \cup {f} /\ want[f] # NoFile
        BY <2>1, <2>4, SymbolGraphAssumption DEF Writes
    <3> QED BY <2>1, <2>2, <2>4, <3>2, <3>3 DEF PlaceInv
  <2> QED BY <2>1, <2>3, <2>4
<1>8. CASE IndexFileFails
    BY <1>8 DEF IndexFileFails, PlaceInv
<1>9. CASE Commit
  <2>1. \A f \in File : tx.files[f] \notin Refused
    <3>1. \A f \in parsed : want[f] \notin Refused
        BY DEF PlaceInv
    <3> QED BY <1>9, <3>1 DEF Commit, PlaceInv
  <2>2. \A f \in parsed : tx.files[f] = want[f]
      BY <1>9 DEF Commit, PlaceInv, TypeOK
  <2> QED BY <1>9, <2>1, <2>2 DEF Commit, PlaceInv
<1>10. CASE ResolveGraph
    BY <1>10, PassKeeps DEF PlaceInv
<1>11. ASSUME NEW c \in queued, WriteVector(c) PROVE PlaceInv'
    BY <1>11 DEF WriteVector, PlaceInv
<1>12. CASE Drained
    BY <1>12 DEF Drained, PlaceInv
<1>13. CASE DeleteRemoved
    BY <1>13 DEF DeleteRemoved, PlaceInv
<1>14. CASE Finalize
    BY <1>14 DEF Finalize, PlaceInv
<1>15. CASE Ready
    BY <1>15 DEF Ready, Forget, PlaceInv
<1>16. CASE Abandon /\ (marker' = FailedState \/ UNCHANGED marker)
    BY <1>16 DEF Abandon, Forget, PlaceInv
<1>17. CASE SearchReads \/ SearchAnswers \/ UNCHANGED vars
    BY <1>17 DEF SearchReads, SearchAnswers, vars, PlaceInv
<1> QED
    BY <1>1, <1>2, <1>3, <1>4, <1>5, <1>6, <1>7, <1>8, <1>9, <1>10, <1>11, <1>12, <1>13, <1>14,
       <1>15, <1>16, <1>17
    DEF Next, Ingest, Search, Fail, Crash

\* Every step keeps what the mode says of the fingerprint.
LEMMA ModeStep ==
    ASSUME TypeOK, PlaceInv, ModeInv, [Next]_vars
    PROVE  ModeInv'
<1> USE DEF Labels, Early, Late, Staging, Goto, source, tables, job, bounds
<1>1. ASSUME NEW f \in File, NEW v \in Version \cup {NoFile}, Edit(f, v) PROVE ModeInv'
    BY <1>1 DEF Edit, ModeInv, TypeOK, Files
<1>2. CASE SwitchProvider
    BY <1>2 DEF SwitchProvider, ModeInv
<1>3. CASE Begin
    BY <1>3 DEF Begin, ModeInv, PlaceInv, BuildingState, Invalidation, TypeOK
<1>4. CASE DeleteRows
  <2>1. Gone \in SUBSET File
      BY DEF Gone, TypeOK
  <2>2. db'.files = [f \in File |-> IF f \in Gone THEN NoFile ELSE db.files[f]]
      BY <1>4, <2>1, ApplyDeletionsFacts DEF DeleteRows, TypeOK
  <2>3. Held(db'.files) \subseteq Held(db.files)
      BY <2>2 DEF Held
  <2> QED BY <1>4, <2>3 DEF DeleteRows, ModeInv, PlaceInv
<1>5. CASE DeleteVectors
    BY <1>5 DEF DeleteVectors, ModeInv, PlaceInv
<1>6. CASE Collect
    BY <1>6 DEF Collect, ModeInv, PlaceInv
<1>7. CASE IndexFile
  <2>1. PICK f \in todo :
              /\ f \in File /\ want[f] \in Version
              /\ \/ want[f] \in Refused /\ Skips(f)
                 \/ want[f] \notin Refused /\ Writes(f)
      BY <1>7, IndexFileCases
  <2>2. /\ pc = "write" /\ UNCHANGED <<source, tables, marker, pc, mode, errors, search, bounds>>
      BY <1>7 DEF IndexFile
  <2>3. CASE want[f] \in Refused /\ Skips(f)
      BY <2>2, <2>3 DEF Skips, ModeInv
  <2>4. CASE want[f] \notin Refused /\ Writes(f)
    <3>1. tx'.files = [tx.files EXCEPT ![f] = want[f]] /\ tx.files \in Files
        BY <2>1, <2>4, ApplyFileFacts, DatabaseFields DEF TypeOK, Writes
    <3>2. Held(tx'.files) \subseteq Held(tx.files) \cup {f}
        BY <3>1 DEF Held, Files
    <3>3. parsed' = parsed \cup {f}
        BY <2>4 DEF Writes
    <3> QED BY <2>2, <3>2, <3>3 DEF ModeInv
  <2> QED BY <2>1, <2>3, <2>4
<1>8. CASE IndexFileFails
    BY <1>8 DEF IndexFileFails, ModeInv
<1>9. CASE Commit
    BY <1>9 DEF Commit, ModeInv, PlaceInv
<1>10. CASE ResolveGraph
    BY <1>10, PassKeeps DEF ModeInv
<1>11. ASSUME NEW c \in queued, WriteVector(c) PROVE ModeInv'
    BY <1>11 DEF WriteVector, ModeInv, PlaceInv
<1>12. CASE Drained
    BY <1>12 DEF Drained, ModeInv
<1>13. CASE DeleteRemoved
    BY <1>13 DEF DeleteRemoved, ModeInv, PlaceInv
<1>14. CASE Finalize
    BY <1>14, IndexStoreAssumption DEF Finalize, ModeInv, PlaceInv, TypeOK
<1>15. CASE Ready
    BY <1>15, IndexStoreAssumption DEF Ready, Forget, ModeInv, TypeOK, ReadyState
<1>16. CASE Abandon /\ (marker' = FailedState \/ UNCHANGED marker)
    BY <1>16 DEF Abandon, Forget, ModeInv, PlaceInv, FailedState
<1>17. CASE SearchReads \/ SearchAnswers \/ UNCHANGED vars
    BY <1>17 DEF SearchReads, SearchAnswers, vars, ModeInv
<1> QED
    BY <1>1, <1>2, <1>3, <1>4, <1>5, <1>6, <1>7, <1>8, <1>9, <1>10, <1>11, <1>12, <1>13, <1>14,
       <1>15, <1>16, <1>17
    DEF Next, Ingest, Search, Fail, Crash

--------------------------------------------------------------------------------
(* The chunks on their way to the vector table.                            *)

\* A chunk of the tables is one of a held file's version.
LEMMA ChunkOf ==
    ASSUME NEW files \in Files, NEW c
    PROVE  c \in Chunks(files) <=>
              \E f \in File : files[f] \in Version /\ c \in Parsed[<<f, files[f]>>].chunks
<1>1. \A f \in File : f \in Held(files) <=> files[f] \in Version
    BY SymbolGraphAssumption DEF Files, Held
<1> QED BY <1>1 DEF Chunks, Rows, Held

\* A chunk the ingest has written is one of a file it has written.
LEMMA WrittenOf ==
    ASSUME NEW c
    PROVE  c \in WrittenChunks <=> \E f \in parsed : c \in Parsed[<<f, want[f]>>].chunks
BY DEF WrittenChunks

\* An id names its file, and its chunk if the version is given.
SameId(f, g, v, w) ==
    \A c \in Parsed[<<f, v>>].chunks, d \in Parsed[<<g, w>>].chunks :
        c.id = d.id => f = g /\ (v = w => c = d)

\* No two files and no two chunks of a version share an id.
LEMMA IdsAreOwn == \A f, g \in File : \A v, w \in Version : SameId(f, g, v, w)
BY ChunkIdAssumption DEF SameId

\* What a parsed file should be is a version that the parser accepts.
LEMMA ParsedVersion ==
    ASSUME TypeOK, PlaceInv, NEW f \in parsed
    PROVE  f \in File /\ f \in pending /\ want[f] \in Version /\ want[f] # NoFile
           /\ View.files \in Files /\ View.files[f] = want[f]
<1>1. f \in File /\ want[f] \in Version /\ want[f] # NoFile /\ f \in pending
    BY DEF TypeOK, PlaceInv, Files
<1>2. View.files \in Files
    BY DatabaseFields DEF TypeOK, View
<1>3. View.files[f] = want[f]
    BY <1>1 DEF PlaceInv, View
<1> QED BY <1>1, <1>2, <1>3

\* What the ingest has written is in the tables it works on.
LEMMA WrittenInView == TypeOK /\ PlaceInv => WrittenChunks \subseteq Chunks(View.files)
<1> SUFFICES ASSUME TypeOK, PlaceInv, NEW c \in WrittenChunks PROVE c \in Chunks(View.files)
    OBVIOUS
<1>1. PICK f \in parsed : c \in Parsed[<<f, want[f]>>].chunks
    BY WrittenOf
<1> QED BY <1>1, ParsedVersion, ChunkOf

\* Every step keeps what is handed to the vector stage among the chunks of the tables.
LEMMA QueueStep ==
    ASSUME TypeOK, PlaceInv, QueueInv, TypeOK', PlaceInv', [Next]_vars
    PROVE  QueueInv'
<1> USE DEF Labels, Early, Late, Staging, Goto, source, tables, job, bounds
<1>0. WrittenChunks' \subseteq Chunks(View.files)'
  <2>1. (TypeOK /\ PlaceInv => WrittenChunks \subseteq Chunks(View.files))'
      BY WrittenInView, PTL
  <2> QED BY <2>1
<1>1. CASE queued' = {}
    BY <1>1 DEF QueueInv
<1>2. CASE IndexFile
  <2>1. PICK f \in todo :
              /\ f \in File /\ want[f] \in Version
              /\ \/ want[f] \in Refused /\ Skips(f)
                 \/ want[f] \notin Refused /\ Writes(f)
      BY <1>2, IndexFileCases
  <2>2. pc = "write" /\ pc' = "write" /\ want' = want
      BY <1>2 DEF IndexFile
  <2>3. queued' \subseteq WrittenChunks'
    <3>1. queued \subseteq WrittenChunks
        BY <2>2 DEF QueueInv
    <3>2. parsed \subseteq parsed'
        BY <2>1 DEF Skips, Writes
    <3>3. WrittenChunks \subseteq WrittenChunks'
        BY <2>2, <3>2 DEF WrittenChunks
    <3>4. CASE Skips(f)
        BY <3>1, <3>3, <3>4 DEF Skips
    <3>5. CASE Writes(f)
      <4>1. Parsed[<<f, want[f]>>].chunks \subseteq WrittenChunks'
          BY <2>2, <3>5 DEF Writes, WrittenChunks
      <4> QED BY <3>1, <3>3, <3>5, <4>1 DEF Writes
    <3> QED BY <2>1, <3>4, <3>5
  <2> QED BY <1>0, <2>2, <2>3 DEF QueueInv
<1>3. CASE IndexFileFails
  <2>1. WrittenChunks' = WrittenChunks /\ UNCHANGED <<pc, queued>>
      BY <1>3 DEF IndexFileFails, WrittenChunks
  <2> QED BY <1>0, <1>3, <2>1 DEF IndexFileFails, QueueInv
<1>4. CASE Commit
  <2>1. queued \subseteq Chunks(tx.files) /\ Existing \subseteq Chunks(tx.files)
      BY <1>4 DEF Commit, QueueInv, View, Existing
  <2>2. View' = tx /\ pc' # "write"
      BY <1>4 DEF Commit, View
  <2>3. queued' \subseteq Chunks(tx.files)
      BY <1>4, <2>1 DEF Commit
  <2> QED BY <2>2, <2>3 DEF QueueInv
<1>5. CASE ResolveGraph
  <2>1. View.files' = View.files /\ UNCHANGED queued /\ pc' # "write"
      BY <1>5, PassKeeps DEF View
  <2> QED BY <2>1 DEF QueueInv
<1>6. ASSUME NEW c \in queued, WriteVector(c) PROVE QueueInv'
  <2>1. queued' \subseteq queued /\ UNCHANGED <<pc, tx, db, want, parsed>>
      BY <1>6 DEF WriteVector
  <2>2. WrittenChunks' = WrittenChunks /\ View' = View
      BY <2>1 DEF WrittenChunks, View
  <2> QED BY <2>1, <2>2 DEF QueueInv
<1>7. CASE pc \in Early /\ pc' \in Early
  <2>1. queued' = {}
      BY <1>7 DEF PlaceInv
  <2> QED BY <1>1, <2>1
<1>8. CASE Collect \/ Drained \/ DeleteRemoved \/ Finalize \/ Ready \/ Abandon
  <2>1. queued' = {}
      BY <1>8 DEF Collect, Drained, DeleteRemoved, Finalize, Ready, Abandon, Forget, PlaceInv
  <2> QED BY <1>1, <2>1
<1>9. CASE Search \/ UNCHANGED vars
    BY <1>9 DEF Search, SearchReads, SearchAnswers, vars, QueueInv, View, WrittenChunks
<1>10. ASSUME NEW f, NEW v, Edit(f, v) PROVE QueueInv'
    BY <1>7, <1>10 DEF Edit
<1>11. CASE SwitchProvider \/ Begin \/ DeleteRows \/ DeleteVectors
    BY <1>7, <1>11 DEF SwitchProvider, Begin, DeleteRows, DeleteVectors
<1> QED
    BY <1>2, <1>3, <1>4, <1>5, <1>6, <1>8, <1>9, <1>10, <1>11
    DEF Next, Ingest, Fail, Crash

\* Every step keeps the ids to be deleted apart from those of chunks in use.
LEMMA RemovedStep ==
    ASSUME TypeOK, PlaceInv, ModeInv, RemovedInv, PlaceInv', [Next]_vars
    PROVE  RemovedInv'
<1> USE DEF Labels, Early, Late, Staging, Goto, source, tables, job, bounds
<1>1. CASE removed' = {}
    BY <1>1 DEF RemovedInv
<1>2. CASE DeleteRows
  <2>1. Gone \in SUBSET File /\ Gone \subseteq pending
      BY DEF Gone, TypeOK
  <2>2. db'.files = [f \in File |-> IF f \in Gone THEN NoFile ELSE db.files[f]]
      BY <1>2, <2>1, ApplyDeletionsFacts DEF DeleteRows, TypeOK
  <2>3. db.files \in Files /\ db'.files \in Files
      BY <2>2, DatabaseFields DEF TypeOK, Files
  <2>4. ASSUME NEW i \in removed'
        PROVE  \E f \in pending, v \in Version : i \in Ids(Parsed[<<f, v>>].chunks)
    <3>1. PICK c \in Chunks(db.files) : c.id = i /\ c \notin Chunks(db'.files)
        BY <1>2 DEF DeleteRows, Ids
    <3>2. PICK f \in File : db.files[f] \in Version /\ c \in Parsed[<<f, db.files[f]>>].chunks
        BY <2>3, <3>1, ChunkOf
    <3>3. f \in Gone
        BY <2>2, <2>3, <3>1, <3>2, ChunkOf
    <3> QED BY <2>1, <3>1, <3>2, <3>3 DEF Ids
  <2> QED BY <1>2, <2>4 DEF DeleteRows, RemovedInv
<1>3. CASE IndexFile
  <2>1. PICK f \in todo :
              /\ f \in File /\ want[f] \in Version
              /\ \/ want[f] \in Refused /\ Skips(f)
                 \/ want[f] \notin Refused /\ Writes(f)
      BY <1>3, IndexFileCases
  <2>2. pc = "write" /\ pc' = "write" /\ want' = want /\ mode' = mode
      BY <1>3 DEF IndexFile
  <2>3. CASE Skips(f)
      BY <2>2, <2>3 DEF Skips, RemovedInv
  <2>4. CASE Writes(f)
    <3>1. mode # "none" => removed' = {}
        BY <2>2, <2>4 DEF Writes, RemovedInv
    <3>2. ASSUME NEW i \in removed'
          PROVE  \E g \in parsed', v \in Version :
                    i \in Ids(Parsed[<<g, v>>].chunks) /\ i \notin Ids(Parsed[<<g, want[g]>>].chunks)
      <4>1. CASE i \in removed
          BY <2>2, <2>4, <4>1 DEF Writes, RemovedInv
      <4>2. CASE i \in RemovedIds(f)
        <5>1. tx.files[f] # NoFile
            BY <4>2 DEF RemovedIds, Ids
        <5>2. tx.files[f] \in Version
            BY <2>1, <5>1, DatabaseFields DEF TypeOK, Files
        <5> QED BY <2>4, <4>2, <5>1, <5>2 DEF Writes, RemovedIds, Rows
      <4> QED BY <2>4, <4>1, <4>2 DEF Writes
    <3> QED BY <2>2, <3>1, <3>2 DEF RemovedInv
  <2> QED BY <2>1, <2>3, <2>4
<1>4. CASE IndexFileFails
    BY <1>4 DEF IndexFileFails, RemovedInv
<1>5. CASE Commit
    BY <1>5 DEF Commit, RemovedInv
<1>6. CASE ResolveGraph
    BY <1>6, PassKeeps DEF RemovedInv
<1>7. ASSUME NEW c \in queued, WriteVector(c) PROVE RemovedInv'
    BY <1>7 DEF WriteVector, RemovedInv
<1>8. CASE Drained
    BY <1>8 DEF Drained, RemovedInv
<1>9. CASE Begin \/ DeleteVectors \/ Collect \/ DeleteRemoved \/ Finalize \/ Ready \/ Abandon \/ SwitchProvider
  <2>1. removed' = {}
      BY <1>9
      DEF Begin, DeleteVectors, Collect, DeleteRemoved, Finalize, Ready, Abandon, Forget, SwitchProvider,
          PlaceInv
  <2> QED BY <1>1, <2>1
<1>10. ASSUME NEW f, NEW v, Edit(f, v) PROVE RemovedInv'
  <2>1. removed' = {}
      BY <1>10 DEF Edit, PlaceInv
  <2> QED BY <1>1, <2>1
<1>11. CASE Search \/ UNCHANGED vars
    BY <1>11 DEF Search, SearchReads, SearchAnswers, vars, RemovedInv
<1> QED
    BY <1>2, <1>3, <1>4, <1>5, <1>6, <1>7, <1>8, <1>9, <1>10, <1>11
    DEF Next, Ingest, Fail, Crash

\* Every step keeps account of the rows whose chunk is gone, unless an ingest is cut off.
LEMMA TightStep ==
    ASSUME TypeOK, PlaceInv, QueueInv, TightInv, TypeOK', PlaceInv', [Next]_vars
    PROVE  TightInv'
<1> USE DEF Labels, Early, Late, Staging, Goto, source, tables, job, history, bounds
<1>1. ASSUME NEW f \in File, NEW v \in Version \cup {NoFile}, Edit(f, v) PROVE TightInv'
    BY <1>1 DEF Edit, TightInv, View, PlaceInv
<1>2. CASE SwitchProvider
    BY <1>2 DEF SwitchProvider, TightInv, View
<1>3. CASE Begin
    BY <1>3 DEF Begin, TightInv, View
<1>4. CASE DeleteRows
  <2>1. View = db /\ View' = db' /\ removed = {}
      BY <1>4 DEF DeleteRows, View, PlaceInv
  <2>2. removed' = Ids(Chunks(db.files)) \ Ids(Chunks(db'.files))
      BY <1>4 DEF DeleteRows
  <2> QED BY <1>4, <2>1, <2>2 DEF DeleteRows, TightInv
<1>5. CASE DeleteVectors
    BY <1>5 DEF DeleteVectors, TightInv, View, RowsWithout
<1>6. CASE Collect
  <2>1. View = db /\ View' = db
      BY <1>6 DEF Collect, View
  <2>2. mode = "none" => vectors' = vectors
      BY <1>6 DEF Collect
  <2>3. mode # "none" => vectors' = {}
      BY <1>6 DEF Collect, Rebuilt
  <2> QED BY <1>6, <2>1, <2>2, <2>3 DEF Collect, TightInv
<1>7. CASE IndexFile
  <2>1. PICK f \in todo :
              /\ f \in File /\ want[f] \in Version
              /\ \/ want[f] \in Refused /\ Skips(f)
                 \/ want[f] \notin Refused /\ Writes(f)
      BY <1>7, IndexFileCases
  <2>2. /\ pc = "write" /\ pc' = "write" /\ want' = want /\ mode' = mode /\ vectors' = vectors
        /\ orphaned' = orphaned
      BY <1>7 DEF IndexFile
  <2>3. CASE Skips(f)
      BY <2>2, <2>3 DEF Skips, TightInv, View, WrittenChunks
  <2>4. CASE Writes(f)
    <3>1. View = tx /\ View' = tx'
        BY <2>2 DEF View
    <3>2. tx.files \in Files /\ tx'.files = [tx.files EXCEPT ![f] = want[f]] /\ tx'.files \in Files
        BY <2>1, <2>4, ApplyFileFacts, DatabaseFields DEF TypeOK, Writes
    <3>3. parsed \subseteq parsed'
        BY <2>4 DEF Writes
    <3>4. WrittenChunks \subseteq WrittenChunks'
        BY <2>2, <3>3 DEF WrittenChunks
    <3>5. mode # "none" => \A r \in vectors' : r.id \in Ids(WrittenChunks')
        BY <2>2, <3>4 DEF TightInv, Ids
    <3>6. ASSUME ~orphaned, mode = "none", NEW r \in vectors
          PROVE  r.id \in Ids(Chunks(tx'.files)) \cup removed'
      <4>1. CASE r.id \in removed
          BY <2>4, <3>6, <4>1 DEF Writes
      <4>2. CASE r.id \in Ids(Chunks(tx.files))
        <5>1. PICK c \in Chunks(tx.files) : c.id = r.id
            BY <4>2 DEF Ids
        <5>2. PICK g \in File : tx.files[g] \in Version /\ c \in Parsed[<<g, tx.files[g]>>].chunks
            BY <3>2, <5>1, ChunkOf
        <5>3. CASE g # f
          <6>1. tx'.files[g] = tx.files[g]
              BY <3>2, <5>2, <5>3 DEF Files
          <6>2. c \in Chunks(tx'.files)
              BY <3>2, <5>2, <6>1, ChunkOf
          <6> QED BY <5>1, <6>2 DEF Ids
        <5>4. CASE g = f
          <6>1. tx'.files[f] = want[f]
              BY <2>1, <3>2 DEF Files
          <6>2. CASE r.id \in Ids(Parsed[<<f, want[f]>>].chunks)
            <7>1. PICK e \in Parsed[<<f, want[f]>>].chunks : e.id = r.id
                BY <6>2 DEF Ids
            <7>2. e \in Chunks(tx'.files)
                BY <2>1, <3>2, <6>1, <7>1, ChunkOf
            <7> QED BY <7>1, <7>2 DEF Ids
          <6>3. CASE r.id \notin Ids(Parsed[<<f, want[f]>>].chunks)
            <7>1. tx.files[f] # NoFile
                BY <5>2, <5>4, SymbolGraphAssumption
            <7>2. r.id \in Ids(Rows(tx.files, f).chunks)
                BY <5>1, <5>2, <5>4 DEF Ids, Rows
            <7>3. r.id \in RemovedIds(f)
                BY <6>3, <7>1, <7>2 DEF RemovedIds
            <7> QED BY <2>4, <3>6, <7>3 DEF Writes
          <6> QED BY <6>2, <6>3
        <5> QED BY <5>3, <5>4
      <4> QED BY <3>1, <3>6, <4>1, <4>2 DEF TightInv
    <3>7. ASSUME mode # "none", NEW r \in vectors
          PROVE  r.id \in Ids(Chunks(tx'.files))
      <4>1. WrittenChunks' \subseteq Chunks(tx'.files)
        <5>1. (TypeOK /\ PlaceInv => WrittenChunks \subseteq Chunks(View.files))'
            BY WrittenInView, PTL
        <5> QED BY <3>1, <5>1
      <4> QED BY <2>2, <3>5, <3>7, <4>1 DEF Ids
    <3> QED BY <2>2, <3>1, <3>5, <3>6, <3>7 DEF TightInv
  <2> QED BY <2>1, <2>3, <2>4
<1>8. CASE IndexFileFails
    BY <1>8 DEF IndexFileFails, TightInv, View, WrittenChunks
<1>9. CASE Commit
    BY <1>9 DEF Commit, TightInv, View
<1>10. CASE ResolveGraph
  <2>1. View = db /\ View' = db' /\ pc' # "write"
      BY <1>10, PassKeeps DEF View
  <2> QED BY <1>10, <2>1, PassKeeps DEF TightInv
<1>11. ASSUME NEW c \in queued, WriteVector(c) PROVE TightInv'
  <2>1. /\ UNCHANGED <<pc, mode, tx, db, want, parsed, removed, orphaned>>
        /\ \A r \in vectors' : r \in vectors \/ r.id = c.id
      BY <1>11 DEF WriteVector, RowsWithout
  <2>2. View' = View /\ WrittenChunks' = WrittenChunks
      BY <2>1 DEF View, WrittenChunks
  <2>3. c \in Chunks(View.files) /\ (pc = "write" => c \in WrittenChunks)
      BY <1>11 DEF QueueInv
  <2>4. c.id \in Ids(Chunks(View.files)) /\ (pc = "write" => c.id \in Ids(WrittenChunks))
      BY <2>3 DEF Ids
  <2> QED BY <2>1, <2>2, <2>4 DEF TightInv
<1>12. CASE Drained
    BY <1>12 DEF Drained, TightInv, View
<1>13. CASE DeleteRemoved
    BY <1>13 DEF DeleteRemoved, TightInv, View, RowsWithout
<1>14. CASE Finalize
    BY <1>14 DEF Finalize, TightInv, View
<1>15. CASE Ready
    BY <1>15 DEF Ready, Forget, TightInv, View, PlaceInv
<1>16. CASE Abandon
  <2>1. UNCHANGED <<db, vectors>> /\ pc' = "idle"
      BY <1>16 DEF Abandon, Forget
  <2>2. ~orphaned' => ~orphaned /\ pc # "write" /\ removed = {}
      BY <1>16 DEF Abandon
  <2> QED BY <2>1, <2>2 DEF TightInv, View
<1>17. CASE Search \/ UNCHANGED vars
    BY <1>17 DEF Search, SearchReads, SearchAnswers, vars, TightInv, View, WrittenChunks
<1> QED
    BY <1>1, <1>2, <1>3, <1>4, <1>5, <1>6, <1>7, <1>8, <1>9, <1>10, <1>11, <1>12, <1>13, <1>14,
       <1>15, <1>16, <1>17
    DEF Next, Ingest, Fail, Crash

--------------------------------------------------------------------------------
(* The graph.                                                              *)

\* Every step keeps the references and edges of other files.
LEMMA KeptStep ==
    ASSUME TypeOK, PlaceInv, KeptInv, [Next]_vars
    PROVE  KeptInv'
<1> USE DEF Goto, source, tables, job, bounds
<1>1. db \in Database /\ tx \in Database
    BY DEF TypeOK
<1>2. CASE DeleteRows
  <2>1. Gone \in SUBSET File
      BY DEF Gone, TypeOK
  <2> QED BY <1>1, <1>2, <2>1, ApplyDeletionsFacts DEF DeleteRows, KeptInv
<1>3. CASE IndexFile
  <2>1. PICK f \in todo :
              /\ f \in File /\ want[f] \in Version
              /\ \/ want[f] \in Refused /\ Skips(f)
                 \/ want[f] \notin Refused /\ Writes(f)
      BY <1>3, IndexFileCases
  <2>2. SpecsKept(ApplyFile(tx, f, want[f])) /\ EdgesKept(ApplyFile(tx, f, want[f]))
      BY <1>1, <2>1, ApplyFileFacts DEF KeptInv
  <2>3. db' = db /\ (tx' = tx \/ tx' = ApplyFile(tx, f, want[f]))
      BY <1>3, <2>1 DEF IndexFile, Skips, Writes
  <2> QED BY <2>2, <2>3 DEF KeptInv
<1>4. CASE ResolveGraph
    BY <1>4, PassKeeps DEF KeptInv
<1>5. CASE UNCHANGED db /\ (tx' = tx \/ tx' = db \/ tx' = EmptyDb)
    BY <1>5, EmptyDbFacts DEF KeptInv
<1>6. CASE db' = tx /\ tx' = EmptyDb
    BY <1>6, EmptyDbFacts DEF KeptInv
<1>7. ASSUME NEW f, NEW v, Edit(f, v) PROVE KeptInv'
    BY <1>5, <1>7 DEF Edit
<1>8. CASE SwitchProvider \/ Begin \/ DeleteVectors \/ Collect
    BY <1>5, <1>8 DEF SwitchProvider, Begin, DeleteVectors, Collect
<1>9. CASE IndexFileFails \/ Drained \/ DeleteRemoved \/ Finalize
    BY <1>5, <1>9 DEF IndexFileFails, Drained, DeleteRemoved, Finalize
<1>10. CASE Ready \/ Abandon \/ Search \/ UNCHANGED vars
    BY <1>5, <1>10 DEF Ready, Abandon, Forget, Search, SearchReads, SearchAnswers, vars
<1>11. CASE Commit
    BY <1>6, <1>11 DEF Commit
<1>12. ASSUME NEW c \in queued, WriteVector(c) PROVE KeptInv'
    BY <1>5, <1>12 DEF WriteVector
<1> QED
    BY <1>2, <1>3, <1>4, <1>7, <1>8, <1>9, <1>10, <1>11, <1>12
    DEF Next, Ingest, Fail, Crash

\* Nothing could be matched with a reference that has no match.
LEMMA NoMatch ==
    ASSUME NEW d \in Database, NEW r, MatchCount(d, r) = 0,
           NEW f \in Held(d.files), NEW s \in Located(f, Rows(d.files, f).symbols)
    PROVE  ~Could(r, s)
<1>1. d.files \in Files
    BY DatabaseFields
<1>2. s \in Symbols(d.files)
    BY <1>1, SymbolFacts
<1> QED BY <1>1, <1>2, CouldMatch, CountFacts

\* The references of other files that failed stay without a match.
LEMMA FailedAfterWrite ==
    ASSUME TypeOK, FailedOK(tx), NEW f \in pending, f \in File, want[f] \in Version
    PROVE  FailedOK(ApplyFile(tx, f, want[f]))
<1> DEFINE a == ApplyFile(tx, f, want[f])
<1>1. tx \in Database /\ tx.files \in Files
    BY DatabaseFields DEF TypeOK
<1>2. a.files = [tx.files EXCEPT ![f] = want[f]] /\ \A r \in a.refs : r \in tx.refs \/ r.status = "pending"
    BY <1>1, ApplyFileFacts
<1> HIDE DEF a
<1>3. SUFFICES ASSUME NEW r \in a.refs, r.status = "failed",
                      NEW g \in Held(a.files) \ pending, a.files[g] = want[g],
                      NEW s \in Located(g, Rows(a.files, g).symbols)
               PROVE  ~Could(r, s)
    BY DEF FailedOK, a
<1>4. r \in tx.refs
    BY <1>2, <1>3
<1>5. g # f /\ a.files[g] = tx.files[g] /\ g \in Held(tx.files)
    BY <1>1, <1>2 DEF Held, Files
<1>6. Rows(a.files, g) = Rows(tx.files, g)
    BY <1>5 DEF Rows
<1> QED BY <1>3, <1>4, <1>5, <1>6 DEF FailedOK

\* Nor does a deletion give a failed reference a match.
LEMMA FailedAfterDeletions ==
    ASSUME TypeOK, FailedOK(db)
    PROVE  FailedOK(ApplyDeletions(db, Gone))
<1> DEFINE a == ApplyDeletions(db, Gone)
<1>1. db \in Database /\ db.files \in Files /\ Gone \in SUBSET File
    BY DatabaseFields DEF TypeOK, Gone
<1>2. a.files = [f \in File |-> IF f \in Gone THEN NoFile ELSE db.files[f]] /\ a.refs \subseteq db.refs
    BY <1>1, ApplyDeletionsFacts
<1> HIDE DEF a
<1>3. SUFFICES ASSUME NEW r \in a.refs, r.status = "failed",
                      NEW g \in Held(a.files) \ pending, a.files[g] = want[g],
                      NEW s \in Located(g, Rows(a.files, g).symbols)
               PROVE  ~Could(r, s)
    BY DEF FailedOK, a
<1>5. a.files[g] = db.files[g] /\ g \in Held(db.files)
    BY <1>1, <1>2 DEF Held, Files
<1>6. Rows(a.files, g) = Rows(db.files, g)
    BY <1>5 DEF Rows
<1> QED BY <1>2, <1>3, <1>5, <1>6 DEF FailedOK

\* A pass leaves failed references that were there, or had no match.
LEMMA FailedAfterPass ==
    ASSUME FailedOK(db), NEW a \in Database, a.files = db.files,
           \A r \in a.refs : r \in db.refs \/ MatchCount(a, r) = 0
    PROVE  FailedOK(a)
<1>1. SUFFICES ASSUME NEW r \in a.refs, r.status = "failed",
                      NEW g \in Held(a.files) \ pending, a.files[g] = want[g],
                      NEW s \in Located(g, Rows(a.files, g).symbols)
               PROVE  ~Could(r, s)
    BY DEF FailedOK
<1>2. CASE r \in db.refs
    BY <1>1, <1>2 DEF FailedOK
<1>3. CASE MatchCount(a, r) = 0
    BY <1>3, NoMatch
<1> QED BY <1>1, <1>2, <1>3

\* An ingest without errors has tried again what its files could match.
LEMMA FailedAfterIngest ==
    ASSUME TypeOK, PlaceInv, FailedOK(db), pc = "ready", ~errors,
           \A r \in RetryFailed(db, parsed) : MatchCount(db, r) = 0,
           NEW r \in db.refs, r.status = "failed",
           NEW f \in Held(db.files), db.files[f] = want[f],
           NEW s \in Located(f, Rows(db.files, f).symbols)
    PROVE  ~Could(r, s)
<1>1. db \in Database
    BY DEF TypeOK
<1>2. CASE f \notin pending
    BY <1>2 DEF FailedOK
<1>3. CASE f \in parsed
  <2>1. SUFFICES ASSUME Could(r, s) PROVE FALSE
      OBVIOUS
  <2>2. r \in RetryFailed(db, parsed)
      BY <1>1, <1>3, <2>1, RetriedIfCould
  <2> QED BY <1>1, <2>1, <2>2, NoMatch
<1>4. CASE f \in pending \ parsed
  <2>1. pc \in Late /\ pc # "write"
      BY DEF Late, Labels, Early, Staging
  <2>2. want[f] = NoFile \/ want[f] \in Refused
      BY <1>4, <2>1 DEF PlaceInv
  <2> QED BY <2>2 DEF PlaceInv, Held
<1> QED BY <1>2, <1>3, <1>4

\* What each pass leaves of the references it looks at.
LEMMA PassResolves ==
    ASSUME TypeOK, PlaceInv, RefInv, ResolveGraph
    PROVE  RefInv'
<1> USE DEF Goto, Resolved, Retargeted
<1>1. db \in Database /\ Pending(db) \in SUBSET db.refs /\ RetryFailed(db, parsed) \in SUBSET db.refs
    BY DEF TypeOK, Pending, RetryFailed
<1>2. /\ db' \in Database /\ db'.files = db.files
      /\ UNCHANGED <<want, pending, tx, parsed>>
      /\ pc # "write"
    BY PassKeeps DEF source
<1>3. \A r : MatchCount(db', r) = MatchCount(db, r)
    BY <1>2, SameCount
<1>4. \A r : MatchCount(db, r) \in Nat
    BY <1>1, CountFacts
<1>5. FailedOK(tx)' /\ tx' = EmptyDb
    BY <1>2, EmptyDbFacts DEF PlaceInv, FailedOK
<1>6. ASSUME \A r \in db'.refs : r \in db.refs \/ MatchCount(db, r) = 0
      PROVE  FailedOK(db)'
  <2>1. PICK a : a = db'
      OBVIOUS
  <2>2. FailedOK(a)
    <3>1. \A r \in a.refs : r \in db.refs \/ MatchCount(a, r) = 0
        BY <1>3, <1>6, <2>1
    <3> QED BY <1>2, <2>1, <3>1, FailedAfterPass DEF RefInv
  <2> QED BY <1>2, <2>1, <2>2 DEF FailedOK
<1>7. ASSUME db'.refs \subseteq db.refs
      PROVE  Pending(db') \subseteq Pending(db) /\ RetryFailed(db', parsed) \subseteq RetryFailed(db, parsed)
    BY <1>2, <1>7 DEF Pending, RetryFailed, Rows
<1>8. CASE Pass("pending", "pending_multi", ResolveSingles(db, Pending(db)))
  <2>1. db'.refs \subseteq db.refs /\ \A r \in Pending(db') : MatchCount(db, r) # 1
    <3>1. \A r \in db'.refs : r \in db.refs /\ (r \in Pending(db) => MatchCount(db, r) # 1)
        BY <1>1, <1>8, PassFacts DEF Pass
    <3> QED BY <3>1 DEF Pending
  <2>2. pc' = "pending_multi" /\ UNCHANGED marker
      BY <1>8 DEF Pass
  <2> QED BY <1>3, <1>5, <1>6, <2>1, <2>2 DEF RefInv, AtRest
<1>9. CASE Pass("pending_multi", "pending_none", ResolveMulti(db, Pending(db)))
  <2>1. db'.refs \subseteq db.refs /\ \A r \in Pending(db') : MatchCount(db, r) = 0
    <3>1. \A r \in db'.refs : r \in db.refs /\ (r \in Pending(db) => ~(MatchCount(db, r) > 1))
        BY <1>1, <1>9, PassFacts DEF Pass
    <3>2. \A r \in Pending(db) : MatchCount(db, r) # 1
        BY <1>9 DEF RefInv, Pass
    <3> QED BY <1>4, <3>1, <3>2 DEF Pending
  <2>2. pc' = "pending_none" /\ UNCHANGED marker
      BY <1>9 DEF Pass
  <2> QED BY <1>3, <1>5, <1>6, <2>1, <2>2 DEF RefInv, AtRest
<1>10. CASE Pass("pending_none", "retry", ResolveNone(db, Pending(db)))
  <2>1. \A r \in db'.refs : \/ r \in db.refs /\ (r \in Pending(db) => MatchCount(db, r) # 0)
                            \/ r.status = "failed" /\ MatchCount(db, r) = 0
      BY <1>1, <1>10, PassFacts DEF Pass
  <2>2. Pending(db') = {}
    <3>1. \A r \in Pending(db) : MatchCount(db, r) = 0
        BY <1>10 DEF RefInv, Pass
    <3> QED BY <2>1, <3>1 DEF Pending
  <2>3. pc' = "retry" /\ UNCHANGED marker
      BY <1>10 DEF Pass
  <2> QED BY <1>3, <1>5, <1>6, <2>1, <2>2, <2>3 DEF RefInv, AtRest
<1>11. CASE Pass("retry", "retry_multi", ResolveSingles(db, RetryFailed(db, parsed)))
  <2>1. \A r \in db'.refs : r \in db.refs /\ (r \in RetryFailed(db, parsed) => MatchCount(db, r) # 1)
      BY <1>1, <1>11, PassFacts DEF Pass
  <2>2. \A r \in RetryFailed(db', parsed) : MatchCount(db, r) # 1
      BY <1>7, <2>1 DEF RetryFailed
  <2>3. pc' = "retry_multi" /\ UNCHANGED <<marker, parsed>> /\ Pending(db) = {}
      BY <1>11 DEF Pass, RefInv
  <2> QED BY <1>3, <1>5, <1>6, <1>7, <2>1, <2>2, <2>3 DEF RefInv, AtRest
<1>12. CASE Pass("retry_multi", "edges", ResolveMulti(db, RetryFailed(db, parsed)))
  <2>1. \A r \in db'.refs : r \in db.refs /\ (r \in RetryFailed(db, parsed) => ~(MatchCount(db, r) > 1))
      BY <1>1, <1>12, PassFacts DEF Pass
  <2>2. \A r \in RetryFailed(db', parsed) : MatchCount(db, r) = 0
    <3>1. \A r \in RetryFailed(db, parsed) : MatchCount(db, r) # 1
        BY <1>12 DEF Pass, RefInv
    <3>2. RetryFailed(db', parsed) \subseteq db'.refs \cap RetryFailed(db, parsed)
        BY <1>7, <2>1 DEF RetryFailed
    <3> QED BY <1>4, <2>1, <3>1, <3>2
  <2>3. pc' = "edges" /\ UNCHANGED <<marker, parsed>> /\ Pending(db) = {}
      BY <1>12 DEF Pass, RefInv
  <2> QED BY <1>3, <1>5, <1>6, <1>7, <2>1, <2>2, <2>3 DEF RefInv, AtRest
<1>13. CASE Pass("edges", "specs", ResolveEdges(db))
  <2>1. db'.refs = db.refs /\ \A e \in Bare(db') : Cardinality(EdgeTargets(db', e)) # 1
      BY <1>1, <1>13, ResolveEdgesFacts DEF Pass
  <2>2. pc' = "specs" /\ UNCHANGED <<marker, parsed>> /\ Pending(db) = {}
        /\ \A r \in RetryFailed(db, parsed) : MatchCount(db, r) = 0
      BY <1>13 DEF Pass, RefInv
  <2> QED BY <1>3, <1>5, <1>6, <1>7, <2>1, <2>2 DEF RefInv, AtRest
<1>14. CASE Pass("specs", "drain", LinkSpecs(db, parsed))
  <2>1. parsed \subseteq Held(db.files)
      BY <1>14 DEF TypeOK, PlaceInv, Held, Pass
  <2>2. db'.refs = db.refs /\ db'.edges = db.edges
      BY <1>1, <1>14, <2>1, LinkSpecsFacts DEF Pass
  <2>3. \A e \in Bare(db') : Cardinality(EdgeTargets(db', e)) # 1
    <3>1. \A e \in Bare(db) : Cardinality(EdgeTargets(db, e)) # 1
        BY <1>14 DEF Pass, RefInv
    <3> QED BY <1>2, <2>2, <3>1 DEF Bare, EdgeTargets
  <2>4. pc' = "drain" /\ UNCHANGED <<marker, parsed>> /\ Pending(db) = {}
        /\ \A r \in RetryFailed(db, parsed) : MatchCount(db, r) = 0
      BY <1>14 DEF Pass, RefInv
  <2> QED BY <1>3, <1>5, <1>6, <1>7, <2>2, <2>3, <2>4 DEF RefInv, AtRest
<1> QED BY <1>8, <1>9, <1>10, <1>11, <1>12, <1>13, <1>14 DEF ResolveGraph

\* Every step keeps what the passes have done, and the failed references without a match.
LEMMA RefStep ==
    ASSUME TypeOK, PlaceInv, RefInv, [Next]_vars
    PROVE  RefInv'
<1> USE DEF Goto, source, tables, job, bounds, Resolved, Retargeted
<1>1. db \in Database /\ tx \in Database
    BY DEF TypeOK
\* Most steps leave the tables and what was resolved as they are.
<1>2. ASSUME FailedOK(db)', FailedOK(tx)', UNCHANGED <<db, pc, marker, parsed>>
      PROVE  RefInv'
    BY <1>2 DEF RefInv, AtRest
<1>3. ASSUME FailedOK(db)', FailedOK(tx)', marker'.status # "ready",
             pc' \notin {"pending_multi", "pending_none", "retry", "retry_multi", "edges", "specs",
                         "drain", "vector_delete", "finalize", "ready"}
      PROVE  RefInv'
    BY <1>3 DEF RefInv, AtRest
<1>4. ASSUME FailedOK(db)', FailedOK(tx)', UNCHANGED <<db, marker, parsed>>, marker.status # "ready",
             pc \in Retargeted, pc' \in Retargeted
      PROVE  RefInv'
    BY <1>4 DEF RefInv, AtRest
<1>5. FailedOK(db) /\ FailedOK(tx) /\ FailedOK(EmptyDb)
    BY EmptyDbFacts DEF RefInv, FailedOK
<1>6. ASSUME UNCHANGED <<want, pending>>, UNCHANGED db, tx' \in {tx, db, EmptyDb}
      PROVE  FailedOK(db)' /\ FailedOK(tx)'
    BY <1>5, <1>6 DEF FailedOK
<1>7. ASSUME NEW f \in File, NEW v \in Version \cup {NoFile}, Edit(f, v) PROVE RefInv'
  <2>1. FailedOK(db)' /\ FailedOK(tx)'
      BY <1>5, <1>7 DEF Edit, FailedOK, Held, TypeOK, Files
  <2> QED BY <1>2, <1>7, <2>1 DEF Edit
<1>8. CASE SwitchProvider \/ Search \/ UNCHANGED vars
  <2>1. UNCHANGED <<want, pending, db, tx, pc, marker, parsed>>
      BY <1>8 DEF SwitchProvider, Search, SearchReads, SearchAnswers, vars
  <2> QED BY <1>2, <1>6, <2>1
<1>9. CASE Begin
    BY <1>3, <1>6, <1>9 DEF Begin, BuildingState
<1>10. CASE DeleteRows
  <2>1. FailedOK(ApplyDeletions(db, Gone))
      BY <1>5, FailedAfterDeletions
  <2>2. FailedOK(db)' /\ FailedOK(tx)'
      BY <1>5, <1>10, <2>1 DEF DeleteRows, FailedOK
  <2> QED BY <1>3, <1>10, <2>2 DEF DeleteRows, PlaceInv
<1>11. CASE DeleteVectors \/ Collect
  <2>1. FailedOK(db)' /\ FailedOK(tx)'
      BY <1>6, <1>11 DEF DeleteVectors, Collect
  <2> QED BY <1>3, <1>11, <2>1 DEF DeleteVectors, Collect, PlaceInv
<1>12. CASE IndexFile
  <2>1. PICK f \in todo :
              /\ f \in File /\ want[f] \in Version
              /\ \/ want[f] \in Refused /\ Skips(f)
                 \/ want[f] \notin Refused /\ Writes(f)
      BY <1>12, IndexFileCases
  <2>2. FailedOK(ApplyFile(tx, f, want[f]))
      BY <1>5, <2>1, FailedAfterWrite DEF PlaceInv
  <2>3. UNCHANGED <<want, pending, db>> /\ (tx' = tx \/ tx' = ApplyFile(tx, f, want[f]))
      BY <1>12, <2>1 DEF IndexFile, Skips, Writes
  <2>4. FailedOK(db)' /\ FailedOK(tx)'
      BY <1>5, <2>2, <2>3 DEF FailedOK
  <2> QED BY <1>3, <1>12, <2>4 DEF IndexFile, PlaceInv
<1>13. CASE IndexFileFails
    BY <1>3, <1>6, <1>13 DEF IndexFileFails, PlaceInv
<1>14. CASE Commit
  <2>1. FailedOK(db)' /\ FailedOK(tx)'
      BY <1>5, <1>14 DEF Commit, FailedOK
  <2> QED BY <1>3, <1>14, <2>1 DEF Commit, PlaceInv
<1>15. CASE ResolveGraph
    BY <1>15, PassResolves
<1>16. ASSUME NEW c \in queued, WriteVector(c) PROVE RefInv'
    BY <1>2, <1>6, <1>16 DEF WriteVector
<1>17. CASE Drained \/ DeleteRemoved \/ Finalize
  <2>1. FailedOK(db)' /\ FailedOK(tx)'
      BY <1>6, <1>17 DEF Drained, DeleteRemoved, Finalize
  <2> QED BY <1>4, <1>17, <2>1 DEF Drained, DeleteRemoved, Finalize, PlaceInv
<1>18. CASE Ready
  <2>1. db' = db /\ tx' = EmptyDb /\ want' = want /\ pending' = IF errors THEN pending ELSE {}
      BY <1>18 DEF Ready, Forget
  <2>2. FailedOK(db)'
    <3>1. CASE errors
        BY <1>5, <2>1, <3>1 DEF FailedOK
    <3>2. CASE ~errors
      <4>1. \A r \in RetryFailed(db, parsed) : MatchCount(db, r) = 0
          BY <1>18 DEF Ready, RefInv
      <4> QED BY <1>5, <1>18, <2>1, <3>2, <4>1, FailedAfterIngest DEF FailedOK, Ready
    <3> QED BY <3>1, <3>2
  <2>3. FailedOK(tx)'
      BY <2>1, EmptyDbFacts DEF FailedOK
  <2>4. pc' = "idle"
      BY <1>18 DEF Ready, Forget
  <2> QED BY <1>18, <2>1, <2>2, <2>3, <2>4 DEF Ready, RefInv, AtRest
<1>19. CASE Abandon /\ (marker' = FailedState \/ UNCHANGED marker)
  <2>1. marker'.status # "ready" /\ pc' = "idle"
      BY <1>19 DEF Abandon, Forget, FailedState, PlaceInv
  <2>2. FailedOK(db)' /\ FailedOK(tx)'
      BY <1>6, <1>19 DEF Abandon, Forget
  <2> QED BY <1>3, <2>1, <2>2
<1> QED
    BY <1>7, <1>8, <1>9, <1>10, <1>11, <1>12, <1>13, <1>14, <1>15, <1>16, <1>17, <1>18, <1>19
    DEF Next, Ingest, Fail, Crash

--------------------------------------------------------------------------------
(* The theorems about the tables.                                          *)

\* The invariant of the tables holds at first,
LEMMA TableInit == Init => TableInv
<1> SUFFICES ASSUME Init PROVE TableInv
    OBVIOUS
<1> USE DEF Init, Labels, Early, Late, Staging, Unmarked
<1>1. TypeOK
  <2>1. edits \in 0..MaxEdits /\ faults \in 0..MaxFaults /\ switches \in 0..MaxSwitches
      BY IndexStoreAssumption
  <2>2. search \in [at : {"idle", "read", "answered"}, gap : BOOLEAN, mixed : BOOLEAN,
                     overtaken : BOOLEAN]
      BY DEF NoSearch
  <2>3. want \in Files /\ pending \subseteq File
      BY IndexStoreAssumption DEF Files
  <2> QED BY <2>1, <2>2, <2>3, EmptyDbFacts DEF TypeOK
<1>2. PlaceInv
    BY SymbolGraphAssumption DEF PlaceInv, EmptyDb
<1>3. ModeInv
    BY EmptyDbFacts DEF ModeInv
<1>4. QueueInv /\ RemovedInv /\ TightInv
    BY DEF QueueInv, RemovedInv, TightInv
<1>5. KeptInv
    BY EmptyDbFacts DEF KeptInv
<1>6. RefInv
    BY EmptyDbFacts DEF RefInv, FailedOK, AtRest, Resolved, Retargeted
<1> QED BY <1>1, <1>2, <1>3, <1>4, <1>5, <1>6 DEF TableInv

\* is kept by every step,
LEMMA TableStep == TableInv /\ [Next]_vars => TableInv'
<1> SUFFICES ASSUME TableInv, [Next]_vars PROVE TableInv'
    OBVIOUS
<1>1. TypeOK /\ PlaceInv /\ ModeInv /\ QueueInv /\ RemovedInv /\ TightInv /\ KeptInv /\ RefInv
    BY DEF TableInv
<1>2. TypeOK' /\ PlaceInv' /\ ModeInv' /\ QueueInv' /\ RemovedInv' /\ TightInv' /\ KeptInv' /\ RefInv'
    BY <1>1, TypeStep, PlaceStep, ModeStep, QueueStep, RemovedStep, TightStep, KeptStep, RefStep
<1> QED BY <1>2 DEF TableInv

\* and so holds always.
LEMMA Tables == Spec => []TableInv
BY TableInit, TableStep, PTL DEF Spec

\* The tables, the marker and the indexer's objects hold what they can hold, whatever
\* fails or is searched meanwhile (Engine._ingest, Indexer._run).
THEOREM TypeCorrect == Spec => []TypeOK
<1>1. TableInv => TypeOK
    BY DEF TableInv
<1> QED BY <1>1, Tables, PTL

\* Whatever is indexed and deleted beside it, what refers to another file's symbols
\* stays or is marked stale (store.py: apply_file_change, apply_deletions).
THEOREM ReferencesStay == Spec => []ReferencesKept
<1>1. TableInv => ReferencesKept
    BY DEF TableInv, KeptInv, ReferencesKept
<1> QED BY <1>1, Tables, PTL

\* After an ingest no reference waits, no failed one has a plain match in a file that
\* is up to date, and no edge has a single match it does not end at (resolver.py).
THEOREM GraphIsSettled == Spec => []GraphSettled
<1>1. ASSUME TableInv, AtRest
      PROVE  /\ \A r \in db.refs : /\ r.status = "failed"
                                   /\ \A s \in Match(db.files, r.name, r.file, r.kind) :
                                         s.file \in Current => ~PlainToSee(r, s)
             /\ \A e \in Bare(db) : Cardinality(EdgeTargets(db, e)) # 1
  <2>1. db \in Database /\ db.files \in Files /\ db.refs \subseteq RefRow
      BY <1>1, DatabaseFields DEF TableInv, TypeOK
  <2>2. \A r \in db.refs : r.status = "failed"
      BY <1>1, <2>1 DEF TableInv, RefInv, Pending, RefRow
  <2>3. ASSUME NEW r \in db.refs, NEW s \in Match(db.files, r.name, r.file, r.kind),
               s.file \in Current, PlainToSee(r, s)
        PROVE  FALSE
    <3>1. s \in Symbols(db.files) /\ s \in Located(s.file, Rows(db.files, s.file).symbols)
        BY <2>1, <2>3, MatchFacts, SymbolFacts
    <3>2. Could(r, s)
        BY <2>1, <2>3, MatchFacts DEF Could, PlainToSee
    <3>3. s.file \in Held(db.files) \ pending /\ db.files[s.file] = want[s.file]
        BY <2>3 DEF Current
    <3> QED BY <1>1, <2>2, <3>1, <3>2, <3>3 DEF TableInv, RefInv, FailedOK
  <2> QED BY <1>1, <2>2, <2>3 DEF TableInv, RefInv
<1>2. TableInv => GraphSettled
    BY <1>1 DEF GraphSettled
<1> QED BY <1>2, Tables, PTL

--------------------------------------------------------------------------------
(* The vectors.                                                            *)

\* Every step keeps account of whose model the rows are.
LEMMA ProviderStep ==
    ASSUME TypeOK, PlaceInv, ModeInv, ProviderInv, [Next]_vars
    PROVE  ProviderInv'
<1> USE DEF Goto, source, tables, job, history, bounds, Labels, Early, Late, Staging
\* The models are kept as long as no row of another one comes.
<1>1. ASSUME vectors' \subseteq vectors, UNCHANGED <<stored, maker, mixed>>,
             pc' \in Late => pc \in Late /\ UNCHANGED provider,
             marker'.status = "ready" => marker.status = "ready"
      PROVE  ProviderInv'
    BY <1>1 DEF ProviderInv, By
<1>2. ASSUME NEW f \in File, NEW v \in Version \cup {NoFile}, Edit(f, v) PROVE ProviderInv'
    BY <1>1, <1>2 DEF Edit
<1>3. CASE SwitchProvider
    BY <1>1, <1>3 DEF SwitchProvider
<1>4. CASE Begin
    BY <1>1, <1>4 DEF Begin, BuildingState
<1>5. CASE DeleteRows \/ DeleteVectors
    BY <1>1, <1>5 DEF DeleteRows, DeleteVectors, RowsWithout
<1>6. CASE Collect
  <2>1. /\ UNCHANGED <<stored, provider, marker>> /\ marker.status = "building"
        /\ maker' = provider /\ provider # NoProvider
      BY <1>6, IndexStoreAssumption DEF Collect, PlaceInv, TypeOK
  <2>2. ASSUME mode # "none" PROVE vectors' = {}
      BY <1>6, <2>2 DEF Collect, Rebuilt
  <2>3. ASSUME mode = "none", ~mixed' PROVE \A r \in vectors' : r.by = provider
    <3>1. vectors' = vectors /\ ~Foreign
        BY <1>6, <2>3 DEF Collect
    <3>2. vectors = {} \/ (~mixed /\ maker = provider)
        BY <3>1 DEF Foreign, ProviderInv
    <3> QED BY <3>1, <3>2 DEF ProviderInv, By
  <2> QED BY <2>1, <2>2, <2>3 DEF ProviderInv, By
<1>7. CASE IndexFile \/ IndexFileFails \/ Commit
    BY <1>1, <1>7 DEF IndexFile, IndexFileFails, Commit
<1>8. CASE ResolveGraph
  <2>1. UNCHANGED <<vectors, marker, stored, provider, maker, mixed>> /\ pc \in Late
      BY <1>8, PassKeeps
  <2> QED BY <1>1, <2>1
<1>9. ASSUME NEW c \in queued, WriteVector(c) PROVE ProviderInv'
  <2>1. UNCHANGED <<marker, stored, provider, pc, maker, mixed>> /\ pc \in Late
      BY <1>9 DEF WriteVector
  <2>2. maker = provider /\ maker # NoProvider
      BY <2>1, IndexStoreAssumption DEF ProviderInv, TypeOK
  <2>3. ASSUME By(provider) PROVE \A r \in vectors' : r.by = provider
      BY <1>9, <2>3 DEF WriteVector, By, RowsWithout
  <2> QED BY <2>1, <2>2, <2>3 DEF ProviderInv, By
<1>10. CASE Drained \/ DeleteRemoved
    BY <1>1, <1>10 DEF Drained, DeleteRemoved, RowsWithout
<1>11. CASE Finalize
  <2>1. UNCHANGED <<marker, provider, vectors, maker, mixed>> /\ marker.status = "building"
        /\ pc \in Late
      BY <1>11 DEF Finalize, PlaceInv
  <2>2. maker = provider /\ maker # NoProvider
      BY <2>1, IndexStoreAssumption DEF ProviderInv, TypeOK
  <2> QED BY <2>1, <2>2 DEF ProviderInv, By
<1>12. CASE Ready
  <2>1. UNCHANGED <<stored, maker, mixed, vectors>> /\ pc \in Late /\ pc' = "idle" /\ stored = provider
      BY <1>12 DEF Ready, Forget, ModeInv
  <2> QED BY <2>1 DEF ProviderInv, By
<1>13. CASE Abandon /\ (marker' = FailedState \/ UNCHANGED marker)
    BY <1>1, <1>13 DEF Abandon, Forget, FailedState
<1>14. CASE Search \/ UNCHANGED vars
    BY <1>1, <1>14 DEF Search, SearchReads, SearchAnswers, vars
<1> QED
    BY <1>2, <1>3, <1>4, <1>5, <1>6, <1>7, <1>8, <1>9, <1>10, <1>11, <1>12, <1>13, <1>14
    DEF Next, Ingest, Fail, Crash

\* A chunk of a file that is as it should be is one of its version.
LEMMA CurrentChunk ==
    ASSUME TypeOK, NEW f \in Held(db.files), db.files[f] = want[f], NEW c \in Rows(db.files, f).chunks
    PROVE  f \in File /\ want[f] \in Version /\ c \in Parsed[<<f, want[f]>>].chunks
<1>1. db.files \in Files
    BY DatabaseFields DEF TypeOK
<1> QED BY <1>1, HeldRows

\* A vector written for one chunk serves the chunks of the tables that have none.
LEMMA RowWritten ==
    ASSUME TypeOK, PlaceInv, QueueInv, NEW c \in queued, WriteVector(c),
           NEW d \in Chunks(View.files)
    PROVE  (HasRow(d) => HasRow(d)') /\ (d \in queued => d \in queued' \/ HasRow(d)')
<1>1. View.files \in Files /\ c \in Chunks(View.files)
    BY DatabaseFields DEF TypeOK, View, QueueInv
<1>2. c.id = d.id => c = d
  <2>1. PICK f \in File, v \in Version : v = View.files[f] /\ c \in Parsed[<<f, v>>].chunks
      BY <1>1, ChunkOf
  <2>2. PICK g \in File, w \in Version : w = View.files[g] /\ d \in Parsed[<<g, w>>].chunks
      BY <1>1, ChunkOf
  <2>3. SUFFICES ASSUME c.id = d.id PROVE c = d
      OBVIOUS
  <2>4. SameId(f, g, v, w)
      BY IdsAreOwn
  <2>5. f = g /\ (v = w => c = d)
      BY <2>1, <2>2, <2>3, <2>4 DEF SameId
  <2> QED BY <2>1, <2>2, <2>5
<1>3. HasRow(c)'
  <2>1. CASE \E r \in vectors : r.hash = c.hash /\ r.id = c.id
      BY <2>1 DEF WriteVector, HasRow
  <2>2. CASE ~\E r \in vectors : r.hash = c.hash /\ r.id = c.id
    <3>1. \E m : [id |-> c.id, hash |-> c.hash, by |-> m] \in vectors'
        BY <2>2 DEF WriteVector
    <3> QED BY <3>1 DEF HasRow
  <2> QED BY <2>1, <2>2
<1>4. HasRow(d) /\ c.id # d.id => HasRow(d)'
  <2>1. SUFFICES ASSUME NEW r \in vectors, r.id = d.id, r.hash = d.hash, c.id # d.id
                 PROVE  r \in vectors'
      BY DEF HasRow
  <2>2. vectors' = vectors \/ RowsWithout({c.id}) \subseteq vectors'
      BY DEF WriteVector
  <2> QED BY <2>1, <2>2 DEF RowsWithout
<1>5. queued' = queued \ {c}
    BY DEF WriteVector
<1> QED BY <1>2, <1>3, <1>4, <1>5

\* The ids of deleted files and of replaced versions are not those of a chunk that is
\* up to date, nor of one the ingest has written.
LEMMA RemovedIsGone ==
    ASSUME TypeOK, PlaceInv, RemovedInv, pc = "delete_vectors" \/ pc = "vector_delete",
           NEW f \in Held(db.files), db.files[f] = want[f], NEW c \in Rows(db.files, f).chunks,
           f \notin pending \/ (pc = "vector_delete" /\ f \in parsed)
    PROVE  c.id \notin removed
<1>1. f \in File /\ want[f] \in Version /\ c \in Parsed[<<f, want[f]>>].chunks
    BY CurrentChunk
<1>2. SUFFICES ASSUME c.id \in removed PROVE FALSE
    OBVIOUS
<1>3. CASE pc = "delete_vectors"
  <2>1. PICK g \in pending, v \in Version : c.id \in Ids(Parsed[<<g, v>>].chunks)
      BY <1>2, <1>3 DEF RemovedInv
  <2>2. g \in File
      BY DEF TypeOK
  <2>3. SameId(f, g, want[f], v)
      BY <1>1, <2>2, IdsAreOwn
  <2>4. f = g
      BY <1>1, <2>1, <2>3 DEF SameId, Ids
  <2> QED BY <1>3, <2>4
<1>4. CASE pc = "vector_delete"
  <2>1. PICK g \in parsed, v \in Version :
             c.id \in Ids(Parsed[<<g, v>>].chunks) /\ c.id \notin Ids(Parsed[<<g, want[g]>>].chunks)
      BY <1>2, <1>4 DEF RemovedInv, Late, Labels, Early, Staging
  <2>2. g \in File /\ g \in pending
      BY DEF TypeOK, PlaceInv
  <2>3. SameId(f, g, want[f], v)
      BY <1>1, <2>2, IdsAreOwn
  <2>4. f = g
      BY <1>1, <2>1, <2>3 DEF SameId, Ids
  <2> QED BY <1>1, <2>1, <2>4 DEF Ids
<1> QED BY <1>3, <1>4

\* The conjuncts of CoverInv.
CurrentRows == \A f \in Current : \A c \in Rows(db.files, f).chunks : HasRow(c)
WrittenRows == \A c \in WrittenChunks : c \in queued \/ HasRow(c)
RebuiltRows ==
    \A f \in Held(db.files) : db.files[f] = want[f] =>
        \A c \in Rows(db.files, f).chunks : c \in queued \/ HasRow(c)

\* CoverInv, part by part.
LEMMA CoverIs ==
    CoverInv <=> /\ ~mixed /\ maker = stored => CurrentRows
                 /\ WrittenRows
                 /\ pc \in Committed /\ mode # "none" => RebuiltRows
BY DEF CoverInv, CurrentRows, WrittenRows, RebuiltRows

\* An ingest that has written no file has no chunk to account for.
LEMMA NoneWritten == parsed = {} => WrittenRows
BY DEF WrittenRows, WrittenChunks

\* Rows that are written beside them keep what has a row.
LEMMA CoverAfterVector ==
    ASSUME TypeOK, PlaceInv, QueueInv, CoverInv, NEW c \in queued, WriteVector(c)
    PROVE  CoverInv'
<1> USE DEF Goto, source, tables, job, history, bounds
<1>1. UNCHANGED <<db, want, pending, parsed, pc, mode, stored, maker, mixed, tx>>
    BY DEF WriteVector
<1>2. db.files \in Files /\ View.files \in Files
    BY DatabaseFields DEF TypeOK, View
<1>3. CurrentRows => CurrentRows'
  <2>1. SUFFICES ASSUME CurrentRows, NEW f \in Current, NEW d \in Rows(db.files, f).chunks
                 PROVE  HasRow(d)'
      BY <1>1 DEF CurrentRows, Current
  <2>2. f \in File /\ want[f] \in Version /\ d \in Parsed[<<f, want[f]>>].chunks /\ f \notin pending
        /\ db.files[f] = want[f]
      BY CurrentChunk DEF Current
  <2>3. f \notin parsed
      BY <2>2 DEF PlaceInv
  <2>4. View.files[f] = want[f]
      BY <2>2, <2>3 DEF PlaceInv, View
  <2>5. d \in Chunks(View.files)
      BY <1>2, <2>2, <2>4, ChunkOf
  <2>6. HasRow(d)
      BY <2>1 DEF CurrentRows
  <2> QED BY <2>5, <2>6, RowWritten
<1>4. WrittenRows'
  <2>1. WrittenChunks' = WrittenChunks
      BY <1>1 DEF WrittenChunks
  <2>2. SUFFICES ASSUME NEW d \in WrittenChunks PROVE d \in queued' \/ HasRow(d)'
      BY <2>1 DEF WrittenRows
  <2>3. d \in Chunks(View.files) /\ (d \in queued \/ HasRow(d))
      BY WrittenInView DEF CoverInv
  <2> QED BY <2>3, RowWritten
<1>5. pc # "write" /\ RebuiltRows => RebuiltRows'
  <2>1. SUFFICES ASSUME pc # "write", RebuiltRows, NEW f \in Held(db.files), db.files[f] = want[f],
                        NEW d \in Rows(db.files, f).chunks
                 PROVE  d \in queued' \/ HasRow(d)'
      BY <1>1 DEF RebuiltRows
  <2>2. d \in Chunks(View.files)
      BY <2>1 DEF Chunks, View
  <2>3. d \in queued \/ HasRow(d)
      BY <2>1 DEF RebuiltRows
  <2> QED BY <2>2, <2>3, RowWritten
<1>6. (CoverInv <=> /\ ~mixed /\ maker = stored => CurrentRows
                    /\ WrittenRows
                    /\ pc \in Committed /\ mode # "none" => RebuiltRows)'
    BY CoverIs, PTL
<1>7. pc \in Committed => pc # "write"
    BY DEF Committed
<1> QED BY <1>1, <1>3, <1>4, <1>5, <1>6, <1>7, CoverIs

\* Every step keeps a row for each chunk that is promised one.
LEMMA CoverStep ==
    ASSUME TypeOK, PlaceInv, ModeInv, QueueInv, RemovedInv, ProviderInv, CoverInv, [Next]_vars
    PROVE  CoverInv'
<1> USE DEF Goto, source, tables, job, history, bounds, Labels, Early, Late, Staging, Committed
<1>1. (CoverInv <=> /\ ~mixed /\ maker = stored => CurrentRows
                    /\ WrittenRows
                    /\ pc \in Committed /\ mode # "none" => RebuiltRows)'
    BY CoverIs, PTL
<1>2. (parsed = {} => WrittenRows)'
    BY NoneWritten, PTL
<1>3. /\ ~mixed /\ maker = stored => CurrentRows
      /\ WrittenRows
      /\ pc \in Committed /\ mode # "none" => RebuiltRows
    BY CoverIs
\* Outside the write transaction and what follows it nothing is written.
<1>4. ASSUME ~mixed' /\ maker' = stored' => CurrentRows',
             parsed' = {}, pc' \in Early
      PROVE  CoverInv'
  <2> HIDE DEF Labels, Staging
  <2> QED BY <1>1, <1>2, <1>4
<1>5. ASSUME UNCHANGED <<db, want, pending, vectors>>
      PROVE  CurrentRows' = CurrentRows
    BY <1>5 DEF CurrentRows, Current, HasRow
<1>6. ASSUME UNCHANGED <<db, want, queued, vectors>>
      PROVE  RebuiltRows' = RebuiltRows
    BY <1>6 DEF RebuiltRows, HasRow
<1>7. ASSUME UNCHANGED <<want, parsed, queued, vectors>>
      PROVE  WrittenRows' = WrittenRows
    BY <1>7 DEF WrittenRows, WrittenChunks, HasRow
<1>8. ASSUME NEW f \in File, NEW v \in Version \cup {NoFile}, Edit(f, v) PROVE CoverInv'
  <2>1. CurrentRows => CurrentRows'
      BY <1>8 DEF Edit, CurrentRows, Current, Held, HasRow, TypeOK, Files
  <2>2. UNCHANGED <<stored, maker, mixed, parsed, pc>> /\ pc = "idle" /\ parsed = {}
      BY <1>8 DEF Edit, PlaceInv
  <2> QED BY <1>3, <1>4, <2>1, <2>2
<1>9. CASE SwitchProvider
  <2>1. UNCHANGED <<db, want, pending, vectors, stored, maker, mixed, parsed, pc>> /\ pc = "idle"
        /\ parsed = {}
      BY <1>9 DEF SwitchProvider, PlaceInv
  <2> QED BY <1>3, <1>4, <1>5, <2>1
<1>10. CASE Begin
  <2>1. UNCHANGED <<db, want, pending, vectors, stored, maker, mixed, parsed>> /\ parsed = {}
        /\ pc' = "delete"
      BY <1>10 DEF Begin, PlaceInv
  <2> QED BY <1>3, <1>4, <1>5, <2>1
<1>11. CASE DeleteRows
  <2>1. UNCHANGED <<want, pending, vectors, stored, maker, mixed, parsed>> /\ parsed = {}
        /\ pc' = "delete_vectors"
      BY <1>11 DEF DeleteRows, PlaceInv
  <2>2. Gone \in SUBSET File /\ db \in Database /\ db.files \in Files
      BY DatabaseFields DEF Gone, TypeOK
  <2>3. db'.files = [f \in File |-> IF f \in Gone THEN NoFile ELSE db.files[f]]
      BY <1>11, <2>2, ApplyDeletionsFacts DEF DeleteRows
  <2>4. \A f \in Current' : f \in Current /\ db'.files[f] = db.files[f]
      BY <2>1, <2>2, <2>3 DEF Current, Held
  <2>5. \A f \in Current' : f \in Current /\ Rows(db'.files, f) = Rows(db.files, f)
      BY <2>4 DEF Rows
  <2>6. CurrentRows => CurrentRows'
      BY <2>1, <2>5 DEF CurrentRows, HasRow
  <2> QED BY <1>3, <1>4, <2>1, <2>6
<1>12. CASE DeleteVectors
  <2>1. UNCHANGED <<db, want, pending, stored, maker, mixed, parsed>> /\ parsed = {}
        /\ pc = "delete_vectors" /\ pc' = "collect" /\ vectors' = RowsWithout(removed)
      BY <1>12 DEF DeleteVectors, PlaceInv
  <2>2. ASSUME CurrentRows, NEW f \in Current, NEW c \in Rows(db.files, f).chunks
        PROVE  HasRow(c)'
    <3>1. c.id \notin removed
        BY <2>1, RemovedIsGone DEF Current
    <3>2. HasRow(c)
        BY <2>2 DEF CurrentRows
    <3> QED BY <2>1, <3>1, <3>2 DEF HasRow, RowsWithout
  <2>3. CurrentRows => CurrentRows'
      BY <2>1, <2>2 DEF CurrentRows, Current
  <2> QED BY <1>3, <1>4, <2>1, <2>3
<1>13. CASE Collect
  <2>1. UNCHANGED <<db, want, pending, stored, mode, parsed, queued>> /\ parsed = {}
        /\ pc' = "write" /\ maker' = provider /\ provider # NoProvider
      BY <1>13, IndexStoreAssumption DEF Collect, PlaceInv, TypeOK
  <2>2. mode # "none" => stored # provider
      BY <1>13, IndexStoreAssumption DEF Collect, ModeInv, TypeOK
  <2>3. ASSUME mode = "none", ~mixed', stored = provider PROVE CurrentRows'
    <3>1. vectors' = vectors /\ ~Foreign
        BY <1>13, <2>3 DEF Collect
    <3>2. ~mixed /\ maker = stored
        BY <2>1, <2>3, <3>1 DEF Foreign, ProviderInv
    <3> QED BY <1>3, <1>5, <2>1, <3>1, <3>2
  <2>4. ~mixed' /\ maker' = stored' => CurrentRows'
      BY <2>1, <2>2, <2>3
  <2> QED BY <1>1, <1>2, <2>1, <2>4
<1>14. CASE IndexFile
  <2>1. PICK f \in todo :
              /\ f \in File /\ want[f] \in Version
              /\ \/ want[f] \in Refused /\ Skips(f)
                 \/ want[f] \notin Refused /\ Writes(f)
      BY <1>14, IndexFileCases
  <2>2. UNCHANGED <<db, want, pending, vectors, stored, maker, mixed, mode, pc>> /\ pc = "write"
      BY <1>14 DEF IndexFile
  <2>3. WrittenRows'
    <3>1. CASE Skips(f)
        BY <1>3, <1>7, <2>2, <3>1 DEF Skips
    <3>2. CASE Writes(f)
      <4>1. \A c \in WrittenChunks' : c \in WrittenChunks \/ c \in Parsed[<<f, want[f]>>].chunks
          BY <2>2, <3>2 DEF Writes, WrittenChunks
      <4>2. queued' = queued \cup Parsed[<<f, want[f]>>].chunks
          BY <3>2 DEF Writes
      <4> QED BY <1>3, <2>2, <4>1, <4>2 DEF WrittenRows, HasRow
    <3> QED BY <2>1, <3>1, <3>2
  <2> QED BY <1>1, <1>3, <1>5, <2>2, <2>3
<1>15. CASE IndexFileFails
  <2>1. UNCHANGED <<db, want, pending, vectors, stored, maker, mixed, mode, pc, parsed, queued>>
        /\ pc = "write"
      BY <1>15 DEF IndexFileFails
  <2> QED BY <1>1, <1>3, <1>5, <1>7, <2>1
<1>16. CASE Commit
  <2>1. UNCHANGED <<want, pending, vectors, stored, maker, mixed, mode, parsed>> /\ pc = "write"
        /\ db' = tx /\ queued \subseteq queued' /\ pc' = "pending"
        /\ (mode # "none" => queued' = queued \cup Existing)
      BY <1>16 DEF Commit, PlaceInv
  <2>2. tx.files \in Files /\ db.files \in Files
      BY DatabaseFields DEF TypeOK
  <2>3. \A f \in File : f \notin parsed => tx.files[f] = db.files[f]
      BY <2>1 DEF PlaceInv
  <2>4. WrittenRows'
      BY <1>3, <2>1 DEF WrittenRows, WrittenChunks, HasRow
  <2>5. ~mixed /\ maker = stored => CurrentRows'
    <3>1. ASSUME NEW f \in Held(tx.files) \ pending
          PROVE  f \in Held(db.files) \ pending /\ tx.files[f] = db.files[f]
                 /\ Rows(tx.files, f) = Rows(db.files, f)
      <4>1. f \in File /\ f \notin parsed
          BY DEF Held, PlaceInv
      <4> QED BY <2>3, <4>1 DEF Held, Rows
    <3>2. CurrentRows => CurrentRows'
        BY <2>1, <3>1 DEF CurrentRows, Current, HasRow
    <3> QED BY <1>3, <3>2
  <2>6. ASSUME mode # "none", NEW f \in Held(tx.files), tx.files[f] = want[f],
               NEW c \in Rows(tx.files, f).chunks
        PROVE  c \in queued' \/ HasRow(c)
    <3>1. f \in File /\ want[f] \in Version /\ c \in Parsed[<<f, want[f]>>].chunks /\ c \in Chunks(tx.files)
        BY <2>2, <2>6, HeldRows DEF Chunks
    <3>2. CASE f \in parsed
      <4>1. c \in WrittenChunks
          BY <3>1, <3>2, WrittenOf
      <4> QED BY <2>1, <4>1 DEF CoverInv
    <3>3. CASE f \notin parsed
      <4>1. want[f] \notin Refused
          BY <2>3, <2>6, <3>1, <3>3 DEF PlaceInv
      <4>2. f \in {g \in Present \ parsed : ~Skipped(g)}
          BY <3>1, <3>3, <4>1, SymbolGraphAssumption DEF Present, Skipped
      <4>3. c.id \in Ids(Parsed[<<f, want[f]>>].chunks)
          BY <3>1 DEF Ids
      <4>4. c \in Existing
          BY <3>1, <4>2, <4>3 DEF Existing
      <4> QED BY <2>1, <2>6, <4>4
    <3> QED BY <3>2, <3>3
  <2>7. mode # "none" => RebuiltRows'
      BY <2>1, <2>6 DEF RebuiltRows, HasRow
  <2> QED BY <1>1, <2>1, <2>4, <2>5, <2>7
<1>17. CASE ResolveGraph
  <2>1. UNCHANGED <<want, pending, vectors, stored, maker, mixed, mode, parsed, queued>>
        /\ db'.files = db.files /\ pc \in Committed /\ pc' \in Committed
      BY <1>17, PassKeeps
  <2>2. CurrentRows' = CurrentRows
      BY <2>1 DEF CurrentRows, Current, HasRow, Rows, Held
  <2>3. RebuiltRows' = RebuiltRows
      BY <2>1 DEF RebuiltRows, HasRow, Rows, Held
  <2>4. WrittenRows' = WrittenRows
      BY <1>7, <2>1
  <2> HIDE DEF Committed
  <2> QED BY <1>1, <1>3, <2>1, <2>2, <2>3, <2>4
<1>18. ASSUME NEW c \in queued, WriteVector(c) PROVE CoverInv'
    BY <1>18, CoverAfterVector
<1>19. CASE Drained
  <2>1. UNCHANGED <<db, want, pending, vectors, stored, maker, mixed, mode, parsed, queued>>
        /\ pc = "drain"
      BY <1>19 DEF Drained
  <2> QED BY <1>1, <1>3, <1>5, <1>6, <1>7, <2>1
<1>20. CASE DeleteRemoved
  <2>1. UNCHANGED <<db, want, pending, stored, maker, mixed, mode, parsed, queued>>
        /\ pc = "vector_delete" /\ vectors' = RowsWithout(removed)
      BY <1>20 DEF DeleteRemoved
  <2>2. ASSUME NEW c, c.id \notin removed, HasRow(c)
        PROVE  HasRow(c)'
      BY <2>1, <2>2 DEF HasRow, RowsWithout
  <2>3. CurrentRows => CurrentRows'
      BY <2>1, <2>2, RemovedIsGone DEF CurrentRows, Current
  <2>4. ASSUME NEW c \in WrittenChunks, HasRow(c)
        PROVE  HasRow(c)'
    <3>1. PICK f \in parsed : c \in Parsed[<<f, want[f]>>].chunks
        BY WrittenOf
    <3>2. f \in Held(db.files) /\ db.files[f] = want[f] /\ c \in Rows(db.files, f).chunks
        BY <2>1, <3>1 DEF PlaceInv, TypeOK, Held, Rows
    <3> QED BY <2>1, <2>2, <2>4, <3>1, <3>2, RemovedIsGone
  <2>5. WrittenRows'
      BY <1>3, <2>1, <2>4 DEF WrittenRows, WrittenChunks
  <2>6. mode # "none" => removed = {}
      BY <2>1 DEF RemovedInv
  <2>7. mode # "none" /\ RebuiltRows => RebuiltRows'
      BY <2>1, <2>2, <2>6 DEF RebuiltRows
  <2> QED BY <1>1, <1>3, <2>1, <2>3, <2>5, <2>7
<1>21. CASE Finalize
  <2>1. UNCHANGED <<db, want, pending, vectors, maker, mixed, mode, parsed, queued>>
        /\ pc = "finalize" /\ pc' = "ready" /\ queued = {} /\ maker = provider
      BY <1>21 DEF Finalize, PlaceInv, ProviderInv
  <2>2. ~mixed => CurrentRows
    <3>1. CASE mode # "none"
        BY <1>3, <2>1, <3>1 DEF RebuiltRows, CurrentRows, Current
    <3>2. CASE mode = "none" /\ stored = provider
        BY <1>3, <2>1, <3>2
    <3>3. CASE mode = "none" /\ stored = NoProvider
      <4>1. Held(db.files) \subseteq pending
          BY <2>1, <3>3 DEF ModeInv, PlaceInv
      <4> QED BY <4>1 DEF CurrentRows, Current
    <3> QED BY <2>1, <3>1, <3>2, <3>3 DEF ModeInv
  <2> QED BY <1>1, <1>3, <1>5, <1>6, <1>7, <2>1, <2>2
<1>22. CASE Ready
  <2>1. UNCHANGED <<db, want, vectors, stored, maker, mixed>> /\ stored = maker /\ parsed' = {}
        /\ pc' = "idle" /\ pc = "ready" /\ pending' = (IF errors THEN pending ELSE {}) /\ queued = {}
        /\ todo = {}
      BY <1>22 DEF Ready, Forget, ModeInv, PlaceInv, ProviderInv
  <2>2. ASSUME ~mixed, NEW f \in Held(db.files), db.files[f] = want[f], f \notin pending',
               NEW c \in Rows(db.files, f).chunks
        PROVE  HasRow(c)
    <3>1. f \in File /\ want[f] \in Version /\ c \in Parsed[<<f, want[f]>>].chunks
        BY <2>2, CurrentChunk
    <3>2. CASE f \notin pending
        BY <1>3, <2>1, <2>2, <3>2 DEF CurrentRows, Current
    <3>3. CASE f \in parsed
      <4>1. c \in WrittenChunks
          BY <3>1, <3>3, WrittenOf
      <4> QED BY <2>1, <4>1 DEF CoverInv
    <3>4. CASE f \in pending \ parsed
      <4>1. want[f] = NoFile \/ want[f] \in Refused
          BY <2>1, <2>2, <3>4 DEF PlaceInv
      <4> QED BY <2>2, <3>1, <4>1, SymbolGraphAssumption DEF PlaceInv
    <3> QED BY <3>2, <3>3, <3>4
  <2>3. ~mixed => CurrentRows'
      BY <2>1, <2>2 DEF CurrentRows, Current, HasRow
  <2> QED BY <1>4, <2>1, <2>3
<1>23. CASE Abandon /\ (marker' = FailedState \/ UNCHANGED marker)
  <2>1. UNCHANGED <<db, want, pending, vectors, stored, maker, mixed>> /\ parsed' = {} /\ pc' = "idle"
      BY <1>23 DEF Abandon, Forget
  <2> QED BY <1>3, <1>4, <1>5, <2>1
<1>24. CASE Search \/ UNCHANGED vars
  <2>1. UNCHANGED <<db, want, pending, vectors, stored, maker, mixed, mode, parsed, queued, pc>>
      BY <1>24 DEF Search, SearchReads, SearchAnswers, vars
  <2> QED BY <1>1, <1>3, <1>5, <1>6, <1>7, <2>1
<1> QED
    BY <1>8, <1>9, <1>10, <1>11, <1>12, <1>13, <1>14, <1>15, <1>16, <1>17, <1>18, <1>19, <1>20, <1>21,
       <1>22, <1>23, <1>24
    DEF Next, Ingest, Fail, Crash

--------------------------------------------------------------------------------
(* What a search reads, and says.                                          *)

\* Every step keeps what a search under way has read, and what an answer says.
LEMMA SearchStep ==
    ASSUME TypeOK, PlaceInv, ModeInv, ProviderInv, CoverInv, SearchInv, GapIsReported, [Next]_vars
    PROVE  SearchInv' /\ GapIsReported'
<1> USE DEF Goto, source, tables, job, history, bounds
<1>1. ASSUME UNCHANGED search, Unfinished => Unfinished'
      PROVE  SearchInv' /\ GapIsReported'
    BY <1>1 DEF SearchInv, GapIsReported
<1>2. ASSUME UNCHANGED <<search, marker>>
      PROVE  SearchInv' /\ GapIsReported'
    BY <1>1, <1>2 DEF Unfinished
<1>3. ASSUME NEW f \in File, NEW v \in Version \cup {NoFile}, Edit(f, v)
      PROVE  SearchInv' /\ GapIsReported'
    BY <1>2, <1>3 DEF Edit
<1>4. CASE SwitchProvider \/ DeleteRows \/ DeleteVectors \/ Collect \/ IndexFile \/ IndexFileFails
    BY <1>2, <1>4 DEF SwitchProvider, DeleteRows, DeleteVectors, Collect, IndexFile, IndexFileFails
<1>5. CASE Commit \/ Drained \/ DeleteRemoved \/ Finalize \/ UNCHANGED vars
    BY <1>2, <1>5 DEF Commit, Drained, DeleteRemoved, Finalize, vars
<1>6. CASE ResolveGraph
    BY <1>2, <1>6, PassKeeps
<1>7. ASSUME NEW c \in queued, WriteVector(c) PROVE SearchInv' /\ GapIsReported'
    BY <1>2, <1>7 DEF WriteVector
<1>8. CASE Begin
    BY <1>1, <1>8 DEF Begin, BuildingState, Unfinished
<1>9. CASE Ready
  <2>1. search' = [search EXCEPT !.overtaken = @ \/ search.at = "read"]
      BY <1>9 DEF Ready
  <2>2. search'.at = search.at /\ search'.gap = search.gap /\ search'.mixed = search.mixed
        /\ (search.overtaken \/ search.at = "read" => search'.overtaken)
      BY <2>1 DEF TypeOK
  <2> QED BY <2>2 DEF SearchInv, GapIsReported
<1>10. CASE Abandon /\ (marker' = FailedState \/ UNCHANGED marker)
    BY <1>1, <1>10 DEF Abandon, FailedState, Unfinished
<1>11. CASE SearchReads
  <2>1. UNCHANGED marker /\ search'.at = "read" /\ search'.gap = (Missing # {}) /\ search'.mixed = mixed
      BY <1>11 DEF SearchReads
  <2>2. ~mixed /\ Missing # {} => Unfinished
    <3>1. SUFFICES ASSUME ~mixed, NEW f \in Current, NEW c \in Rows(db.files, f).chunks, ~HasRow(c)
                   PROVE  Unfinished
        BY DEF Missing, HasRow
    <3>2. marker.status # "ready"
        BY <3>1 DEF CoverInv, ProviderInv
    <3>3. marker.status # "none"
        BY <3>1 DEF ModeInv, Current
    <3> QED BY <3>2, <3>3 DEF Unfinished, TypeOK
  <2> QED BY <2>1, <2>2 DEF SearchInv, GapIsReported, Unfinished
<1>12. CASE SearchAnswers
  <2>1. CASE Degraded
      BY <1>12, <2>1 DEF SearchAnswers, NoSearch, SearchInv, GapIsReported
  <2>2. CASE ~Degraded
    <3>1. ~Unfinished
        BY <2>2 DEF Degraded, Unfinished
    <3>2. search' = [search EXCEPT !.at = "answered"] /\ search.at = "read"
        BY <1>12, <2>2 DEF SearchAnswers
    <3>3. search'.at = "answered" /\ search'.gap = search.gap
        /\ search'.overtaken = search.overtaken /\ search'.mixed = search.mixed
        BY <3>2 DEF TypeOK
    <3> QED BY <3>1, <3>2, <3>3 DEF SearchInv, GapIsReported
  <2> QED BY <2>1, <2>2
<1> QED
    BY <1>3, <1>4, <1>5, <1>6, <1>7, <1>8, <1>9, <1>10, <1>11, <1>12
    DEF Next, Ingest, Search, Fail, Crash

--------------------------------------------------------------------------------
(* The theorems about the vectors.                                         *)

\* The invariant of the rows holds at first,
LEMMA RowInit == Init => RowInv
BY EmptyDbFacts
   DEF Init, RowInv, ProviderInv, By, Unfinished, Unmarked, CoverInv, Current, WrittenChunks, Late, Labels,
       Early, Staging, Committed, SearchInv, GapIsReported, NoSearch

\* is kept by every step,
LEMMA RowStep == TableInv /\ RowInv /\ [Next]_vars => RowInv'
<1> SUFFICES ASSUME TableInv, RowInv, [Next]_vars PROVE RowInv'
    OBVIOUS
<1>1. TypeOK /\ PlaceInv /\ ModeInv /\ QueueInv /\ RemovedInv
    BY DEF TableInv
<1>2. ProviderInv /\ CoverInv /\ SearchInv /\ GapIsReported
    BY DEF RowInv
<1>3. ProviderInv' /\ CoverInv' /\ SearchInv' /\ GapIsReported'
    BY <1>1, <1>2, ProviderStep, CoverStep, SearchStep
<1> QED BY <1>3 DEF RowInv

\* and so holds always, with that of the tables.
LEMMA VectorRows == Spec => [](TableInv /\ RowInv)
<1>1. TableInv /\ RowInv /\ [Next]_vars => TableInv' /\ RowInv'
    BY TableStep, RowStep
<1> QED BY <1>1, TableInit, RowInit, PTL DEF Spec

\* However often ingests fail and the model changes, after an ingest every chunk of the
\* files it acknowledged has a vector of its content and of the stored model, unless two
\* models have worked on the table since it was made anew; and no chunk that is gone
\* has one, unless an ingest was cut off before it had deleted it (Engine._ingest: the
\* marker says ready only after the vector stage).
THEOREM VectorsAgree == Spec => []VectorsMatchIndex
<1>1. ASSUME TableInv, RowInv, AtRest, ~mixed, NEW f \in Current, NEW c \in Rows(db.files, f).chunks
      PROVE  [id |-> c.id, hash |-> c.hash, by |-> stored] \in vectors
  <2>1. PICK r \in vectors : r.id = c.id /\ r.hash = c.hash
      BY <1>1 DEF RowInv, ProviderInv, CoverInv, HasRow, AtRest
  <2>2. r.by = stored /\ r = [id |-> r.id, hash |-> r.hash, by |-> r.by]
      BY <1>1 DEF AtRest, RowInv, ProviderInv, By, TableInv, TypeOK
  <2> QED BY <2>1, <2>2
<1>2. ASSUME TableInv, AtRest, ~orphaned
      PROVE  {r.id : r \in vectors} \subseteq Ids(Chunks(db.files))
  <2>1. View = db /\ removed = {}
      BY <1>2 DEF AtRest, View, TableInv, PlaceInv
  <2> QED BY <1>2, <2>1 DEF TableInv, TightInv
<1>3. TableInv /\ RowInv => VectorsMatchIndex
    BY <1>1, <1>2 DEF VectorsMatchIndex
<1> QED BY <1>3, VectorRows, PTL

\* A search that read an index with missing vectors says so, unless an ingest ended
\* before it looked at the marker, or two models have worked on the table it read
\* (engine.py: _index_state_gap).
THEOREM GapsAreReported == Spec => []GapIsReported
<1>1. TableInv /\ RowInv => GapIsReported
    BY DEF RowInv
<1> QED BY <1>1, VectorRows, PTL

--------------------------------------------------------------------------------
(* The prefetcher: its entries and what an ingest uses of them.            *)

\* What an entry is made of.
Language == {"python", "c", "cpp", "markdown", "none"}
TaskState == {"waiting", "done", "failed"}
Calls == [path : Path, content : Content, language : Language]
Keys == [project : Project, path : Path, hash : Content, language : Language]
HeldFiles == [key : Keys, size : Nat, at : Nat, call : Calls, state : TaskState]

\* An entry is the result of the call its key names.
OwnResult(e) == e.key = Key(e.key.project, e.call.path, e.call.content, e.call.language)

OneForKey(some) == \A e, f \in some : e.key = f.key => e = f

\* The entries are what they are filed as, one for a key, and counted once.
StoreInv ==
    /\ entries \subseteq HeldFiles /\ IsFiniteSet(entries) /\ clock \in Nat
    /\ \A e \in entries : OwnResult(e)
    /\ OneForKey(entries)
    /\ heldBytes = Sizes(entries) /\ heldBytes <= MaxHeld
    /\ \A h \in handing : h.project \in Project /\ h.files \in Batch

\* What a running ingest has used; one that does not run has nothing to do.
UsedOwn(p) ==
    \A r \in ingest[p].used :
        r = Call(r.path, mirror[p][r.path], LanguageFor(Suffix[r.path], ingest[p].cpp))
IngestInv ==
    /\ DOMAIN mirror = Project /\ DOMAIN ingest = Project
    /\ \A p \in Project :
        /\ DOMAIN ingest[p] = {"todo", "cpp", "used", "runs"}
        /\ ~ingest[p].runs => ingest[p].todo = {} /\ ingest[p].used = {}
        /\ UsedOwn(p)

PrefetchInv == StoreInv /\ IngestInv

--------------------------------------------------------------------------------
(* What the sizes of entries add up to.                                          *)

\* Finitely many entries have finitely many bytes.
LEMMA BytesFinite ==
    ASSUME NEW some \in SUBSET HeldFiles, IsFiniteSet(some)
    PROVE  IsFiniteSet(BytesOf(some)) /\ Sizes(some) \in Nat
<1> DEFINE part == [e \in some |-> {e.key} \X (1..e.size)]
           parts == {part[e] : e \in some}
<1>1. \A e \in some : IsFiniteSet({e.key} \X (1..e.size))
  <2> SUFFICES ASSUME NEW e \in some PROVE IsFiniteSet({e.key} \X (1..e.size))
      OBVIOUS
  <2>1. IsFiniteSet({e.key})
      BY FS_Singleton
  <2>2. e.size \in Nat
      BY DEF HeldFiles
  <2>3. IsFiniteSet(1..e.size)
      BY <2>2, FS_Interval
  <2> QED BY <2>1, <2>3, FS_Product
<1>2. part \in Surjection(some, parts)
    BY DEF Surjection
<1>3. IsFiniteSet(parts)
    BY <1>2, FS_Surjection
<1>4. \A T \in parts : IsFiniteSet(T)
    BY <1>1
<1>5. BytesOf(some) = UNION parts
    BY DEF BytesOf
<1>6. IsFiniteSet(BytesOf(some))
    BY <1>3, <1>4, <1>5, FS_UNION
<1> QED BY <1>6, FS_CardinalityType DEF Sizes

\* Entries that share no key share no byte.
LEMMA SizesAdd ==
    ASSUME NEW A \in SUBSET HeldFiles, IsFiniteSet(A), NEW B \in SUBSET HeldFiles, IsFiniteSet(B),
           \A a \in A, b \in B : a.key # b.key
    PROVE  Sizes(A \cup B) = Sizes(A) + Sizes(B)
<1>1. /\ IsFiniteSet(BytesOf(A)) /\ IsFiniteSet(BytesOf(B))
      /\ Sizes(A) \in Nat /\ Sizes(B) \in Nat
    BY BytesFinite
<1>2. BytesOf(A \cup B) = BytesOf(A) \cup BytesOf(B)
    BY DEF BytesOf
<1>3. BytesOf(A) \cap BytesOf(B) = {}
    BY DEF BytesOf
<1>4. Cardinality(BytesOf(A) \cup BytesOf(B))
         = Cardinality(BytesOf(A)) + Cardinality(BytesOf(B)) - Cardinality(BytesOf(A) \cap BytesOf(B))
    BY <1>1, FS_Union
<1>5. Cardinality(BytesOf(A) \cap BytesOf(B)) = 0
  <2>1. Cardinality({}) = 0
      BY FS_EmptySet
  <2> QED BY ONLY <1>3, <2>1
<1>6. Cardinality(BytesOf(A \cup B)) = Sizes(A) + Sizes(B) - 0
  <2>1. Cardinality(BytesOf(A \cup B)) = Cardinality(BytesOf(A)) + Cardinality(BytesOf(B)) - 0
      BY ONLY <1>2, <1>4, <1>5
  <2> QED BY <2>1 DEF Sizes
<1>7. Sizes(A \cup B) = Sizes(A) + Sizes(B) - 0
    BY <1>6 DEF Sizes
<1> QED BY <1>1, <1>7

\* What is left when some entries of the store go.
LEMMA SizesLeft ==
    ASSUME StoreInv, NEW some \in SUBSET entries
    PROVE  /\ Sizes(entries) = Sizes(entries \ some) + Sizes(some)
           /\ Sizes(entries \ some) \in Nat /\ Sizes(some) \in Nat
           /\ IsFiniteSet(entries \ some)
<1>1. IsFiniteSet(some) /\ IsFiniteSet(entries \ some)
    BY FS_Subset DEF StoreInv
<1>2. \A a \in entries \ some, b \in some : a.key # b.key
    BY DEF StoreInv, OneForKey
<1>3. some \in SUBSET HeldFiles /\ entries \ some \in SUBSET HeldFiles
    BY DEF StoreInv
<1>4. (entries \ some) \cup some = entries
    OBVIOUS
<1>5. Sizes((entries \ some) \cup some) = Sizes(entries \ some) + Sizes(some)
    BY <1>1, <1>2, <1>3, SizesAdd
<1> QED BY <1>1, <1>3, <1>4, <1>5, BytesFinite

\* A step that hands no upload over and lets no time pass.
SameTime == clock' = clock /\ handing' \subseteq handing

\* Entries that are dropped.
LEMMA DropKeeps ==
    ASSUME StoreInv, SameTime, NEW some \in SUBSET entries, Drop(some)
    PROVE  StoreInv'
<1>1. entries' = entries \ some /\ heldBytes' = heldBytes - Sizes(some)
    BY DEF Drop
<1>2. /\ Sizes(entries) = Sizes(entries \ some) + Sizes(some)
      /\ Sizes(entries \ some) \in Nat /\ Sizes(some) \in Nat
      /\ IsFiniteSet(entries \ some)
    BY SizesLeft
<1>3. heldBytes' = Sizes(entries \ some) /\ heldBytes' <= MaxHeld
    BY <1>1, <1>2, PrefetchConstants DEF StoreInv
<1> QED BY <1>1, <1>2, <1>3 DEF StoreInv, OneForKey, OwnResult, Key, SameTime

\* Entries whose call has ended, in one way or another.
LEMMA EndKeeps ==
    ASSUME StoreInv, SameTime, heldBytes' = heldBytes, NEW some \in SUBSET entries,
           NEW state \in TaskState, entries' = (entries \ some) \cup Ended(some, state)
    PROVE  StoreInv'
<1> DEFINE ended(e) == [e EXCEPT !.state = state]
<1>1. \A e \in entries : /\ ended(e) \in HeldFiles
                         /\ ended(e).key = e.key /\ ended(e).call = e.call /\ ended(e).size = e.size
    BY DEF StoreInv, HeldFiles
<1>2. Ended(some, state) = {ended(e) : e \in some}
    BY DEF Ended
<1> HIDE DEF ended
<1>3. entries' \subseteq HeldFiles /\ \A e \in entries' : OwnResult(e)
    BY <1>1, <1>2 DEF StoreInv, OwnResult
<1>4. OneForKey(entries')
    BY <1>1, <1>2 DEF StoreInv, OneForKey
<1>5. IsFiniteSet(entries')
  <2>1. IsFiniteSet(some) /\ IsFiniteSet(entries \ some)
      BY FS_Subset DEF StoreInv
  <2>2. [e \in some |-> ended(e)] \in Surjection(some, Ended(some, state))
      BY <1>2 DEF Surjection
  <2>3. IsFiniteSet(Ended(some, state))
      BY <2>1, <2>2, FS_Surjection
  <2> QED BY <2>1, <2>3, FS_Union
<1>6. BytesOf(entries') = BytesOf(entries)
    BY <1>1, <1>2 DEF BytesOf
<1>7. Sizes(entries') = Sizes(entries)
    BY <1>6 DEF Sizes
<1> QED BY <1>3, <1>4, <1>5, <1>7 DEF StoreInv, SameTime

--------------------------------------------------------------------------------
(* The steps.                                                                    *)

\* The entries an upload adds are results to come of their own calls.
LEMMA AddedHeld ==
    ASSUME StoreInv, NEW h \in handing, NEW n \in 0..Len(h.files)
    PROVE  /\ Added(h, n) \subseteq HeldFiles /\ IsFiniteSet(Added(h, n))
           /\ \A e \in Added(h, n) : OwnResult(e) /\ e.state = "waiting" /\ e.at = clock
           /\ OneForKey(Added(h, n))
           /\ \A e \in Added(h, n), held \in Fresh : held.key # e.key
<1> DEFINE new(i) == Entry(h.project, h.files[i])
           all == {new(i) : i \in 1..n}
<1>1. h.files \in Seq([path : Path, content : Content]) /\ h.project \in Project
    BY PrefetchConstants DEF StoreInv
<1>2. \A suffix : Detect(suffix) \in Language
    BY DEF Detect, Language
<1>3. \A i \in 1..n : /\ new(i) \in HeldFiles /\ OwnResult(new(i))
                      /\ new(i).state = "waiting" /\ new(i).at = clock
  <2> SUFFICES ASSUME NEW i \in 1..n
               PROVE  /\ new(i) \in HeldFiles /\ OwnResult(new(i))
                      /\ new(i).state = "waiting" /\ new(i).at = clock
      OBVIOUS
  <2>1. h.files[i] \in [path : Path, content : Content]
    <3> DEFINE Uploaded == [path : Path, content : Content]
    <3>1. h.files \in Seq(Uploaded)
        BY <1>1
    <3> HIDE DEF Uploaded
    <3>2. i \in 1..Len(h.files)
        BY <3>1
    <3>3. h.files[i] \in Uploaded
        BY <3>1, <3>2
    <3> QED BY <3>3 DEF Uploaded
  <2>2. PICK file \in [path : Path, content : Content] : file = h.files[i]
      BY <2>1
  <2>3. Detect(Suffix[file.path]) \in Language /\ Size[file.content] \in Nat /\ clock \in Nat
      BY <1>2, PrefetchConstants DEF StoreInv
  <2>4. PICK language \in Language : language = Detect(Suffix[file.path])
      BY <2>3
  <2>5. Call(file.path, file.content, language) \in Calls
      BY <2>2 DEF Call, Calls
  <2>6. Key(h.project, file.path, file.content, language) \in Keys
      BY <1>1, <2>2 DEF Key, Keys
  <2>7. new(i) = [key |-> Key(h.project, file.path, file.content, language),
                  size |-> Size[file.content], at |-> clock,
                  call |-> Call(file.path, file.content, language), state |-> "waiting"]
      BY <2>2, <2>4 DEF Entry
  <2>8. new(i) \in HeldFiles
      BY <2>3, <2>5, <2>6, <2>7 DEF HeldFiles, TaskState
  <2>9. OwnResult(new(i))
      BY <2>7 DEF OwnResult, Key, Call
  <2> QED BY <2>7, <2>8, <2>9
<1>4. \A i, j \in 1..n : new(i).key = new(j).key => new(i) = new(j)
  <2> SUFFICES ASSUME NEW i \in 1..n, NEW j \in 1..n, new(i).key = new(j).key
               PROVE  new(i) = new(j)
      OBVIOUS
  <2>1. PICK f, g : f = h.files[i] /\ g = h.files[j]
      OBVIOUS
  <2>2. f.path = g.path /\ f.content = g.content
      BY <2>1 DEF Entry, Key
  <2> QED BY <2>1, <2>2 DEF Entry
<1>5. Added(h, n) = {e \in all : \A held \in Fresh : held.key # e.key}
    BY DEF Added
<1>6. IsFiniteSet(Added(h, n))
  <2>1. n \in Int
      OBVIOUS
  <2>2. IsFiniteSet(1..n)
      BY <2>1, FS_Interval
  <2>3. [i \in 1..n |-> new(i)] \in Surjection(1..n, all)
      BY DEF Surjection
  <2>4. IsFiniteSet(all)
      BY <2>2, <2>3, FS_Surjection
  <2> QED BY <1>5, <2>4, FS_Subset
<1> HIDE DEF new
<1> QED BY <1>3, <1>4, <1>5, <1>6 DEF OneForKey

\* An upload that is handed over.
LEMMA SubmitKeeps ==
    ASSUME StoreInv, NEW h \in handing, Submit(h)
    PROVE  StoreInv'
<1>1. SameTime
    BY DEF Submit, SameTime, limits
<1>2. CASE closed
  <2>1. UNCHANGED <<entries, heldBytes>>
      BY <1>2 DEF Submit, store
  <2> QED BY <1>1, <2>1 DEF StoreInv, SameTime, OneForKey, OwnResult, Sizes, BytesOf
<1>3. CASE ~closed
  <2>1. PICK n \in 0..Len(h.files) :
            /\ HeldWith(h, n) <= MaxHeld
            /\ \/ Drop(Expired)
               \/ entries' = Fresh \cup Added(h, n) /\ heldBytes' = HeldWith(h, n)
      BY <1>3 DEF Submit
  <2>2. Expired \subseteq entries
      BY DEF Expired
  <2>3. CASE Drop(Expired)
      BY <1>1, <2>2, <2>3, DropKeeps
  <2>4. CASE entries' = Fresh \cup Added(h, n) /\ heldBytes' = HeldWith(h, n)
    <3>1. /\ Added(h, n) \subseteq HeldFiles /\ IsFiniteSet(Added(h, n))
          /\ \A e \in Added(h, n) : OwnResult(e)
          /\ OneForKey(Added(h, n))
          /\ \A e \in Added(h, n), held \in Fresh : held.key # e.key
        BY AddedHeld
    <3>2. /\ Sizes(entries) = Sizes(Fresh) + Sizes(Expired)
          /\ Sizes(Fresh) \in Nat /\ Sizes(Expired) \in Nat /\ IsFiniteSet(Fresh)
        BY <2>2, SizesLeft DEF Fresh
    <3>3. Fresh \subseteq entries /\ Fresh \subseteq HeldFiles
        BY DEF Fresh, StoreInv
    <3>4. Sizes(Added(h, n)) \in Nat
        BY <3>1, BytesFinite
    <3>5. Sizes(Fresh \cup Added(h, n)) = Sizes(Fresh) + Sizes(Added(h, n))
        BY <3>1, <3>2, <3>3, SizesAdd
    <3>6. heldBytes' = Sizes(Fresh \cup Added(h, n)) /\ heldBytes' <= MaxHeld
        BY <2>1, <2>4, <3>2, <3>4, <3>5 DEF StoreInv, HeldWith
    <3>7. IsFiniteSet(Fresh \cup Added(h, n))
        BY <3>1, <3>2, FS_Union
    <3>8. OneForKey(Fresh \cup Added(h, n)) /\ \A e \in Fresh \cup Added(h, n) : OwnResult(e)
        BY <3>1, <3>3 DEF StoreInv, OneForKey
    <3>9. entries' \subseteq HeldFiles
        BY <2>4, <3>1, <3>3
    <3> QED BY <1>1, <2>4, <3>6, <3>7, <3>8, <3>9 DEF StoreInv, SameTime
  <2> QED BY <2>1, <2>3, <2>4
<1> QED BY <1>2, <1>3

\* Every step keeps the store.
LEMMA StoreNext == StoreInv /\ [PrefetchNext]_prefetchVars => StoreInv'
<1> SUFFICES ASSUME StoreInv, [PrefetchNext]_prefetchVars PROVE StoreInv'
    OBVIOUS
<1>1. ASSUME UNCHANGED <<entries, heldBytes, clock>>,
             \A h \in handing' : h \in handing \/ (h.project \in Project /\ h.files \in Batch)
      PROVE  StoreInv'
    BY <1>1 DEF StoreInv, OneForKey, OwnResult, Sizes, BytesOf
<1>2. ASSUME NEW p \in Project, NEW b \in Batch, Upload(p, b) PROVE StoreInv'
  <2>1. UNCHANGED <<entries, heldBytes, clock>>
      BY <1>2 DEF Upload, store
  <2>2. handing' = handing \cup {[project |-> p, files |-> b]}
      BY <1>2 DEF Upload
  <2> QED BY <1>1, <2>1, <2>2
<1>3. ASSUME NEW h \in handing, Submit(h) PROVE StoreInv'
    BY <1>3, SubmitKeeps
<1>4. ASSUME NEW e \in entries, Prepare(e) PROVE StoreInv'
  <2>1. /\ SameTime /\ heldBytes' = heldBytes
        /\ entries' = (entries \ {e}) \cup Ended({e}, "done")
      BY <1>4 DEF Prepare, SameTime, limits
  <2>2. {e} \in SUBSET entries /\ "done" \in TaskState
      BY DEF TaskState
  <2> QED BY <2>1, <2>2, EndKeeps
<1>5. CASE WorkerEnds
  <2>1. /\ SameTime /\ heldBytes' = heldBytes
        /\ entries' = (entries \ Waiting) \cup Ended(Waiting, "failed")
        /\ Waiting \subseteq entries
      BY <1>5 DEF WorkerEnds, SameTime, Waiting
  <2>2. Waiting \in SUBSET entries /\ "failed" \in TaskState
      BY <2>1 DEF TaskState
  <2> QED BY <2>1, <2>2, EndKeeps
<1>6. CASE Tick
  <2>1. /\ UNCHANGED <<entries, heldBytes, handing>> /\ clock' = clock + 1
      BY <1>6 DEF Tick, store
  <2> QED BY <2>1 DEF StoreInv, OneForKey, OwnResult, Sizes, BytesOf
<1>7. ASSUME NEW p \in Project, BeginIngest(p) PROVE StoreInv'
  <2>1. UNCHANGED <<entries, heldBytes, clock, handing>>
      BY <1>7 DEF BeginIngest, store, limits
  <2> QED BY <1>1, <2>1
<1>8. ASSUME NEW p \in Project, NEW f \in Path, TakeFile(p, f) PROVE StoreInv'
  <2>1. SameTime /\ \E some \in SUBSET entries : Drop(some)
      BY <1>8 DEF TakeFile, SameTime, limits
  <2> QED BY <2>1, DropKeeps
<1>9. ASSUME NEW p \in Project, EndIngest(p) \/ Delete(p) PROVE StoreInv'
  <2>1. SameTime /\ Drop({e \in entries : e.key.project = p})
      BY <1>9 DEF EndIngest, Delete, Discard, SameTime, limits
  <2> QED BY <2>1, DropKeeps
<1>10. CASE Close
  <2>1. SameTime /\ Drop(entries)
      BY <1>10 DEF Close, SameTime
  <2> QED BY <2>1, DropKeeps
<1>11. CASE UNCHANGED prefetchVars
    BY <1>1, <1>11 DEF prefetchVars
<1> QED BY <1>2, <1>3, <1>4, <1>5, <1>6, <1>7, <1>8, <1>9, <1>10, <1>11 DEF PrefetchNext

\* Every step keeps what ingests have used.
LEMMA IngestNext == StoreInv /\ IngestInv /\ [PrefetchNext]_prefetchVars => IngestInv'
<1> SUFFICES ASSUME StoreInv, IngestInv, [PrefetchNext]_prefetchVars PROVE IngestInv'
    OBVIOUS
<1>1. ASSUME UNCHANGED <<mirror, ingest>> PROVE IngestInv'
    BY <1>1 DEF IngestInv, UsedOwn
<1>2. ASSUME NEW p \in Project, UNCHANGED ingest, ~ingest[p].runs,
             NEW contents, mirror' = [mirror EXCEPT ![p] = contents]
      PROVE  IngestInv'
  <2>1. DOMAIN mirror' = Project /\ \A q \in Project \ {p} : mirror'[q] = mirror[q]
      BY <1>2 DEF IngestInv
  <2>2. ingest'[p].used = {}
      BY <1>2 DEF IngestInv
  <2> QED BY <1>2, <2>1, <2>2 DEF IngestInv, UsedOwn
<1>3. ASSUME NEW p \in Project, UNCHANGED mirror,
             NEW now, ingest' = [ingest EXCEPT ![p] = now],
             DOMAIN now = {"todo", "cpp", "used", "runs"}, now.used = {},
             ~now.runs => now.todo = {}
      PROVE  IngestInv'
  <2>1. /\ DOMAIN ingest' = Project /\ ingest'[p] = now
        /\ \A q \in Project \ {p} : ingest'[q] = ingest[q]
      BY <1>3 DEF IngestInv
  <2> QED BY <1>3, <2>1 DEF IngestInv, UsedOwn
<1>4. ASSUME NEW p \in Project, NEW b \in Batch, Upload(p, b) PROVE IngestInv'
  <2>1. ~ingest[p].runs /\ ingest' = ingest /\ mirror' = [mirror EXCEPT ![p] = Written(mirror[p], b)]
      BY <1>4 DEF Upload
  <2> QED BY <1>2, <2>1
<1>5. ASSUME NEW p \in Project, BeginIngest(p) PROVE IngestInv'
  <2>1. mirror' = mirror
      BY <1>5 DEF BeginIngest
  <2>2. PICK now : /\ now = [todo |-> changed[p], cpp |-> "cpp" \in Seen(p), used |-> {}, runs |-> TRUE]
                   /\ ingest' = [ingest EXCEPT ![p] = now]
      BY <1>5 DEF BeginIngest
  <2>3. DOMAIN now = {"todo", "cpp", "used", "runs"} /\ now.used = {} /\ now.runs
      BY <2>2
  <2> QED BY <1>3, <2>1, <2>2, <2>3
<1>6. ASSUME NEW p \in Project, NEW f \in Path, TakeFile(p, f) PROVE IngestInv'
  <2> DEFINE content == mirror[p][f]
             language == LanguageFor(Suffix[f], ingest[p].cpp)
  <2>1. mirror' = mirror /\ f \in ingest[p].todo
      BY <1>6 DEF TakeFile
  <2>2. PICK result : /\ result = Call(f, content, language)
                          \/ \E e \in entries : e.key = Key(p, f, content, language) /\ result = e.call
                      /\ ingest' = [ingest EXCEPT ![p].todo = @ \ {f}, ![p].used = @ \cup {result}]
      BY <1>6 DEF TakeFile
  <2>3. result = Call(f, content, language)
    <3>1. ASSUME NEW e \in entries, e.key = Key(p, f, content, language) PROVE e.call = Call(f, content, language)
      <4>1. e.call \in Calls /\ e.key = Key(e.key.project, e.call.path, e.call.content, e.call.language)
          BY DEF StoreInv, OwnResult, HeldFiles
      <4>2. e.call.path = f /\ e.call.content = content /\ e.call.language = language
          BY <3>1, <4>1 DEF Key
      <4> QED BY <4>1, <4>2 DEF Calls, Call
    <3> QED BY <2>2, <3>1
  <2>4. /\ DOMAIN ingest' = Project
        /\ \A q \in Project \ {p} : ingest'[q] = ingest[q]
        /\ ingest'[p] = [ingest[p] EXCEPT !.todo = @ \ {f}, !.used = @ \cup {result}]
      BY <2>2 DEF IngestInv
  <2>5. /\ DOMAIN ingest'[p] = {"todo", "cpp", "used", "runs"}
        /\ ingest'[p].used = ingest[p].used \cup {result} /\ ingest'[p].runs = ingest[p].runs
        /\ ingest'[p].cpp = ingest[p].cpp
      BY <2>4 DEF IngestInv
  <2>6. ingest[p].runs
      BY <2>1 DEF IngestInv
  <2>7. result.path = f
      BY <2>3 DEF Call
  <2>8. UsedOwn(p)'
      BY <2>1, <2>3, <2>5, <2>7 DEF IngestInv, UsedOwn
  <2>9. \A q \in Project \ {p} : UsedOwn(q)'
      BY <2>1, <2>4 DEF IngestInv, UsedOwn
  <2> QED BY <2>1, <2>4, <2>5, <2>6, <2>8, <2>9 DEF IngestInv
<1>7. ASSUME NEW p \in Project, EndIngest(p) PROVE IngestInv'
  <2>1. mirror' = mirror /\ ingest' = [ingest EXCEPT ![p] = NoIngest]
      BY <1>7 DEF EndIngest
  <2>2. DOMAIN NoIngest = {"todo", "cpp", "used", "runs"} /\ NoIngest.used = {} /\ NoIngest.todo = {}
      BY DEF NoIngest
  <2> QED BY <1>3, <2>1, <2>2
<1>8. ASSUME NEW p \in Project, Delete(p) PROVE IngestInv'
  <2>1. ~ingest[p].runs /\ ingest' = ingest /\ mirror' = [mirror EXCEPT ![p] = [f \in Path |-> NoContent]]
      BY <1>8 DEF Delete
  <2> QED BY <1>2, <2>1
<1>9. CASE \/ \E h \in handing : Submit(h)
           \/ \E e \in entries : Prepare(e)
           \/ WorkerEnds \/ Tick \/ Close \/ UNCHANGED prefetchVars
  <2>1. UNCHANGED <<mirror, ingest>>
      BY <1>9 DEF Submit, Prepare, WorkerEnds, Tick, Close, project, prefetchVars
  <2> QED BY <1>1, <2>1
<1> QED BY <1>4, <1>5, <1>6, <1>7, <1>8, <1>9 DEF PrefetchNext

\* Nothing is prefetched and no ingest runs at first.
LEMMA PrefetchStarts == PrefetchInit => PrefetchInv
<1> SUFFICES ASSUME PrefetchInit PROVE PrefetchInv
    OBVIOUS
<1>1. IsFiniteSet({}) /\ Sizes({}) = 0
    BY FS_EmptySet DEF Sizes, BytesOf
<1>2. StoreInv
    BY <1>1, PrefetchConstants DEF PrefetchInit, StoreInv, OneForKey
<1>3. IngestInv
    BY DEF PrefetchInit, IngestInv, NoIngest, UsedOwn
<1> QED BY <1>2, <1>3 DEF PrefetchInv

\* What an ingest uses of a file is what it would have prepared itself, and the
\* prefetcher's count is what it holds and within its limit: whatever uploads,
\* ingests, deletions, ends of the worker and lapses of time come in any order
\* (UploadPrefetcher.submit, _take, discard, close).
THEOREM PrefetchedIsPrepared == PrefetchSpec => []PrefetchIsInvisible
<1>1. PrefetchInv => PrefetchIsInvisible
    BY DEF PrefetchInv, StoreInv, IngestInv, UsedOwn, PrefetchIsInvisible
<1>2. PrefetchInv /\ [PrefetchNext]_prefetchVars => PrefetchInv'
    BY StoreNext, IngestNext DEF PrefetchInv
<1> QED BY <1>1, <1>2, PrefetchStarts, PTL DEF PrefetchSpec

\* A result is never used for another file, content or language than it is the
\* result of, and none is held twice (UploadPrefetcher._take, _Key).
THEOREM PrefetchedIsFiled ==
    PrefetchSpec => [](/\ \A e \in entries : OwnResult(e)
                       /\ OneForKey(entries))
<1>1. PrefetchInv => (\A e \in entries : OwnResult(e)) /\ OneForKey(entries)
    BY DEF PrefetchInv, StoreInv
<1>2. PrefetchInv /\ [PrefetchNext]_prefetchVars => PrefetchInv'
    BY StoreNext, IngestNext DEF PrefetchInv
<1> QED BY <1>1, <1>2, PrefetchStarts, PTL DEF PrefetchSpec

================================================================================
