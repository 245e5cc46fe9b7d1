------------------------------- MODULE Extraction -------------------------------
(* What the extractors of C++, C and Python take from a syntax tree: symbols,    *)
(* edges to the names they use, and references they leave open.                  *)
(*                                                                               *)
(* A tree is a sequence of nodes, parents first; only the kinds of node that an  *)
(* extractor looks at are told apart.  A node has                                *)
(*   is, name     its kind and its name, None without one                        *)
(*   up, part     its parent (0: the file) and the part of it it is in: the      *)
(*                "body" or, for what stands before that, the "head"             *)
(*   start, end   its lines                                                      *)
(*   body         whether a type is defined here, not only named                 *)
(*   path         the qualifier before a name; what a call calls, <<>> if that   *)
(*                is no name; the file an include names                          *)
(*   form, type   of a declarator, a call or an include; the type of a           *)
(*                declaration, "lambda" for what is given one                    *)
(*   init         the functions a name is given, {} if that is not a name        *)
(*   fields       what a braced initialiser gives to fields: [name, init]        *)
(*   bases        the bases of a class, the modules and names of an import       *)
(*   open         a method overrides, or a template is a specialisation          *)
(* A declaration has one declarator.  A name as written is a sequence of names,  *)
(* and <<>> as a source is the file.  is_exported and provenance are left out.   *)
EXTENDS Integers, SequencesExt, FiniteSetsExt

None == "none"

\* What is handed down a tree: `top` to the file, and each node passes on what it
\* makes of what its parent passed on.
HandedDown(t, top, Pass(_, _)) ==
    LET at[n \in 0..Len(t)] == IF n = 0 THEN top ELSE Pass(at[t[n].up], n) IN at

\* The nodes a walk comes to, when it goes from a node to a child only by Link.
Reached(t, Link(_, _)) ==
    LET reached == HandedDown(t, TRUE, LAMBDA above, n :
                      above /\ (t[n].up = 0 \/ Link(t[t[n].up], t[n])))
    IN  {n \in DOMAIN t : reached[n]}

\* The names of the nodes of these kinds around a node, its own included.
Scopes(t, kinds) ==
    HandedDown(t, <<>>, LAMBDA scope, n :
        IF t[n].is \in kinds /\ t[n].name # None THEN Append(scope, t[n].name) ELSE scope)

OfKind(t, nodes, kinds) == {n \in nodes : t[n].is \in kinds}

Symbol(fqn, kind, start, end) == [fqn |-> fqn, kind |-> kind, start |-> start, end |-> end]
Use(from, to, kind, line) == [from |-> from, to |-> to, kind |-> kind, line |-> line]

--------------------------------------------------------------------------------
(* What C and C++ have in common.                                               *)

Records == {"class", "struct", "union"}
Tags == Records \cup {"enum"}

\* _join_relative: <<None>> for a path that leaves the repository.
JoinRelative(dir, spelled) ==
    FoldLeft(LAMBDA at, part :
                 CASE at = <<None>> \/ part = "." -> at
                   [] part = ".." -> IF at = <<>> THEN <<None>> ELSE Front(at)
                   [] OTHER -> Append(at, part),
             <<>>, dir \o spelled)

\* An include is resolved only when it is written in quotes.
IncludeTarget(dir, n) == IF n.form = "quoted" THEN JoinRelative(dir, n.path) ELSE <<None>>
IncludesFile(dir, n) == IncludeTarget(dir, n) \notin {<<>>, <<None>>}

Includes(t, dir, walked) ==
    {Use(<<>>, IncludeTarget(dir, t[n]), "imports", t[n].start) :
        n \in {m \in OfKind(t, walked, {"include"}) : IncludesFile(dir, t[m])}}
OpenIncludes(t, dir, walked) ==
    {Use(<<>>, t[n].path, "import", t[n].start) :
        n \in {m \in OfKind(t, walked, {"include"}) : ~IncludesFile(dir, t[m])}}

Macros(t, walked) ==
    {Symbol(<<t[n].name>>, "macro", t[n].start, t[n].end) : n \in OfKind(t, walked, {"macro"})}

\* The names of types that stand for a pointer to a function.
PointerTypes(t) ==
    {t[n].name : n \in {m \in OfKind(t, DOMAIN t, {"typedef", "alias"}) :
                           t[m].form = "pointer" \/ t[m].type = "std::function"}}

\* Assignments and declarations that give `name` a function, wherever they are.
Given(t, name, kinds) == {n \in OfKind(t, DOMAIN t, kinds) : t[n].name = name}

--------------------------------------------------------------------------------
(* C++.                                                                         *)

CppScopes(t) == Scopes(t, {"namespace"} \cup Records)

\* _walk: the body of `extern "C" { }` is a node of its own ("braces") and is not
\* looked into; functions, enums and typedefs are not either.
CppWalks(parent, child) ==
    CASE parent.is = "group" -> TRUE
      [] parent.is = "namespace" -> child.part = "body"
      [] parent.is \in Records -> parent.name # None /\ child.part = "body"
      [] parent.is = "template" -> child.is \in Records \cup {"function", "declaration", "alias"}
      [] parent.is = "declaration" -> child.is \in Tags
      [] OTHER -> FALSE

InClass(t) ==
    HandedDown(t, FALSE, LAMBDA above, n :
        t[n].is # "namespace" /\ (above \/ t[n].is \in Records))

BasesAround(t) ==
    HandedDown(t, {}, LAMBDA above, n :
        CASE t[n].is = "namespace" -> {} [] t[n].is \in Records -> t[n].bases [] OTHER -> above)

\* The nodes that are symbols.  A field that is a pointer, a reference or an array
\* is one as a method is; a plain field and a pointer to a function are not.
CppDefines(t, n) ==
    /\ t[n].name # None
    /\ CASE t[n].is \in Tags -> t[n].body
         [] t[n].is = "declaration" ->
                InClass(t)[t[n].up] /\ t[n].form \in {"function", "compound"}
         [] OTHER -> t[n].is \in {"namespace", "function", "typedef", "alias", "macro"}

CppFqn(t, n) ==
    CASE t[n].is \in {"typedef", "alias", "macro"} -> <<t[n].name>>
      [] t[n].is = "function" -> CppScopes(t)[t[n].up] \o t[n].path \o <<t[n].name>>
      [] OTHER -> Append(CppScopes(t)[t[n].up], t[n].name)

CppKind(t, n) ==
    CASE t[n].is = "union" -> "struct"
      [] t[n].is = "alias" -> "typedef"
      [] t[n].is = "declaration" -> "method"
      [] t[n].is = "function" ->
            IF InClass(t)[t[n].up] \/ t[n].path # <<>> THEN "method" ELSE "function"
      [] OTHER -> t[n].is

\* What a template declares begins where the template does, but for an alias.
CppStart(t, n) ==
    LET above == t[n].up
        holder == IF t[n].is \in Tags /\ above # 0 /\ t[above].is = "declaration"
                  THEN t[above].up ELSE above
    IN  IF holder # 0 /\ t[holder].is = "template" /\ t[n].is # "alias"
        THEN t[holder].start ELSE t[n].start

CppDefinitions(t) == {n \in Reached(t, CppWalks) : CppDefines(t, n)}

CppSymbols(t) ==
    {Symbol(CppFqn(t, n), CppKind(t, n), CppStart(t, n), t[n].end) : n \in CppDefinitions(t)}

Extends(t) ==
    UNION {{Use(CppFqn(t, n), base, "extends", t[n].start) : base \in t[n].bases} :
              n \in OfKind(t, CppDefinitions(t), Records)}

\* _resolve_overrides: methods of a base are looked for in the same file.
Overriding(t) ==
    {n \in OfKind(t, CppDefinitions(t), {"declaration"}) : t[n].open /\ BasesAround(t)[t[n].up] # {}}
Overridden(t, n) ==
    {s.fqn : s \in {c \in CppSymbols(t) :
        /\ c.fqn # CppFqn(t, n)
        /\ \E base \in BasesAround(t)[t[n].up] : IsSuffix(Append(base, t[n].name), c.fqn)}}
Overrides(t) ==
    UNION {{Use(CppFqn(t, n), method, "overrides", t[n].start) : method \in Overridden(t, n)} :
              n \in Overriding(t)}
OpenOverrides(t) ==
    UNION {{Use(CppFqn(t, n), Append(base, t[n].name), "reference", t[n].start) :
                base \in BasesAround(t)[t[n].up]} :
              n \in {m \in Overriding(t) : Overridden(t, m) = {}}}

\* Declarations that a macro makes, and specialisations of templates.
OpenDeclarations(t) ==
    LET walked == Reached(t, CppWalks)
        macros == {t[n].name : n \in OfKind(t, DOMAIN t, {"macro"})}
        special == {n \in DOMAIN t : /\ t[n].up \in OfKind(t, walked, {"template"})
                                     /\ t[t[n].up].open
                                     /\ t[n].is \in Records \cup {"function", "declaration"}}
    IN  {Use(<<>>, <<t[n].name>>, "reference", t[n].start) :
            n \in {m \in OfKind(t, walked, {"declaration"}) : t[m].type \in macros}}
        \cup {Use(<<>>, t[n].path, "reference", t[t[n].up].start) :
            n \in {m \in OfKind(t, DOMAIN t, {"call"}) :
                      t[m].up \in OfKind(t, walked, {"statement"})}}
        \cup {Use(CppScopes(t)[t[n].up] \o t[n].path \o <<t[n].name>>, <<t[n].name>>,
                  "reference", t[t[n].up].start) : n \in special}

\* _scan_calls: everything but the heads of namespaces, classes and functions.
CppScans(parent, child) ==
    parent.is \in {"namespace", "function"} \cup Records => child.part = "body"

\* Mutant: calls in a member defined outside its class lose the class.
UnqualifiedOwner(t) ==
    HandedDown(t, <<>>, LAMBDA owner, n :
        IF t[n].is = "function" /\ t[n].name # None
        THEN Append(CppScopes(t)[t[n].up], t[n].name) ELSE owner)

\* Whose calls the calls under a node are.
CppOwner(t) ==
    HandedDown(t, <<>>, LAMBDA owner, n :
        IF t[n].is = "function" /\ t[n].name # None
        THEN CppScopes(t)[t[n].up] \o t[n].path \o <<t[n].name>> ELSE owner)

\* Functions a name may be a pointer to, in the whole file, and whether it may be
\* one to a function that cannot be seen.
IsPointer(t, n) == t[n].form = "pointer" \/ t[n].type \in PointerTypes(t) \cup {"std::function"}

CppTargets(t, name) ==
    UNION {t[n].init : n \in Given(t, name, {"assignment"})
              \cup {m \in Given(t, name, {"declaration", "parameter"}) : IsPointer(t, m)}}
CppUnknown(t, name) ==
    \/ \E n \in Given(t, name, {"assignment"}) : t[n].init = {} /\ t[n].type = "lambda"
    \/ \E n \in Given(t, name, {"declaration", "parameter"}) :
          t[n].init = {} /\ (IsPointer(t, n) \/ t[n].type = "lambda")

\* _call.
CppCalls(t) ==
    UNION {LET c == t[n]
               owner == CppOwner(t)[c.up]
           IN  IF c.path = <<>> THEN {}
               ELSE IF CppTargets(t, Last(c.path)) # {}
               THEN {Use(owner, target, "calls", c.start) : target \in CppTargets(t, Last(c.path))}
               ELSE IF CppUnknown(t, Last(c.path)) THEN {}
               ELSE {Use(owner, c.path, "calls", c.start)} :
           n \in OfKind(t, Reached(t, CppScans), {"call"})}
CppOpenCalls(t) ==
    {Use(CppOwner(t)[t[n].up], t[n].path, "call", t[n].start) :
        n \in {m \in OfKind(t, Reached(t, CppScans), {"call"}) :
                  \/ t[m].path = <<>>
                  \/ /\ CppTargets(t, Last(t[m].path)) = {}
                     /\ CppUnknown(t, Last(t[m].path))}}

ExtractCpp(t, dir) ==
    LET walked == Reached(t, CppWalks)
    IN  [symbols |-> CppSymbols(t),
         edges |-> Includes(t, dir, walked) \cup Extends(t) \cup Overrides(t) \cup CppCalls(t),
         refs |-> OpenIncludes(t, dir, walked) \cup OpenOverrides(t)
                  \cup OpenDeclarations(t) \cup CppOpenCalls(t)]

--------------------------------------------------------------------------------
(* C: names have no scope.                                                      *)

\* _walk, and the type that a declaration or a typedef defines.
CWalks(parent, child) ==
    CASE parent.is = "group" -> TRUE
      [] parent.is \in {"declaration", "typedef"} -> child.is \in Tags
      [] OTHER -> FALSE

\* `typedef struct P { } P;` is the struct alone.
NamesItsTag(t, n) ==
    \E m \in OfKind(t, DOMAIN t, Tags) : t[m].up = n /\ t[m].name = t[n].name

CDefines(t, n) ==
    /\ t[n].name # None
    /\ CASE t[n].is \in Tags -> t[n].body
         [] t[n].is = "typedef" -> ~NamesItsTag(t, n)
         [] OTHER -> t[n].is \in {"function", "macro"}

CSymbols(t) ==
    {Symbol(<<t[n].name>>, IF t[n].is = "union" THEN "struct" ELSE t[n].is, t[n].start, t[n].end) :
        n \in {m \in Reached(t, CWalks) : CDefines(t, m)}}

\* _scan_calls.
CScans(parent, child) == parent.is = "function" => child.part = "body"

COwner(t) ==
    HandedDown(t, <<>>, LAMBDA owner, n :
        CASE t[n].is # "function" -> owner
          [] t[n].name = None -> <<>>
          [] OTHER -> <<t[n].name>>)

CTargets(t, name) ==
    UNION {t[n].init : n \in Given(t, name, {"assignment"})
              \cup {m \in Given(t, name, {"declaration"}) : IsPointer(t, m)}}
    \cup UNION {UNION {f.init : f \in {g \in t[n].fields : g.name = name}} :
                    n \in OfKind(t, DOMAIN t, {"declaration"})}

\* _call: what is called through a subscript is known only by its candidates.
CCalls(t) ==
    UNION {LET c == t[n]
               targets == IF c.path = <<>> THEN {} ELSE CTargets(t, Last(c.path))
               called == IF targets # {} THEN targets
                         ELSE IF c.form = "name" THEN {c.path} ELSE {}
           IN  {Use(COwner(t)[c.up], target, "calls", c.start) : target \in called} :
           n \in OfKind(t, Reached(t, CScans), {"call"})}
COpenCalls(t) ==
    {Use(COwner(t)[t[n].up], t[n].path, "call", t[n].start) :
        n \in {m \in OfKind(t, Reached(t, CScans), {"call"}) :
                  \/ t[m].path = <<>>
                  \/ t[m].form # "name" /\ CTargets(t, Last(t[m].path)) = {}}}

ExtractC(t, dir) ==
    LET walked == Reached(t, CWalks)
    IN  [symbols |-> CSymbols(t),
         edges |-> Includes(t, dir, walked) \cup CCalls(t),
         refs |-> OpenIncludes(t, dir, walked) \cup COpenCalls(t)]

--------------------------------------------------------------------------------
(* Python: a function or class under anything but a block is not looked into.   *)

Definitions == {"class", "function"}

\* _visit_block: the definitions of a block, with or without decorators.
PyWalks(parent, child) ==
    CASE parent.is = "decorated" -> child.is \in Definitions
      [] parent.is \in Definitions -> child.part = "body"
      [] OTHER -> FALSE

PyFqn(t, n) == Append(Scopes(t, Definitions)[t[n].up], t[n].name)

\* The node a definition hangs on in its block, decorators included.
PyHolder(t, n) == IF t[n].up # 0 /\ t[t[n].up].is = "decorated" THEN t[n].up ELSE n

PyKind(t, n) ==
    LET block == t[PyHolder(t, n)].up
    IN  IF t[n].is = "function" /\ block # 0 /\ t[block].is = "class" THEN "method"
        ELSE t[n].is

PyDefinitions(t) == OfKind(t, Reached(t, PyWalks), Definitions)

\* Definitions, and the annotated variables of the module.
PySymbols(t) ==
    {Symbol(PyFqn(t, n), PyKind(t, n), t[PyHolder(t, n)].start, t[n].end) :
        n \in PyDefinitions(t)}
    \cup {Symbol(<<t[n].name>>, "variable", t[n].start, t[n].end) :
            n \in {m \in OfKind(t, DOMAIN t, {"variable"}) : t[m].up = 0}}

\* _scan: decorators and the bases of a class are not scanned.
PyScans(parent, child) ==
    CASE parent.is = "decorated" -> child.is \in Definitions
      [] parent.is = "class" -> child.part = "body"
      [] parent.is = "function" -> TRUE
      [] OTHER -> child.is \notin Definitions \cup {"decorated"}

PyOwner(t) ==
    HandedDown(t, <<>>, LAMBDA owner, n : IF t[n].is \in Definitions THEN PyFqn(t, n) ELSE owner)

PyScanned(t, is) == OfKind(t, Reached(t, PyScans), {is})

\* _call: getattr and its like, and importlib, are left open.
PyCalls(t) ==
    {Use(PyOwner(t)[t[n].up], t[n].path, "calls", t[n].start) :
        n \in {m \in PyScanned(t, "call") : t[m].form = "name"}}
PyOpenCalls(t) ==
    {Use(PyOwner(t)[t[n].up], t[n].path, IF t[n].form = "importlib" THEN "import" ELSE "call",
         t[n].start) : n \in {m \in PyScanned(t, "call") : t[m].form # "name"}}

PyImports(t) ==
    UNION {{Use(PyOwner(t)[t[n].up], name, "imports", t[n].start) : name \in t[n].bases} :
              n \in PyScanned(t, "import")}
PyExtends(t) ==
    UNION {{Use(PyFqn(t, n), base, "extends", t[n].start) : base \in t[n].bases} :
              n \in OfKind(t, PyDefinitions(t), {"class"})}

ExtractPython(t) ==
    [symbols |-> PySymbols(t), edges |-> PyCalls(t) \cup PyImports(t) \cup PyExtends(t),
     refs |-> PyOpenCalls(t)]

--------------------------------------------------------------------------------
\* extract.
Extract(language, t, dir) ==
    CASE language = "cpp" -> ExtractCpp(t, dir)
      [] language = "c" -> ExtractC(t, dir)
      [] language = "python" -> ExtractPython(t)

================================================================================
