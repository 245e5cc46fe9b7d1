----------------------------- MODULE IgnoreRules -----------------------------
(* Which files of a checkout are indexed.  Four layers decide: the built-in   *)
(* directories, the allowlist (built-in names, environment, .novainclude),    *)
(* .gitignore and .novaignore.  The server reads them for its local mode      *)
(* (nova_core: IgnoreRules and DirectorySource), the client for its uploads   *)
(* (ignore.rs over the ignore crate), and the two are meant to agree (R42).   *)
(*                                                                            *)
(* A path is a sequence of names, a name stands for its spellings in any      *)
(* case, and a segment of a pattern is the set of the names it matches.       *)
EXTENDS Integers, Sequences, FiniteSetsExt

CONSTANTS
    Builtin,            \* DEFAULT_SKIP_DIRS and what DEFAULT_SKIP_DIR_PATTERNS match
    DefaultAllowlist,   \* built-in entries, then those of NOVA_INDEX_ALLOWLIST
    Scope,              \* NOVA_ALLOWLIST_SCOPE
    LookthroughDepth,   \* DEFAULT_LOOKTHROUGH_DEPTH
    Globstar            \* the segment `**`

ASSUME IgnoreConstants ==
    /\ Scope \in {"deep", "gitignored", "shallow"}
    /\ LookthroughDepth \in Nat

Upto(path, n) == SubSeq(path, 1, n)
From(path, n) == SubSeq(path, n, Len(path))
Parent(path) == Upto(path, Len(path) - 1)
Name(path) == path[Len(path)]
Names(path) == {path[i] : i \in DOMAIN path}

\* The names of the directories a path goes through, itself one or not.
Directories(path, isDir) == Names(IF isDir THEN path ELSE Parent(path))

--------------------------------------------------------------------------------
(* The allowlist: an entry names a directory or a file, or takes one back.    *)

\* Allowlist.__init__: what is nearer to the project comes later and wins.
Allowlist(rules) == DefaultAllowlist \o rules.include

\* The last entry that hits decides.
Decides(list, hit(_)) ==
    LET hits == {i \in DOMAIN list : hit(list[i])}
    IN hits # {} /\ ~list[Max(hits)].negated

\* matched_entry, allows: a directory's entry covers all that is below it.
Allows(rules, path, isDir) ==
    LET hit(e) == IF e.dir THEN e.name \in Directories(path, isDir) ELSE e.name = Name(path)
    IN Decides(Allowlist(rules), hit)

\* dir_matches
DirMatches(rules, path) ==
    /\ Allows(rules, path, TRUE)
    /\ LET hits == {i \in DOMAIN Allowlist(rules) :
                      LET e == Allowlist(rules)[i]
                      IN IF e.dir THEN e.name \in Names(path) ELSE e.name = Name(path)}
       IN Allowlist(rules)[Max(hits)].dir

\* matches_name: one name, whatever it is the name of.
MatchesName(rules, name) ==
    LET hit(e) == e.name = name IN Decides(Allowlist(rules), hit)

\* descent_policy
DescentPolicy(rules, dir) ==
    CASE Scope = "shallow" -> "none"
      [] Scope = "gitignored" -> IF DirMatches(rules, dir) THEN "always" ELSE "none"
      [] Scope = "deep" -> "by-name"

\* _has_allowlisted_child
HasAllowlistedChild(rules, files, dir) ==
    \E f \in files : /\ Len(f) > Len(dir) /\ Upto(f, Len(dir)) = dir
                     /\ MatchesName(rules, f[Len(dir) + 1])

--------------------------------------------------------------------------------
(* Patterns.  A rule is a compiled line of an ignore file in directory `base`. *)

\* _glob_to_regex: `**` stands for any number of directories, and at the end
\* of a pattern for everything below.
Denotes(glob, path) ==
    LET end == Len(path) + 1
        \* from the g-th segment on it denotes the names from the n-th on
        rest[g \in 1..(Len(glob) + 1), n \in 1..end] ==
            IF g > Len(glob) THEN n = end
            ELSE IF glob[g] = Globstar
            THEN IF g = Len(glob) THEN n < end ELSE \E m \in n..end : rest[g + 1, m]
            ELSE n < end /\ path[n] \in glob[g] /\ rest[g + 1, n + 1]
    IN  rest[1, 1]

\* _compile_matcher: the rule names this very path; a pattern with a slash
\* is anchored to its directory, any other matches at every depth below it.
Itself(rule, path) ==
    LET rel == From(path, Len(rule.base) + 1) IN
    /\ Len(path) > Len(rule.base) /\ Upto(path, Len(rule.base)) = rule.base
    /\ IF rule.anchored THEN Denotes(rule.glob, rel)
       ELSE \E n \in 1..Len(rel) : Denotes(rule.glob, From(rel, n))

\* And what is below what it names; a rule with a slash at its end names only
\* directories.
Subtree(rule, path, isDir) ==
    \E n \in 1..Len(path) : Itself(rule, Upto(path, n)) /\ (n < Len(path) \/ isDir \/ ~rule.dirOnly)

\* _excluded_ancestor
ExcludedAncestor(layer, path) ==
    \E n \in 1..(Len(path) - 1), i \in DOMAIN layer :
        layer[i].dirOnly /\ ~layer[i].negated /\ Itself(layer[i], Upto(path, n))

\* _Layer.decide: the last rule that hits decides, and `!` does not bring
\* back what an excluded directory holds.
Decide(layer, path, isDir, initial) ==
    LET hits == {i \in DOMAIN layer : Subtree(layer[i], path, isDir)} IN
    IF hits = {} THEN initial
    ELSE ~layer[Max(hits)].negated \/ ExcludedAncestor(layer, path)

\* _builtin_dir_hit
BuiltinHit(path, isDir) == Directories(path, isDir) \cap Builtin # {}

\* IgnoreRules.is_ignored
IsIgnored(rules, path, isDir) ==
    \/ BuiltinHit(path, isDir)
    \/ /\ ~Allows(rules, path, isDir)
       /\ Decide(rules.nova, path, isDir, Decide(rules.git, path, isDir, FALSE))

--------------------------------------------------------------------------------
(* The server's walk (DirectorySource).  A directory's value is what is left  *)
(* of the look-through when it is entered: all of it outside ignored          *)
(* directories, Closed when it is not entered.                                *)

Closed == -1

ChildDescend(rules, files, path) ==
    LET left[n \in DOMAIN path] ==
            LET dir == Upto(path, n)
                budget == IF n = 1 THEN LookthroughDepth ELSE left[n - 1]
            IN  IF budget = Closed \/ BuiltinHit(dir, TRUE) THEN Closed
                ELSE IF ~IsIgnored(rules, dir, TRUE) THEN LookthroughDepth
                ELSE IF /\ DescentPolicy(rules, dir) = "by-name" /\ budget > 0
                        /\ HasAllowlistedChild(rules, files, dir)
                THEN budget - 1 ELSE Closed
    IN  left[Len(path)]

Entered(rules, files, dir) == dir = <<>> \/ ChildDescend(rules, files, dir) # Closed

\* _walk
ListFiles(rules, files) ==
    {f \in files : Entered(rules, files, Parent(f)) /\ ~IsIgnored(rules, f, FALSE)}

--------------------------------------------------------------------------------
(* The client's walk (ignore.rs): one walker obeys the ignore files, another   *)
(* looks only for what the allowlist brings back.                             *)

\* filter_entry of both: files too are left out by a built-in name.
Pruned(path) == Names(path) \cap Builtin # {}

\* The ignore crate on one entry: the last rule of the stronger layer that
\* names it.  Below an ignored directory it does not look.
CrateIgnores(rules, path, isDir) ==
    LET hits(layer) == {i \in DOMAIN layer : Itself(layer[i], path) /\ (isDir \/ ~layer[i].dirOnly)}
        last(layer) == ~layer[Max(hits(layer))].negated
    IN IF hits(rules.nova) # {} THEN last(rules.nova)
       ELSE hits(rules.git) # {} /\ last(rules.git)

Walker(rules, files) ==
    {f \in files : ~Pruned(f) /\ \A n \in 1..Len(f) : ~CrateIgnores(rules, Upto(f, n), n < Len(f))}

\* Allowlist::allows: an entry that is taken back is taken back as a directory
\* and as a file.
ClientAllows(rules, path, isDir) ==
    LET hit(e) == \/ (e.dir \/ e.negated) /\ e.name \in Directories(path, isDir)
                  \/ (~e.dir \/ e.negated) /\ e.name = Name(path)
    IN Decides(Allowlist(rules), hit)

\* Mutant: the directory itself is counted.
ProbeBudgetInclusive(rules, dir) ==
    LET allowed == {n \in 1..(Len(dir) - 1) : ClientAllows(rules, Upto(dir, n), TRUE)}
    IN LookthroughDepth - (IF allowed = {} THEN Len(dir) ELSE Min(allowed) - 1)

\* probe_budget: every directory above costs one, up to the first allowed one.
ProbeBudget(rules, dir) ==
    LET allowed == {n \in 1..(Len(dir) - 1) : ClientAllows(rules, Upto(dir, n), TRUE)}
    IN LookthroughDepth - (IF allowed = {} THEN Len(dir) - 1 ELSE Min(allowed) - 1)

AllowlistWalk(rules, files) ==
    LET looks(dir) == \/ ClientAllows(rules, dir, TRUE)
                      \/ ProbeBudget(rules, dir) > 0 /\ HasAllowlistedChild(rules, files, dir)
    IN {f \in files : /\ ~Pruned(f) /\ ClientAllows(rules, f, FALSE)
                      /\ \A n \in 1..(Len(f) - 1) : looks(Upto(f, n))}

WalkUnion(rules, files) == Walker(rules, files) \cup AllowlistWalk(rules, files)

\* ignore_files_fingerprint: the ignore files of the root and of its
\* directories, and the root's .novainclude.
Fingerprint(rules) ==
    LET near(layer) == SelectSeq(layer, LAMBDA rule : Len(rule.base) <= 1)
    IN [nova |-> near(rules.nova), git |-> near(rules.git), include |-> rules.include]

================================================================================
