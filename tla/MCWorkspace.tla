------------------------------ MODULE MCWorkspace ------------------------------
(* Workspace for TLC.  Two files come and go: one below directories no rule    *)
(* names, one in a skills directory under a directory that may be ignored.     *)
EXTENDS Workspace

CONSTANTS small, big

MCContent == {small, big}
MCRefused == {big}

\* DEFAULT_ALLOWLIST, DEFAULT_SKIP_DIRS
MCDefaultAllowlist == <<[name |-> "skills", dir |-> TRUE, negated |-> FALSE],
                        [name |-> "agents.md", dir |-> FALSE, negated |-> FALSE]>>
MCBuiltin == {"node_modules", "build"}

a == <<"src", "lib", "a">>
b == <<".claude", "skills", "b">>
MCPath == {a, b}
Files(x, y) == [p \in MCPath |-> IF p = a THEN x ELSE y]
MCFirstFiles == {Files(small, small), Files(small, big), Files(Absent, small), Files(Absent, Absent)}

Rule(glob, base) == [glob |-> glob, base |-> base, anchored |-> Len(glob) > 1,
                     dirOnly |-> FALSE, negated |-> FALSE]
DirRule(glob, base) == [Rule(glob, base) EXCEPT !.dirOnly = TRUE]
Rules(nova, git, include) == [nova |-> nova, git |-> git, include |-> include]

NoRules == Rules(<<>>, <<>>, <<>>)
ClaudeIgnored == DirRule(<<{".claude"}>>, <<>>)
NotSkills == [name |-> "skills", dir |-> TRUE, negated |-> TRUE]

\* Nothing; an ignored directory that is looked through, and one that is not;
\* an ignore file too deep for the fingerprint.
MCRuleSets == {NoRules, Rules(<<>>, <<ClaudeIgnored>>, <<>>), Rules(<<>>, <<ClaudeIgnored>>, <<NotSkills>>),
               Rules(<<>>, <<Rule(<<{"a"}>>, <<"src", "lib">>)>>, <<>>)}

\* The survey: one or two lines in .gitignore, one in .novaignore, one in
\* .novainclude, over a tree and what is left of it without a file.
Docs == [name |-> "docs", dir |-> TRUE, negated |-> FALSE]
Lines == {ClaudeIgnored, Rule(<<{"a", "agents.md"}>>, <<>>), DirRule(<<{"src", "hacks"}>>, <<>>),
          Rule(<<{"hacks"}, Globstar>>, <<>>), Rule(<<Globstar, {"lib"}>>, <<>>),
          Rule(<<{"lib"}, {"a"}>>, <<"src">>), Rule(<<{"src"}, Globstar, {"a"}>>, <<>>)}
MCSurveyRules ==
    {Rules(nova, git, include) :
        nova \in {<<>>, <<Rule(<<{"src"}>>, <<>>)>>, <<DirRule(<<{"skills", "docs"}>>, <<>>)>>},
        git \in {<<>>} \cup {<<l>> : l \in Lines} \cup {<<l, m>> : l \in Lines, m \in Lines},
        include \in {<<>>, <<Docs>>, <<NotSkills>>}}

Tree == {a, b, <<"a">>, <<"agents.md">>, <<"src", "agents.md">>, <<"src", "build">>,
         <<"src", "lib", "hacks", "skills", "c">>, <<"hacks", "src", "lib", "skills", "d">>,
         <<"hacks", "docs", "agents.md">>, <<"hacks", "skills", "build", "e">>,
         <<"node_modules", "skills", "f">>}
MCSurveyFiles == {Tree} \cup {Tree \ {f} : f \in Tree}

================================================================================
