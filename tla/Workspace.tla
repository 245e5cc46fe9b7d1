------------------------------- MODULE Workspace -------------------------------
(* One checkout in the two ways the program indexes it: uploaded by clients to  *)
(* a server elsewhere, or read by a server in local mode.  A third mode only    *)
(* compares the two walks, over more rules and files than the other modes       *)
(* follow.                                                                      *)
EXTENDS ClientSync, LocalScan

CONSTANTS
    SurveyFiles,    \* sets of files
    SurveyRules     \* the ignore files to compare the walks under

VARIABLES mode, tree

vars == <<checkout, bounds, client, server, localVars, mode, tree>>

Init ==
    \/ /\ mode = "remote" /\ tree = {}
       /\ CheckoutInit /\ ClientInit
       /\ LocalInit /\ ~live
    \/ /\ mode = "local" /\ tree = {}
       /\ CheckoutInit /\ ClientInit /\ LocalInit
    \/ /\ mode = "survey" /\ tree \in SurveyFiles
       /\ rules \in SurveyRules /\ disk = None
       /\ edits = 0 /\ calls = 0 /\ faults = 0
       /\ ClientInit /\ LocalInit /\ ~live

Next ==
    /\ UNCHANGED <<mode, tree>>
    /\ \/ mode = "remote" /\ ClientNext /\ UNCHANGED localVars
       \/ mode = "local" /\ LocalNext /\ UNCHANGED <<client, server>>
       \/ mode # "survey" /\ UserEdits /\ UNCHANGED <<client, server, localVars>>

FairSpec == Init /\ [][Next]_vars /\ ClientFairness

--------------------------------------------------------------------------------
(* Properties.                                                               *)

\* `!` in an ignore file, which the two implementations read differently.
TakesBack == \E list \in {rules.nova, rules.git} : \E i \in DOMAIN list : list[i].negated

\* The allowlist brings the file back, below a directory that nothing ignores.
RescuedBelowUnignored(f) ==
    /\ Allows(rules, f, FALSE)
    /\ \E n \in 1..(Len(f) - 1) :
        LET dir == Upto(f, n) IN ~IsIgnored(rules, dir, TRUE) /\ ~Allows(rules, dir, TRUE)

\* The client uploads the files that the server's local mode would index: the
\* two walks, written twice in two languages, agree (R42), on the allowlist,
\* the built-in directories, the ignore files of every directory, and how far
\* an ignored directory is looked through.  Excepted are `!` in an ignore
\* file, files named like a built-in directory, and files brought back below
\* a directory that is not ignored, which only the server always finds
\* (ignore.rs, DirectorySource._walk).
WalksAgree ==
    mode = "survey" /\ ~TakesBack =>
        LET uploaded == WalkUnion(rules, tree)
            listed == {f \in ListFiles(rules, tree) : Name(f) \notin Builtin}
        IN /\ uploaded \subseteq listed
           /\ \A f \in listed \ uploaded : RescuedBelowUnignored(f)

\* A call of a client ends: a worker that died with the server is started
\* again.
CallEnds == \A c \in Process : pc[c] # "idle" ~> pc[c] = "idle"

================================================================================
