------------------------------- MODULE Checkout -------------------------------
(* The checkout on the user's machine, its ignore files and the user's edits.  *)
(* The client uploads it (ClientSync); in local mode the server reads it       *)
(* (LocalScan).                                                                *)
EXTENDS IgnoreRules

CONSTANTS
    Path,           \* the files that come and go
    Content,
    Refused,        \* contents the indexer skips: too big, binary
    Absent,         \* no file, no entry
    Unread,         \* what a file holds that cannot be read
    FirstFiles,     \* what the files can hold at first
    FirstRules,     \* the ignore files there are at first
    RuleSets,       \* what they may become
    MaxEdits,       \* edits of the checkout and its ignore files
    MaxCalls,       \* calls of the program
    MaxFaults       \* failures of any kind

ASSUME CheckoutConstants ==
    /\ Refused \subseteq Content
    /\ Absent \notin Content /\ Unread \notin Content /\ Absent # Unread
    /\ FirstFiles \subseteq [Path -> Content \cup {Absent}] /\ FirstRules \in RuleSets
    /\ MaxEdits \in Nat /\ MaxCalls \in Nat /\ MaxFaults \in Nat

VARIABLES
    disk,                   \* the files
    rules,                  \* what the ignore files say
    edits, calls, faults    \* what is left of the bounds

checkout == <<disk, rules>>
bounds == <<edits, calls, faults>>

Entries == [Path -> Content \cup {Absent}]
None == [p \in Path |-> Absent]

\* The files a directory listing shows.
Here == {p \in Path : disk[p] # Absent}

CheckoutInit ==
    /\ disk \in FirstFiles /\ rules = FirstRules
    /\ edits = MaxEdits /\ calls = MaxCalls /\ faults = MaxFaults

Edit == edits > 0 /\ edits' = edits - 1 /\ UNCHANGED <<calls, faults>>
Called == calls > 0 /\ calls' = calls - 1 /\ UNCHANGED <<edits, faults>>
Fault == faults > 0 /\ faults' = faults - 1 /\ UNCHANGED <<edits, calls>>

EditFile(p, content) ==
    /\ Edit /\ disk[p] # content
    /\ disk' = [disk EXCEPT ![p] = content] /\ UNCHANGED rules

\* .gitignore, .novaignore or .novainclude is written.
EditRules ==
    /\ Edit /\ rules' \in RuleSets \ {rules} /\ UNCHANGED disk

UserEdits ==
    \/ EditRules
    \/ \E p \in Path, content \in Content \cup {Absent, Unread} : EditFile(p, content)

================================================================================
