------------------------------- MODULE MCService -------------------------------
(* Accounts and Search for TLC in one run, one at a time: who a request is by is  *)
(* settled before it comes to the engine, and the two share no state.             *)
EXTENDS MCAccounts, MCSearch

VARIABLE subject        \* what is looked at

serviceVars == <<vars, searchVars, subject>>

\* The search and the accounts while the other one is looked at.
SomeSearch == SearchInit /\ gone = {} /\ live = Chunk
SomeAccounts == Init /\ users = NoUsers /\ sessions = {}

ServiceInit ==
    \/ subject = "accounts" /\ Init /\ SomeSearch
    \/ subject = "search" /\ SearchInit /\ SomeAccounts

ServiceNext ==
    /\ UNCHANGED subject
    /\ \/ subject = "accounts" /\ Next /\ UNCHANGED searchVars
       \/ subject = "search" /\ SearchNext /\ UNCHANGED vars

ServiceSpec == ServiceInit /\ [][ServiceNext]_serviceVars

================================================================================
