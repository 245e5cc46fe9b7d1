----------------------------- MODULE AccountsProofs -----------------------------
(***************************************************************************)
(* What Accounts promises holds for every number of users, codes, projects *)
(* and requests: invites are spent once, there is always an administrator, *)
(* a ban ends every session, and a project's directory, its row and what   *)
(* is in it have one owner.                                                *)
(***************************************************************************)
EXTENDS Accounts, TLAPS, FiniteSetTheorems, WellFoundedInduction

\* A request is at a label of its operation, and has what the label needs.
RequestOK(q) ==
    /\ q.at = "idle" => q = Idle
    /\ q.at # "idle" => q.who \in User
    /\ q.at = "session" => q.op = "open"
    /\ q.at = "create" => q.op = "bootstrap"
    /\ q.at \in {"number", "role", "ban"} => q.op = "patch" /\ q.on \in User
    /\ q.at \in {"mkdir", "claim"} <=> q.op = "resolve"
    /\ q.at \in {"lock", "write"} <=> q.op = "upload"
    /\ q.at \in {"mark", "remove", "disown"} <=> q.op \in {"delete", "purge"}
    /\ q.project # None <=> q.op \in {"resolve", "upload", "delete", "purge"}

\* A patch that bans is about somebody else; one that writes a number chose one
\* that was free in the list it read, for a new member.
PatchOK(q) ==
    /\ q.ban = "yes" => q.on # q.who
    /\ q.at = "number" => q.role = "beta" /\ q.number = 0
    /\ q.at = "role" => q.role # "none"
    /\ q.number # 0 => q.role = "beta" /\ q.number \notin q.seen

RequestInv == \A r \in Request : RequestOK(req[r]) /\ PatchOK(req[r])

\* Only members have numbers, and only known users have spent an invite.
UserInv ==
    /\ \A u \in User : users[u].number # 0 => users[u].role = "beta"
    /\ \A c \in Code : IsFiniteSet(invites[c].uses) /\ \A u \in invites[c].uses : Known(u)

\* Who writes holds the lock, the directory is there, and his it is.
WriterOK(r) ==
    req[r].at = "write" =>
        /\ lock[req[r].project] = r /\ req[r].project \in dirs
        /\ req[r].project \notin torn => owner[req[r].project] = req[r].who

WriterInv == \A r \in Request : WriterOK(r)

\* Of a project that no deletion has met while it was resolved: an owner without
\* a directory is about to be removed, a directory without an owner is about to
\* be claimed and empty, and who claims has made the directory.
OwnedOK(p) ==
    /\ owner[p] # None => p \in dirs \/ \E r \in Request : req[r].project = p /\ req[r].at = "disown"
    /\ p \in dirs => owner[p] # None \/ \E r \in Request : req[r].project = p /\ req[r].at = "claim"
    /\ owner[p] = None => content[p] = {}
    /\ owner[p] # None => content[p] \subseteq {owner[p]}
    /\ \A r \in Request : req[r].project = p /\ req[r].at = "claim" => p \in dirs

EmptyOK(p) == p \notin dirs => content[p] = {}

ProjectInv == \A p \in Project : EmptyOK(p) /\ (p \notin torn => OwnedOK(p))

IndInv ==
    /\ TypeOK /\ RequestInv /\ UserInv /\ WriterInv /\ ProjectInv
    /\ InvitesSpent /\ AdminRemains /\ BanEndsSessions

--------------------------------------------------------------------------------
(* Numbers.                                                                *)

\* A set of numbers that is not empty has a smallest one: the intervals up to its
\* members are finite sets, which have a smallest one.
LEMMA SmallestOf ==
    ASSUME NEW S, S \subseteq Nat, S # {}
    PROVE  \E n \in S : \A m \in S : n <= m
<1> DEFINE T == {0..n : n \in S}
<1>1. T \subseteq FiniteSubsetsOf(Nat) /\ T # {}
  <2>1. ASSUME NEW n \in S PROVE 0..n \in FiniteSubsetsOf(Nat)
    <3>1. IsFiniteSet(0..n)
        BY FS_Interval, 0 \in Int, n \in Int
    <3> QED BY <3>1 DEF FiniteSubsetsOf
  <2> QED BY <2>1
<1>2. PICK t \in T : \A u \in T : <<u, t>> \notin StrictSubsetOrdering(Nat)
  <2> HIDE DEF T
  <2>1. IsWellFoundedOn(StrictSubsetOrdering(Nat), FiniteSubsetsOf(Nat))
      BY FS_StrictSubsetOrderingWellFounded
  <2> QED BY <1>1, <2>1, WFMin
<1>3. PICK n \in S : t = 0..n
    OBVIOUS
<1>4. ASSUME NEW m \in S PROVE n <= m
  <2>1. SUFFICES ASSUME m < n PROVE FALSE
      BY <1>3
  <2>2. 0..m \subseteq 0..n /\ 0..m # 0..n
      BY <2>1
  <2>3. <<0..m, t>> \in StrictSubsetOrdering(Nat)
      BY <1>3, <2>2 DEF StrictSubsetOrdering
  <2> QED BY <1>2, <2>3
<1> QED BY <1>4

\* A set of numbers with a bound has a greatest one.
LEMMA GreatestOf ==
    ASSUME NEW M \in Nat, NEW S, S \subseteq 0..M, S # {}
    PROVE  \E n \in S : \A m \in S : m <= n
<1> DEFINE T == {M - n : n \in S}
<1>1. T \subseteq Nat /\ T # {}
  <2>1. ASSUME NEW n \in S PROVE M - n \in Nat
    <3>1. n \in 0..M
        OBVIOUS
    <3> QED BY <3>1
  <2> QED BY <2>1
<1>2. PICK t \in T : \A u \in T : t <= u
  <2> HIDE DEF T
  <2> QED BY <1>1, SmallestOf
<1>3. PICK n \in S : t = M - n
    OBVIOUS
<1>4. ASSUME NEW m \in S PROVE m <= n
  <2>1. M - n <= M - m
      BY <1>2, <1>3
  <2>2. n \in 0..M /\ m \in 0..M
      OBVIOUS
  <2> QED BY <2>1, <2>2
<1> QED BY <1>4

\* The highest of some numbers bounds them.
LEMMA HighestIsBound ==
    ASSUME NEW M \in Nat, NEW S, S \subseteq 1..M
    PROVE  Highest(S) \in 0..M /\ \A n \in S : n <= Highest(S)
<1>1. CASE S = {}
    BY <1>1 DEF Highest
<1>2. CASE S # {}
  <2>1. S \subseteq 0..M
      OBVIOUS
  <2>2. PICK n \in S : \A m \in S : m <= n
      BY <1>2, <2>1, GreatestOf
  <2>3. Highest(S) \in S /\ \A m \in S : m <= Highest(S)
      BY <1>2, <2>2 DEF Highest
  <2> QED BY <2>1, <2>3
<1> QED BY <1>1, <1>2

--------------------------------------------------------------------------------
(* Requests.                                                               *)

\* What a handler may leave in a request.
Proper(q) == q \in RequestRow /\ RequestOK(q) /\ PatchOK(q)

\* A request that is over holds nothing,
LEMMA IdleIsProper == Proper(Idle)
BY AccountsAssumption DEF Proper, Idle, RequestRow, RequestOK, PatchOK, Operations, Labels

\* Replacing one request by a proper one keeps them all proper.
LEMMA RequestReplaced ==
  ASSUME TypeOK, RequestInv, NEW r \in Request, NEW q, Proper(q), req' = [req EXCEPT ![r] = q]
  PROVE  req' \in [Request -> RequestRow] /\ RequestInv'
<1>1. req \in [Request -> RequestRow]
    BY DEF TypeOK
<1>2. \A s \in Request : req'[s] = IF s = r THEN q ELSE req[s]
    BY <1>1
<1>3. req' \in [Request -> RequestRow]
    BY <1>1 DEF Proper
<1>4. \A s \in Request : RequestOK(req'[s]) /\ PatchOK(req'[s])
    BY <1>2 DEF RequestInv, Proper
<1> QED BY <1>3, <1>4 DEF RequestInv

\* Every request starts, goes on and ends properly.
LEMMA BeginIsProper ==
  ASSUME TypeOK, RequestInv, NEW r \in Request, NEW q, Proper(q), Begin(r, q)
  PROVE  req' \in [Request -> RequestRow] /\ RequestInv'
BY RequestReplaced DEF Begin

\* so one that ends is proper,
LEMMA FinishIsProper ==
  ASSUME TypeOK, RequestInv, NEW r \in Request, Finish(r)
  PROVE  req' \in [Request -> RequestRow] /\ RequestInv'
BY RequestReplaced, IdleIsProper DEF Finish

\* and one that goes on is, if its new place holds what it should.
LEMMA GotoIsProper ==
  ASSUME TypeOK, RequestInv, NEW r \in Request, NEW label, Goto(r, label),
         Proper([req[r] EXCEPT !.at = label])
  PROVE  req' \in [Request -> RequestRow] /\ RequestInv'
<1>1. req' = [req EXCEPT ![r] = [req[r] EXCEPT !.at = label]]
    BY DEF Goto
<1> QED BY <1>1, RequestReplaced

\* A request of a handler that has just begun has these columns.
LEMMA FreshIsProper ==
  ASSUME NEW op, NEW label, NEW u \in User, NEW p \in Project \cup {None}, NEW q,
         q = [op |-> op, at |-> label, who |-> u, on |-> None, project |-> p, role |-> "none",
              ban |-> "keep", number |-> 0, seen |-> {}],
         \/ /\ p = None
            /\ \/ op = "open" /\ label = "session"
               \/ op = "bootstrap" /\ label = "create"
         \/ /\ p # None
            /\ \/ op = "resolve" /\ label = "mkdir"
               \/ op = "upload" /\ label = "lock"
               \/ op \in {"delete", "purge"} /\ label = "mark"
  PROVE  Proper(q)
<1>1. op \in Operations /\ label \in Labels
    BY DEF Operations, Labels
<1>2. q \in RequestRow
    BY <1>1, AccountsAssumption DEF RequestRow
<1>3. RequestOK(q)
    BY DEF RequestOK
<1>4. PatchOK(q)
    BY DEF PatchOK
<1> QED BY <1>2, <1>3, <1>4 DEF Proper

\* The request every project handler begins with.
LEMMA OnIsProper ==
  ASSUME NEW u \in User, NEW p \in Project, NEW op, NEW label,
         \/ op = "resolve" /\ label = "mkdir"
         \/ op = "upload" /\ label = "lock"
         \/ op \in {"delete", "purge"} /\ label = "mark"
  PROVE  Proper(On(op, label, u, p))
<1>1. ASSUME NEW q, q = On(op, label, u, p) PROVE Proper(q)
  <2>1. q = [op |-> op, at |-> label, who |-> u, on |-> None, project |-> p, role |-> "none",
             ban |-> "keep", number |-> 0, seen |-> {}]
      BY <1>1 DEF On, Idle
  <2> QED BY <2>1, FreshIsProper, AccountsAssumption
<1> QED BY <1>1

\* A request that is at a label of its operation is proper, and so it is at the
\* next label of that operation.
LEMMA StepsAreProper ==
  ASSUME TypeOK, RequestInv, NEW r \in Request,
         NEW label, NEW next,
         req[r].at = label,
         \/ <<label, next>> \in {<<"mkdir", "claim">>, <<"lock", "write">>, <<"mark", "remove">>,
                                 <<"mark", "disown">>, <<"remove", "disown">>}
         \/ <<label, next>> = <<"role", "ban">>
  PROVE  Proper([req[r] EXCEPT !.at = next])
<1>1. req[r] \in RequestRow /\ RequestOK(req[r]) /\ PatchOK(req[r])
    BY DEF TypeOK, RequestInv
<1>2. [req[r] EXCEPT !.at = next] \in RequestRow
    BY <1>1 DEF RequestRow, Labels
<1>3. RequestOK([req[r] EXCEPT !.at = next])
    BY <1>1 DEF RequestOK, RequestRow, Idle
<1>4. PatchOK([req[r] EXCEPT !.at = next])
    BY <1>1 DEF PatchOK, RequestRow
<1> QED BY <1>2, <1>3, <1>4 DEF Proper

\* Every step keeps the requests proper.
LEMMA RequestStep ==
  ASSUME TypeOK, RequestInv, [Next]_vars
  PROVE  req' \in [Request -> RequestRow] /\ RequestInv'
<1> DEFINE Kept == req' \in [Request -> RequestRow] /\ RequestInv'
<1>0. ASSUME UNCHANGED req PROVE Kept
    BY <1>0 DEF TypeOK, RequestInv
<1>1. ASSUME NEW r \in Request, NEW u \in User, NEW c \in Code, Register(r, u, c) PROVE Kept
  <2>1. ASSUME NEW q, q = [Idle EXCEPT !.op = "open", !.at = "session", !.who = u]
        PROVE  Proper(q)
    <3>1. q = [op |-> "open", at |-> "session", who |-> u, on |-> None, project |-> None,
               role |-> "none", ban |-> "keep", number |-> 0, seen |-> {}]
        BY <2>1 DEF Idle
    <3> QED BY <3>1, FreshIsProper
  <2> QED BY <1>1, <2>1, BeginIsProper DEF Register
<1>2. ASSUME NEW r \in Request, NEW u \in User, Bootstrap(r, u) PROVE Kept
  <2>1. ASSUME NEW q, q = [Idle EXCEPT !.op = "bootstrap", !.at = "create", !.who = u]
        PROVE  Proper(q)
    <3>1. q = [op |-> "bootstrap", at |-> "create", who |-> u, on |-> None, project |-> None,
               role |-> "none", ban |-> "keep", number |-> 0, seen |-> {}]
        BY <2>1 DEF Idle
    <3> QED BY <3>1, FreshIsProper
  <2> QED BY <1>2, <2>1, BeginIsProper DEF Bootstrap
<1>3. ASSUME NEW r \in Request, NEW u \in User, Login(r, u) PROVE Kept
  <2>1. ASSUME NEW q, q = [Idle EXCEPT !.op = "open", !.at = "session", !.who = u]
        PROVE  Proper(q)
    <3>1. q = [op |-> "open", at |-> "session", who |-> u, on |-> None, project |-> None,
               role |-> "none", ban |-> "keep", number |-> 0, seen |-> {}]
        BY <2>1 DEF Idle
    <3> QED BY <3>1, FreshIsProper
  <2> QED BY <1>3, <2>1, BeginIsProper DEF Login
<1>4. ASSUME NEW r \in Request, NEW u \in User, NEW v \in User,
             NEW role \in Roles \cup {"none"}, NEW ban \in {"keep", "yes", "no"},
             Patch(r, u, v, role, ban)
      PROVE  Kept
  <2> DEFINE q == [Idle EXCEPT !.op = "patch", !.at = "number", !.who = u, !.on = v,
                               !.role = role, !.ban = ban]
             first == IF role = "beta" /\ users[v].role # "beta" /\ users[v].number = 0 THEN q
                      ELSE [q EXCEPT !.at = IF role = "none" THEN "ban" ELSE "role"]
  <2>1. ASSUME NEW x, x = q
        PROVE  x = [op |-> "patch", at |-> "number", who |-> u, on |-> v, project |-> None,
                    role |-> role, ban |-> ban, number |-> 0, seen |-> {}]
      BY <2>1 DEF Idle
  <2>2. ban = "yes" => v # u
    <3>1. q.ban = ban /\ q.on = v
        BY <2>1
    <3> QED BY <1>4, <3>1 DEF Patch, MayPatch
  <2>3. Proper(first)
    <3>1. SUFFICES ASSUME NEW f, f = first PROVE Proper(f)
        OBVIOUS
    <3>2. PICK label \in {"number", "role", "ban"} :
             /\ f = [op |-> "patch", at |-> label, who |-> u, on |-> v, project |-> None,
                      role |-> role, ban |-> ban, number |-> 0, seen |-> {}]
             /\ label = "number" => role = "beta"
             /\ label = "role" => role # "none"
      <4>1. CASE role = "beta" /\ users[v].role # "beta" /\ users[v].number = 0
          BY <2>1, <3>1, <4>1
      <4>2. CASE ~(role = "beta" /\ users[v].role # "beta" /\ users[v].number = 0)
        <5>1. CASE role = "none"
            BY <3>1, <4>2, <5>1 DEF Idle
        <5>2. CASE role # "none"
            BY <3>1, <4>2, <5>2 DEF Idle
        <5> QED BY <5>1, <5>2
      <4> QED BY <4>1, <4>2
    <3> HIDE DEF first
    <3>3. f \in RequestRow
        BY <3>2, AccountsAssumption DEF RequestRow, Operations, Labels, Roles
    <3>4. RequestOK(f)
        BY <3>2 DEF RequestOK
    <3>5. PatchOK(f)
        BY <3>2, <2>2 DEF PatchOK
    <3> QED BY <3>3, <3>4, <3>5 DEF Proper
  <2>4. Begin(r, first)
      BY <1>4 DEF Patch
  <2> QED BY <2>3, <2>4, BeginIsProper
<1>5. ASSUME NEW r \in Request, NEW u \in User, NEW p \in Project, Resolve(r, u, p) PROVE Kept
  <2>1. Proper(On("resolve", "mkdir", u, p))
      BY OnIsProper
  <2> QED BY <1>5, <2>1, BeginIsProper DEF Resolve, Enter
<1>6. ASSUME NEW r \in Request, NEW u \in User, NEW p \in Project, Upload(r, u, p) PROVE Kept
  <2>1. Proper(On("upload", "lock", u, p))
      BY OnIsProper
  <2> QED BY <1>6, <2>1, BeginIsProper DEF Upload, Enter
<1>7. ASSUME NEW r \in Request, NEW u \in User, NEW p \in Project, Delete(r, u, p) PROVE Kept
  <2>1. Proper(On("delete", "mark", u, p)) /\ Proper(On("purge", "mark", u, p))
      BY OnIsProper
  <2> QED BY <1>7, <2>1, BeginIsProper DEF Delete, Enter
<1>8. ASSUME NEW r \in Request, BootstrapCreate(r) PROVE Kept
  <2>1. ASSUME NEW q, q = [req[r] EXCEPT !.op = "open", !.at = "session"]
        PROVE  Proper(q)
    <3>1. req[r] \in RequestRow /\ RequestOK(req[r]) /\ PatchOK(req[r]) /\ req[r].at = "create"
        BY <1>8 DEF TypeOK, RequestInv, BootstrapCreate, At
    <3>2. q \in RequestRow
        BY <2>1, <3>1 DEF RequestRow, Operations, Labels
    <3>3. /\ q.op = "open" /\ q.at = "session" /\ q.who = req[r].who
          /\ q.project = req[r].project /\ q.ban = req[r].ban /\ q.on = req[r].on
          /\ q.number = req[r].number /\ q.role = req[r].role /\ q.seen = req[r].seen
        BY <2>1, <3>1 DEF RequestRow
    <3>4. RequestOK(q)
        BY <3>1, <3>3 DEF RequestOK
    <3>5. PatchOK(q)
        BY <3>1, <3>3 DEF PatchOK
    <3> QED BY <3>2, <3>4, <3>5 DEF Proper
  <2>2. CASE Known(req[r].who)
      BY <1>8, <2>2, FinishIsProper DEF BootstrapCreate
  <2>3. CASE ~Known(req[r].who)
    <3>1. req' = [req EXCEPT ![r] = [req[r] EXCEPT !.op = "open", !.at = "session"]]
        BY <1>8, <2>3 DEF BootstrapCreate
    <3> QED BY <3>1, <2>1, RequestReplaced
  <2> QED BY <2>2, <2>3
<1>9. ASSUME NEW r \in Request, IssueSession(r) PROVE Kept
    BY <1>9, FinishIsProper DEF IssueSession
<1>10. ASSUME NEW r \in Request, ChooseNumber(r) PROVE Kept
  <2> DEFINE free == (1..MemberMax) \ Numbers
             chosen == IF free = {} THEN 0 ELSE CHOOSE n \in free : \A m \in free : n <= m
             q == [req[r] EXCEPT !.at = "role", !.seen = Numbers, !.number = chosen]
  <2>1. chosen \in 0..MemberMax /\ chosen \notin Numbers
    <3>1. CASE free = {}
        BY <3>1, AccountsAssumption DEF Numbers
    <3>2. CASE free # {}
      <4>1. free \subseteq Nat
          BY AccountsAssumption
      <4>2. \E n \in free : \A m \in free : n <= m
          BY <3>2, <4>1, SmallestOf
      <4> QED BY <3>2, <4>2, AccountsAssumption
    <3> QED BY <3>1, <3>2
  <2>2. Numbers \subseteq 1..MemberMax
      BY AccountsAssumption DEF TypeOK, Numbers, UserRow
  <2>4. req' = [req EXCEPT ![r] = q]
    <3>1. req' = [req EXCEPT ![r].at = "role", ![r].seen = Numbers, ![r].number = chosen]
        BY <1>10 DEF ChooseNumber
    <3> HIDE DEF chosen
    <3> QED BY <3>1 DEF TypeOK
  <2> HIDE DEF chosen
  <2>3. ASSUME NEW x, x = q PROVE Proper(x)
    <3>1. req[r] \in RequestRow /\ RequestOK(req[r]) /\ PatchOK(req[r]) /\ req[r].at = "number"
        BY <1>10 DEF TypeOK, RequestInv, ChooseNumber, At
    <3>2. x \in RequestRow
        BY <2>1, <2>2, <2>3, <3>1 DEF RequestRow, Labels
    <3>3. /\ x.at = "role" /\ x.number = chosen /\ x.seen = Numbers
          /\ x.op = req[r].op /\ x.who = req[r].who /\ x.project = req[r].project
          /\ x.ban = req[r].ban /\ x.on = req[r].on /\ x.role = req[r].role
        BY <2>3, <3>1 DEF RequestRow
    <3>4. RequestOK(x)
        BY <3>1, <3>3 DEF RequestOK
    <3>5. PatchOK(x)
        BY <2>1, <3>1, <3>3 DEF PatchOK
    <3> QED BY <3>2, <3>4, <3>5 DEF Proper
  <2> QED BY <2>3, <2>4, RequestReplaced
<1>11. ASSUME NEW r \in Request, SetRole(r) PROVE Kept
  <2>1. Proper([req[r] EXCEPT !.at = "ban"])
      BY <1>11, StepsAreProper DEF SetRole, At
  <2> QED BY <1>11, <2>1, FinishIsProper, GotoIsProper DEF SetRole
<1>12. ASSUME NEW r \in Request, SetBanned(r) PROVE Kept
    BY <1>12, FinishIsProper DEF SetBanned
<1>13. ASSUME NEW r \in Request, MakeDir(r) PROVE Kept
  <2>1. Proper([req[r] EXCEPT !.at = "claim"])
      BY <1>13, StepsAreProper DEF MakeDir, At
  <2> QED BY <1>13, <2>1, GotoIsProper DEF MakeDir
<1>14. ASSUME NEW r \in Request, Claim(r) PROVE Kept
    BY <1>14, FinishIsProper DEF Claim
<1>15. ASSUME NEW r \in Request, UploadLocks(r) PROVE Kept
  <2>1. Proper([req[r] EXCEPT !.at = "write"])
      BY <1>15, StepsAreProper DEF UploadLocks, At
  <2> QED BY <1>15, <2>1, FinishIsProper, GotoIsProper DEF UploadLocks
<1>16. ASSUME NEW r \in Request, UploadWrites(r) PROVE Kept
    BY <1>16, FinishIsProper DEF UploadWrites
<1>17. ASSUME NEW r \in Request, DeleteMarks(r) PROVE Kept
  <2>1. Proper([req[r] EXCEPT !.at = "remove"]) /\ Proper([req[r] EXCEPT !.at = "disown"])
      BY <1>17, StepsAreProper DEF DeleteMarks
  <2> QED BY <1>17, <2>1, FinishIsProper, GotoIsProper DEF DeleteMarks
<1>18. ASSUME NEW r \in Request, DeleteRemoves(r) PROVE Kept
  <2>1. Proper([req[r] EXCEPT !.at = "disown"])
      BY <1>18, StepsAreProper DEF DeleteRemoves
  <2> QED BY <1>18, <2>1, FinishIsProper, GotoIsProper DEF DeleteRemoves
<1>19. ASSUME NEW r \in Request, DeleteDisowns(r) PROVE Kept
    BY <1>19, FinishIsProper DEF DeleteDisowns
<1>20. ASSUME Restart PROVE Kept
    BY <1>20, IdleIsProper DEF Restart, RequestInv, Proper
<1>21. ASSUME \/ \E u \in User : EndSession(u) \/ SetKeys(u)
              \/ \E u \in User, c \in Code, n \in 1..2 : CreateInvite(u, c, n)
              \/ \E c \in Code : EndInvite(c)
              \/ UNCHANGED vars
       PROVE  Kept
  <2>1. UNCHANGED req
      BY <1>21 DEF EndSession, SetKeys, CreateInvite, EndInvite, vars
  <2> QED BY <2>1, <1>0
<1> HIDE DEF Kept
<1>22. ASSUME NEW r \in Request, NEW u \in User, AccountRequest(r, u) PROVE Kept
    BY <1>1, <1>2, <1>3, <1>4, <1>22 DEF AccountRequest
<1>23. ASSUME NEW r \in Request, NEW u \in User, ProjectRequest(r, u) PROVE Kept
    BY <1>5, <1>6, <1>7, <1>23 DEF ProjectRequest
<1>24. ASSUME NEW r \in Request, PatchSteps(r) \/ ProjectSteps(r) PROVE Kept
    BY <1>10, <1>11, <1>12, <1>13, <1>14, <1>15, <1>16, <1>17, <1>18, <1>19, <1>24
       DEF PatchSteps, ProjectSteps
<1>25. ASSUME NEW r \in Request,
              BootstrapCreate(r) \/ IssueSession(r) \/ PatchSteps(r) \/ ProjectSteps(r)
       PROVE  Kept
    BY <1>8, <1>9, <1>24, <1>25
<1>26. ASSUME Next PROVE Kept
    BY <1>20, <1>21, <1>22, <1>23, <1>25, <1>26 DEF Next
<1>27. ASSUME UNCHANGED vars PROVE Kept
    BY <1>21, <1>27
<1> QED BY <1>26, <1>27 DEF Kept

--------------------------------------------------------------------------------
(* Who writes what.                                                        *)

\* The steps that write users, sessions, keys or invites.
AccountWrite ==
    \/ \E r \in Request, u \in User, c \in Code : Register(r, u, c)
    \/ \E r \in Request : BootstrapCreate(r) \/ IssueSession(r) \/ SetRole(r) \/ SetBanned(r)
    \/ \E u \in User : EndSession(u) \/ SetKeys(u)
    \/ \E u \in User, c \in Code, n \in 1..2 : CreateInvite(u, c, n)
    \/ \E c \in Code : EndInvite(c)
    \/ Restart

\* Steps that write no account keep the accounts.
LEMMA OtherwiseAccountsKept ==
  ASSUME [Next]_vars, ~AccountWrite
  PROVE  UNCHANGED <<accounts, late, raced, yielded>>
<1> DEFINE Kept == UNCHANGED <<accounts, late, raced, yielded>>
<1>1. ASSUME NEW r \in Request, NEW u \in User, AccountRequest(r, u) PROVE Kept
    BY <1>1 DEF AccountRequest, AccountWrite, Bootstrap, Login, Patch, ghosts
<1>2. ASSUME NEW r \in Request, NEW u \in User, ProjectRequest(r, u) PROVE Kept
    BY <1>2 DEF ProjectRequest, Resolve, Upload, Delete, ghosts
<1>3. ASSUME NEW r \in Request, PatchSteps(r) PROVE Kept
    BY <1>3 DEF PatchSteps, AccountWrite, ChooseNumber, ghosts
<1>4. ASSUME NEW r \in Request, ProjectSteps(r) PROVE Kept
    BY <1>4 DEF ProjectSteps, MakeDir, Claim, UploadLocks, UploadWrites, DeleteMarks,
                DeleteRemoves, DeleteDisowns, ghosts
<1>5. ASSUME UNCHANGED vars PROVE Kept
    BY <1>5 DEF vars, ghosts
<1> HIDE DEF Kept
<1>6. ASSUME NEW r \in Request,
             BootstrapCreate(r) \/ IssueSession(r) \/ PatchSteps(r) \/ ProjectSteps(r)
      PROVE  Kept
    BY <1>3, <1>4, <1>6 DEF AccountWrite
<1>7. ASSUME Next PROVE Kept
    BY <1>1, <1>2, <1>6, <1>7 DEF Next, AccountWrite
<1> QED BY <1>5, <1>7 DEF Kept

\* The other steps leave the projects alone, and what the requests about projects
\* are at.
LEMMA OtherwiseProjectsKept ==
  ASSUME TypeOK, RequestInv, [Next]_vars, ~Restart, \A r \in Request : ~ProjectSteps(r)
  PROVE  /\ UNCHANGED <<projects, torn>>
         /\ \A r \in Request :
               \/ req'[r] = req[r]
               \/ req[r].project = None /\ req'[r].project = None
               \/ req[r] = Idle /\ req'[r].at \in {"mkdir", "lock", "mark"}
<1> DEFINE Settled(r) == \/ req'[r] = req[r]
                         \/ req[r].project = None /\ req'[r].project = None
                         \/ req[r] = Idle /\ req'[r].at \in {"mkdir", "lock", "mark"}
           Kept == UNCHANGED <<projects, torn>> /\ \A r \in Request : Settled(r)
<1>19. ASSUME NEW r \in Request, \A s \in Request \ {r} : req'[s] = req[s],
             req[r].project = None, req'[r].project = None
      PROVE  \A s \in Request : Settled(s)
    BY <1>19
<1>0. ASSUME NEW r \in Request, NEW q, req' = [req EXCEPT ![r] = q],
             \/ req[r].project = None /\ q.project = None
             \/ req[r] = Idle /\ q.at \in {"mkdir", "lock", "mark"}
      PROVE  \A s \in Request : Settled(s)
    BY <1>0 DEF TypeOK
<1>1. ASSUME NEW r \in Request, NEW q, Begin(r, q), q.project = None
      PROVE  \A s \in Request : Settled(s)
    BY <1>0, <1>1 DEF Begin, Idle
<1>2. ASSUME NEW r \in Request, Finish(r), req[r].project = None
      PROVE  \A s \in Request : Settled(s)
    BY <1>0, <1>2 DEF Finish, Idle
<1>3. ASSUME NEW r \in Request, req[r].op \in {"patch", "open", "bootstrap"}
      PROVE  req[r].project = None
    BY <1>3 DEF RequestInv, RequestOK
<1>4. ASSUME NEW r \in Request, NEW u \in User, NEW c \in Code, Register(r, u, c) PROVE Kept
    BY <1>1, <1>4 DEF Register, projects, ghosts, Idle
<1>5. ASSUME NEW r \in Request, NEW u \in User, Bootstrap(r, u) \/ Login(r, u) PROVE Kept
    BY <1>1, <1>5 DEF Bootstrap, Login, projects, ghosts, Idle
<1>6. ASSUME NEW r \in Request, NEW u \in User, NEW v \in User,
             NEW role \in Roles \cup {"none"}, NEW ban \in {"keep", "yes", "no"},
             Patch(r, u, v, role, ban)
      PROVE  Kept
    BY <1>1, <1>6 DEF Patch, projects, ghosts, Idle
<1>7. ASSUME NEW r \in Request, NEW u \in User, NEW p \in Project,
             Resolve(r, u, p) \/ Upload(r, u, p) \/ Delete(r, u, p)
      PROVE  Kept
    BY <1>0, <1>7 DEF Resolve, Upload, Delete, Enter, Begin, On, projects, ghosts, Idle
<1>8. ASSUME NEW r \in Request, BootstrapCreate(r) PROVE Kept
  <2>1. req[r].project = None
      BY <1>3, <1>8 DEF BootstrapCreate, At
  <2>2. CASE Known(req[r].who)
      BY <1>2, <1>8, <2>1, <2>2 DEF BootstrapCreate, projects, ghosts
  <2>3. CASE ~Known(req[r].who)
    <3>1. req' = [req EXCEPT ![r] = [req[r] EXCEPT !.op = "open", !.at = "session"]]
        BY <1>8, <2>3 DEF BootstrapCreate
    <3>2. req[r] \in RequestRow
        BY DEF TypeOK
    <3>3. \A s \in Request \ {r} : req'[s] = req[s]
        BY <3>1 DEF TypeOK
    <3>4. req'[r].project = None
        BY <3>1, <3>2, <2>1 DEF TypeOK, RequestRow
    <3> QED BY <1>19, <1>8, <2>1, <3>3, <3>4 DEF BootstrapCreate, projects, ghosts
  <2> QED BY <2>2, <2>3
<1>9. ASSUME NEW r \in Request, IssueSession(r) PROVE Kept
    BY <1>2, <1>3, <1>9 DEF IssueSession, At, projects
<1>10. ASSUME NEW r \in Request, ChooseNumber(r) PROVE Kept
  <2>1. req[r].project = None
      BY <1>3, <1>10 DEF ChooseNumber, At
  <2>2. req'[r].project = None /\ \A s \in Request \ {r} : req'[s] = req[s]
      BY <1>10, <2>1 DEF ChooseNumber, TypeOK, RequestRow
  <2> QED BY <1>19, <1>10, <2>1, <2>2 DEF ChooseNumber, projects, ghosts
<1>11. ASSUME NEW r \in Request, SetRole(r) PROVE Kept
  <2>1. req[r].project = None
      BY <1>3, <1>11 DEF SetRole, At
  <2>2. CASE Finish(r)
      BY <1>2, <1>11, <2>1, <2>2 DEF SetRole, projects
  <2>3. CASE Goto(r, "ban")
    <3>1. req'[r].project = None /\ \A s \in Request \ {r} : req'[s] = req[s]
        BY <2>1, <2>3 DEF Goto, TypeOK, RequestRow
    <3> QED BY <1>19, <1>11, <2>1, <3>1 DEF SetRole, projects
  <2> QED BY <1>11, <2>2, <2>3 DEF SetRole
<1>12. ASSUME NEW r \in Request, SetBanned(r) PROVE Kept
    BY <1>2, <1>3, <1>12 DEF SetBanned, At, projects
<1>13. ASSUME \/ \E u \in User : EndSession(u) \/ SetKeys(u)
              \/ \E u \in User, c \in Code, n \in 1..2 : CreateInvite(u, c, n)
              \/ \E c \in Code : EndInvite(c)
              \/ UNCHANGED vars
       PROVE  Kept
    BY <1>13 DEF EndSession, SetKeys, CreateInvite, EndInvite, vars, projects, ghosts
<1> HIDE DEF Kept
<1>14. ASSUME NEW r \in Request, NEW u \in User, AccountRequest(r, u) PROVE Kept
    BY <1>4, <1>5, <1>6, <1>14 DEF AccountRequest
<1>15. ASSUME NEW r \in Request, NEW u \in User, ProjectRequest(r, u) PROVE Kept
    BY <1>7, <1>15 DEF ProjectRequest
<1>16. ASSUME NEW r \in Request,
              BootstrapCreate(r) \/ IssueSession(r) \/ PatchSteps(r) \/ ProjectSteps(r)
       PROVE  Kept
    BY <1>8, <1>9, <1>10, <1>11, <1>12, <1>16 DEF PatchSteps
<1>17. ASSUME Next PROVE Kept
    BY <1>13, <1>14, <1>15, <1>16, <1>17 DEF Next
<1>18. ASSUME UNCHANGED vars PROVE Kept
    BY <1>13, <1>18
<1> QED BY <1>17, <1>18 DEF Kept

--------------------------------------------------------------------------------
(* Types.                                                                  *)

\* A free member number is within the limit and nobody's.
LEMMA MemberFacts ==
  ASSUME TypeOK
  PROVE  /\ Numbers \subseteq 1..MemberMax
         /\ NextMember \in 0..MemberMax
         /\ NextMember # 0 => NextMember \notin Numbers
<1>1. Numbers \subseteq 1..MemberMax
    BY AccountsAssumption DEF TypeOK, Numbers, UserRow
<1>2. Highest(Numbers) \in 0..MemberMax /\ \A n \in Numbers : n <= Highest(Numbers)
    BY <1>1, AccountsAssumption, HighestIsBound
<1>3. Highest(Numbers) + 1 \notin Numbers
    BY <1>1, <1>2, AccountsAssumption
<1> QED BY <1>1, <1>2, <1>3, AccountsAssumption DEF NextMember

\* A step that writes accounts keeps their types.
LEMMA AccountTypes ==
  ASSUME TypeOK, RequestInv, AccountWrite
  PROVE  /\ users' \in [User -> UserRow] /\ invites' \in [Code -> InviteRow]
         /\ {sessions', keys', late', raced'} \subseteq SUBSET User
         /\ yielded' \in BOOLEAN
<1> DEFINE Typed == /\ users' \in [User -> UserRow] /\ invites' \in [Code -> InviteRow]
                    /\ {sessions', keys', late', raced'} \subseteq SUBSET User
                    /\ yielded' \in BOOLEAN
<1>0. /\ users \in [User -> UserRow] /\ invites \in [Code -> InviteRow]
      /\ sessions \subseteq User /\ keys \subseteq User /\ late \subseteq User /\ raced \subseteq User
      /\ yielded \in BOOLEAN /\ MemberMax \in Nat
    BY AccountsAssumption DEF TypeOK
<1>1. ASSUME NEW r \in Request, NEW u \in User, NEW c \in Code, Register(r, u, c) PROVE Typed
  <2>1. Kind[c] \in Roles
      BY AccountsAssumption DEF Roles
  <2>2. ASSUME NEW n \in 0..MemberMax PROVE Account(Kind[c], n, "invite") \in UserRow
      BY <2>1 DEF Account, UserRow
  <2>3. (IF Kind[c] = "beta" THEN NextMember ELSE 0) \in 0..MemberMax
      BY MemberFacts, <1>0
  <2>4. users' \in [User -> UserRow]
      BY <1>0, <1>1, <2>2, <2>3 DEF Register
  <2>5. invites' \in [Code -> InviteRow]
    <3>1. invites[c] \in InviteRow
        BY <1>0
    <3>2. /\ invites' = [d \in Code |-> invites'[d]]
          /\ \A d \in Code \ {c} : invites'[d] = invites[d]
          /\ invites'[c] = [max |-> invites[c].max, used |-> invites[c].used + 1,
                            live |-> invites[c].live, uses |-> invites[c].uses \cup {u}]
        BY <1>0, <1>1, <3>1 DEF InviteRow, Register
    <3>3. invites'[c] \in InviteRow
        BY <3>1, <3>2 DEF InviteRow
    <3> QED BY <1>0, <3>2, <3>3
  <2> QED BY <1>0, <1>1, <2>4, <2>5 DEF Register, ghosts
<1>2. ASSUME NEW r \in Request, BootstrapCreate(r) PROVE Typed
  <2>1. Account("admin", 0, "bootstrap") \in UserRow
      BY <1>0 DEF Account, UserRow, Roles
  <2> QED BY <1>0, <1>2, <2>1 DEF BootstrapCreate, ghosts
<1>3. ASSUME NEW r \in Request, IssueSession(r) PROVE Typed
  <2>1. req[r].who \in User
      BY <1>3 DEF RequestInv, RequestOK, IssueSession, At
  <2> QED BY <1>0, <1>3, <2>1 DEF IssueSession
<1>4. ASSUME NEW r \in Request, SetRole(r) PROVE Typed
  <2>1. req[r] \in RequestRow /\ req[r].on \in User /\ req[r].role # "none"
      BY <1>4 DEF RequestInv, RequestOK, PatchOK, SetRole, At, TypeOK
  <2>2. users[req[r].on] \in UserRow
      BY <1>0, <2>1
  <2>3. users' \in [User -> UserRow]
    <3> DEFINE q == req[r]
               row == [users[q.on] EXCEPT !.role = q.role,
                          !.number = IF q.number # 0 THEN q.number
                                     ELSE IF q.role = "beta" THEN @ ELSE 0]
    <3>1. users' = [users EXCEPT ![q.on] = row]
        BY <1>0, <1>4 DEF SetRole
    <3>2. row \in UserRow
        BY <1>0, <2>1, <2>2 DEF UserRow, RequestRow
    <3> HIDE DEF row
    <3> QED BY <1>0, <3>1, <3>2
  <2>4. raced' \subseteq User
      BY <1>0, <1>4, <2>1 DEF SetRole
  <2>5. yielded' \in BOOLEAN
      BY <1>4 DEF SetRole
  <2> QED BY <1>0, <1>4, <2>3, <2>4, <2>5 DEF SetRole
<1>5. ASSUME NEW r \in Request, SetBanned(r) PROVE Typed
  <2>1. users' \in [User -> UserRow]
    <3>1. \A u \in User : [users[u] EXCEPT !.banned = (req[r].ban = "yes")] \in UserRow
        BY <1>0 DEF UserRow
    <3> QED BY <1>0, <1>5, <3>1 DEF SetBanned
  <2>2. yielded' \in BOOLEAN
      BY <1>5 DEF SetBanned
  <2> QED BY <1>0, <1>5, <2>1, <2>2 DEF SetBanned, SessionsWithout
<1>6. ASSUME NEW u \in User, EndSession(u) \/ SetKeys(u) PROVE Typed
    BY <1>0, <1>6 DEF EndSession, SetKeys, KeysWith, KeysWithout, ghosts
<1>7. ASSUME NEW u \in User, NEW c \in Code, NEW n \in 1..2, CreateInvite(u, c, n) PROVE Typed
    BY <1>0, <1>7 DEF CreateInvite, NewInvite, InviteRow, ghosts
<1>8. ASSUME NEW c \in Code, EndInvite(c) PROVE Typed
  <2>1. Revoked(invites[c]) \in InviteRow
      BY <1>0 DEF Revoked, InviteRow
  <2> QED BY <1>0, <1>8, <2>1 DEF EndInvite, ghosts
<1>9. ASSUME Restart PROVE Typed
  <2>1. ASSUME NEW row \in UserRow, NEW x, x = [row EXCEPT !.role = "admin", !.number = 0]
        PROVE  x \in UserRow
    <3>1. x = [role |-> "admin", banned |-> row.banned, number |-> 0, by |-> row.by]
        BY <2>1 DEF UserRow
    <3> QED BY <1>0, <3>1 DEF UserRow, Roles
  <2>2. users' \in [User -> UserRow]
      BY <1>0, <1>9, <2>1 DEF Restart
  <2> QED BY <1>0, <1>9, <2>2 DEF Restart
<1> HIDE DEF Typed
<1>10. Typed
    BY <1>1, <1>2, <1>3, <1>4, <1>5, <1>6, <1>7, <1>8, <1>9 DEF AccountWrite
<1> QED BY <1>10 DEF Typed

\* A step that writes projects keeps theirs.
LEMMA ProjectTypes ==
  ASSUME TypeOK, RequestInv, Restart \/ \E r \in Request : ProjectSteps(r)
  PROVE  /\ {dirs', deleting', torn'} \subseteq SUBSET Project
         /\ owner' \in [Project -> User \cup {None}]
         /\ content' \in [Project -> SUBSET User]
         /\ lock' \in [Project -> Request \cup {None}]
<1> DEFINE Typed == /\ {dirs', deleting', torn'} \subseteq SUBSET Project
                    /\ owner' \in [Project -> User \cup {None}]
                    /\ content' \in [Project -> SUBSET User]
                    /\ lock' \in [Project -> Request \cup {None}]
<1>0. /\ dirs \subseteq Project /\ deleting \subseteq Project /\ torn \subseteq Project
      /\ owner \in [Project -> User \cup {None}] /\ content \in [Project -> SUBSET User]
      /\ lock \in [Project -> Request \cup {None}]
    BY DEF TypeOK
<1>1. ASSUME NEW r \in Request, req[r].op \in {"resolve", "upload", "delete", "purge"}
      PROVE  req[r].who \in User /\ req[r].project \in Project
    BY <1>1, AccountsAssumption DEF RequestInv, RequestOK, TypeOK, RequestRow, Idle
<1>2. ASSUME NEW r \in Request, MakeDir(r) PROVE Typed
    BY <1>0, <1>1, <1>2 DEF MakeDir, At
<1>3. ASSUME NEW r \in Request, Claim(r) PROVE Typed
    BY <1>0, <1>1, <1>3 DEF Claim, At, ghosts
<1>4. ASSUME NEW r \in Request, UploadLocks(r) PROVE Typed
    BY <1>0, <1>1, <1>4 DEF UploadLocks, At, ghosts
<1>5. ASSUME NEW r \in Request, UploadWrites(r) PROVE Typed
    BY <1>0, <1>1, <1>5 DEF UploadWrites, At, ghosts
<1>6. ASSUME NEW r \in Request, DeleteMarks(r) PROVE Typed
    BY <1>0, <1>1, <1>6 DEF DeleteMarks, ghosts
<1>7. ASSUME NEW r \in Request, req[r].at \in {"remove", "disown"} PROVE req[r].project \in Project
    BY <1>1, <1>7 DEF RequestInv, RequestOK
<1>8. ASSUME NEW r \in Request, DeleteRemoves(r) PROVE Typed
    BY <1>0, <1>7, <1>8 DEF DeleteRemoves
<1>9. ASSUME NEW r \in Request, DeleteDisowns(r) PROVE Typed
    BY <1>0, <1>7, <1>9 DEF DeleteDisowns, OwnerDeleted
<1>10. ASSUME Restart PROVE Typed
    BY <1>0, <1>10 DEF Restart
<1> HIDE DEF Typed
<1>11. Typed
    BY <1>2, <1>3, <1>4, <1>5, <1>6, <1>8, <1>9, <1>10 DEF ProjectSteps
<1> QED BY <1>11 DEF Typed

\* The bounds on requests and restarts.
LEMMA BoundTypes ==
  ASSUME TypeOK, [Next]_vars
  PROVE  begun' \in 0..MaxRequests /\ crashes' \in 0..MaxCrashes
<1> DEFINE Typed == begun' \in 0..MaxRequests /\ crashes' \in 0..MaxCrashes
<1>0. begun \in 0..MaxRequests /\ crashes \in 0..MaxCrashes /\ MaxRequests \in Nat /\ MaxCrashes \in Nat
    BY AccountsAssumption DEF TypeOK
<1>1. ASSUME begun < MaxRequests, begun' = begun + 1, crashes' = crashes PROVE Typed
    BY <1>0, <1>1
<1>2. ASSUME NEW r \in Request, NEW u \in User, AccountRequest(r, u) PROVE Typed
  <2>1. ASSUME NEW c \in Code, Register(r, u, c) PROVE Typed
      BY <1>1, <2>1 DEF Register, Begin
  <2>2. ASSUME Bootstrap(r, u) \/ Login(r, u) PROVE Typed
      BY <1>1, <2>2 DEF Bootstrap, Login, Begin
  <2>3. ASSUME NEW v \in User, NEW role \in Roles \cup {"none"},
               NEW ban \in {"keep", "yes", "no"}, Patch(r, u, v, role, ban)
        PROVE  Typed
      BY <1>1, <2>3 DEF Patch, Begin
  <2> HIDE DEF Typed
  <2> QED BY <1>2, <2>1, <2>2, <2>3 DEF AccountRequest
<1>3. ASSUME NEW r \in Request, NEW u \in User, ProjectRequest(r, u) PROVE Typed
    BY <1>1, <1>3 DEF ProjectRequest, Resolve, Upload, Delete, Enter, Begin
<1>4. ASSUME \/ \E r \in Request :
                   BootstrapCreate(r) \/ IssueSession(r) \/ PatchSteps(r) \/ ProjectSteps(r)
             \/ UNCHANGED vars
      PROVE  Typed
  <2>1. ASSUME NEW r \in Request, BootstrapCreate(r) \/ IssueSession(r)
        PROVE  UNCHANGED <<begun, crashes>>
      BY <2>1 DEF BootstrapCreate, IssueSession
  <2>2. ASSUME NEW r \in Request, PatchSteps(r) PROVE UNCHANGED <<begun, crashes>>
      BY <2>2 DEF PatchSteps, ChooseNumber, SetRole, SetBanned
  <2>3. ASSUME NEW r \in Request, ProjectSteps(r) PROVE UNCHANGED <<begun, crashes>>
      BY <2>3 DEF ProjectSteps, MakeDir, Claim, UploadLocks, UploadWrites, DeleteMarks,
                  DeleteRemoves, DeleteDisowns
  <2>4. UNCHANGED <<begun, crashes>>
      BY <1>4, <2>1, <2>2, <2>3 DEF vars
  <2> QED BY <1>0, <2>4
<1>5. ASSUME NEW u \in User, EndSession(u) \/ SetKeys(u) PROVE Typed
    BY <1>1, <1>5 DEF EndSession, SetKeys
<1>6. ASSUME NEW u \in User, NEW c \in Code, NEW n \in 1..2, CreateInvite(u, c, n) PROVE Typed
    BY <1>1, <1>6 DEF CreateInvite
<1>7. ASSUME NEW c \in Code, EndInvite(c) PROVE Typed
    BY <1>1, <1>7 DEF EndInvite
<1>8. ASSUME Restart PROVE Typed
  <2>1. begun' = begun /\ crashes < MaxCrashes /\ crashes' = crashes + 1
      BY <1>8 DEF Restart
  <2> QED BY <1>0, <2>1
<1> HIDE DEF Typed
<1>9. ASSUME Next PROVE Typed
    BY <1>2, <1>3, <1>4, <1>5, <1>6, <1>7, <1>8, <1>9 DEF Next
<1> QED BY <1>4, <1>9 DEF Typed

\* Every step keeps the types.
LEMMA TypeStep ==
  ASSUME TypeOK, RequestInv, [Next]_vars
  PROVE  TypeOK'
<1>1. req' \in [Request -> RequestRow]
    BY RequestStep
<1>2. begun' \in 0..MaxRequests /\ crashes' \in 0..MaxCrashes
    BY BoundTypes
<1>3. /\ users' \in [User -> UserRow] /\ invites' \in [Code -> InviteRow]
      /\ {sessions', keys', late', raced'} \subseteq SUBSET User
      /\ yielded' \in BOOLEAN
  <2>1. CASE AccountWrite
      BY <2>1, AccountTypes
  <2>2. CASE ~AccountWrite
    <3>1. UNCHANGED <<users, sessions, keys, invites, late, raced, yielded>>
        BY <2>2, OtherwiseAccountsKept DEF accounts
    <3> QED BY <3>1 DEF TypeOK
  <2> QED BY <2>1, <2>2
<1>4. /\ {dirs', deleting', torn'} \subseteq SUBSET Project
      /\ owner' \in [Project -> User \cup {None}]
      /\ content' \in [Project -> SUBSET User]
      /\ lock' \in [Project -> Request \cup {None}]
  <2>1. CASE Restart \/ \E r \in Request : ProjectSteps(r)
      BY <2>1, ProjectTypes
  <2>2. CASE ~Restart /\ \A r \in Request : ~ProjectSteps(r)
    <3>1. UNCHANGED <<dirs, owner, content, lock, deleting, torn>>
        BY <2>2, OtherwiseProjectsKept DEF projects
    <3> QED BY <3>1 DEF TypeOK
  <2> QED BY <2>1, <2>2
<1> QED BY <1>1, <1>2, <1>3, <1>4 DEF TypeOK

--------------------------------------------------------------------------------
(* Accounts.                                                               *)

\* Only members have numbers, and only known users have spent an invite.
LEMMA UserStep ==
  ASSUME TypeOK, RequestInv, UserInv, [Next]_vars
  PROVE  UserInv'
<1> DEFINE Members == \A u \in User : users'[u].number # 0 => users'[u].role = "beta"
           Spent == \A c \in Code : IsFiniteSet(invites'[c].uses)
                                    /\ \A u \in invites'[c].uses : users'[u].role # "none"
           Kept == Members /\ Spent
<1>0. /\ users \in [User -> UserRow] /\ invites \in [Code -> InviteRow]
      /\ \A u \in User : users[u].number # 0 => users[u].role = "beta"
      /\ \A c \in Code : IsFiniteSet(invites[c].uses)
                         /\ \A u \in invites[c].uses : users[u].role # "none"
      /\ \A c \in Code : invites[c].uses \subseteq User
    BY DEF TypeOK, UserInv, Known, InviteRow
<1>1. ASSUME UNCHANGED <<users, invites>> PROVE Kept
    BY <1>0, <1>1
\* A user who changes stays known, and has a number as a member only.
<1>2. ASSUME NEW v \in User, UNCHANGED invites,
             users' = [users EXCEPT ![v] = users'[v]], users'[v].role # "none",
             users'[v].number # 0 => users'[v].role = "beta"
      PROVE  Kept
  <2>1. \A u \in User :
            \/ users'[u].role = users[u].role /\ users'[u].number = users[u].number
            \/ u = v
      BY <1>0, <1>2
  <2> QED BY <1>0, <1>2, <2>1
<1>3. ASSUME NEW r \in Request, NEW v \in User, NEW c \in Code, Register(r, v, c) PROVE Kept
  <2>1. /\ \A u \in User \ {v} : users'[u] = users[u]
        /\ users'[v].role = Kind[c] /\ Kind[c] # "none"
        /\ users'[v].number # 0 => Kind[c] = "beta"
      BY <1>0, <1>3, AccountsAssumption DEF Register, Account
  <2>2. /\ \A d \in Code \ {c} : invites'[d] = invites[d]
        /\ invites'[c].uses = invites[c].uses \cup {v}
      BY <1>0, <1>3 DEF Register, InviteRow
  <2>3. IsFiniteSet(invites[c].uses \cup {v})
      BY <1>0, FS_AddElement
  <2> QED BY <1>0, <2>1, <2>2, <2>3
<1>4. ASSUME NEW r \in Request, BootstrapCreate(r) PROVE Kept
  <2>1. req[r].who \in User
      BY <1>4 DEF BootstrapCreate, At, RequestInv, RequestOK
  <2>2. CASE Known(req[r].who)
      BY <1>1, <1>4, <2>2 DEF BootstrapCreate
  <2>3. CASE ~Known(req[r].who)
      BY <1>0, <1>2, <1>4, <2>1, <2>3 DEF BootstrapCreate, Account
  <2> QED BY <2>2, <2>3
<1>5. ASSUME NEW r \in Request, SetRole(r) PROVE Kept
  <2> DEFINE q == req[r]
  <2>1. q.on \in User /\ q.role # "none" /\ (q.number # 0 => q.role = "beta")
      BY <1>5 DEF SetRole, At, RequestInv, RequestOK, PatchOK
  <2>2. users[q.on] \in UserRow
      BY <1>0, <2>1
  <2>3. /\ users' = [users EXCEPT ![q.on] = users'[q.on]]
        /\ users'[q.on].role = q.role
        /\ users'[q.on].number = IF q.number # 0 THEN q.number
                                 ELSE IF q.role = "beta" THEN users[q.on].number ELSE 0
      BY <1>0, <1>5, <2>1, <2>2 DEF SetRole, UserRow
  <2>4. UNCHANGED invites
      BY <1>5 DEF SetRole
  <2> QED BY <1>2, <2>1, <2>3, <2>4
<1>6. ASSUME NEW r \in Request, SetBanned(r) PROVE Kept
  <2>1. \A u \in User : users'[u].role = users[u].role /\ users'[u].number = users[u].number
      BY <1>0, <1>6 DEF SetBanned, UserRow
  <2> QED BY <1>0, <1>6, <2>1 DEF SetBanned
<1>7. ASSUME NEW r \in Request, IssueSession(r) PROVE Kept
    BY <1>1, <1>7 DEF IssueSession
<1>14. ASSUME NEW u \in User, EndSession(u) \/ SetKeys(u) PROVE Kept
    BY <1>1, <1>14 DEF EndSession, SetKeys
<1>8. ASSUME NEW u \in User, NEW c \in Code, NEW n \in 1..2, CreateInvite(u, c, n) PROVE Kept
  <2>1. /\ \A d \in Code \ {c} : invites'[d] = invites[d]
        /\ invites'[c].uses = {} /\ users' = users
      BY <1>0, <1>8 DEF CreateInvite, NewInvite
  <2> QED BY <1>0, <2>1, FS_EmptySet
<1>9. ASSUME NEW c \in Code, EndInvite(c) PROVE Kept
  <2>1. (\A d \in Code : invites'[d].uses = invites[d].uses) /\ users' = users
      BY <1>0, <1>9 DEF EndInvite, Revoked, InviteRow
  <2> QED BY <1>0, <2>1
<1>10. ASSUME Restart PROVE Kept
  <2>1. \A u \in User : \/ users'[u] = users[u]
                        \/ users'[u].role = "admin" /\ users'[u].number = 0
    <3>1. ASSUME NEW row \in UserRow, NEW x, x = [row EXCEPT !.role = "admin", !.number = 0]
          PROVE  x.role = "admin" /\ x.number = 0
        BY <3>1 DEF UserRow
    <3>2. \A u \in User : users'[u] = IF u \in AdminName /\ Known(u) /\ ~Admin(u)
                                      THEN [users[u] EXCEPT !.role = "admin", !.number = 0]
                                      ELSE users[u]
        BY <1>10 DEF Restart
    <3> QED BY <1>0, <3>1, <3>2
  <2>2. UNCHANGED invites
      BY <1>10 DEF Restart
  <2> QED BY <1>0, <2>1, <2>2
<1> HIDE DEF Kept
<1>11. ASSUME AccountWrite PROVE Kept
    BY <1>3, <1>4, <1>5, <1>6, <1>7, <1>8, <1>9, <1>10, <1>11, <1>14 DEF AccountWrite
<1>12. ASSUME ~AccountWrite PROVE Kept
    BY <1>1, <1>12, OtherwiseAccountsKept DEF accounts
<1>13. Kept
    BY <1>11, <1>12
<1> QED BY <1>13 DEF Kept, UserInv, Known

\* An invite stays spent once for each account it made.
LEMMA InviteCountStep ==
  ASSUME TypeOK, RequestInv, UserInv, InvitesSpent, [Next]_vars
  PROVE  /\ \A c \in Code : /\ invites'[c].used = Cardinality(invites'[c].uses)
                            /\ invites'[c].used <= invites'[c].max
         /\ \A c \in Code : invites[c].uses \subseteq invites'[c].uses
<1> DEFINE Counted(c) == /\ invites'[c].used = Cardinality(invites'[c].uses)
                         /\ invites'[c].used <= invites'[c].max
                         /\ invites[c].uses \subseteq invites'[c].uses
           Kept == \A c \in Code : Counted(c)
<1>0. /\ invites \in [Code -> InviteRow]
      /\ \A c \in Code : /\ invites[c].used = Cardinality(invites[c].uses)
                         /\ invites[c].used <= invites[c].max
                         /\ invites[c].max \in Nat /\ invites[c].used \in Nat
                         /\ IsFiniteSet(invites[c].uses)
    BY DEF TypeOK, InvitesSpent, UserInv, InviteRow
<1>1. ASSUME UNCHANGED invites PROVE Kept
    BY <1>0, <1>1
<1>2. ASSUME NEW r \in Request, NEW u \in User, NEW c \in Code, Register(r, u, c) PROVE Kept
  <2>1. /\ \A d \in Code \ {c} : invites'[d] = invites[d]
        /\ invites'[c].uses = invites[c].uses \cup {u}
        /\ invites'[c].used = invites[c].used + 1 /\ invites'[c].max = invites[c].max
      BY <1>0, <1>2 DEF Register, InviteRow
  <2>2. u \notin invites[c].uses
      BY <1>2 DEF Register, UserInv
  <2>3. Cardinality(invites[c].uses \cup {u}) = Cardinality(invites[c].uses) + 1
      BY <1>0, <2>2, FS_AddElement
  <2>4. invites[c].used < invites[c].max
      BY <1>2 DEF Register, InviteUsable
  <2>5. Counted(c)
      BY <1>0, <2>1, <2>3, <2>4
  <2> QED BY <1>0, <2>1, <2>5
<1>3. ASSUME NEW u \in User, NEW c \in Code, NEW n \in 1..2, CreateInvite(u, c, n) PROVE Kept
  <2>1. /\ \A d \in Code \ {c} : invites'[d] = invites[d]
        /\ invites'[c].uses = {} /\ invites'[c].used = 0 /\ invites'[c].max = n
        /\ invites[c].uses = {}
      BY <1>0, <1>3 DEF CreateInvite, NewInvite, NoInvite
  <2>2. Counted(c)
      BY <2>1, FS_EmptySet
  <2>3. ASSUME NEW d \in Code \ {c} PROVE Counted(d)
      BY <1>0, <2>1
  <2> QED BY <2>2, <2>3
<1>4. ASSUME NEW c \in Code, EndInvite(c) PROVE Kept
  <2>1. \A d \in Code : /\ invites'[d].uses = invites[d].uses
                        /\ invites'[d].used = invites[d].used /\ invites'[d].max = invites[d].max
      BY <1>0, <1>4 DEF EndInvite, Revoked, InviteRow
  <2> QED BY <1>0, <2>1
<1>5. ASSUME NEW r \in Request, BootstrapCreate(r) \/ IssueSession(r) \/ SetRole(r) \/ SetBanned(r)
      PROVE  Kept
    BY <1>1, <1>5 DEF BootstrapCreate, IssueSession, SetRole, SetBanned
<1>6. ASSUME NEW u \in User, EndSession(u) \/ SetKeys(u) PROVE Kept
    BY <1>1, <1>6 DEF EndSession, SetKeys
<1>7. ASSUME Restart PROVE Kept
    BY <1>1, <1>7 DEF Restart
<1> HIDE DEF Kept
<1>8. ASSUME AccountWrite PROVE Kept
    BY <1>2, <1>3, <1>4, <1>5, <1>6, <1>7, <1>8 DEF AccountWrite
<1>9. ASSUME ~AccountWrite PROVE Kept
    BY <1>1, <1>9, OtherwiseAccountsKept DEF accounts
<1> QED BY <1>8, <1>9 DEF Kept

\* No two users who are not in raced get one number, and who came by an invite
\* has spent one.
LEMMA MemberStep ==
  ASSUME TypeOK, RequestInv, UserInv, InvitesSpent, [Next]_vars
  PROVE  /\ \A u \in User : users'[u].by = "invite" => \E c \in Code : u \in invites'[c].uses
         /\ \A u, v \in User :
               u # v /\ users'[u].number = users'[v].number /\ users'[u].number # 0
                  => {u, v} \cap raced' # {}
<1> DEFINE By == \A u \in User : users'[u].by = "invite" => \E c \in Code : u \in invites'[c].uses
           Apart(u, v) == users'[u].number = users'[v].number /\ users'[u].number # 0
                             => u \in raced' \/ v \in raced'
           Kept == By /\ \A u, v \in User : u # v => Apart(u, v)
<1>0. /\ users \in [User -> UserRow] /\ invites \in [Code -> InviteRow]
      /\ \A u \in User : users[u].number # 0 => users[u].role = "beta"
      /\ \A u \in User : users[u].by = "invite" => \E c \in Code : u \in invites[c].uses
      /\ \A c \in Code : invites[c].uses \subseteq invites'[c].uses
      /\ \A u, v \in User :
            u # v /\ users[u].number = users[v].number /\ users[u].number # 0
               => u \in raced \/ v \in raced
      /\ \A u \in User : users[u].number # 0 => users[u].number \in Numbers
    BY InviteCountStep DEF TypeOK, InvitesSpent, UserInv, Numbers
\* One user changes: he gets no number that another one has.
<1>1. ASSUME NEW v \in User, \A u \in User \ {v} : users'[u] = users[u],
             users'[v].by = "invite" =>
                users[v].by = "invite" \/ \E c \in Code : v \in invites'[c].uses,
             \/ users'[v].number = 0 /\ raced \ {v} \subseteq raced'
             \/ users'[v].number = users[v].number /\ raced \subseteq raced'
             \/ users'[v].number \notin Numbers /\ raced \subseteq raced'
             \/ v \in raced' /\ raced \subseteq raced'
      PROVE  Kept
  <2>1. By
      BY <1>0, <1>1
  <2>2. ASSUME NEW u \in User \ {v} PROVE Apart(u, v) /\ Apart(v, u)
      BY <1>0, <1>1
  <2>3. ASSUME NEW u \in User \ {v}, NEW w \in User \ {v}, u # w PROVE Apart(u, w)
    <3>1. users'[u] = users[u] /\ users'[w] = users[w]
        BY <1>1
    <3>2. (u \in raced => u \in raced') /\ (w \in raced => w \in raced')
        BY <1>1
    <3> QED BY <1>0, <2>3, <3>1, <3>2
  <2>4. ASSUME NEW u \in User, NEW w \in User, u # w PROVE Apart(u, w)
    <3> HIDE DEF Apart
    <3>1. CASE u = v
        BY <2>2, <2>4, <3>1 DEF Apart
    <3>2. CASE w = v
        BY <2>2, <2>4, <3>2 DEF Apart
    <3>3. CASE u # v /\ w # v
        BY <2>3, <2>4, <3>3
    <3> QED BY <3>1, <3>2, <3>3
  <2> QED BY <2>1, <2>4
<1>2. ASSUME UNCHANGED <<users, raced>> PROVE Kept
    BY <1>0, <1>2
<1>3. ASSUME NEW r \in Request, NEW u \in User, NEW c \in Code, Register(r, u, c) PROVE Kept
  <2>1. /\ \A v \in User \ {u} : users'[v] = users[v]
        /\ users'[u].number = 0 \/ users'[u].number \notin Numbers
        /\ raced' = raced
      BY <1>0, <1>3, MemberFacts DEF Register, Account, ghosts
  <2>2. u \in invites'[c].uses
      BY <1>0, <1>3 DEF Register, InviteRow
  <2> QED BY <1>1, <2>1, <2>2
<1>4. ASSUME NEW r \in Request, BootstrapCreate(r) PROVE Kept
  <2>1. req[r].who \in User
      BY <1>4 DEF BootstrapCreate, At, RequestInv, RequestOK
  <2>2. CASE Known(req[r].who)
      BY <1>2, <1>4, <2>2 DEF BootstrapCreate, ghosts
  <2>3. CASE ~Known(req[r].who)
    <3>1. /\ \A u \in User \ {req[r].who} : users'[u] = users[u]
          /\ users'[req[r].who].number = 0 /\ users'[req[r].who].by = "bootstrap"
          /\ raced' = raced
        BY <1>0, <1>4, <2>1, <2>3 DEF BootstrapCreate, Account, ghosts
    <3> QED BY <1>1, <2>1, <3>1
  <2> QED BY <2>2, <2>3
<1>5. ASSUME NEW r \in Request, SetRole(r) PROVE Kept
  <2> DEFINE q == req[r]
  <2>1. q.on \in User /\ q.role # "none" /\ (q.number # 0 => q.role = "beta" /\ q.number \notin q.seen)
      BY <1>5 DEF SetRole, At, RequestInv, RequestOK, PatchOK
  <2>2. users[q.on] \in UserRow
      BY <1>0, <2>1
  <2>3. /\ \A u \in User \ {q.on} : users'[u] = users[u]
        /\ users'[q.on].by = users[q.on].by
        /\ users'[q.on].number = IF q.number # 0 THEN q.number
                                 ELSE IF q.role = "beta" THEN users[q.on].number ELSE 0
      BY <1>0, <1>5, <2>1, <2>2 DEF SetRole, UserRow
  <2>4. raced' = IF q.number # 0 /\ q.seen # Numbers THEN raced \cup {q.on}
                 ELSE IF q.role = "beta" THEN raced ELSE raced \ {q.on}
      BY <1>5 DEF SetRole
  <2> HIDE DEF q
  <2>5. CASE q.number # 0 /\ q.seen # Numbers
      BY <1>1, <2>1, <2>3, <2>4, <2>5
  <2>6. CASE q.number # 0 /\ q.seen = Numbers
      BY <1>1, <2>1, <2>3, <2>4, <2>6
  <2>7. CASE q.number = 0
      BY <1>1, <2>1, <2>3, <2>4, <2>7
  <2> QED BY <2>5, <2>6, <2>7
<1>6. ASSUME NEW r \in Request, SetBanned(r) PROVE Kept
  <2>1. \A u \in User : users'[u].by = users[u].by /\ users'[u].number = users[u].number
      BY <1>0, <1>6 DEF SetBanned, UserRow
  <2> QED BY <1>0, <1>6, <2>1 DEF SetBanned
<1>7. ASSUME NEW r \in Request, IssueSession(r) PROVE Kept
    BY <1>2, <1>7 DEF IssueSession
<1>8. ASSUME NEW u \in User, EndSession(u) \/ SetKeys(u) PROVE Kept
    BY <1>2, <1>8 DEF EndSession, SetKeys, ghosts
<1>9. ASSUME NEW u \in User, NEW c \in Code, NEW n \in 1..2, CreateInvite(u, c, n) PROVE Kept
    BY <1>2, <1>9 DEF CreateInvite, ghosts
<1>10. ASSUME NEW c \in Code, EndInvite(c) PROVE Kept
    BY <1>2, <1>10 DEF EndInvite, ghosts
<1>11. ASSUME Restart PROVE Kept
  <2>1. ASSUME NEW row \in UserRow, NEW x, x = [row EXCEPT !.role = "admin", !.number = 0]
        PROVE  x.by = row.by /\ x.number = 0
      BY <2>1 DEF UserRow
  <2>2. \A u \in User : users'[u] = IF u \in AdminName /\ Known(u) /\ ~Admin(u)
                                    THEN [users[u] EXCEPT !.role = "admin", !.number = 0]
                                    ELSE users[u]
      BY <1>11 DEF Restart
  <2>3. \A u \in User : /\ users'[u].by = users[u].by
                        /\ users'[u].number \in {0, users[u].number}
      BY <1>0, <2>1, <2>2
  <2>4. ASSUME NEW u \in AdminName PROVE users'[u].number = 0
    <3>1. u \in User /\ users[u] \in UserRow
        BY <1>0, AccountsAssumption
    <3>2. CASE Known(u) /\ ~Admin(u)
      <4>1. users'[u] = [users[u] EXCEPT !.role = "admin", !.number = 0]
          BY <2>2, <3>1, <3>2
      <4> QED BY <2>1, <3>1, <4>1
    <3>3. CASE ~(Known(u) /\ ~Admin(u))
      <4>1. users'[u] = users[u]
          BY <2>2, <3>1, <3>3
      <4>2. users[u].role # "beta"
          BY <3>3 DEF Known, Admin
      <4> QED BY <1>0, <3>1, <4>1, <4>2
    <3> QED BY <3>2, <3>3
  <2>5. raced' = raced \ AdminName
      BY <1>11 DEF Restart
  <2> QED BY <1>0, <2>3, <2>4, <2>5
<1> HIDE DEF Kept
<1>12. ASSUME AccountWrite PROVE Kept
    BY <1>3, <1>4, <1>5, <1>6, <1>7, <1>8, <1>9, <1>10, <1>11, <1>12 DEF AccountWrite
<1>13. ASSUME ~AccountWrite PROVE Kept
    BY <1>2, <1>13, OtherwiseAccountsKept DEF accounts
<1>14. Kept
    BY <1>12, <1>13
<1> QED BY <1>14 DEF Kept

\* Every step keeps the count of an invite and the numbers of the members.
LEMMA InvitesStep ==
  ASSUME TypeOK, RequestInv, UserInv, InvitesSpent, [Next]_vars
  PROVE  InvitesSpent'
BY InviteCountStep, MemberStep DEF InvitesSpent

\* What a patch, the bootstrap and a restart write of a user's row.
LEMMA RowFacts ==
  ASSUME TypeOK, RequestInv
  PROVE  /\ \A r \in Request : SetRole(r) =>
               /\ req[r].on \in User /\ \A u \in User \ {req[r].on} : users'[u] = users[u]
               /\ users'[req[r].on].role = req[r].role
               /\ users'[req[r].on].banned = users[req[r].on].banned
               /\ users'[req[r].on].by = users[req[r].on].by
         /\ \A r \in Request : SetBanned(r) =>
               /\ req[r].on \in User /\ \A u \in User \ {req[r].on} : users'[u] = users[u]
               /\ users'[req[r].on].role = users[req[r].on].role
               /\ users'[req[r].on].banned = (req[r].ban = "yes")
               /\ users'[req[r].on].by = users[req[r].on].by
         /\ Restart => \A u \in User :
               /\ users'[u].banned = users[u].banned /\ users'[u].by = users[u].by
               /\ Admin(u) => users'[u] = users[u]
<1>0. users \in [User -> UserRow]
    BY DEF TypeOK
<1>1. ASSUME NEW r \in Request, SetRole(r)
      PROVE  /\ req[r].on \in User /\ \A u \in User \ {req[r].on} : users'[u] = users[u]
             /\ users'[req[r].on].role = req[r].role
             /\ users'[req[r].on].banned = users[req[r].on].banned
             /\ users'[req[r].on].by = users[req[r].on].by
  <2>1. req[r].on \in User
      BY <1>1 DEF SetRole, At, RequestInv, RequestOK
  <2>2. users[req[r].on] \in UserRow
      BY <1>0, <2>1
  <2> QED BY <1>0, <1>1, <2>1, <2>2 DEF SetRole, UserRow
<1>2. ASSUME NEW r \in Request, SetBanned(r)
      PROVE  /\ req[r].on \in User /\ \A u \in User \ {req[r].on} : users'[u] = users[u]
             /\ users'[req[r].on].role = users[req[r].on].role
             /\ users'[req[r].on].banned = (req[r].ban = "yes")
             /\ users'[req[r].on].by = users[req[r].on].by
  <2>1. req[r].on \in User
      BY <1>2 DEF SetBanned, At, RequestInv, RequestOK
  <2>2. users[req[r].on] \in UserRow
      BY <1>0, <2>1
  <2> QED BY <1>0, <1>2, <2>1, <2>2 DEF SetBanned, UserRow
<1>3. ASSUME Restart, NEW u \in User
      PROVE  /\ users'[u].banned = users[u].banned /\ users'[u].by = users[u].by
             /\ Admin(u) => users'[u] = users[u]
  <2>1. ASSUME NEW row \in UserRow, NEW x, x = [row EXCEPT !.role = "admin", !.number = 0]
        PROVE  x.banned = row.banned /\ x.by = row.by
      BY <2>1 DEF UserRow
  <2>2. users'[u] = IF u \in AdminName /\ Known(u) /\ ~Admin(u)
                    THEN [users[u] EXCEPT !.role = "admin", !.number = 0] ELSE users[u]
      BY <1>3 DEF Restart
  <2> QED BY <1>0, <2>1, <2>2
<1> QED BY <1>1, <1>2, <1>3

\* Every step keeps banned users without sessions.
LEMMA BanStep ==
  ASSUME TypeOK, RequestInv, BanEndsSessions, [Next]_vars
  PROVE  BanEndsSessions'
<1> DEFINE Kept == \A u \in sessions' : users'[u].banned => u \in late'
<1>0. /\ users \in [User -> UserRow] /\ sessions \subseteq User
      /\ \A u \in sessions : users[u].banned => u \in late
    BY DEF TypeOK, BanEndsSessions
<1>1. ASSUME \A u \in User : users'[u].banned => users[u].banned, UNCHANGED <<sessions, late>>
      PROVE  Kept
    BY <1>0, <1>1
<1>2. ASSUME NEW r \in Request, NEW u \in User, NEW c \in Code, Register(r, u, c) PROVE Kept
  <2>1. \A v \in User : users'[v].banned => users[v].banned
      BY <1>0, <1>2 DEF Register, Account
  <2> QED BY <1>1, <1>2, <2>1 DEF Register, ghosts
<1>3. ASSUME NEW r \in Request, BootstrapCreate(r) PROVE Kept
  <2>1. \A v \in User : users'[v].banned => users[v].banned
      BY <1>0, <1>3 DEF BootstrapCreate, Account
  <2> QED BY <1>1, <1>3, <2>1 DEF BootstrapCreate, ghosts
<1>4. ASSUME NEW r \in Request, IssueSession(r) PROVE Kept
    BY <1>0, <1>4 DEF IssueSession
<1>5. ASSUME NEW r \in Request, SetRole(r) PROVE Kept
  <2>1. \A v \in User : users'[v].banned => users[v].banned
      BY <1>5, RowFacts
  <2> QED BY <1>1, <1>5, <2>1 DEF SetRole
<1>6. ASSUME NEW r \in Request, SetBanned(r) PROVE Kept
  <2> DEFINE v == req[r].on
  <2>1. v \in User /\ (\A u \in User \ {v} : users'[u] = users[u])
        /\ users'[v].banned = (req[r].ban = "yes")
      BY <1>6, RowFacts
  <2>2. late' = late \ {v} /\ sessions' = IF req[r].ban = "yes" THEN sessions \ {v} ELSE sessions
      BY <1>6 DEF SetBanned, SessionsWithout
  <2> QED BY <1>0, <2>1, <2>2
<1>7. ASSUME NEW u \in User, EndSession(u) PROVE Kept
    BY <1>0, <1>7 DEF EndSession
<1>8. ASSUME \/ \E u \in User : SetKeys(u)
             \/ \E u \in User, c \in Code, n \in 1..2 : CreateInvite(u, c, n)
             \/ \E c \in Code : EndInvite(c)
      PROVE  Kept
  <2>1. UNCHANGED <<users, sessions, late>>
      BY <1>8 DEF SetKeys, CreateInvite, EndInvite, ghosts
  <2> QED BY <1>0, <2>1
<1>9. ASSUME Restart PROVE Kept
  <2>1. UNCHANGED <<sessions, late>>
      BY <1>9 DEF Restart
  <2> QED BY <1>1, <1>9, <2>1, RowFacts
<1> HIDE DEF Kept
<1>10. ASSUME AccountWrite PROVE Kept
    BY <1>2, <1>3, <1>4, <1>5, <1>6, <1>7, <1>8, <1>9, <1>10 DEF AccountWrite
<1>11. ASSUME ~AccountWrite PROVE Kept
  <2>1. UNCHANGED <<users, sessions, late>>
      BY <1>11, OtherwiseAccountsKept DEF accounts
  <2> QED BY <1>1, <2>1
<1>12. Kept
    BY <1>10, <1>11
<1> QED BY <1>12 DEF Kept, BanEndsSessions

\* Every step keeps an administrator.
LEMMA AdminStep ==
  ASSUME TypeOK, RequestInv, AdminRemains, [Next]_vars
  PROVE  AdminRemains'
<1> DEFINE Rules(u) == users[u].role = "admin" /\ ~users[u].banned
           RulesThen(u) == users'[u].role = "admin" /\ ~users'[u].banned
           Kept == (\E u \in User : users'[u].by = "bootstrap") => yielded' \/ \E u \in User : RulesThen(u)
<1>0. /\ users \in [User -> UserRow] /\ yielded \in BOOLEAN
      /\ (\E u \in User : users[u].by = "bootstrap") => yielded \/ \E u \in User : Rules(u)
      /\ \A u \in User : Rules(u) <=> Admin(u)
    BY DEF TypeOK, AdminRemains, Admin, Active, Known
\* It is enough that nobody comes by the bootstrap and the administrators stay.
<1>1. ASSUME \A u \in User : users'[u].by = "bootstrap" => \E v \in User : users[v].by = "bootstrap",
             \A u \in User : Rules(u) => RulesThen(u), yielded => yielded'
      PROVE  Kept
    BY <1>0, <1>1
<1>2. ASSUME NEW r \in Request, NEW u \in User, NEW c \in Code, Register(r, u, c) PROVE Kept
  <2>1. /\ \A v \in User \ {u} : users'[v] = users[v]
        /\ users'[u].by = "invite" /\ ~Rules(u)
      BY <1>0, <1>2 DEF Register, Account, Known
  <2>2. yielded' = yielded
      BY <1>2 DEF Register, ghosts
  <2> QED BY <1>1, <2>1, <2>2
<1>3. ASSUME NEW r \in Request, BootstrapCreate(r) PROVE Kept
  <2>1. req[r].who \in User
      BY <1>3 DEF BootstrapCreate, At, RequestInv, RequestOK
  <2>2. CASE Known(req[r].who)
      BY <1>1, <1>3, <2>2 DEF BootstrapCreate, ghosts
  <2>3. CASE ~Known(req[r].who)
    <3>1. RulesThen(req[r].who)
        BY <1>0, <1>3, <2>1, <2>3 DEF BootstrapCreate, Account
    <3> QED BY <2>1, <3>1
  <2> QED BY <2>2, <2>3
\* A patch that is not a yielding one leaves its administrator an administrator.
<1>4. ASSUME NEW r \in Request, req[r].who \in User, ~yielded' => RulesThen(req[r].who)
      PROVE  Kept
    BY <1>4
<1>5. ASSUME NEW r \in Request, SetRole(r) PROVE Kept
  <2> DEFINE q == req[r]
  <2>1. q.who \in User
      BY <1>5 DEF SetRole, At, RequestInv, RequestOK
  <2>2. ~yielded' => Rules(q.who) /\ (q.on = q.who => q.role = "admin")
      BY <1>0, <1>5, <2>1 DEF SetRole
  <2>3. /\ \A u \in User \ {q.on} : users'[u] = users[u]
        /\ users'[q.on].role = q.role /\ users'[q.on].banned = users[q.on].banned
      BY <1>5, RowFacts
  <2>4. ~yielded' => RulesThen(q.who)
      BY <2>1, <2>2, <2>3
  <2> QED BY <1>4, <2>1, <2>4
<1>6. ASSUME NEW r \in Request, SetBanned(r) PROVE Kept
  <2> DEFINE q == req[r]
  <2>1. q.who \in User /\ (q.ban = "yes" => q.on # q.who)
      BY <1>6 DEF SetBanned, At, RequestInv, RequestOK, PatchOK
  <2>2. ~yielded' => Rules(q.who)
      BY <1>0, <1>6, <2>1 DEF SetBanned
  <2>3. /\ \A u \in User \ {q.on} : users'[u] = users[u]
        /\ users'[q.on].role = users[q.on].role /\ users'[q.on].banned = (q.ban = "yes")
      BY <1>6, RowFacts
  <2>4. ~yielded' => RulesThen(q.who)
      BY <2>1, <2>2, <2>3
  <2> QED BY <1>4, <2>1, <2>4
<1>7. ASSUME \/ \E r \in Request : IssueSession(r)
             \/ \E u \in User : EndSession(u) \/ SetKeys(u)
             \/ \E u \in User, c \in Code, n \in 1..2 : CreateInvite(u, c, n)
             \/ \E c \in Code : EndInvite(c)
      PROVE  Kept
  <2>1. UNCHANGED <<users, yielded>>
      BY <1>7 DEF IssueSession, EndSession, SetKeys, CreateInvite, EndInvite, ghosts
  <2> QED BY <1>1, <2>1
<1>8. ASSUME Restart PROVE Kept
  <2>1. yielded' = yielded
      BY <1>8 DEF Restart
  <2>2. \A u \in User : users'[u].by = users[u].by /\ (Rules(u) => RulesThen(u))
      BY <1>0, <1>8, RowFacts
  <2> QED BY <1>1, <2>1, <2>2
<1> HIDE DEF Kept
<1>9. ASSUME AccountWrite PROVE Kept
    BY <1>2, <1>3, <1>5, <1>6, <1>7, <1>8, <1>9 DEF AccountWrite
<1>10. ASSUME ~AccountWrite PROVE Kept
  <2>1. UNCHANGED <<users, yielded>>
      BY <1>10, OtherwiseAccountsKept DEF accounts
  <2> QED BY <1>1, <2>1
<1>11. Kept
    BY <1>9, <1>10
<1>12. \A u \in User : RulesThen(u) => Admin(u)'
    BY DEF Admin, Active, Known
<1> QED BY <1>11, <1>12 DEF Kept, AdminRemains

--------------------------------------------------------------------------------
(* Projects.                                                               *)

\* A request that is about a project stays about it until it ends.
LEMMA FinishFacts ==
  ASSUME TypeOK, NEW r \in Request, Finish(r)
  PROVE  (\A s \in Request \ {r} : req'[s] = req[s]) /\ req'[r] = Idle
BY DEF TypeOK, Finish

\* What changes in a request that goes on.
LEMMA GotoFacts ==
  ASSUME TypeOK, NEW r \in Request, NEW label, Goto(r, label)
  PROVE  /\ \A s \in Request \ {r} : req'[s] = req[s]
         /\ req'[r].at = label /\ req'[r].project = req[r].project /\ req'[r].who = req[r].who
BY DEF TypeOK, Goto, RequestRow

\* Which kind of request can be at which place, and that it is about a project.
LEMMA AboutProject ==
  ASSUME TypeOK, RequestInv, NEW r \in Request
  PROVE  /\ req[r].op \in {"resolve", "upload", "delete", "purge"} =>
               req[r].project \in Project /\ req[r].who \in User
         /\ req[r].at \in {"mkdir", "claim"} <=> req[r].op = "resolve"
         /\ req[r].at \in {"lock", "write"} <=> req[r].op = "upload"
         /\ req[r].at \in {"mark", "remove", "disown"} <=> req[r].op \in {"delete", "purge"}
BY AccountsAssumption DEF TypeOK, RequestInv, RequestOK, RequestRow, Idle

\* What a step does not touch stays right: the requests of other projects and the
\* projects that keep their row, their directory and what is in it.
LEMMA Untouched ==
  ASSUME NEW p \in Project, UNCHANGED <<owner[p], content[p]>>, p \in dirs' <=> p \in dirs,
         torn \subseteq torn',
         \A r \in Request : \/ req'[r] = req[r]
                            \/ req[r].project # p /\ req'[r].project # p
                            \/ /\ req[r].at \notin {"claim", "disown"}
                               /\ req'[r].at # "claim",
         EmptyOK(p), p \notin torn => OwnedOK(p)
  PROVE  EmptyOK(p)' /\ (p \notin torn' => OwnedOK(p)')
<1>1. EmptyOK(p)'
    BY DEF EmptyOK
<1>2. ASSUME p \notin torn' PROVE OwnedOK(p)'
  <2>1. OwnedOK(p)
      BY <1>2
  <2>2. ASSUME NEW r \in Request, req[r].project = p, req[r].at \in {"claim", "disown"}
        PROVE  req'[r] = req[r]
      BY <2>2
  <2>3. ASSUME NEW r \in Request, req'[r].project = p, req'[r].at = "claim"
        PROVE  req'[r] = req[r]
      BY <2>3
  <2> QED BY <2>1, <2>2, <2>3 DEF OwnedOK
<1> QED BY <1>1, <1>2

\* Who writes is not disturbed by steps about other things.
LEMMA WriterUntouched ==
  ASSUME NEW r \in Request, WriterOK(r),
         \/ req'[r].at # "write"
         \/ /\ req'[r] = req[r] /\ lock'[req[r].project] = lock[req[r].project]
            /\ req[r].project \in dirs => req[r].project \in dirs'
            /\ req[r].project \notin torn' =>
                  req[r].project \notin torn /\ owner'[req[r].project] = owner[req[r].project]
  PROVE  WriterOK(r)'
BY DEF WriterOK

\* A step that is none of the projects' leaves them as they were.
LEMMA OtherStep ==
  ASSUME TypeOK, RequestInv, WriterInv, ProjectInv, [Next]_vars, ~Restart,
         \A r \in Request : ~ProjectSteps(r)
  PROVE  WriterInv' /\ ProjectInv'
<1>1. UNCHANGED <<dirs, owner, content, lock, deleting, torn>>
    BY OtherwiseProjectsKept DEF projects
<1>2. ASSUME NEW r \in Request
      PROVE  \/ req'[r] = req[r]
             \/ req[r].project = None /\ req'[r].project = None /\ req'[r].at # "write"
             \/ req[r].at = "idle" /\ req'[r].at \in {"mkdir", "lock", "mark"}
  <2>1. RequestOK(req'[r])
      BY RequestStep DEF RequestInv
  <2> QED BY <2>1, OtherwiseProjectsKept DEF RequestOK, Idle
<1>3. ASSUME NEW r \in Request PROVE WriterOK(r)'
    BY <1>1, <1>2, WriterUntouched DEF WriterInv
<1>4. ASSUME NEW p \in Project PROVE EmptyOK(p)' /\ (p \notin torn' => OwnedOK(p)')
  <2>1. p # None
      BY AccountsAssumption
  <2> QED BY <1>1, <1>2, <2>1, Untouched DEF ProjectInv
<1> QED BY <1>3, <1>4 DEF WriterInv, ProjectInv

\* A restart ends the requests and keeps the disk.
LEMMA RestartStep ==
  ASSUME TypeOK, RequestInv, WriterInv, ProjectInv, Restart
  PROVE  WriterInv' /\ ProjectInv'
<1>1. /\ UNCHANGED <<dirs, owner, content>> /\ \A r \in Request : req'[r] = Idle
      /\ torn' = torn \cup {p \in Project : \E r \in Request : req[r].project = p /\ req[r].op # "upload"}
    BY DEF Restart
<1>2. WriterInv'
    BY <1>1 DEF WriterInv, WriterOK, Idle
<1>3. ASSUME NEW p \in Project PROVE EmptyOK(p)'
    BY <1>1 DEF EmptyOK, ProjectInv
<1>4. ASSUME NEW p \in Project, p \notin torn' PROVE OwnedOK(p)'
  <2>1. OwnedOK(p)
      BY <1>1, <1>4 DEF ProjectInv
  <2>2. ASSUME NEW r \in Request, req[r].project = p PROVE req[r].at \notin {"claim", "disown"}
    <3>1. req[r].op = "upload"
        BY <1>1, <1>4, <2>2
    <3> QED BY <3>1, AboutProject
  <2>3. \A r \in Request : req'[r].at # "claim"
      BY <1>1 DEF Idle
  <2> QED BY <1>1, <2>1, <2>2, <2>3 DEF OwnedOK
<1> QED BY <1>2, <1>3, <1>4 DEF ProjectInv

\* The steps of a resolution: the directory,
LEMMA MakeDirStep ==
  ASSUME TypeOK, RequestInv, WriterInv, ProjectInv, NEW r \in Request, MakeDir(r)
  PROVE  WriterInv' /\ ProjectInv'
<1>1. PICK p \in Project :
         /\ p = req[r].project /\ req[r].at = "mkdir"
         /\ dirs' = dirs \cup {p} /\ torn \subseteq torn' /\ UNCHANGED <<owner, content, lock>>
    BY AboutProject DEF MakeDir, At
<1>2. /\ \A s \in Request \ {r} : req'[s] = req[s]
      /\ req'[r].at = "claim" /\ req'[r].project = p
    BY <1>1, GotoFacts DEF MakeDir
<1>3. ASSUME NEW s \in Request PROVE WriterOK(s)'
    BY <1>1, <1>2, WriterUntouched DEF WriterInv
<1>4. ASSUME NEW q \in Project, q # p PROVE EmptyOK(q)' /\ (q \notin torn' => OwnedOK(q)')
    BY <1>1, <1>2, <1>4, Untouched DEF ProjectInv
<1>5. EmptyOK(p)' /\ (p \notin torn' => OwnedOK(p)')
  <2>1. EmptyOK(p)'
      BY <1>1 DEF EmptyOK
  <2>2. ASSUME p \notin torn' PROVE OwnedOK(p)'
    <3>1. OwnedOK(p)
        BY <1>1, <2>2 DEF ProjectInv
    <3> QED BY <1>1, <1>2, <3>1 DEF OwnedOK
  <2> QED BY <2>1, <2>2
<1> QED BY <1>3, <1>4, <1>5 DEF WriterInv, ProjectInv

\* and the ownership row;
LEMMA ClaimStep ==
  ASSUME TypeOK, RequestInv, WriterInv, ProjectInv, NEW r \in Request, Claim(r)
  PROVE  WriterInv' /\ ProjectInv'
<1>1. PICK p \in Project :
         /\ p = req[r].project /\ req[r].at = "claim"
         /\ req[r].who \in User /\ req[r].who # None
         /\ UNCHANGED <<dirs, torn, content, lock>>
         /\ owner' = IF owner[p] = None THEN [owner EXCEPT ![p] = req[r].who] ELSE owner
    BY AboutProject, AccountsAssumption DEF Claim, At, ghosts
<1>2. (\A s \in Request \ {r} : req'[s] = req[s]) /\ req'[r] = Idle
    BY FinishFacts DEF Claim
<1>3. \A q \in Project : /\ q # p => owner'[q] = owner[q]
                         /\ owner[q] # None => owner'[q] = owner[q]
    BY <1>1 DEF TypeOK
<1>4. ASSUME NEW s \in Request PROVE WriterOK(s)'
  <2>1. CASE s = r
      BY <1>2, <2>1 DEF WriterOK, Idle
  <2>2. CASE s # r /\ req[s].at = "write" /\ req[s].project \notin torn
    <3>1. owner[req[s].project] = req[s].who /\ req[s].project \in Project /\ req[s].who # None
        BY <2>2, AboutProject, AccountsAssumption DEF WriterInv, WriterOK
    <3> QED BY <1>1, <1>2, <1>3, <2>2, <3>1 DEF WriterInv, WriterOK
  <2>3. CASE s # r /\ (req[s].at # "write" \/ req[s].project \in torn)
      BY <1>1, <1>2, <2>3 DEF WriterInv, WriterOK
  <2> QED BY <2>1, <2>2, <2>3
<1>5. ASSUME NEW q \in Project, q # p PROVE EmptyOK(q)' /\ (q \notin torn' => OwnedOK(q)')
  <2>1. req'[r].project # q
      BY <1>2, AccountsAssumption DEF Idle
  <2> QED BY <1>1, <1>2, <1>3, <1>5, <2>1, Untouched DEF ProjectInv
<1>6. EmptyOK(p)' /\ (p \notin torn' => OwnedOK(p)')
  <2>1. EmptyOK(p)'
      BY <1>1 DEF EmptyOK, ProjectInv
  <2>2. ASSUME p \notin torn' PROVE OwnedOK(p)'
    <3>1. OwnedOK(p) /\ p \in dirs
        BY <1>1, <2>2 DEF ProjectInv, OwnedOK
    <3>2. owner'[p] = IF owner[p] = None THEN req[r].who ELSE owner[p]
        BY <1>1 DEF TypeOK
    <3> QED BY <1>1, <1>2, <3>1, <3>2 DEF OwnedOK
  <2> QED BY <2>1, <2>2
<1> QED BY <1>4, <1>5, <1>6 DEF WriterInv, ProjectInv

\* of an upload: the lock,
LEMMA UploadLocksStep ==
  ASSUME TypeOK, RequestInv, WriterInv, ProjectInv, NEW r \in Request, UploadLocks(r)
  PROVE  WriterInv' /\ ProjectInv'
<1>1. PICK p \in Project :
         /\ p = req[r].project /\ req[r].at = "lock" /\ lock[p] = None
         /\ UNCHANGED <<dirs, owner, content, torn>>
    BY AboutProject DEF UploadLocks, At, ghosts
<1>2. \/ UNCHANGED lock /\ req'[r] = Idle
      \/ /\ p \in dirs /\ owner[p] = req[r].who /\ lock' = [lock EXCEPT ![p] = r]
         /\ req'[r].at = "write" /\ req'[r].project = p /\ req'[r].who = req[r].who
    BY <1>1, FinishFacts, GotoFacts DEF UploadLocks, Owns
<1>3. \A s \in Request \ {r} : req'[s] = req[s]
    BY FinishFacts, GotoFacts DEF UploadLocks
<1>4. ASSUME NEW s \in Request PROVE WriterOK(s)'
  <2>1. CASE s = r
      BY <1>1, <1>2, <2>1 DEF WriterOK, Idle, TypeOK
  <2>2. CASE s # r /\ req[s].at = "write"
    <3>1. lock[req[s].project] = s /\ req[s].project \in Project /\ s # None
        BY <2>2, AboutProject, AccountsAssumption DEF WriterInv, WriterOK
    <3>2. lock'[req[s].project] = lock[req[s].project]
        BY <1>1, <1>2, <3>1 DEF TypeOK
    <3> QED BY <1>1, <1>3, <2>2, <3>2, WriterUntouched DEF WriterInv
  <2>3. CASE s # r /\ req[s].at # "write"
      BY <1>3, <2>3 DEF WriterOK
  <2> QED BY <2>1, <2>2, <2>3
<1>5. ASSUME NEW q \in Project PROVE EmptyOK(q)' /\ (q \notin torn' => OwnedOK(q)')
  <2>1. req'[r].at # "claim"
      BY <1>2 DEF Idle
  <2> QED BY <1>1, <1>3, <2>1, Untouched DEF ProjectInv
<1> QED BY <1>4, <1>5 DEF WriterInv, ProjectInv

\* and the files;
LEMMA UploadWritesStep ==
  ASSUME TypeOK, RequestInv, WriterInv, ProjectInv, NEW r \in Request, UploadWrites(r)
  PROVE  WriterInv' /\ ProjectInv'
<1>1. PICK p \in Project :
         /\ p = req[r].project /\ req[r].at = "write" /\ req[r].who \in User /\ req[r].who # None
         /\ UNCHANGED <<dirs, owner, torn>>
         /\ lock' = [lock EXCEPT ![p] = None]
         /\ content' = [content EXCEPT ![p] = @ \cup {req[r].who}]
    BY AboutProject, AccountsAssumption DEF UploadWrites, At, ghosts
<1>2. (\A s \in Request \ {r} : req'[s] = req[s]) /\ req'[r] = Idle
    BY FinishFacts DEF UploadWrites
<1>3. lock[p] = r /\ p \in dirs /\ (p \notin torn => owner[p] = req[r].who)
    BY <1>1 DEF WriterInv, WriterOK
<1>4. ASSUME NEW s \in Request PROVE WriterOK(s)'
  <2>1. CASE s = r
      BY <1>2, <2>1 DEF WriterOK, Idle
  <2>2. CASE s # r /\ req[s].at = "write"
    <3>1. lock[req[s].project] = s /\ req[s].project \in Project
        BY <2>2, AboutProject DEF WriterInv, WriterOK
    <3>2. lock'[req[s].project] = lock[req[s].project]
        BY <1>1, <1>3, <2>2, <3>1 DEF TypeOK
    <3> QED BY <1>1, <1>2, <2>2, <3>2, WriterUntouched DEF WriterInv
  <2>3. CASE s # r /\ req[s].at # "write"
      BY <1>2, <2>3 DEF WriterOK
  <2> QED BY <2>1, <2>2, <2>3
<1>5. ASSUME NEW q \in Project, q # p PROVE EmptyOK(q)' /\ (q \notin torn' => OwnedOK(q)')
  <2>1. req'[r].at # "claim" /\ content'[q] = content[q]
      BY <1>1, <1>2, <1>5 DEF Idle, TypeOK
  <2> QED BY <1>1, <1>2, <2>1, Untouched DEF ProjectInv
<1>6. EmptyOK(p)' /\ (p \notin torn' => OwnedOK(p)')
  <2>1. EmptyOK(p)'
      BY <1>1, <1>3 DEF EmptyOK
  <2>2. ASSUME p \notin torn' PROVE OwnedOK(p)'
    <3>1. OwnedOK(p) /\ owner[p] = req[r].who
        BY <1>1, <1>3, <2>2 DEF ProjectInv
    <3>2. content'[p] = content[p] \cup {req[r].who}
        BY <1>1 DEF TypeOK
    <3> QED BY <1>1, <1>2, <1>3, <3>1, <3>2 DEF OwnedOK, Idle
  <2> QED BY <2>1, <2>2
<1> QED BY <1>4, <1>5, <1>6 DEF WriterInv, ProjectInv

\* of a deletion: the mark,
LEMMA DeleteMarksStep ==
  ASSUME TypeOK, RequestInv, WriterInv, ProjectInv, NEW r \in Request, DeleteMarks(r)
  PROVE  WriterInv' /\ ProjectInv'
<1>1. req[r].at = "mark" /\ UNCHANGED <<dirs, owner, content, lock, torn>>
    BY DEF DeleteMarks, ghosts
<1>2. /\ \A s \in Request \ {r} : req'[s] = req[s]
      /\ req'[r].at \in {"remove", "disown", "idle"}
    BY FinishFacts, GotoFacts DEF DeleteMarks, Idle
<1>3. ASSUME NEW s \in Request PROVE WriterOK(s)'
    BY <1>1, <1>2, WriterUntouched DEF WriterInv
<1>4. ASSUME NEW q \in Project PROVE EmptyOK(q)' /\ (q \notin torn' => OwnedOK(q)')
    BY <1>1, <1>2, Untouched DEF ProjectInv
<1> QED BY <1>3, <1>4 DEF WriterInv, ProjectInv

\* Nobody claims a project that no resolution is under way for.
LEMMA NoClaims ==
  ASSUME TypeOK, RequestInv, NEW p, ~InResolution(p), NEW r \in Request, req[r].project = p
  PROVE  req[r].at # "claim"
BY AboutProject DEF InResolution

\* the directory,
LEMMA DeleteRemovesStep ==
  ASSUME TypeOK, RequestInv, WriterInv, ProjectInv, NEW r \in Request, DeleteRemoves(r)
  PROVE  WriterInv' /\ ProjectInv'
<1>0. req[r].op \in {"delete", "purge"}
    BY AboutProject DEF DeleteRemoves
<1>1. PICK p \in Project :
         /\ p = req[r].project /\ req[r].at = "remove" /\ lock[p] = None
         /\ dirs' = dirs \ {p} /\ UNCHANGED <<owner, lock>>
         /\ content' = [content EXCEPT ![p] = {}]
         /\ torn' = IF InResolution(p) THEN torn \cup {p} ELSE torn
    BY <1>0, AboutProject DEF DeleteRemoves
<1>2. /\ \A s \in Request \ {r} : req'[s] = req[s]
      /\ \/ req'[r] = Idle /\ p \notin dirs
         \/ req'[r].at = "disown" /\ req'[r].project = p
    BY <1>1, FinishFacts, GotoFacts DEF DeleteRemoves
<1>3. ASSUME NEW s \in Request PROVE WriterOK(s)'
  <2>1. CASE s = r
      BY <1>2, <2>1 DEF WriterOK, Idle
  <2>2. CASE s # r /\ req[s].at = "write"
    <3>1. lock[req[s].project] = s /\ s # None
        BY <2>2, AccountsAssumption DEF WriterInv, WriterOK
    <3>2. req[s].project # p
        BY <1>1, <3>1
    <3> QED BY <1>1, <1>2, <2>2, <3>2, WriterUntouched DEF WriterInv
  <2>3. CASE s # r /\ req[s].at # "write"
      BY <1>2, <2>3 DEF WriterOK
  <2> QED BY <2>1, <2>2, <2>3
<1>4. ASSUME NEW q \in Project, q # p PROVE EmptyOK(q)' /\ (q \notin torn' => OwnedOK(q)')
  <2>1. req'[r].at # "claim" /\ content'[q] = content[q] /\ torn \subseteq torn'
      BY <1>1, <1>2, <1>4 DEF Idle, TypeOK
  <2>2. \A s \in Request : req'[s] = req[s] \/ (req[s].at \notin {"claim", "disown"} /\ req'[s].at # "claim")
      BY <1>1, <1>2, <2>1
  <2>3. EmptyOK(q) /\ (q \notin torn => OwnedOK(q))
      BY DEF ProjectInv
  <2>4. q \in dirs' <=> q \in dirs
      BY <1>1, <1>4
  <2> QED BY <1>1, <2>1, <2>2, <2>3, <2>4, Untouched
<1>5. EmptyOK(p)' /\ (p \notin torn' => OwnedOK(p)')
  <2>1. content'[p] = {} /\ p \notin dirs'
      BY <1>1 DEF TypeOK
  <2>2. ASSUME p \notin torn' PROVE OwnedOK(p)'
    <3>1. OwnedOK(p) /\ ~InResolution(p)
        BY <1>1, <2>2 DEF ProjectInv
    <3>2. \A s \in Request : req'[s].project = p => req'[s].at # "claim"
        BY <1>2, <3>1, NoClaims DEF Idle
    <3>3. owner[p] # None => \E s \in Request : req'[s].project = p /\ req'[s].at = "disown"
        BY <1>1, <1>2, <3>1 DEF OwnedOK
    <3> QED BY <1>1, <2>1, <3>2, <3>3 DEF OwnedOK
  <2> QED BY <2>1, <2>2 DEF EmptyOK
<1> QED BY <1>3, <1>4, <1>5 DEF WriterInv, ProjectInv

\* and the ownership row.
LEMMA DeleteDisownsStep ==
  ASSUME TypeOK, RequestInv, WriterInv, ProjectInv, NEW r \in Request, DeleteDisowns(r)
  PROVE  WriterInv' /\ ProjectInv'
<1>0. req[r].op \in {"delete", "purge"}
    BY AboutProject DEF DeleteDisowns
<1>1. PICK p \in Project :
         /\ p = req[r].project /\ req[r].at = "disown"
         /\ owner' = [owner EXCEPT ![p] = None] /\ UNCHANGED <<dirs, content, lock>>
         /\ torn' = IF InResolution(p) \/ p \in dirs THEN torn \cup {p} ELSE torn
    BY <1>0, AboutProject DEF DeleteDisowns, OwnerDeleted
<1>2. (\A s \in Request \ {r} : req'[s] = req[s]) /\ req'[r] = Idle
    BY FinishFacts DEF DeleteDisowns
<1>3. ASSUME NEW s \in Request PROVE WriterOK(s)'
  <2>1. CASE s = r
      BY <1>2, <2>1 DEF WriterOK, Idle
  <2>2. CASE s # r /\ req[s].at = "write"
    <3>1. req[s].project \in dirs /\ req[s].project \in Project
        BY <2>2, AboutProject DEF WriterInv, WriterOK
    <3>2. req[s].project \notin torn' =>
             req[s].project \notin torn /\ owner'[req[s].project] = owner[req[s].project]
        BY <1>1, <3>1 DEF TypeOK
    <3> QED BY <1>1, <1>2, <2>2, <3>2, WriterUntouched DEF WriterInv
  <2>3. CASE s # r /\ req[s].at # "write"
      BY <1>2, <2>3 DEF WriterOK
  <2> QED BY <2>1, <2>2, <2>3
<1>4. ASSUME NEW q \in Project, q # p PROVE EmptyOK(q)' /\ (q \notin torn' => OwnedOK(q)')
  <2>1. req[r].project # q /\ req'[r].project # q /\ owner'[q] = owner[q] /\ torn \subseteq torn'
      BY <1>1, <1>2, <1>4, AccountsAssumption DEF Idle, TypeOK
  <2>2. \A s \in Request : req'[s] = req[s] \/ (req[s].project # q /\ req'[s].project # q)
      BY <1>2, <2>1
  <2>3. EmptyOK(q) /\ (q \notin torn => OwnedOK(q))
      BY DEF ProjectInv
  <2> QED BY <1>1, <2>1, <2>2, <2>3, Untouched
<1>5. EmptyOK(p)' /\ (p \notin torn' => OwnedOK(p)')
  <2>1. EmptyOK(p) /\ owner'[p] = None
      BY <1>1 DEF ProjectInv, TypeOK
  <2>2. ASSUME p \notin torn' PROVE OwnedOK(p)'
    <3>1. p \notin dirs /\ ~InResolution(p)
        BY <1>1, <2>2
    <3>2. \A s \in Request : req'[s].project = p => req'[s].at # "claim"
        BY <1>2, <3>1, NoClaims DEF Idle
    <3> QED BY <1>1, <2>1, <3>1, <3>2 DEF OwnedOK, EmptyOK
  <2> QED BY <1>1, <2>1, <2>2 DEF EmptyOK
<1> QED BY <1>3, <1>4, <1>5 DEF WriterInv, ProjectInv

\* Every step keeps both.
LEMMA ProjectStep ==
  ASSUME TypeOK, RequestInv, WriterInv, ProjectInv, [Next]_vars
  PROVE  WriterInv' /\ ProjectInv'
<1>1. CASE Restart
    BY <1>1, RestartStep
<1>2. ASSUME NEW r \in Request, ProjectSteps(r) PROVE WriterInv' /\ ProjectInv'
    BY <1>2, MakeDirStep, ClaimStep, UploadLocksStep, UploadWritesStep, DeleteMarksStep,
       DeleteRemovesStep, DeleteDisownsStep DEF ProjectSteps
<1>3. CASE ~Restart /\ \A r \in Request : ~ProjectSteps(r)
    BY <1>3, OtherStep
<1> QED BY <1>1, <1>2, <1>3

--------------------------------------------------------------------------------
(* The theorems.                                                           *)

\* The invariant holds at first,
LEMMA InvInit == Init => IndInv
<1> SUFFICES ASSUME Init PROVE IndInv
    OBVIOUS
<1>1. PICK s \in Start :
         /\ users = s.users /\ sessions = s.sessions /\ keys = {} /\ invites = s.invites
         /\ owner = s.owner /\ dirs = {p \in Project : s.owner[p] # None}
    BY DEF Init
<1>2. Sound(s)
    BY StartAssumption
<1>3. /\ content = [p \in Project |-> {owner[p]} \ {None}]
      /\ lock = [p \in Project |-> None] /\ deleting = {}
      /\ req = [r \in Request |-> Idle]
      /\ late = {} /\ raced = {} /\ yielded = FALSE /\ torn = {}
      /\ begun = 0 /\ crashes = 0
    BY DEF Init
<1>4. TypeOK
  <2>1. users \in [User -> UserRow] /\ invites \in [Code -> InviteRow] /\ sessions \subseteq User
      BY <1>1, <1>2 DEF Sound
  <2>2. owner \in [Project -> User \cup {None}] /\ dirs \subseteq Project
      BY <1>1, <1>2 DEF Sound
  <2>3. content \in [Project -> SUBSET User]
      BY <1>3, <2>2
  <2>4. req \in [Request -> RequestRow]
      BY <1>3, IdleIsProper DEF Proper
  <2>5. begun \in 0..MaxRequests /\ crashes \in 0..MaxCrashes
      BY <1>3, AccountsAssumption
  <2> QED BY <1>1, <1>3, <2>1, <2>2, <2>3, <2>4, <2>5 DEF TypeOK
<1>5. RequestInv
    BY <1>3, IdleIsProper DEF RequestInv, Proper
<1>6. UserInv
    BY <1>1, <1>2 DEF Sound, UserInv, Known
<1>7. WriterInv
    BY <1>3 DEF WriterInv, WriterOK, Idle
<1>8. ProjectInv
  <2> SUFFICES ASSUME NEW p \in Project PROVE EmptyOK(p) /\ OwnedOK(p)
      BY DEF ProjectInv
  <2>1. content[p] = {owner[p]} \ {None} /\ (p \in dirs <=> owner[p] # None)
      BY <1>1, <1>3
  <2>2. \A r \in Request : req[r].at = "idle"
      BY <1>3 DEF Idle
  <2> QED BY <2>1, <2>2 DEF EmptyOK, OwnedOK
<1>9. InvitesSpent
    BY <1>1, <1>2 DEF Sound, InvitesSpent
<1>10. AdminRemains
    BY <1>1, <1>2 DEF Sound, AdminRemains, Admin, Active, Known
<1>11. BanEndsSessions
    BY <1>1, <1>2 DEF Sound, BanEndsSessions
<1> QED BY <1>4, <1>5, <1>6, <1>7, <1>8, <1>9, <1>10, <1>11 DEF IndInv

\* is kept by every step,
LEMMA InvStep == IndInv /\ [Next]_vars => IndInv'
BY TypeStep, RequestStep, UserStep, ProjectStep, InvitesStep, AdminStep, BanStep DEF IndInv

\* and so holds always.
LEMMA InvHolds == Spec => []IndInv
BY InvInit, InvStep, PTL DEF Spec

\* Every row, session and request stays of its type: a member number never passes
\* the limit (metadb.py:951), a label is one of its handler.
THEOREM TypeCorrect == Spec => []TypeOK
<1>1. IndInv => TypeOK
    BY DEF IndInv
<1> QED BY <1>1, InvHolds, PTL

\* However many users register with one code at once, it is spent once for each
\* account and never beyond its limit, and two members share a number only after
\* a patch that chose it too early (metadb.py:888, admin.py:522).
THEOREM InvitesSpentOnce == Spec => []InvitesSpent
<1>1. IndInv => InvitesSpent
    BY DEF IndInv
<1> QED BY <1>1, InvHolds, PTL

\* No order of patches, bans, bootstraps and restarts leaves the service without
\* an administrator, but for the two ways an administrator can do it himself
\* (admin.py:184).
THEOREM AdminAlwaysRemains == Spec => []AdminRemains
<1>1. IndInv => AdminRemains
    BY DEF IndInv
<1> QED BY <1>1, InvHolds, PTL

\* A ban ends every session but the one a login is just creating (metadb.py:1161).
THEOREM BanEndsEverySession == Spec => []BanEndsSessions
<1>1. IndInv => BanEndsSessions
    BY DEF IndInv
<1> QED BY <1>1, InvHolds, PTL

\* Between requests a project has a directory exactly if it has an owner, and only
\* its owner's files in it, unless a resolution and a deletion of it overlapped or
\* the process ended in the middle of one (metadb.py:1224).
THEOREM ProjectsHaveOneOwner == Spec => []ProjectsOwned
<1>1. IndInv => ProjectsOwned
  <2> SUFFICES ASSUME IndInv, NEW p \in Project, p \notin torn
               PROVE  /\ (\A r \in Request : req[r].project # p) => (p \in dirs <=> owner[p] # None)
                      /\ owner[p] # None => content[p] \subseteq {owner[p]}
      BY DEF ProjectsOwned
  <2>1. OwnedOK(p)
      BY DEF IndInv, ProjectInv
  <2> QED BY <2>1 DEF OwnedOK
<1> QED BY <1>1, InvHolds, PTL

================================================================================
