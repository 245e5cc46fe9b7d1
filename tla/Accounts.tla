-------------------------------- MODULE Accounts --------------------------------
(***************************************************************************)
(* Accounts, invites and project ownership of the remote service:          *)
(* nova-meta.db (metadb.py) and the handlers that use it, each a sequence  *)
(* of transactions with other requests, deletions and restarts between.    *)
(*                                                                         *)
(* A write of metadb.py is one transaction (BEGIN IMMEDIATE), so a step    *)
(* here is one transaction or one read.  What a handler read before stays  *)
(* in its request: the user the middleware authenticated, the target of a  *)
(* patch, a free member number.  A session or an API key stands for its    *)
(* user; keys differ in nothing the handlers tell apart.  The directory of *)
(* a project is named after the repository, so that two users who share a  *)
(* repository name the same project (SyncService models what is in it).    *)
(***************************************************************************)
EXTENDS Integers, FiniteSets

CONSTANTS
    User,        \* account names
    Code,        \* invite codes
    Project,     \* project ids
    Request,     \* requests in flight
    Kind,        \* the role a code gives (its first letter)
    AdminName,   \* the accounts the settings name as administrator (one or none)
    MemberMax,   \* EARLY_MEMBER_MAX
    None,        \* no user, project, code
    Start,       \* the databases the service can be started with
    MaxRequests, \* bound on requests
    MaxCrashes   \* bound on restarts

ASSUME AccountsAssumption ==
    /\ None \notin User \cup Code \cup Project \cup Request
    /\ Kind \in [Code -> {"admin", "beta", "public"}]
    /\ AdminName \subseteq User
    /\ MemberMax \in Nat /\ MaxRequests \in Nat /\ MaxCrashes \in Nat

Roles == {"admin", "beta", "public"}

\* The columns of users and invites that the handlers look at.
UserRow == [role : Roles \cup {"none"}, banned : BOOLEAN, number : 0..MemberMax,
            by : {"none", "invite", "bootstrap"}]
InviteRow == [max : Nat, used : Nat, live : BOOLEAN, uses : SUBSET User]

\* What a database holds that the service has left behind, without the races that
\* late, raced and yielded keep a record of.
Sound(s) ==
    /\ s.users \in [User -> UserRow] /\ s.sessions \subseteq User
    /\ s.invites \in [Code -> InviteRow] /\ s.owner \in [Project -> User \cup {None}]
    /\ \A u \in User : s.users[u].number # 0 => s.users[u].role = "beta"
    /\ \A u, v \in User : u # v /\ s.users[u].number = s.users[v].number => s.users[u].number = 0
    /\ \A u \in s.sessions : ~s.users[u].banned
    /\ \A c \in Code : LET uses == s.invites[c].uses IN
          /\ IsFiniteSet(uses) /\ \A u \in uses : s.users[u].role # "none"
          /\ s.invites[c].used = Cardinality(uses) /\ s.invites[c].used <= s.invites[c].max
    /\ \A u \in User : s.users[u].by = "invite" => \E c \in Code : u \in s.invites[c].uses
    /\ (\E u \in User : s.users[u].by = "bootstrap") =>
          \E u \in User : s.users[u].role = "admin" /\ ~s.users[u].banned

ASSUME StartAssumption == \A s \in Start : Sound(s)

VARIABLES
    users,     \* users: [role, banned, number, by], role "none" if there is no row
    sessions,  \* users with a session
    keys,      \* users with an API key that is not revoked
    invites,   \* invites: [max, used, live, uses]
    dirs,      \* the projects that have a directory
    owner,     \* projects.user_id
    content,   \* whose files a directory holds
    lock,      \* the project's lock
    deleting,  \* EngineManager._deleting
    req,       \* the requests in flight
    late,      \* banned users whose session was created after the ban
    raced,     \* users whose member number was chosen from a list no longer true
    yielded,   \* an administrator gave up his role, or wrote after losing it
    torn,      \* projects resolved while they were being deleted, or hit by a crash
    begun, crashes

accounts == <<users, sessions, keys, invites>>
projects == <<dirs, owner, content, lock, deleting>>
ghosts == <<late, raced, yielded, torn>>
vars == <<accounts, projects, req, ghosts, begun, crashes>>

Nobody == [role |-> "none", banned |-> FALSE, number |-> 0, by |-> "none"]
NoInvite == [max |-> 0, used |-> 0, live |-> FALSE, uses |-> {}]
Idle == [op |-> "idle", at |-> "idle", who |-> None, on |-> None,
         project |-> None, role |-> "none", ban |-> "keep", number |-> 0, seen |-> {}]

Init ==
    /\ \E s \in Start :
          /\ users = s.users /\ sessions = s.sessions /\ keys = {} /\ invites = s.invites
          /\ owner = s.owner /\ dirs = {p \in Project : s.owner[p] # None}
    /\ content = [p \in Project |-> {owner[p]} \ {None}]
    /\ lock = [p \in Project |-> None] /\ deleting = {}
    /\ req = [r \in Request |-> Idle]
    /\ late = {} /\ raced = {} /\ yielded = FALSE /\ torn = {}
    /\ begun = 0 /\ crashes = 0

Operations == {"idle", "open", "bootstrap", "patch", "resolve", "upload", "delete", "purge"}
Labels == {"idle", "session", "create", "number", "role", "ban", "mkdir", "claim", "lock",
           "write", "mark", "remove", "disown"}
RequestRow ==
    [op : Operations, at : Labels, who : User \cup {None}, on : User \cup {None},
     project : Project \cup {None}, role : Roles \cup {"none"}, ban : {"keep", "yes", "no"},
     number : 0..MemberMax, seen : SUBSET (1..MemberMax)]

TypeOK ==
    /\ users \in [User -> UserRow] /\ invites \in [Code -> InviteRow]
    /\ {sessions, keys, late, raced} \subseteq SUBSET User
    /\ {dirs, deleting, torn} \subseteq SUBSET Project
    /\ owner \in [Project -> User \cup {None}]
    /\ content \in [Project -> SUBSET User]
    /\ lock \in [Project -> Request \cup {None}]
    /\ req \in [Request -> RequestRow]
    /\ yielded \in BOOLEAN
    /\ begun \in 0..MaxRequests /\ crashes \in 0..MaxCrashes

Known(u) == users[u].role # "none"
Active(u) == Known(u) /\ ~users[u].banned
Admin(u) == Active(u) /\ users[u].role = "admin"
Numbers == {users[u].number : u \in User} \ {0}
Highest(S) == IF S = {} THEN 0 ELSE CHOOSE n \in S : \A m \in S : m <= n

--------------------------------------------------------------------------------
(* Requests.                                                               *)

At(r, op, label) == req[r].op = op /\ req[r].at = label
Goto(r, label) == req' = [req EXCEPT ![r].at = label]
Finish(r) == req' = [req EXCEPT ![r] = Idle]

Begin(r, q) ==
    /\ req[r] = Idle /\ begun < MaxRequests
    /\ req' = [req EXCEPT ![r] = q]
    /\ begun' = begun + 1

\* resolve_session and find_user_by_token_hash find a user whether banned or not;
SessionUser(u) == u \in sessions /\ Known(u)
KeyUser(u) == u \in keys /\ Known(u)

\* authenticate takes either, of a user who is not banned.
Authenticated(u) == (SessionUser(u) \/ KeyUser(u)) /\ Active(u)

\* The middleware; what it authenticated is nova_user for the rest of the request.
Enter(r, q) == Authenticated(q.who) /\ Begin(r, q)

--------------------------------------------------------------------------------
(* Accounts.                                                               *)

Account(role, number, by) ==
    [role |-> role, banned |-> FALSE, number |-> number, by |-> by]

\* Mutant: the uses are not compared with the limit.
InviteUsableUnlimited(c) == invites[c].live

\* create_user_with_invite: known, neither revoked nor expired, not used up.
InviteUsable(c) == invites[c].live /\ invites[c].used < invites[c].max

\* MAX(early_member_no) + 1, none beyond the limit (0).
NextMember == IF Highest(Numbers) < MemberMax THEN Highest(Numbers) + 1 ELSE 0

\* register: the invite and the account in one transaction, then the session.
Register(r, u, c) ==
    /\ ~Known(u) /\ InviteUsable(c)
    /\ Begin(r, [Idle EXCEPT !.op = "open", !.at = "session", !.who = u])
    /\ users' = [users EXCEPT ![u] =
            Account(Kind[c], IF Kind[c] = "beta" THEN NextMember ELSE 0, "invite")]
    /\ invites' = [invites EXCEPT ![c].used = @ + 1, ![c].uses = @ \cup {u}]
    /\ UNCHANGED <<sessions, keys, projects, ghosts, crashes>>

\* bootstrap: the users are counted,
Bootstrap(r, u) ==
    /\ \A v \in User : ~Known(v)
    /\ Begin(r, [Idle EXCEPT !.op = "bootstrap", !.at = "create", !.who = u])
    /\ UNCHANGED <<accounts, projects, ghosts, crashes>>

\* and in another transaction the administrator is created, unless his name is taken.
BootstrapCreate(r) ==
    /\ At(r, "bootstrap", "create")
    /\ IF Known(req[r].who) THEN Finish(r) /\ UNCHANGED users
       ELSE /\ users' = [users EXCEPT ![req[r].who] = Account("admin", 0, "bootstrap")]
            /\ req' = [req EXCEPT ![r].op = "open", ![r].at = "session"]
    /\ UNCHANGED <<sessions, keys, invites, projects, ghosts, begun, crashes>>

\* login: name, password and ban are looked at, then the session is created.
Login(r, u) ==
    /\ Active(u)
    /\ Begin(r, [Idle EXCEPT !.op = "open", !.at = "session", !.who = u])
    /\ UNCHANGED <<accounts, projects, ghosts, crashes>>

IssueSession(r) ==
    /\ At(r, "open", "session")
    /\ sessions' = sessions \cup {req[r].who}
    /\ late' = IF users[req[r].who].banned THEN late \cup {req[r].who} ELSE late
    /\ Finish(r)
    /\ UNCHANGED <<users, keys, invites, projects, raced, yielded, torn, begun, crashes>>

\* logout, or the session's expiry: the user's last session, a request of its own.
EndSession(u) ==
    /\ u \in sessions /\ begun < MaxRequests
    /\ sessions' = sessions \ {u} /\ late' = late \ {u} /\ begun' = begun + 1
    /\ UNCHANGED <<users, keys, invites, projects, req, raced, yielded, torn, crashes>>

\* create_token, and revoke_token of the last key: only of one's own.
KeysWith(u) == keys \cup {u}
KeysWithout(u) == keys \ {u}

SetKeys(u) ==
    /\ Authenticated(u) /\ begun < MaxRequests
    /\ keys' \in {KeysWith(u), KeysWithout(u)} \ {keys}
    /\ begun' = begun + 1
    /\ UNCHANGED <<users, sessions, invites, projects, req, ghosts, crashes>>

--------------------------------------------------------------------------------
(* Administration.  require_admin authenticates again in the handler.      *)

\* The row create_invite inserts, and the soft deletion of revoke_invite.
NewInvite(n) == [max |-> n, used |-> 0, live |-> TRUE, uses |-> {}]
Revoked(invite) == [invite EXCEPT !.live = FALSE]

CreateInvite(u, c, n) ==
    /\ Authenticated(u) /\ Admin(u) /\ invites[c] = NoInvite /\ begun < MaxRequests
    /\ invites' = [invites EXCEPT ![c] = NewInvite(n)]
    /\ begun' = begun + 1
    /\ UNCHANGED <<users, sessions, keys, projects, req, ghosts, crashes>>

\* revoke_invite by an administrator, or the invite's expiry.
EndInvite(c) ==
    /\ invites[c].live /\ begun < MaxRequests
    /\ invites' = [invites EXCEPT ![c] = Revoked(@)]
    /\ begun' = begun + 1
    /\ UNCHANGED <<users, sessions, keys, projects, req, ghosts, crashes>>

\* Mutant: nobody is refused.
MayPatchAnyone(u, q) == TRUE

\* patch_user: an administrator may not ban himself.
MayPatch(u, q) == ~(q.ban = "yes" /\ q.on = u)

\* patch_user of role and ban.  The target is read,
Patch(r, u, v, role, ban) ==
    LET q == [Idle EXCEPT !.op = "patch", !.at = "number", !.who = u, !.on = v,
                          !.role = role, !.ban = ban]
    IN  /\ Authenticated(u) /\ Admin(u) /\ Known(v) /\ MayPatch(u, q)
        /\ role # "none" \/ ban # "keep"
        /\ Begin(r, IF role = "beta" /\ users[v].role # "beta" /\ users[v].number = 0 THEN q
                    ELSE [q EXCEPT !.at = IF role = "none" THEN "ban" ELSE "role"])
        /\ UNCHANGED <<accounts, projects, ghosts, crashes>>

\* then, for a new member, the users are listed and the first free number taken;
ChooseNumber(r) ==
    /\ At(r, "patch", "number")
    /\ LET free == (1..MemberMax) \ Numbers
       IN  req' = [req EXCEPT ![r].at = "role", ![r].seen = Numbers,
               ![r].number = IF free = {} THEN 0 ELSE CHOOSE n \in free : \A m \in free : n <= m]
    /\ UNCHANGED <<accounts, projects, ghosts, begun, crashes>>

\* set_user_role: the number is kept in the role beta only.
SetRole(r) ==
    /\ At(r, "patch", "role")
    /\ LET q == req[r] IN
       /\ users' = [users EXCEPT ![q.on].role = q.role,
              ![q.on].number = IF q.number # 0 THEN q.number
                               ELSE IF q.role = "beta" THEN @ ELSE 0]
       /\ raced' = IF q.number # 0 /\ q.seen # Numbers THEN raced \cup {q.on}
                   ELSE IF q.role = "beta" THEN raced ELSE raced \ {q.on}
       /\ yielded' = (yielded \/ ~Admin(q.who) \/ (q.on = q.who /\ q.role # "admin"))
       /\ IF q.ban = "keep" THEN Finish(r) ELSE Goto(r, "ban")
    /\ UNCHANGED <<sessions, keys, invites, projects, late, torn, begun, crashes>>

\* Mutant: the sessions are left to expire.
SessionsKept(u) == sessions

\* set_user_banned deletes the user's sessions with the same transaction.
SessionsWithout(u) == sessions \ {u}

SetBanned(r) ==
    /\ At(r, "patch", "ban")
    /\ LET q == req[r] IN
       /\ users' = [users EXCEPT ![q.on].banned = (q.ban = "yes")]
       /\ sessions' = IF q.ban = "yes" THEN SessionsWithout(q.on) ELSE sessions
       /\ late' = late \ {q.on}
       /\ yielded' = (yielded \/ ~Admin(q.who))
    /\ Finish(r)
    /\ UNCHANGED <<keys, invites, projects, raced, torn, begun, crashes>>

--------------------------------------------------------------------------------
(* Projects.                                                               *)

\* Mutant: the project need only be there.
OwnsExisting(u, p) == p \in dirs

\* require_project_id: there, and of this user.
Owns(u, p) == p \in dirs /\ owner[p] = u

InDeletion(p) == \E r \in Request : req[r].project = p /\ req[r].at \in {"remove", "disown"}
InResolution(p) == \E r \in Request : req[r].op = "resolve" /\ req[r].project = p

On(op, label, u, p) == [Idle EXCEPT !.op = op, !.at = label, !.who = u, !.project = p]

Resolve(r, u, p) ==
    /\ Enter(r, On("resolve", "mkdir", u, p))
    /\ UNCHANGED <<accounts, projects, ghosts, crashes>>

\* resolve_project makes the directory,
MakeDir(r) ==
    /\ At(r, "resolve", "mkdir")
    /\ dirs' = dirs \cup {req[r].project}
    /\ torn' = IF InDeletion(req[r].project) THEN torn \cup {req[r].project} ELSE torn
    /\ Goto(r, "claim")
    /\ UNCHANGED <<accounts, owner, content, lock, deleting, late, raced, yielded, begun, crashes>>

\* claim_project: the first to claim it owns it.
Claim(r) ==
    /\ At(r, "resolve", "claim")
    /\ owner' = IF owner[req[r].project] = None
                THEN [owner EXCEPT ![req[r].project] = req[r].who] ELSE owner
    /\ Finish(r)
    /\ UNCHANGED <<accounts, dirs, content, lock, deleting, ghosts, begun, crashes>>

\* batch_upload checks the project, waits for its lock, checks again, writes.
Upload(r, u, p) ==
    /\ Owns(u, p) /\ Enter(r, On("upload", "lock", u, p))
    /\ UNCHANGED <<accounts, projects, ghosts, crashes>>

UploadLocks(r) ==
    LET p == req[r].project IN
    /\ At(r, "upload", "lock") /\ lock[p] = None
    /\ IF Owns(req[r].who, p)
       THEN lock' = [lock EXCEPT ![p] = r] /\ Goto(r, "write")
       ELSE UNCHANGED lock /\ Finish(r)
    /\ UNCHANGED <<accounts, dirs, owner, content, deleting, ghosts, begun, crashes>>

UploadWrites(r) ==
    LET p == req[r].project IN
    /\ At(r, "upload", "write")
    /\ content' = [content EXCEPT ![p] = @ \cup {req[r].who}]
    /\ lock' = [lock EXCEPT ![p] = None]
    /\ Finish(r)
    /\ UNCHANGED <<accounts, dirs, owner, deleting, ghosts, begun, crashes>>

\* delete_project of the owner, or of an administrator (op "purge"), who need not own it.
Delete(r, u, p) ==
    /\ \/ Owns(u, p) /\ Enter(r, On("delete", "mark", u, p))
       \/ Admin(u) /\ p \in dirs /\ Enter(r, On("purge", "mark", u, p))
    /\ UNCHANGED <<accounts, projects, ghosts, crashes>>

\* A second deletion is told that there is no project; only the administrator's
\* goes on to the row.
DeleteMarks(r) ==
    LET p == req[r].project IN
    /\ req[r].op \in {"delete", "purge"} /\ req[r].at = "mark"
    /\ IF p \notin deleting THEN deleting' = deleting \cup {p} /\ Goto(r, "remove")
       ELSE UNCHANGED deleting /\ (IF req[r].op = "purge" THEN Goto(r, "disown") ELSE Finish(r))
    /\ UNCHANGED <<accounts, dirs, owner, content, lock, ghosts, begun, crashes>>

DeleteRemoves(r) ==
    LET p == req[r].project IN
    /\ req[r].at = "remove" /\ lock[p] = None
    /\ deleting' = deleting \ {p}
    /\ dirs' = dirs \ {p}
    /\ content' = [content EXCEPT ![p] = {}]
    /\ torn' = IF InResolution(p) THEN torn \cup {p} ELSE torn
    /\ IF p \in dirs \/ req[r].op = "purge" THEN Goto(r, "disown") ELSE Finish(r)
    /\ UNCHANGED <<accounts, owner, lock, late, raced, yielded, begun, crashes>>

\* delete_project_owner.
OwnerDeleted(p) == [owner EXCEPT ![p] = None]

DeleteDisowns(r) ==
    LET p == req[r].project IN
    /\ req[r].at = "disown"
    /\ owner' = OwnerDeleted(p)
    /\ torn' = IF InResolution(p) \/ p \in dirs THEN torn \cup {p} ELSE torn
    /\ Finish(r)
    /\ UNCHANGED <<accounts, dirs, content, lock, deleting, late, raced, yielded, begun, crashes>>

--------------------------------------------------------------------------------
\* The process ends; what it had in flight is gone.  At the next start the
\* settings' administrator gets the role (not his access, if he is banned).
Restart ==
    /\ crashes < MaxCrashes
    /\ crashes' = crashes + 1
    /\ torn' = torn \cup {p \in Project : \E r \in Request : req[r].project = p /\ req[r].op # "upload"}
    /\ req' = [r \in Request |-> Idle]
    /\ lock' = [p \in Project |-> None] /\ deleting' = {}
    /\ users' = [u \in User |-> IF u \in AdminName /\ Known(u) /\ ~Admin(u)
                    THEN [users[u] EXCEPT !.role = "admin", !.number = 0] ELSE users[u]]
    /\ raced' = raced \ AdminName
    /\ UNCHANGED <<sessions, keys, invites, dirs, owner, content, late, yielded, begun>>

PatchSteps(r) == ChooseNumber(r) \/ SetRole(r) \/ SetBanned(r)
ProjectSteps(r) == \/ MakeDir(r) \/ Claim(r) \/ UploadLocks(r) \/ UploadWrites(r)
                   \/ DeleteMarks(r) \/ DeleteRemoves(r) \/ DeleteDisowns(r)

AccountRequest(r, u) ==
    \/ \E c \in Code : Register(r, u, c)
    \/ Bootstrap(r, u)
    \/ Login(r, u)
    \/ \E v \in User, role \in Roles \cup {"none"}, ban \in {"keep", "yes", "no"} :
          Patch(r, u, v, role, ban)

ProjectRequest(r, u) ==
    \E p \in Project : Resolve(r, u, p) \/ Upload(r, u, p) \/ Delete(r, u, p)

Next ==
    \/ \E r \in Request, u \in User : AccountRequest(r, u) \/ ProjectRequest(r, u)
    \/ \E r \in Request : BootstrapCreate(r) \/ IssueSession(r) \/ PatchSteps(r) \/ ProjectSteps(r)
    \/ \E u \in User : EndSession(u) \/ SetKeys(u)
    \/ \E u \in User, c \in Code, n \in 1..2 : CreateInvite(u, c, n)
    \/ \E c \in Code : EndInvite(c)
    \/ Restart

Spec == Init /\ [][Next]_vars

--------------------------------------------------------------------------------
(* Properties.                                                             *)

\* An invite is spent once for each account it made and never beyond its limit,
\* whatever registrations run at once; no registered account is without one.  Two
\* early members have one number only if an administrator's patch wrote a number
\* it had chosen from a list that was no longer true (admin.py:522).
InvitesSpent ==
    /\ \A c \in Code : invites[c].used = Cardinality(invites[c].uses) /\ invites[c].used <= invites[c].max
    /\ \A u \in User : users[u].by = "invite" => \E c \in Code : u \in invites[c].uses
    /\ \A u, v \in User : u # v /\ users[u].number = users[v].number /\ users[u].number # 0
          => {u, v} \cap raced # {}

\* Once there is an administrator who is not banned there always is one, unless
\* an administrator gave up his own role or a patch was written after its issuer
\* had lost his (admin.py:184: nobody may lock himself out).
AdminRemains ==
    (\E u \in User : users[u].by = "bootstrap") => yielded \/ \E u \in User : Admin(u)

\* A banned user has no session, unless his login was between its look at the
\* ban and the session (metadb.py:1161).
BanEndsSessions == \A u \in sessions : users[u].banned => u \in late

\* When no request is about a project, it has a directory if and only if it has
\* an owner, and the directory holds nobody's files but its owner's, unless it was
\* resolved while it was being deleted or the process ended in the middle
\* (metadb.py:1224).
ProjectsOwned ==
    \A p \in Project \ torn :
        /\ (\A r \in Request : req[r].project # p) => (p \in dirs <=> owner[p] # None)
        /\ owner[p] # None => content[p] \subseteq {owner[p]}

================================================================================
