------------------------------ MODULE QueryService ------------------------------
(***************************************************************************)
(* The query handlers of the service, REST (routers/query.py) and MCP      *)
(* (mcp.py), with what they share: the fault memory of the EngineManager,  *)
(* the cached answer provider, the users' LLM configurations.  A request   *)
(* runs on a thread of the pool, one step between two accesses to shared   *)
(* state or two calls; a REST ask chooses its provider on the event loop,  *)
(* where no other REST ask can run meanwhile, an MCP ask on its thread.    *)
(*                                                                         *)
(* The engine's answer is one of Packs or an exception (Search models the  *)
(* engine), the upstream's a body of Bodies or a failure.  An index, a     *)
(* ledger and the sizes on disk belong to other modules: what they show is *)
(* chosen where they are read.                                             *)
(***************************************************************************)
EXTENDS AnswerRules

CONSTANTS
    User, Account,  \* Account[u]: [role, override]
    LocalUser,   \* the account of local mode
    Thread,
    Model,       \* a model with its address; every one has a key and a protocol of its own
    ServerModel, \* those ANSWER_MODEL may name
    Protocol,    \* the protocol of a model
    None,
    Packs, Bodies, Usages,
    Settings,    \* [perUser, perProject], bytes
    MaxRetries,  \* max_retries of HttpJsonProvider
    MaxRequests, MaxFaults, MaxClock

ASSUME QueryAssumption ==
    /\ None \notin User \cup Model /\ LocalUser \in User
    /\ ServerModel \subseteq Model
    /\ Protocol \in [Model -> {"openai", "responses", "anthropic"}]
    /\ {MaxRetries, MaxRequests, MaxFaults, MaxClock} \subseteq Nat
    /\ Account \in [User -> [role : {"none"} \cup DOMAIN QuotaByRole, override : Int]]
    /\ Settings \in [perUser : Int, perProject : Int]
    /\ Usages \subseteq [mine : Nat, project : Nat, readable : BOOLEAN]
    /\ Packs \subseteq Pack /\ \A body \in Bodies : body \in Body

VARIABLES
    local,       \* Settings.local_mode
    server,      \* ANSWER_*: a configuration or none
    config,      \* user_llm_config
    llmProvider, llmProviderKey,  \* app.state: the provider cached, and for whom
    providerError,                \* EngineManager._provider_error
    gone,        \* users whose session has ended
    req,         \* the request of each thread
    clock,       \* time.time() in whole seconds
    begun, faults,
    mixed,       \* two choices of a provider overlapped, or a write one of them
    stamps       \* the updated_at every user's configuration has had

shared == <<config, llmProvider, llmProviderKey, providerError>>
ghosts == <<mixed, stamps>>
vars == <<local, server, shared, gone, req, clock, begun, faults, ghosts>>

NoConfig == [model |-> None, key |-> None, protocol |-> None, at |-> -1]
Configured(model, key, protocol, at) ==
    [model |-> model, key |-> key, protocol |-> protocol, at |-> at]
NoKey == <<None, -2>>
NoPack == [answerable |-> FALSE, code |-> <<>>, docs |-> <<>>, flows |-> <<>>]
NoUsage == [mine |-> 0, project |-> 0, readable |-> FALSE]
NoRow == [at |-> "none"]

Idle == [op |-> "idle", at |-> "idle", user |-> None, project |-> FALSE,
         pack |-> NoPack, degraded |-> FALSE, usage |-> NoUsage,
         stamp |-> -1, provider |-> NoConfig, due |-> NoConfig, read |-> NoConfig,
         posts |-> 0, draft |-> NoText, coverage |-> <<>>,
         code |-> 0, status |-> "none", answer |-> NoText, row |-> NoRow]

Init ==
    /\ local \in BOOLEAN
    /\ server \in {NoConfig} \cup {Configured(m, m, Protocol[m], 0) : m \in ServerModel}
    /\ config = [u \in User |-> NoConfig]
    /\ llmProvider = NoConfig /\ llmProviderKey = NoKey
    /\ providerError = FALSE /\ gone = {}
    /\ req = [t \in Thread |-> Idle]
    /\ clock = 0 /\ begun = 0 /\ faults = 0
    /\ mixed = FALSE /\ stamps = [u \in User |-> {}]

Rest == {"search", "ask"}
Mcp == {"mcpSearch", "mcpAsk"}
Asks == {"ask", "mcpAsk"}
Choosing == {"stamp", "cached", "key", "build", "keep", "sign"}

Set(t, r) == req' = [req EXCEPT ![t] = r]

\* resolve_llm_config; local mode has no database, so config stays empty there.
Effective(u) == IF config[u] = NoConfig THEN server ELSE config[u]

--------------------------------------------------------------------------------
(* A query: its checks, the engine, the storage warning.                      *)

\* _require_index: why an empty index cannot be searched.
EmptyIndex(broken, uploaded) ==
    CASE broken -> 503
      [] ~broken /\ ~uploaded -> 409
      [] OTHER -> 500

\* The code the checks answer with, 200 if all pass: REST looks for the project
\* first, MCP for the query.
Refusal(op, owned, valid, empty, broken, uploaded) ==
    CASE op \in Rest /\ ~owned -> 404
      [] ~valid -> 400
      [] op \in Mcp /\ ~owned -> 404
      [] empty -> EmptyIndex(broken, uploaded)
      [] OTHER -> 200

Refusals(op, owned) ==
    {Refusal(op, owned, valid, empty, providerError \/ unusable, uploaded) :
        valid, empty, unusable, uploaded \in BOOLEAN}

\* A request and its checks; one that fails is recorded like any other.
Begin(t, op, u) ==
    /\ req[t].at = "idle" /\ begun < MaxRequests /\ u \notin gone /\ (local => u = LocalUser)
    /\ begun' = begun + 1
    /\ \E owned \in BOOLEAN : \E code \in Refusals(op, owned) :
          Set(t, [Idle EXCEPT !.op = op, !.user = u, !.code = code,
                              !.project = (op \in Rest /\ owned),
                              !.at = IF code = 200 THEN "search" ELSE "audit"])
    /\ UNCHANGED <<local, server, shared, gone, clock, faults, ghosts>>

\* search and search_context have their answer.
FoundContext(r) == [r EXCEPT !.at = "audit", !.status = "found"]

\* Without evidence the model is not asked.
FoundTooLittle(r) ==
    [r EXCEPT !.at = "audit", !.status = "insufficient_evidence", !.degraded = TRUE]

\* What a request that has found its pack does next.
Found(r) ==
    CASE r.op \notin Asks -> FoundContext(r)
      [] r.op \in Asks /\ ~r.pack.answerable -> FoundTooLittle(r)
      [] r.op \in Asks /\ r.pack.answerable -> [r EXCEPT !.at = "owner", !.degraded = TRUE]

\* quota_identity: the limit of the caller.
Limit(u) == IF local THEN Settings.perUser
            ELSE EffectiveLimit(Settings, Account[u].role, Account[u].override)

\* EngineManager._observe_provider.
Observe(exc, degraded) ==
    CASE exc \in EmbeddingFailures -> TRUE
      [] exc = "none" /\ ~degraded -> FALSE
      [] OTHER -> providerError

\* The rescan of local mode, whose failure is only reported, and the engine.
SearchFound(t) ==
    /\ req[t].at = "search"
    /\ \E pack \in Packs, degraded \in BOOLEAN :
          /\ providerError' = Observe("none", degraded)
          /\ Set(t, Found([req[t] EXCEPT !.pack = pack, !.degraded = degraded]))
    /\ UNCHANGED <<local, server, config, llmProvider, llmProviderKey, gone, clock, begun, faults,
                   ghosts>>

SearchFails(t) ==
    /\ req[t].at = "search" /\ faults < MaxFaults /\ faults' = faults + 1
    /\ \E exc \in Exceptions :
          /\ providerError' = Observe(exc, FALSE)
          /\ Set(t, [req[t] EXCEPT !.at = "audit", !.code = MapEngineError(exc)])
    /\ UNCHANGED <<local, server, config, llmProvider, llmProviderKey, gone, clock, begun, ghosts>>

--------------------------------------------------------------------------------
(* The answer provider: provider_for_request.                                 *)

\* llm_owner authenticates again; an MCP call has its user bound to it.  Only
\* another REST ask has to wait for the event loop.
Owner(t) ==
    /\ req[t].at = "owner"
    /\ req[t].op = "ask" =>
          \A s \in Thread \ {t} : ~(req[s].op = "ask" /\ req[s].at \in Choosing)
    /\ Set(t, IF req[t].op = "ask" /\ req[t].user \in gone
              THEN [req[t] EXCEPT !.at = "audit", !.code = 401]
              ELSE [req[t] EXCEPT !.at = "stamp", !.due = Effective(req[t].user)])
    /\ mixed' = (mixed \/ \E s \in Thread \ {t} : req[s].at \in Choosing)
    /\ UNCHANGED <<local, server, shared, gone, clock, begun, faults, stamps>>

\* get_llm_config for the stamp; a read that fails counts as no configuration.
ReadStamp(t) ==
    /\ req[t].at = "stamp"
    /\ \/ Set(t, [req[t] EXCEPT !.at = "cached", !.stamp = config[req[t].user].at])
          /\ UNCHANGED <<faults, mixed>>
       \/ /\ ~local /\ faults < MaxFaults /\ faults' = faults + 1
          /\ Set(t, [req[t] EXCEPT !.at = "cached", !.stamp = -1])
          /\ mixed' = TRUE
    /\ UNCHANGED <<local, server, shared, gone, clock, begun, stamps>>

ReadCached(t) ==
    /\ req[t].at = "cached"
    /\ Set(t, [req[t] EXCEPT !.at = "key", !.read = llmProvider])
    /\ UNCHANGED <<local, server, shared, gone, clock, begun, faults, ghosts>>

\* Mutant: the key does not hold the time of the configuration.
UserKey(r) == <<r.user, -1>>

\* The settings are one object as long as the process runs.
ProviderKey(r) == <<r.user, r.stamp>>

CompareKey(t) ==
    /\ req[t].at = "key"
    /\ Set(t, IF req[t].read # NoConfig /\ llmProviderKey = ProviderKey(req[t])
              THEN [req[t] EXCEPT !.at = "post", !.provider = req[t].read]
              ELSE [req[t] EXCEPT !.at = "build"])
    /\ UNCHANGED <<local, server, shared, gone, clock, begun, faults, ghosts>>

\* build_provider_for reads the configuration a second time.
Build(t) ==
    /\ req[t].at = "build"
    /\ \/ Set(t, [req[t] EXCEPT !.at = "keep", !.provider = Effective(req[t].user)])
          /\ UNCHANGED <<faults, mixed>>
       \/ /\ ~local /\ faults < MaxFaults /\ faults' = faults + 1
          /\ Set(t, [req[t] EXCEPT !.at = "keep", !.provider = server])
          /\ mixed' = TRUE
    /\ UNCHANGED <<local, server, shared, gone, clock, begun, stamps>>

KeepProvider(t) ==
    /\ req[t].at = "keep"
    /\ llmProvider' = req[t].provider
    /\ Set(t, [req[t] EXCEPT !.at = "sign"])
    /\ UNCHANGED <<local, server, config, llmProviderKey, providerError, gone, clock, begun,
                   faults, ghosts>>

\* Without a provider the ask ends degraded.
SignProvider(t) ==
    /\ req[t].at = "sign"
    /\ llmProviderKey' = ProviderKey(req[t])
    /\ Set(t, IF req[t].provider # NoConfig THEN [req[t] EXCEPT !.at = "post"]
              ELSE [req[t] EXCEPT !.at = "audit", !.status = "degraded"])
    /\ UNCHANGED <<local, server, config, llmProvider, providerError, gone, clock, begun,
                   faults, ghosts>>

--------------------------------------------------------------------------------
(* The call of the provider: HttpJsonProvider.complete and answer_question.   *)

Degrade(r) == [r EXCEPT !.at = "audit", !.status = "degraded"]

\* Mutant: the answer is returned as the model wrote it.
UncheckedAnswer(r, text) == [r EXCEPT !.at = "audit", !.status = "answered", !.degraded = FALSE,
                                      !.draft = text, !.answer = text]

\* A body with text in it: the citations are checked and the answer returned.
Answered(r, text) ==
    LET check == VerifyCitations(text, AllowedIds(r.pack))
    IN  [r EXCEPT !.at = "audit", !.status = "answered", !.degraded = FALSE,
                  !.draft = text, !.answer = check.answer, !.coverage = check.coverage]

PostReplies(t) ==
    /\ req[t].at = "post"
    /\ \E body \in Bodies :
          LET text == TrimEnd(ExtractText(req[t].provider.protocol, body))
              r == [req[t] EXCEPT !.posts = @ + 1]
          IN  Set(t, IF text = NoText THEN Degrade(r) ELSE Answered(r, text))
    /\ UNCHANGED <<local, server, shared, gone, clock, begun, faults, ghosts>>

\* Mutant: when the tries are used up the exception is passed on.
RaisedAtLast(r) ==
    IF r.posts < MaxRetries THEN [r EXCEPT !.posts = @ + 1]
    ELSE [r EXCEPT !.at = "audit", !.code = 502, !.posts = @ + 1]

\* A timeout, no connection, or a status worth another try.
Retried(r) ==
    IF r.posts < MaxRetries THEN [r EXCEPT !.posts = @ + 1] ELSE Degrade([r EXCEPT !.posts = @ + 1])

PostRetries(t) ==
    /\ req[t].at = "post"
    /\ Set(t, Retried(req[t]))
    /\ UNCHANGED <<local, server, shared, gone, clock, begun, faults, ghosts>>

\* A key or a request that is refused, or no JSON: AnswerError at once.
PostRefused(t) ==
    /\ req[t].at = "post"
    /\ Set(t, Degrade([req[t] EXCEPT !.posts = @ + 1]))
    /\ UNCHANGED <<local, server, shared, gone, clock, begun, faults, ghosts>>

\* An exception of the client that is no httpx.HTTPError: an address it cannot
\* parse, a key it cannot put into a header.
PostBreaks(t) ==
    /\ req[t].at = "post" /\ faults < MaxFaults /\ faults' = faults + 1
    /\ Set(t, [req[t] EXCEPT !.at = "audit", !.code = 500])
    /\ UNCHANGED <<local, server, shared, gone, clock, begun, ghosts>>

--------------------------------------------------------------------------------
(* The audit and the response.                                                *)

Failed(r) == r.code # 200

\* audit.record_query_error: no verdict, counted as a failure.
FailureRow(r) ==
    [at |-> "row", project |-> r.project, op |-> r.op, user |-> r.user, answerable |-> "unknown",
     degraded |-> TRUE, text |-> NoText, status |-> "none", coverage |-> <<>>, evidence |-> <<>>]

\* Mutant: the verdict is that of a query that did not fail.
SucceededRow(r) ==
    [at |-> "row", project |-> r.project, op |-> r.op, user |-> r.user,
     answerable |-> "yes", degraded |-> r.degraded,
     text |-> TruncateAnswer(r.answer), status |-> r.status,
     coverage |-> r.coverage, evidence |-> EvidenceMeta(r.pack)]

\* audit.record_query.
SuccessRow(r) ==
    [at |-> "row", project |-> r.project, op |-> r.op, user |-> r.user,
     answerable |-> IF r.pack.answerable THEN "yes" ELSE "no", degraded |-> r.degraded,
     text |-> TruncateAnswer(r.answer),
     status |-> IF r.op \in Asks THEN r.status ELSE "none",
     coverage |-> r.coverage, evidence |-> EvidenceMeta(r.pack)]

\* _audited: a row for REST requests, success or not; one that cannot be
\* written is dropped.  MCP calls and local mode write none.  The storage
\* warning, made after the search, is put to the text as it is returned: the
\* sizes it looked at are chosen here.
Audit(t) ==
    /\ req[t].at = "audit"
    /\ \E usage \in IF Failed(req[t]) THEN {NoUsage} ELSE Usages :
          LET r == [req[t] EXCEPT !.at = "done", !.usage = usage]
          IN  IF r.op \in Rest /\ ~local
              THEN \/ /\ Set(t, [r EXCEPT !.row = IF Failed(r) THEN FailureRow(r) ELSE SuccessRow(r)])
                      /\ UNCHANGED faults
                   \/ /\ faults < MaxFaults /\ faults' = faults + 1
                      /\ Set(t, [r EXCEPT !.row = [at |-> "lost"]])
              ELSE Set(t, r) /\ UNCHANGED faults
    /\ UNCHANGED <<local, server, shared, gone, clock, begun, ghosts>>

\* The caller has its response.
Close(t) ==
    /\ req[t].at \in {"done", "saved"}
    /\ Set(t, Idle)
    /\ UNCHANGED <<local, server, shared, gone, clock, begun, faults, ghosts>>

\* MetaDB.usage_summary: how a row is counted.
Counted(row) == {c \in {"succeeded", "insufficient", "failed"} :
                    CASE c = "succeeded" -> row.answerable = "yes"
                      [] c = "insufficient" -> row.answerable = "no"
                      [] c = "failed" -> row.degraded /\ row.answerable = "unknown"}

--------------------------------------------------------------------------------
(* The configuration of a user: put_llm_config and delete_llm_config.         *)

\* save_llm_config takes the time and reads the row it may inherit from; a first
\* save needs a key (code 400).  With keep, key and protocol are left as they are.
SaveRead(t, u, m, keep) ==
    LET old == config[u]
        new == Configured(m, IF keep THEN old.key ELSE m,
                             IF keep /\ old # NoConfig THEN old.protocol ELSE Protocol[m], clock)
    IN  /\ req[t].at = "idle" /\ begun < MaxRequests /\ u \notin gone /\ ~local
        /\ begun' = begun + 1
        /\ Set(t, IF new.key = None THEN [Idle EXCEPT !.op = "save", !.at = "saved", !.code = 400]
                  ELSE [Idle EXCEPT !.op = "save", !.user = u, !.at = "write", !.read = new])
        /\ UNCHANGED <<local, server, shared, gone, clock, faults, ghosts>>

\* The transaction.
SaveWrite(t) ==
    LET u == req[t].user
    IN  /\ req[t].at = "write"
        /\ config' = [config EXCEPT ![u] = req[t].read]
        /\ Set(t, [req[t] EXCEPT !.at = "saved"])
        /\ stamps' = [stamps EXCEPT ![u] = @ \cup {req[t].read.at}]
        /\ mixed' = (mixed \/ req[t].read.at \in stamps[u]
                           \/ \E s \in Thread : req[s].at \in Choosing /\ req[s].user = u)
        /\ UNCHANGED <<local, server, llmProvider, llmProviderKey, providerError, gone, clock, begun,
                       faults>>

Delete(u) ==
    /\ ~local /\ begun < MaxRequests /\ u \notin gone /\ config[u] # NoConfig
    /\ begun' = begun + 1
    /\ config' = [config EXCEPT ![u] = NoConfig]
    /\ mixed' = (mixed \/ \E s \in Thread : req[s].at \in Choosing /\ req[s].user = u)
    /\ UNCHANGED <<local, server, llmProvider, llmProviderKey, providerError, gone, req, clock,
                   faults, stamps>>

--------------------------------------------------------------------------------
(* The surroundings.                                                          *)

Tick ==
    /\ clock < MaxClock /\ clock' = clock + 1
    /\ UNCHANGED <<local, server, shared, gone, req, begun, faults, ghosts>>

\* The user logs out or is banned (Accounts).
Leave(u) ==
    /\ ~local /\ faults < MaxFaults /\ faults' = faults + 1
    /\ u \notin gone /\ gone' = gone \cup {u}
    /\ UNCHANGED <<local, server, shared, req, clock, begun, ghosts>>

Work(t) ==
    \/ SearchFound(t) \/ SearchFails(t)
    \/ Owner(t) \/ ReadStamp(t) \/ ReadCached(t) \/ CompareKey(t)
    \/ Build(t) \/ KeepProvider(t) \/ SignProvider(t)
    \/ PostReplies(t) \/ PostRetries(t) \/ PostRefused(t) \/ PostBreaks(t)
    \/ Audit(t) \/ SaveWrite(t) \/ Close(t)

Next ==
    \/ \E t \in Thread : Work(t)
    \/ \E t \in Thread, u \in User :
          \/ \E op \in Rest \cup Mcp : Begin(t, op, u)
          \/ \E m \in Model \ ServerModel, keep \in BOOLEAN : SaveRead(t, u, m, keep)
    \/ \E u \in User : Delete(u) \/ Leave(u)
    \/ Tick

Spec == Init /\ [][Next]_vars

--------------------------------------------------------------------------------
Configs == {NoConfig} \cup [model : Model, key : Model, protocol : {"openai", "responses", "anthropic"},
                            at : Nat]

\* A request, but for its texts and its row.
Typed(r) ==
    /\ r.op \in {"idle", "save"} \cup Rest \cup Mcp
    /\ r.at \in {"idle", "search", "owner", "post", "audit", "done", "write", "saved"} \cup Choosing
    /\ r.user \in User \cup {None}
    /\ r.project \in BOOLEAN /\ r.degraded \in BOOLEAN
    /\ r.pack \in Packs \cup {NoPack} /\ r.usage \in Usages \cup {NoUsage}
    /\ r.stamp \in Nat \cup {-1}
    /\ {r.provider, r.due, r.read} \subseteq Configs
    /\ r.posts \in 0 .. MaxRetries + 1
    /\ r.code \in {0, 200, 400, 401, 404, 409, 500, 503, 507}
    /\ r.status \in {"none", "found", "insufficient_evidence", "degraded", "answered"}

TypeOK ==
    /\ local \in BOOLEAN /\ mixed \in BOOLEAN /\ providerError \in BOOLEAN
    /\ {server, llmProvider} \subseteq Configs
    /\ config \in [User -> Configs]
    /\ llmProviderKey \in {NoKey} \cup User \X (Nat \cup {-1})
    /\ gone \subseteq User
    /\ DOMAIN req = Thread /\ \A t \in Thread : Typed(req[t])
    /\ clock \in 0 .. MaxClock /\ begun \in 0 .. MaxRequests /\ faults \in 0 .. MaxFaults
    /\ stamps \in [User -> SUBSET Nat]

--------------------------------------------------------------------------------

Done(r) == r.at = "done"

\* The audit is what the caller was told: a REST request leaves one row, unless
\* the database refused it, with the project only if the caller owns it, with
\* the answer as it was returned up to its cut and without the storage warning,
\* and with no answer where none was given; the row is counted as exactly one of
\* succeeded, insufficient and failed, and a failure always as failed.
AuditTellsTruth ==
    \A t \in Thread :
        LET r == req[t]
        IN  Done(r) /\ r.op \in Rest /\ ~local /\ r.row # [at |-> "lost"] =>
              /\ r.row # NoRow /\ Cardinality(Counted(r.row)) = 1
              /\ Failed(r) <=> Counted(r.row) = {"failed"}
              /\ r.row.text # NoText <=> r.status = "answered"
              /\ \A i \in 1 .. Len(r.row.text) : i <= StoreMax => r.row.text[i] = r.answer[i]
              /\ Len(r.answer) > StoreMax => r.row.text[Len(r.row.text)].kind = "cut"
              /\ r.status = "insufficient_evidence" => Counted(r.row) = {"insufficient"}
              /\ ~Failed(r) => /\ {r.row.evidence[i].id : i \in DOMAIN r.row.evidence}
                                   = AllowedIds(r.pack) \ {r.pack.flows[i] : i \in DOMAIN r.pack.flows}
                               /\ r.row.degraded = r.degraded
              /\ r.row.project => r.code # 404

Removed(r) == Len(Cited(r.draft)) - Len(Cited(r.answer))

\* What lines say beside citations, in their order.
Words(lines) == Only([i \in DOMAIN lines |-> lines[i].kind], {"text", "head", "fence"})

\* An answer rests on its own pack: the model is called only with evidence, it is
\* shown exactly the ids the check admits, what it cited beside them is gone, the
\* rest of its citations and of its words is as it was, a note counts what was
\* removed, and gaps are left in code only.
AnswersGrounded ==
    \A t \in Thread :
        LET r == req[t]
            notes == {i \in DOMAIN r.answer : r.answer[i].kind = "note"}
        IN  /\ r.posts > 0 => /\ r.pack.answerable
                              /\ ToSet(EvidenceBlock(r.pack)) = AllowedIds(r.pack)
            /\ r.status = "answered" =>
                  /\ Cited(r.answer) = Only(Cited(r.draft), AllowedIds(r.pack))
                  /\ Words(r.answer) = Words(r.draft)
                  /\ Removed(r) = 0 => notes = {}
                  /\ Removed(r) > 0 => \E i \in notes : /\ notes = {i} /\ r.answer[i].count = Removed(r)
                                                         /\ \E j \in 1 .. i : r.answer[j].kind = "missing"
                  /\ \A i \in DOMAIN r.answer : /\ r.answer[i].kind # "thinking"
                                                 /\ r.answer[i].gap => Fenced(r.answer, i)

\* A user is answered by the model he chose: as long as no choice of a provider
\* has overlapped another one or a change of the same user's configuration, no
\* configuration was saved twice in one second and no read of one has failed,
\* the provider called is the configuration in force for the asking user.
OwnModel ==
    \A t \in Thread : ~mixed /\ req[t].posts > 0 => req[t].provider = req[t].due

\* An ask that has found its evidence ends with it, whatever the model does: only
\* a session that ended meanwhile or an exception outside the client's errors can
\* take it away.
AskDegrades ==
    \A t \in Thread :
        LET r == req[t]
        IN  Done(r) /\ r.op \in Asks /\ r.pack # NoPack =>
              \/ r.status \in {"answered", "insufficient_evidence", "degraded"} /\ ~Failed(r)
              \/ r.code = 401 /\ r.user \in gone
              \/ r.code = 500 /\ faults > 0

\* The warning at the end of an answer and the refusal of an upload draw one line:
\* the caller is told his space is exceeded exactly when not one byte more would
\* be accepted, whatever the role, the override and the settings.
WarningMatchesLimit ==
    \A t \in Thread :
        LET r == req[t]
            warning == WarningFor(Settings, Limit(r.user), r.usage)
        IN  Done(r) /\ ~Failed(r) =>
              (warning.user = "exceeded" <=> UploadRefused(Limit(r.user), r.usage, 1))

================================================================================
