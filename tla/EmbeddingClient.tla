---------------------------- MODULE EmbeddingClient ----------------------------
(* One embed call of the provider (embedding/api.py, and local.py as its local  *)
(* variant): the client a configuration makes, the texts cut to what the model  *)
(* takes and put into batches, the batches sent one after the other or by a     *)
(* pool of threads, with retries, and the vectors put together again.  A text   *)
(* is the widths of its characters in bytes, of which each is a token, and what *)
(* the tokenizer counts in a text cut after its k-th token: recount[k], which   *)
(* may be more than k.  A vector is the position of the text it was made of.    *)
(* The service is external: it may fail, refuse, answer with the rows in any    *)
(* order, or answer nonsense.                                                   *)
EXTENDS Lists

CONSTANTS
    Models,         \* API_MODELS: for each name its max, size, budget, concurrency, vendor
    ModelAlias,     \* API_MODEL_ALIASES
    Vendors,        \* API_TRANSPORTS: for each name its items, tokens, safe, host
    UnknownMax,     \* UNKNOWN_API_MAX_INPUT_TOKENS
    Generic,        \* DEFAULT_TRANSPORT
    MaxRounds,      \* the rounds of _truncate_with_tokenizer
    LocalSize,      \* DEFAULT_BATCH_SIZE of local.py
    PostRetries,    \* DEFAULT_MAX_RETRIES
    EmbedCalls      \* what is called: [config, exact, texts]

\* A number or a name that is not given.
Unset == 0
Unnamed == "none"

VARIABLES
    client,     \* the provider
    texts,      \* of the call
    sent,       \* each batch: [at, posts, error, vectors, twice]
    outcome     \* of the call: [at, error, vectors]

clientCallVars == <<client, texts, sent, outcome>>

Or(a, b) == IF a # Unset THEN a ELSE b

--------------------------------------------------------------------------------
(* The client a configuration makes.                                           *)

\* find_api_spec: by its name, then by an alias; what is not registered has only
\* what the configuration says.
KnownModel(config) == config.model \in DOMAIN Models \cup DOMAIN ModelAlias
ModelOf(config) ==
    IF config.model \in DOMAIN Models THEN Models[config.model]
    ELSE IF KnownModel(config) THEN Models[ModelAlias[config.model]]
    ELSE [max |-> Or(config.max, UnknownMax), size |-> Unset, budget |-> Unset,
          concurrency |-> Unset, vendor |-> config.vendor]

\* resolve_transport: named by the configuration, by the model, found in the
\* address, or the generic one.
VendorOf(config) ==
    LET model == ModelOf(config)
        hosts == {v \in DOMAIN Vendors \ {Generic} : Vendors[v].host = config.host}
    IN  Vendors[IF config.vendor # Unnamed THEN config.vendor
                ELSE IF model.vendor # Unnamed THEN model.vendor
                ELSE IF hosts # {} THEN CHOOSE v \in hosts : TRUE ELSE Generic]

\* _clamp_to_model_limit: the configuration may lower the limit, never raise it.
LimitOf(config) ==
    LET most == ModelOf(config).max
    IN  IF config.max = Unset \/ config.max > most THEN most ELSE config.max

\* _create_api, _create_local.
ClientOf(config, exact) ==
    LET model == ModelOf(config)
        vendor == VendorOf(config)
    IN  IF config.mode = "local"
        THEN [local |-> TRUE, exact |-> TRUE, limit |-> Or(config.max, model.max),
              size |-> Or(config.size, LocalSize), budget |-> Unset, concurrency |-> 1]
        ELSE [local |-> FALSE, exact |-> exact, limit |-> LimitOf(config),
              size |-> Or(config.size, Or(model.size, vendor.safe)),
              budget |-> Or(config.budget, Or(model.budget, vendor.tokens)),
              concurrency |-> Or(config.concurrency, Or(model.concurrency, 1))]

\* The constructor refuses batches the vendor does not take, and a model that
\* is not registered needs a dimension.
Accepted(config) ==
    \/ config.mode = "local"
    \/ /\ KnownModel(config) \/ config.dim
       /\ ClientOf(config, TRUE).size <= VendorOf(config).items
       /\ ClientOf(config, TRUE).budget <= VendorOf(config).tokens

--------------------------------------------------------------------------------
(* Texts and batches.                                                          *)

Bytes(text, k) == Total(SubSeq(text.widths, 1, k))
TokensOf(text, k) == IF k = Len(text.widths) THEN k ELSE text.recount[k]

\* _truncate_by_bytes: a binary search for the longest prefix that fits.
CutByBytes(text, max) ==
    LET n == Len(text.widths)
        search[low \in 0..n, high \in 0..n] ==
            LET mid == (low + high + 1) \div 2
            IN  IF low >= high THEN low
                ELSE IF Bytes(text, mid) <= max THEN search[mid, high]
                ELSE search[low, mid - 1]
    IN  search[0, n]

\* _truncate_with_tokenizer: cut shorter until the tokenizer counts no more than
\* max; after the last round half of max, which is not counted again.
CutByTokens(text, max) ==
    LET Fitting(l) == l >= 1 /\ TokensOf(text, l) <= max
        limit[r \in 1..MaxRounds] ==
            IF r = 1 THEN max
            ELSE LET l == limit[r - 1]
                 IN  IF l < 1 \/ Fitting(l) THEN l ELSE l - (TokensOf(text, l) - max + 1)
    IN  IF Len(text.widths) <= max THEN Len(text.widths)
        ELSE IF Fitting(limit[MaxRounds]) THEN limit[MaxRounds]
        ELSE IF max \div 2 > 1 THEN max \div 2 ELSE 1

\* _encoding_row: the local model is given the first tokens as they are.
CutIds(text, max) == IF Len(text.widths) < max THEN Len(text.widths) ELSE max

\* _prepare and _estimate_tokens: what is kept of a text, and its cost.
Kept(c, text) ==
    IF c.local THEN CutIds(text, c.limit)
    ELSE IF c.exact THEN CutByTokens(text, c.limit) ELSE CutByBytes(text, c.limit)
Cost(c, text) ==
    LET kept == Kept(c, text)
    IN  IF c.local THEN kept ELSE IF c.exact THEN TokensOf(text, kept) ELSE Bytes(text, kept)

\* iter_batches_by_token_budget: a text goes into the last batch unless that is
\* full or would exceed the budget.
BatchesByBudget(c, all) ==
    LET CostOf(batch) == Total([i \in DOMAIN batch |-> Cost(c, all[batch[i]])])
        Add(batches, k) ==
            LET last == batches[Len(batches)]
            IN  IF batches = <<>> \/ Len(last) >= c.size \/ CostOf(last) + Cost(c, all[k]) > c.budget
                THEN Append(batches, <<k>>)
                ELSE [batches EXCEPT ![Len(batches)] = Append(last, k)]
    IN  FoldLeft(Add, <<>>, [k \in DOMAIN all |-> k])

\* iter_batches: by their number alone.
BatchesBySize(size, n) ==
    [b \in 1..((n + size - 1) \div size) |->
        [j \in 1..(IF b * size <= n THEN size ELSE n - (b - 1) * size) |-> (b - 1) * size + j]]

Batches(c, all) == IF c.local THEN BatchesBySize(c.size, Len(all)) ELSE BatchesByBudget(c, all)

--------------------------------------------------------------------------------
(* What the service answers, and what the client makes of it.                  *)

NoIndex == -1
Row(index, of, holds) == [index |-> index, of |-> of, holds |-> holds]

\* The rows of n texts: in any order with their indices, or in order without.
GoodRows(n) ==
    {[k \in 1..n |-> Row(p[k] - 1, p[k], "vector")] : p \in {q \in [1..n -> 1..n] : IsInjective(q)}}
    \cup {[k \in 1..n |-> Row(NoIndex, k, "vector")]}

\* Rows that are not those: one is missing, has nothing or too little in it, an
\* index no text has, or the index of another row.
BadRows(n) ==
    LET good == [k \in 1..n |-> Row(k - 1, k, "vector")]
    IN  {SubSeq(good, 1, n - 1)}
        \cup {[good EXCEPT ![n] = Row(n - 1, n, h)] : h \in {"nothing", "less"}}
        \cup {[good EXCEPT ![n] = Row(n, n, "vector")], [good EXCEPT ![n] = good[1]]}

IndexAt(rows, k) == IF rows[k].index = NoIndex THEN k - 1 ELSE rows[k].index

\* Mutant: the rows are taken in the order they came.
SortedAsCame(rows) == rows

\* rows.sort by index, which is stable.
Sorted(rows) ==
    LET Before(j, k) == \/ IndexAt(rows, j) < IndexAt(rows, k)
                        \/ IndexAt(rows, j) = IndexAt(rows, k) /\ j < k
    IN  [r \in DOMAIN rows |->
            rows[CHOOSE k \in DOMAIN rows : Cardinality({j \in DOMAIN rows : Before(j, k)}) = r - 1]]

\* _embed_batch after _decode: the error, or none.
ErrorIn(rows, n) ==
    IF \/ Len(rows) # n
       \/ \E k \in DOMAIN rows : rows[k].holds = "nothing" \/ IndexAt(rows, k) \notin 0..(n - 1)
    THEN "response"
    ELSE IF \E k \in DOMAIN rows : rows[k].holds = "less" THEN "dimension"
    ELSE "none"

--------------------------------------------------------------------------------
(* The call.                                                                   *)

NotSent == [at |-> "waiting", posts |-> 0, error |-> "none", vectors |-> <<>>, twice |-> FALSE]
Running == [at |-> "running", error |-> "none", vectors |-> <<>>]
NoCallYet == [at |-> "none", error |-> "none", vectors |-> <<>>]

EmbedInit ==
    \E call \in EmbedCalls :
        /\ Accepted(call.config)
        /\ client = ClientOf(call.config, call.exact)
        /\ texts = call.texts
        /\ sent = [i \in DOMAIN Batches(client, texts) |-> NotSent]
        /\ outcome = IF client.local /\ texts # <<>> THEN [Running EXCEPT !.at = "loading"] ELSE Running

NoEmbedding == client = [local |-> TRUE] /\ texts = <<>> /\ sent = <<>> /\ outcome = NoCallYet

\* ensure_loaded: the tokenizer and the local model, or nothing is embedded.
LoadModel ==
    /\ outcome.at = "loading"
    /\ outcome' \in {Running, [outcome EXCEPT !.at = "raised", !.error = "unavailable"]}
    /\ UNCHANGED sent

OnTheirWay == {i \in DOMAIN sent : sent[i].at = "sending"}
Positions(i) == Batches(client, texts)[i]

\* min(concurrency, batches) threads, if that is more than one.
Workers == IF client.concurrency < Len(sent) THEN client.concurrency ELSE Len(sent)

\* A thread takes the next batch; without a pool the next is sent when the one
\* before it is there.
SendBatch(i) ==
    /\ outcome.at = "running" /\ sent[i].at = "waiting"
    /\ \A j \in 1..(i - 1) : sent[j].at # "waiting" /\ (Workers = 1 => sent[j].at = "done")
    /\ Cardinality(OnTheirWay) < Workers
    /\ sent' = [sent EXCEPT ![i].at = "sending", ![i].posts = 1]
    /\ UNCHANGED outcome

BatchFails(i, error) ==
    /\ sent' = [sent EXCEPT ![i].at = "failed", ![i].error = error]
    /\ UNCHANGED outcome

\* _post: no answer, 429 and 5xx are tried again, at most PostRetries times.
PostAgain(i) ==
    /\ ~client.local /\ sent[i].at = "sending" /\ sent[i].posts <= PostRetries
    /\ sent' = [sent EXCEPT ![i].posts = @ + 1]
    /\ UNCHANGED outcome

PostGivesUp(i) ==
    /\ ~client.local /\ sent[i].at = "sending" /\ sent[i].posts > PostRetries
    /\ \E error \in {"network", "limited", "server"} : BatchFails(i, error)

\* 401 and 403, any other status, a body that is no answer: not tried again.
PostIsRefused(i) ==
    /\ ~client.local /\ sent[i].at = "sending"
    /\ \E error \in {"auth", "response"} : BatchFails(i, error)

\* The local model embeds a batch, fails in its run, or is not the registered one.
ModelRuns(i) ==
    /\ client.local /\ sent[i].at = "sending"
    /\ \/ \E error \in {"inference", "dimension"} : BatchFails(i, error)
       \/ sent' = [sent EXCEPT ![i].at = "done", ![i].vectors = Positions(i)] /\ UNCHANGED outcome

PostIsAnswered(i) ==
    /\ ~client.local /\ sent[i].at = "sending"
    /\ LET all == Positions(i)
           n == Len(all)
       IN  \E rows \in GoodRows(n) \cup BadRows(n) :
              IF ErrorIn(rows, n) # "none" THEN BatchFails(i, ErrorIn(rows, n))
              ELSE /\ sent' = [sent EXCEPT
                        ![i].at = "done",
                        ![i].vectors = [k \in 1..n |-> all[Sorted(rows)[k].of]],
                        ![i].twice = Cardinality({IndexAt(rows, k) : k \in 1..n}) < n]
                   /\ UNCHANGED outcome

\* The caller takes the results in the order of the batches; at the first that
\* failed it gives up those that wait, and leaves when none is on its way.
TakeFailure ==
    /\ outcome.at = "running"
    /\ \E i \in DOMAIN sent :
          /\ sent[i].at = "failed" /\ \A j \in 1..(i - 1) : sent[j].at = "done"
          /\ outcome' = [outcome EXCEPT !.at = "leaving", !.error = sent[i].error]
    /\ sent' = [i \in DOMAIN sent |->
                    IF sent[i].at = "waiting" THEN [sent[i] EXCEPT !.at = "cancelled"] ELSE sent[i]]

Raise ==
    /\ outcome.at = "leaving" /\ OnTheirWay = {}
    /\ outcome' = [outcome EXCEPT !.at = "raised"]
    /\ UNCHANGED sent

Return ==
    /\ outcome.at = "running" /\ \A i \in DOMAIN sent : sent[i].at = "done"
    /\ outcome' = [outcome EXCEPT !.at = "returned",
                                  !.vectors = FlattenSeq([i \in DOMAIN sent |-> sent[i].vectors])]
    /\ UNCHANGED sent

EmbedNext ==
    /\ \/ \E i \in DOMAIN sent :
              \/ SendBatch(i) \/ PostAgain(i) \/ PostGivesUp(i) \/ PostIsRefused(i)
              \/ PostIsAnswered(i) \/ ModelRuns(i)
       \/ LoadModel \/ TakeFailure \/ Raise \/ Return
    /\ UNCHANGED <<client, texts>>

================================================================================
