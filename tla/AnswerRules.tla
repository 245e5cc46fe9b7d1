------------------------------ MODULE AnswerRules ------------------------------
(***************************************************************************)
(* What the query handlers compute from a packed context: the evidence     *)
(* block of the prompt, the text read out of an upstream body, the check   *)
(* of its citations, the meta data kept for the audit, the storage warning *)
(* and the code an exception of the engine is answered with.               *)
(*                                                                         *)
(* A citation is <<"E", n>> or <<"F", n>>.  An answer is a sequence of     *)
(* lines; a line has a kind, its citations and whether it has a run of     *)
(* blanks.  A "bare" line is one made of citations only.                   *)
(***************************************************************************)
EXTENDS Lists, FiniteSets

CONSTANTS
    StoreMax,    \* ANSWER_STORE_MAX_CHARS, in lines
    WarnPercent  \* storage_warn_ratio

ASSUME AnswerAssumption ==
    StoreMax \in Nat \ {0} /\ WarnPercent \in 0 .. 100

NoText == <<>>

--------------------------------------------------------------------------------
(* Evidence: the id of an item is <<"E", no>>.  Code and tests are one list   *)
(* of a pack, specifications the other.                                       *)

Ref == {"E", "F"} \X Nat
Evidence(types) == [no : Nat, type : types, score : Nat]
Pack == [answerable : BOOLEAN, code : Seq(Evidence({"code", "test"})), docs : Seq(Evidence({"spec"})),
         flows : Seq({"F"} \X Nat)]

Id(item) == <<"E", item.no>>
Items(pack) == pack.code \o pack.docs

TopScore(items) ==
    LET scores == {0} \cup {items[i].score : i \in {i \in DOMAIN items : items[i].type # "spec"}}
    IN  CHOOSE s \in scores : \A r \in scores : r <= s

EvidenceGroup(item, top) ==
    CASE item.type = "spec" -> "Docs"
      [] item.type = "test" -> "Tests"
      [] item.type = "code" /\ top > 0 /\ 10 * item.score >= 7 * top -> "Core"
      [] OTHER -> "Related"

CodeSection(pack) ==
    LET group(g) == Only(pack.code, {item \in ToSet(pack.code) :
                                        EvidenceGroup(item, TopScore(pack.code)) = g})
    IN  group("Core") \o group("Related") \o group("Tests")

Ids(items) == [i \in DOMAIN items |-> Id(items[i])]

EvidenceBlock(pack) == Ids(pack.docs) \o Ids(CodeSection(pack)) \o pack.flows

InOrder(items) == SortedBy([i \in DOMAIN items |-> items[i].no], items)

EvidenceMeta(pack) ==
    LET items == InOrder(Items(pack))
    IN  [i \in DOMAIN items |->
            [id |-> Id(items[i]), group |-> EvidenceGroup(items[i], TopScore(items))]]

--------------------------------------------------------------------------------
(* The upstream body: a sequence of blocks [type, text], as much of it as the *)
(* protocol looks at.  The lines of a thinking block are "thinking".          *)

LineOf(kinds) == [kind : kinds, cites : Seq(Ref), gap : BOOLEAN, count : Nat]
Written == {"text", "bare", "blank", "head", "missing", "fence", "thinking"}
Blocks == [type : {"message", "convenience", "output_text", "text", "thinking"},
           text : Seq(LineOf(Written))]
Body == {body \in Seq(Blocks) : \A i \in DOMAIN body : \A k \in DOMAIN body[i].text :
            LET line == body[i].text[k]
            IN  /\ line.kind = "thinking" <=> body[i].type = "thinking"
                /\ line.kind = "blank" => line.cites = <<>>}

Texts(body, types) ==
    FlattenSeq([i \in DOMAIN body |-> IF body[i].type \in types THEN body[i].text ELSE NoText])

OpenaiText(body) ==
    IF body # <<>> /\ body[1].type = "message" THEN body[1].text ELSE NoText

ResponsesText(body) ==
    LET convenience == Texts(body, {"convenience"})
    IN  IF convenience # NoText THEN convenience ELSE Texts(body, {"output_text", "text"})

AnthropicText(body) == Texts(body, {"text"})

ExtractText(protocol, body) ==
    CASE protocol = "openai" -> OpenaiText(body)
      [] protocol = "responses" -> ResponsesText(body)
      [] protocol = "anthropic" -> AnthropicText(body)

--------------------------------------------------------------------------------
(* The check of the citations.                                                *)

AllowedIds(pack) == {Id(Items(pack)[i]) : i \in DOMAIN Items(pack)}
                    \cup {pack.flows[i] : i \in DOMAIN pack.flows}

Cited(lines) == FlattenSeq([i \in DOMAIN lines |-> lines[i].cites])

Blank(line) == line.kind = "blank" \/ (line.kind = "bare" /\ line.cites = <<>>)

\* The line is inside a code block.
Fenced(lines, i) ==
    lines[i].kind # "fence"
    /\ Cardinality({j \in 1 .. i - 1 : lines[j].kind = "fence"}) % 2 = 1

Strip(lines, allowed) ==
    [i \in DOMAIN lines |->
        LET kept == Only(lines[i].cites, allowed)
        IN  [lines[i] EXCEPT !.cites = kept, !.gap = @ \/ kept # lines[i].cites]]

Line(kind, count) == [kind |-> kind, cites |-> <<>>, gap |-> FALSE, count |-> count]

TrimEnd(lines) ==
    LET filled == {0} \cup {i \in DOMAIN lines : ~Blank(lines[i])}
    IN  SubSeq(lines, 1, CHOOSE i \in filled : \A j \in filled : j <= i)

AppendMissingNote(lines, count) ==
    LET heads == {i \in DOMAIN lines : lines[i].kind = "missing"}
        first == CHOOSE i \in heads : \A j \in heads : i <= j
        ends == {j \in first + 1 .. Len(lines) : lines[j].kind \in {"head", "missing"}}
                \cup {Len(lines) + 1}
        end == CHOOSE j \in ends : \A k \in ends : j <= k
    IN  IF heads = {}
        THEN TrimEnd(lines) \o <<Line("blank", 0), Line("missing", 0), Line("note", count)>>
        ELSE SubSeq(lines, 1, first) \o TrimEnd(SubSeq(lines, first + 1, end - 1))
             \o <<Line("note", count)>> \o SubSeq(lines, end, Len(lines))

CollapseGaps(lines) ==
    [i \in DOMAIN lines |-> [lines[i] EXCEPT !.gap = @ /\ Fenced(lines, i)]]

CountParagraphs(lines) ==
    Cardinality({i \in DOMAIN lines : /\ lines[i].kind \notin {"head", "missing", "fence"}
                                      /\ ~Blank(lines[i]) /\ ~Fenced(lines, i)})

VerifyCitations(lines, allowed) ==
    LET valid == Len(Only(Cited(lines), allowed))
        invalid == Len(Cited(lines)) - valid
        stripped == Strip(lines, allowed)
        answer == CollapseGaps(IF invalid = 0 THEN stripped
                               ELSE AppendMissingNote(stripped, invalid))
        paragraphs == CountParagraphs(answer)
    IN  [answer |-> answer, valid |-> valid, invalid |-> invalid,
         coverage |-> CASE paragraphs = 0 -> <<>>
                        [] valid >= paragraphs -> <<1, 1>>
                        [] OTHER -> <<valid, paragraphs>>]

TruncateAnswer(lines) ==
    IF Len(lines) <= StoreMax THEN lines
    ELSE SubSeq(lines, 1, StoreMax) \o <<Line("cut", 0)>>

--------------------------------------------------------------------------------
(* The storage warning: bytes used by the caller's projects and by this one.  *)

\* roles.QUOTA_BY_ROLE, in the order of its values.
QuotaByRole == [public |-> 1, beta |-> 2, admin |-> 10]

EffectiveLimit(settings, role, override) ==
    CASE override >= 0 -> override
      [] override < 0 /\ role # "none" -> QuotaByRole[role]
      [] OTHER -> settings.perUser

Judge(used, limit) ==
    CASE limit <= 0 -> "ok"
      [] limit > 0 /\ used >= limit -> "exceeded"
      [] limit > 0 /\ used < limit /\ 100 * used >= WarnPercent * limit -> "warning"
      [] OTHER -> "ok"

\* Mutant: the limit of the settings, as before there were roles.
WarningBySettings(settings, limit, usage) ==
    [user |-> Judge(usage.mine, settings.perUser), project |-> Judge(usage.project, settings.perProject)]

\* warning_for: nothing is said when nothing is limited or the sizes cannot be read.
WarningFor(settings, limit, usage) ==
    IF \/ limit <= 0 /\ settings.perUser <= 0 /\ settings.perProject <= 0
       \/ ~usage.readable
    THEN [user |-> "ok", project |-> "ok"]
    ELSE [user |-> Judge(usage.mine, limit), project |-> Judge(usage.project, settings.perProject)]

\* enforce_upload_limit: a batch is refused when it does not fit any more, never
\* because the sizes cannot be read.
UploadRefused(limit, usage, incoming) ==
    limit > 0 /\ usage.readable /\ usage.mine + incoming > limit

--------------------------------------------------------------------------------
(* Exceptions of the engine, by what their cause chain holds.                 *)

EmbeddingFailures == {"embedConfig", "embedNetwork", "engineOverEmbed"}
Exceptions == EmbeddingFailures \cup {"engineOverStorage", "storage", "engine", "other"}

MapEngineError(exc) ==
    CASE exc \in {"embedConfig", "engineOverEmbed"} -> 503
      [] exc = "embedNetwork" -> 503
      [] exc \in {"engineOverStorage", "storage"} -> 507
      [] OTHER -> 500

================================================================================
