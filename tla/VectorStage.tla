------------------------------ MODULE VectorStage ------------------------------
(***************************************************************************)
(* What an ingest asks of its vector stage (EmbeddingPipeline of           *)
(* nova_core/pipeline/embedding_sink.py), whatever threads, windows and    *)
(* caches do the work: vectors are written in any order while the stage is *)
(* open; it ends well only when every submitted chunk has its vector, and  *)
(* once it has ended nothing is written any more.                          *)
(***************************************************************************)
CONSTANTS
    Chunk,  \* chunk ids
    Want    \* the content hash each chunk has in this ingest

VARIABLES
    stage,      \* "open", "ok" or "failed"
    submitted,  \* the chunks handed over so far
    rows        \* the vector table: pairs of a chunk id and a content hash

Row(c) == <<c, Want[c]>>

Init ==
    /\ stage = "open"
    /\ submitted = {}

Submit ==
    /\ stage = "open"
    /\ submitted' \in SUBSET Chunk
    /\ submitted \subseteq submitted'
    /\ UNCHANGED <<stage, rows>>

\* Some submitted chunks get their rows, in place of the rows they had.
Write ==
    /\ stage = "open"
    /\ \E S \in SUBSET submitted :
         rows' = {r \in rows : r[1] \notin S} \cup {Row(c) : c \in S}
    /\ UNCHANGED <<stage, submitted>>

Finish ==
    /\ stage = "open"
    /\ \A c \in submitted : Row(c) \in rows
    /\ stage' = "ok"
    /\ UNCHANGED <<submitted, rows>>

Fail ==
    /\ stage = "open"
    /\ stage' = "failed"
    /\ UNCHANGED <<submitted, rows>>

Next == Submit \/ Write \/ Finish \/ Fail

Spec == Init /\ [][Next]_<<stage, submitted, rows>>

================================================================================
