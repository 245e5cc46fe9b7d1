------------------------------ MODULE MCEmbedding ------------------------------
(* EmbeddingPipeline for TLC: two hashes, every other chunk having the same   *)
(* content; before the ingest the table may hold the third chunk.             *)
EXTENDS EmbeddingPipeline

CONSTANTS d1, d2

MCDigest == {d1, d2}
MCWant == [c \in 1..Chunks |-> IF c % 2 = 1 THEN d1 ELSE d2]

MCInit == Init /\ \A c \in Chunk : Stored(c) => c \in {3}

MCSpec == MCInit /\ [][Next]_vars /\ WF_vars(Main) /\ \A k \in Consumer : WF_vars(Consume(k))

================================================================================
