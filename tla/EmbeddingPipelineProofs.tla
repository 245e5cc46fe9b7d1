------------------------ MODULE EmbeddingPipelineProofs ------------------------
(***************************************************************************)
(* EmbeddingPipeline is a VectorStage for every number of chunks and       *)
(* consumers, every window and queue size: no submitted chunk is lost      *)
(* between the buffer, the queue and the consumers, and nothing is written *)
(* after the end.                                                          *)
(***************************************************************************)
EXTENDS EmbeddingPipeline, TLAPS, FiniteSetTheorems, SequenceTheorems

\* The labels at which windows may still be put on the queue, and those from
\* which close() may return well.
Feeding == {"write", "put", "graph"}
Well == Feeding \cup {"sentinels", "join", "ok"}

Dead(k) == cpc[k] = "dead"
Written(c) == <<c, Want[c]>> \in rows
Queued(c) == \E i \in 1..Len(queue) : c \in queue[i]
InHand(c) == \E k \in Consumer : c \in todo[k]

\* Where the ingest's thread is bounds what it has sent, and says that no
\* sentinel has been put and who has ended.
PhaseInv ==
    /\ pc = "put" => fed - sent >= Window
    /\ pc \in Well \ {"write", "put"} => sent = fed
    /\ pc \in Feeding => \A i \in 1..Len(queue) : queue[i] # Sentinel
    /\ pc \in Feeding => \A k \in Consumer : ~Dead(k)
    /\ Ended => AllEnded

\* First in, first out: behind a sentinel, and once a consumer has taken one,
\* there is no window any more.
QueueInv ==
    /\ \A i \in 1..Len(queue) : queue[i] \subseteq 1..sent
    /\ \A i, j \in 1..Len(queue) : i <= j /\ queue[i] = Sentinel => queue[j] = Sentinel
    /\ \A k \in Consumer : Dead(k) => \A i \in 1..Len(queue) : queue[i] = Sentinel

\* Only a consumer at work has chunks in hand, and these have been sent.
HandInv ==
    \A k \in Consumer :
        /\ todo[k] \subseteq 1..sent
        /\ cpc[k] \in {"get", "dead"} => todo[k] = {}

\* Rows of ids that are new are rows of this ingest; rows that were up to date
\* still are.
RowsInv ==
    /\ \A r \in rows : ~Stored(r[1]) => r[2] = Want[r[1]]
    /\ \A c \in Chunk : snapshot[c] = Want[c] => Written(c)

\* As long as nothing has failed, a chunk that was sent is on the queue, in a
\* consumer's hands, or has its row.
NothingLost ==
    ~error /\ pc \in Well => \A c \in 1..sent : Written(c) \/ Queued(c) \/ InHand(c)

\* What a consumer has paid for it finds again before it pays once more.
PaidInv ==
    \A k \in Consumer :
        /\ \A d \in paid[k] :
             \/ \E c \in Chunk : Want[c] = d /\ Written(c) /\ d \in hashes
             \/ cpc[k] = "add" /\ d \in Digests(todo[k])
             \/ error /\ cpc[k] \in {"get", "dead"}
        /\ cpc[k] \in {"fetch", "move"} => paid[k] \cap Digests(todo[k]) \subseteq reuse[k]
        /\ cpc[k] = "embed" => paid[k] \cap Digests(todo[k]) = {}

IndInv ==
    /\ TypeOK
    /\ PhaseInv
    /\ QueueInv
    /\ HandInv
    /\ NoDuplicateRows
    /\ RowsInv
    /\ NothingLost
    /\ PaidInv
    /\ PaidOnce

--------------------------------------------------------------------------------
(* The constants, the queue and the table.                                 *)

\* The bounds as numbers.
LEMMA Constants ==
  /\ Chunks \in Nat /\ Window \in Nat \ {0}
  /\ Want \in [Chunk -> Digest] /\ NoDigest \notin Digest
  /\ Workers \in Nat
BY PipelineAssumption, FS_CardinalityType DEF Workers

\* put: one more item, at the end.
LEMMA Put ==
  ASSUME queue \in Seq(SUBSET Chunk), NEW item \in SUBSET Chunk,
         queue' = Append(queue, item)
  PROVE  /\ queue' \in Seq(SUBSET Chunk)
         /\ Len(queue') = Len(queue) + 1 /\ Len(queue) \in Nat
         /\ \A i \in 1..Len(queue) : queue'[i] = queue[i]
         /\ queue'[Len(queue) + 1] = item
OBVIOUS

\* get: one item less, at the front.
LEMMA Taken ==
  ASSUME queue \in Seq(SUBSET Chunk), queue # <<>>, queue' = Tail(queue)
  PROVE  /\ queue' \in Seq(SUBSET Chunk)
         /\ Head(queue) = queue[1] /\ Head(queue) \in SUBSET Chunk
         /\ Len(queue') + 1 = Len(queue) /\ Len(queue') \in Nat
         /\ \A i \in 1..Len(queue') : queue'[i] = queue[i + 1]
OBVIOUS

\* upsert_matrix: the chunks of S have their rows, the other rows stay, and no
\* id gets a second row.
LEMMA Upsert ==
  ASSUME TypeOK, RowsInv, NEW S \in SUBSET Chunk
  PROVE  /\ Upserted(S) \in SUBSET (Chunk \X Digest)
         /\ Upserted(S) = {r \in rows : r[1] \notin S} \cup {<<c, Want[c]>> : c \in S}
         /\ \A c \in Chunk : <<c, Want[c]>> \in Upserted(S) <=> c \in S \/ Written(c)
<1>0. /\ rows \in SUBSET (Chunk \X Digest) /\ snapshot \in [Chunk -> Digest \cup {NoDigest}]
      /\ Want \in [Chunk -> Digest]
  BY Constants DEF TypeOK
<1>1. ASSUME NEW r \in rows, r[1] \in S, Appends(r[1])
      PROVE  r = <<r[1], Want[r[1]]>>
  BY <1>0, <1>1 DEF Appends, RowsInv
<1>2. Upserted(S) = {r \in rows : r[1] \notin S} \cup {<<c, Want[c]>> : c \in S}
  BY <1>0, <1>1 DEF Upserted
<1>3. Upserted(S) \in SUBSET (Chunk \X Digest)
  BY <1>0, <1>2
<1>4. \A c \in Chunk : <<c, Want[c]>> \in Upserted(S) <=> c \in S \/ Written(c)
  BY <1>0, <1>2 DEF Written
<1> QED
  BY <1>2, <1>3, <1>4

--------------------------------------------------------------------------------
(* Types.                                                                  *)

\* Every step keeps the types.
LEMMA TypeStep ==
  ASSUME TypeOK, PhaseInv, HandInv, RowsInv, Next
  PROVE  TypeOK'
<1>0. Chunks \in Nat /\ Window \in Nat \ {0} /\ Workers \in Nat
      /\ Want \in [Chunk -> Digest] /\ Chunk = 1..Chunks /\ Capacity \in Nat
  BY Constants, PipelineAssumption DEF Chunk, Capacity
<1> USE DEF MainLabels, ConsumerLabels
<1>1. CASE \E n \in 1..MaxSubmit : Submit(n)
  BY <1>0, <1>1, PipelineAssumption DEF TypeOK, Submit, sinks, table, bill
<1>2. CASE PutWindow
  <2>1. /\ sent + Window <= fed /\ sent \in Nat /\ fed \in Nat /\ fed <= Chunks
        /\ (sent + 1)..(sent + Window) \in SUBSET Chunk
    BY <1>0, <1>2 DEF TypeOK, PhaseInv, PutWindow
  <2>2. queue' \in Seq(SUBSET Chunk) /\ Len(queue') <= Capacity
    BY <1>0, <1>2, <2>1, Put DEF TypeOK, PutWindow, Room
  <2>3. pc' \in MainLabels /\ sent' \in 0..fed'
    BY <1>0, <1>2, <2>1 DEF PutWindow
  <2> QED
    BY <1>2, <2>2, <2>3 DEF TypeOK, PutWindow, sinks, table, bill
<1>3. CASE FlushPending
  <2>1. (sent + 1)..fed \in SUBSET Chunk
    BY <1>0 DEF TypeOK
  <2>2. queue' \in Seq(SUBSET Chunk) /\ Len(queue') <= Capacity /\ sent' \in 0..fed'
    BY <1>0, <1>3, <2>1, Put DEF TypeOK, FlushPending, Room
  <2> QED
    BY <1>3, <2>2 DEF TypeOK, FlushPending, sinks, table, bill
<1>4. CASE Close
  BY <1>0, <1>4 DEF TypeOK, Close, sinks, table, bill
<1>5. ASSUME NEW from \in MainLabels, NEW to \in MainLabels, PutSentinel(from, to)
      PROVE  TypeOK'
  <2>1. queue' \in Seq(SUBSET Chunk) /\ Len(queue') <= Capacity
    BY <1>0, <1>5, Put DEF TypeOK, PutSentinel, Sentinel, Room
  <2>2. left' \in 0..Workers
    BY <1>0, <1>5 DEF TypeOK, PutSentinel
  <2> QED
    BY <1>5, <2>1, <2>2 DEF TypeOK, PutSentinel, sinks, table, bill
<1>6. CASE Joined \/ SubmitRaises \/ AbortJoined \/ MainRaises
  BY <1>6 DEF TypeOK, Joined, SubmitRaises, AbortJoined, MainRaises, Fault, sinks, table, bill
<1>7. CASE Drain
  <2>1. queue' \in Seq(SUBSET Chunk) /\ Len(queue') <= Capacity
    BY <1>0, <1>7, Taken DEF TypeOK, Drain
  <2> QED
    BY <1>0, <1>7, <2>1 DEF TypeOK, Drain, sinks, table, bill
<1>8. ASSUME NEW k \in Consumer, Get(k)
      PROVE  TypeOK'
  <2>1. /\ queue' \in Seq(SUBSET Chunk) /\ Len(queue') <= Capacity
        /\ Head(queue) \in SUBSET Chunk
    BY <1>0, <1>8, Taken DEF TypeOK, Get
  <2>2. cpc' \in [Consumer -> ConsumerLabels] /\ todo' \in [Consumer -> SUBSET Chunk]
    BY <1>8, <2>1 DEF TypeOK, Get
  <2> QED
    BY <1>8, <2>1, <2>2 DEF TypeOK, Get, main, table, bill
<1>9. ASSUME NEW k \in Consumer, Present(k) \/ Fetch(k) \/ Embed(k)
      PROVE  TypeOK'
  <2>1. Digests(todo[k]) \subseteq Digest
    BY <1>0, <1>9 DEF TypeOK, Digests
  <2>2. CASE Present(k)
    BY <2>1, <2>2 DEF TypeOK, Present, PresentHashes, main, table, bill
  <2>3. CASE Fetch(k)
    BY <2>1, <2>3 DEF TypeOK, Fetch, main, table, bill
  <2>4. CASE Embed(k)
    BY <2>1, <2>4 DEF TypeOK, Embed, main, table
  <2> QED
    BY <1>9, <2>2, <2>3, <2>4
<1>10. ASSUME NEW k \in Consumer, Move(k) \/ Add(k)
       PROVE  TypeOK'
  <2>1. PICK S \in SUBSET Chunk : WriteRows(k, S) /\ S \subseteq todo[k]
    BY <1>10 DEF TypeOK, Move, Add
  <2>2. Digests(S) \subseteq Digest
    BY <1>0, <2>1 DEF Digests
  <2>3. rows' \in SUBSET (Chunk \X Digest) /\ hashes' \in SUBSET Digest
    BY <2>1, <2>2, Upsert DEF TypeOK, WriteRows
  <2>4. cpc' \in [Consumer -> ConsumerLabels] /\ todo' \in [Consumer -> SUBSET Chunk]
    BY <2>1 DEF TypeOK, WriteRows
  <2> QED
    BY <1>10, <2>3, <2>4 DEF TypeOK, Move, Add, main, bill
<1>11. ASSUME NEW k \in Consumer, ConsumerFails(k)
       PROVE  TypeOK'
  <2>1. PICK S \in SUBSET Chunk : rows' = Upserted(S)
    BY <1>11 DEF TypeOK, ConsumerFails
  <2>2. rows' \in SUBSET (Chunk \X Digest)
    BY <2>1, Upsert
  <2>3. cpc' \in [Consumer -> ConsumerLabels] /\ todo' \in [Consumer -> SUBSET Chunk]
    BY <1>11 DEF TypeOK, ConsumerFails, AfterError
  <2> QED
    BY <1>11, <2>2, <2>3 DEF TypeOK, ConsumerFails, Fault, main, bill
<1>12. CASE Terminated
  BY <1>12 DEF TypeOK, Terminated, vars, main, sinks, table, bill
<1> QED
  BY <1>1, <1>2, <1>3, <1>4, <1>5, <1>6, <1>7, <1>8, <1>9, <1>10, <1>11, <1>12
     DEF Next, Main, Consume, Fails

--------------------------------------------------------------------------------
(* Phases and the queue.                                                   *)

\* The actions that leave the queue, the consumers and what is sent alone.
Quiet ==
    \/ \E n \in 1..MaxSubmit : Submit(n)
    \/ Close \/ Joined \/ SubmitRaises \/ AbortJoined \/ MainRaises

\* Every step keeps what the producer's place says of the consumers.
LEMMA PhaseStep ==
  ASSUME TypeOK, PhaseInv, Next
  PROVE  PhaseInv'
<1>0. Chunks \in Nat /\ Window \in Nat \ {0} /\ Workers \in Nat
  BY Constants
<1> USE DEF Feeding, Well, Dead, Ended, AllEnded
<1>1. CASE Quiet
  BY <1>0, <1>1, PipelineAssumption
     DEF Quiet, TypeOK, PhaseInv, Submit, Close, Joined, SubmitRaises, AbortJoined, MainRaises,
         MainLabels, sinks
<1>2. CASE PutWindow
  <2>1. sent + Window <= fed /\ sent \in Nat /\ fed \in Nat
    BY <1>0, <1>2 DEF TypeOK, PhaseInv, PutWindow
  <2>2. (sent + 1)..(sent + Window) \in SUBSET Chunk /\ (sent + 1)..(sent + Window) # {}
    <3>1. sent + 1 \in (sent + 1)..(sent + Window)
      BY <1>0, <2>1
    <3>2. fed <= Chunks
      BY <1>0 DEF TypeOK
    <3>3. (sent + 1)..(sent + Window) \in SUBSET Chunk
      BY <1>0, <2>1, <3>2 DEF Chunk
    <3> QED
      BY <3>1, <3>3
  <2>3. \A i \in 1..Len(queue') : queue'[i] # Sentinel
    BY <1>2, <2>2, Put DEF TypeOK, PhaseInv, PutWindow, Sentinel
  <2> QED
    BY <1>0, <1>2, <2>1, <2>3 DEF PhaseInv, PutWindow, sinks
<1>3. CASE FlushPending
  <2>1. sent \in Nat /\ fed \in Nat /\ sent <= fed /\ fed <= Chunks
    BY <1>0 DEF TypeOK
  <2>2. \A i \in 1..Len(queue') : queue'[i] # Sentinel
    <3>1. CASE sent = fed
      BY <1>3, <3>1 DEF PhaseInv, FlushPending
    <3>2. CASE sent # fed
      <4>1. sent + 1 \in (sent + 1)..fed
        BY <2>1, <3>2
      <4>2. (sent + 1)..fed \in SUBSET Chunk
        BY <1>0, <2>1 DEF Chunk
      <4>3. /\ Len(queue') = Len(queue) + 1 /\ Len(queue) \in Nat
            /\ \A i \in 1..Len(queue) : queue'[i] = queue[i]
            /\ queue'[Len(queue) + 1] = (sent + 1)..fed
        BY <1>3, <3>2, <4>2, Put DEF TypeOK, FlushPending
      <4>4. \A i \in 1..Len(queue) : queue[i] # Sentinel
        BY <1>3 DEF PhaseInv, FlushPending
      <4>5. (sent + 1)..fed # Sentinel
        BY <4>1 DEF Sentinel
      <4> QED
        BY <4>3, <4>4, <4>5
    <3> QED
      BY <3>1, <3>2
  <2> QED
    BY <1>3, <2>2 DEF PhaseInv, FlushPending, sinks
<1>4. CASE PutSentinel("sentinels", "join") \/ PutSentinel("stop", "rejoin")
  BY <1>4 DEF PhaseInv, PutSentinel, sinks
<1>5. CASE Drain
  BY <1>5 DEF PhaseInv, Drain, sinks
<1>6. ASSUME NEW k \in Consumer, Get(k)
      PROVE  PhaseInv'
  <2>1. /\ Head(queue) = queue[1] /\ Len(queue') + 1 = Len(queue) /\ Len(queue') \in Nat
        /\ \A i \in 1..Len(queue') : queue'[i] = queue[i + 1]
    BY <1>6, Taken DEF TypeOK, Get
  <2>2. cpc[k] # "dead" /\ cpc' \in [Consumer -> ConsumerLabels]
    BY <1>6 DEF TypeOK, Get, ConsumerLabels
  <2>3. ASSUME pc \in Feeding
        PROVE  /\ \A i \in 1..Len(queue') : queue'[i] # Sentinel
               /\ \A j \in Consumer : cpc'[j] # "dead"
    BY <1>6, <2>1, <2>3 DEF TypeOK, PhaseInv, Get
  <2> QED
    BY <1>6, <2>2, <2>3 DEF PhaseInv, Get, main
<1>7. ASSUME NEW k \in Consumer,
             Present(k) \/ Fetch(k) \/ Move(k) \/ Embed(k) \/ Add(k) \/ ConsumerFails(k)
      PROVE  PhaseInv'
  <2>1. cpc[k] # "dead" /\ UNCHANGED <<main, queue>>
    BY <1>7 DEF Present, Fetch, Move, Embed, Add, ConsumerFails
  <2>2. \A j \in Consumer : cpc'[j] = "dead" => cpc[j] = "dead"
    BY <1>7 DEF TypeOK, Present, Fetch, Move, Embed, Add, ConsumerFails, WriteRows, AfterError
  <2> QED
    BY <2>1, <2>2 DEF PhaseInv, main
<1>8. CASE Terminated
  BY <1>8 DEF PhaseInv, Terminated, vars, main, sinks
<1> QED
  BY <1>1, <1>2, <1>3, <1>4, <1>5, <1>6, <1>7, <1>8 DEF Next, Main, Consume, Fails, Quiet

\* Every step keeps the queue first in, first out.
LEMMA QueueStep ==
  ASSUME TypeOK, PhaseInv, QueueInv, Next
  PROVE  QueueInv'
<1>0. Chunks \in Nat /\ Window \in Nat \ {0} /\ Workers \in Nat
      /\ Len(queue) \in Nat /\ sent \in Nat /\ fed \in Nat /\ fed <= Chunks
      /\ Sentinel \in SUBSET Chunk
  BY Constants DEF TypeOK, Sentinel
<1>1. CASE Quiet
  BY <1>1 DEF Quiet, QueueInv, Dead, Submit, Close, Joined, SubmitRaises, AbortJoined,
              MainRaises, sinks
<1>2. ASSUME NEW item \in SUBSET Chunk, queue' = Append(queue, item), UNCHANGED cpc,
             sent' \in Nat, sent <= sent', item \subseteq 1..sent',
             item = Sentinel \/ pc \in Feeding
      PROVE  QueueInv'
  <2>1. /\ Len(queue') = Len(queue) + 1 /\ queue'[Len(queue) + 1] = item
        /\ \A i \in 1..Len(queue) : queue'[i] = queue[i]
    BY <1>2, Put DEF TypeOK
  <2>2. ASSUME NEW i \in 1..Len(queue')
        PROVE  queue'[i] \subseteq 1..sent'
    <3>1. 1..sent \subseteq 1..sent'
      BY <1>0, <1>2
    <3>2. CASE i \in 1..Len(queue)
      BY <2>1, <3>1, <3>2 DEF QueueInv
    <3>3. CASE i = Len(queue) + 1
      BY <1>2, <2>1, <3>3
    <3> QED
      BY <1>0, <2>1, <3>2, <3>3
  <2>3. ASSUME NEW i \in 1..Len(queue'), NEW j \in 1..Len(queue'), i <= j, queue'[i] = Sentinel
        PROVE  queue'[j] = Sentinel
    <3>1. CASE j \in 1..Len(queue)
      BY <1>0, <2>1, <2>3, <3>1 DEF QueueInv
    <3>2. CASE j = Len(queue) + 1
      BY <1>0, <1>2, <2>1, <2>3, <3>2 DEF PhaseInv
    <3> QED
      BY <1>0, <2>1, <3>1, <3>2
  <2>4. \A k \in Consumer : Dead(k)' => \A i \in 1..Len(queue') : queue'[i] = Sentinel
    BY <1>0, <1>2, <2>1 DEF QueueInv, PhaseInv, Dead
  <2> QED
    BY <2>2, <2>3, <2>4 DEF QueueInv
<1>3. CASE PutWindow
  <2>1. sent + Window <= fed
    BY <1>0, <1>3 DEF PhaseInv, PutWindow
  <2>2. (sent + 1)..(sent + Window) \in SUBSET Chunk
    BY <1>0, <2>1 DEF Chunk
  <2> QED
    BY <1>0, <1>2, <1>3, <2>1, <2>2 DEF PutWindow, sinks, Feeding
<1>4. CASE FlushPending
  <2>1. CASE sent = fed
    BY <1>4, <2>1 DEF FlushPending, QueueInv, Dead, sinks
  <2>2. CASE sent # fed
    <3>1. (sent + 1)..fed \in SUBSET Chunk
      BY <1>0 DEF Chunk
    <3> QED
      BY <1>0, <1>2, <1>4, <2>2, <3>1 DEF TypeOK, FlushPending, sinks, Feeding
  <2> QED
    BY <2>1, <2>2
<1>5. CASE PutSentinel("sentinels", "join") \/ PutSentinel("stop", "rejoin")
  <2>1. CASE left = 0
    BY <1>5, <2>1 DEF PutSentinel, QueueInv, Dead, sinks
  <2>2. CASE left # 0
    BY <1>0, <1>2, <1>5, <2>2 DEF PutSentinel, Sentinel, sinks
  <2> QED
    BY <2>1, <2>2
<1>6. ASSUME queue # <<>>, queue' = Tail(queue), UNCHANGED sent,
             \A k \in Consumer : Dead(k)' => Dead(k) \/ Head(queue) = Sentinel
      PROVE  QueueInv'
  <2>1. /\ Head(queue) = queue[1] /\ Len(queue') + 1 = Len(queue) /\ Len(queue') \in Nat
        /\ \A i \in 1..Len(queue') : queue'[i] = queue[i + 1]
    BY <1>6, Taken DEF TypeOK
  <2>2. \A i \in 1..Len(queue') : queue'[i] \subseteq 1..sent'
    BY <1>6, <2>1 DEF QueueInv
  <2>3. \A i, j \in 1..Len(queue') : i <= j /\ queue'[i] = Sentinel => queue'[j] = Sentinel
    BY <2>1 DEF QueueInv
  <2>4. \A k \in Consumer : Dead(k)' => \A i \in 1..Len(queue') : queue'[i] = Sentinel
    BY <1>6, <2>1 DEF QueueInv
  <2> QED
    BY <2>2, <2>3, <2>4 DEF QueueInv
<1>7. CASE Drain
  <2>1. CASE queue = <<>>
    BY <1>7, <2>1 DEF Drain, QueueInv, Dead, sinks
  <2>2. CASE queue # <<>>
    BY <1>6, <1>7, <2>2 DEF Drain, Dead, sinks
  <2> QED
    BY <2>1, <2>2
<1>8. ASSUME NEW k \in Consumer, Get(k)
      PROVE  QueueInv'
  BY <1>6, <1>8 DEF TypeOK, Get, Dead, main
<1>9. ASSUME NEW k \in Consumer,
             Present(k) \/ Fetch(k) \/ Move(k) \/ Embed(k) \/ Add(k) \/ ConsumerFails(k)
      PROVE  QueueInv'
  <2>1. UNCHANGED <<main, queue>>
    BY <1>9 DEF Present, Fetch, Move, Embed, Add, ConsumerFails
  <2>2. \A j \in Consumer : cpc'[j] = "dead" => cpc[j] = "dead"
    BY <1>9 DEF TypeOK, Present, Fetch, Move, Embed, Add, ConsumerFails, WriteRows, AfterError
  <2> QED
    BY <2>1, <2>2 DEF QueueInv, Dead, main
<1>10. CASE Terminated
  BY <1>10 DEF QueueInv, Dead, Terminated, vars, main, sinks
<1> QED
  BY <1>1, <1>3, <1>4, <1>5, <1>7, <1>8, <1>9, <1>10 DEF Next, Main, Consume, Fails, Quiet

--------------------------------------------------------------------------------
(* The consumers' windows and the table.                                   *)

\* Every step that writes rows writes those of chunks in one consumer's hands.
Writes(S) == rows' = Upserted(S) /\ \E k \in Consumer : S \subseteq todo[k]

\* The table changes only by the writes of a window's rows.
LEMMA RowsChange ==
  ASSUME TypeOK, Next
  PROVE  rows' = rows \/ \E S \in SUBSET Chunk : Writes(S)
<1>1. ASSUME NEW k \in Consumer, Move(k)
      PROVE  \E S \in SUBSET Chunk : Writes(S)
  <2>1. {c \in todo[k] : Want[c] \in reuse[k]} \in SUBSET Chunk
    BY DEF TypeOK
  <2> QED
    BY <1>1, <2>1 DEF Move, WriteRows, Writes
<1>2. ASSUME NEW k \in Consumer, Add(k)
      PROVE  \E S \in SUBSET Chunk : Writes(S)
  BY <1>2 DEF TypeOK, Add, WriteRows, Writes
<1>3. ASSUME NEW k \in Consumer, ConsumerFails(k)
      PROVE  \E S \in SUBSET Chunk : Writes(S)
  <2>1. PICK S : rows' = Upserted(S) /\ S \subseteq todo[k]
    BY <1>3 DEF ConsumerFails
  <2> QED
    BY <2>1 DEF TypeOK, Writes
<1>4. CASE Main \/ MainRaises \/ Terminated
           \/ \E k \in Consumer : Get(k) \/ Present(k) \/ Fetch(k) \/ Embed(k)
  BY <1>4 DEF Main, Submit, PutWindow, FlushPending, Close, PutSentinel, Joined, SubmitRaises,
              Drain, AbortJoined, MainRaises, Terminated, Get, Present, Fetch, Embed, table,
              vars
<1> QED
  BY <1>1, <1>2, <1>3, <1>4 DEF Next, Consume, Fails

\* Every step keeps chunks in the hands of those who may hold them.
LEMMA HandStep ==
  ASSUME TypeOK, PhaseInv, QueueInv, HandInv, Next
  PROVE  HandInv'
<1>0. Window \in Nat \ {0} /\ sent \in Nat /\ fed \in Nat
  BY Constants DEF TypeOK
<1>1. ASSUME UNCHANGED sinks, sent' \in Nat, sent <= sent'
      PROVE  HandInv'
  <2>1. 1..sent \subseteq 1..sent'
    BY <1>0, <1>1
  <2> QED
    BY <1>1, <2>1 DEF HandInv, sinks
<1>2. CASE Main \/ MainRaises \/ Terminated
  BY <1>0, <1>1, <1>2
     DEF Main, Submit, PutWindow, FlushPending, Close, PutSentinel, Joined, SubmitRaises, Drain,
         AbortJoined, MainRaises, Terminated, TypeOK, main, vars
<1>3. ASSUME NEW k \in Consumer, Get(k)
      PROVE  HandInv'
  <2>1. Head(queue) \subseteq 1..sent
    <3>1. Head(queue) = queue[1] /\ 1 \in 1..Len(queue)
      BY <1>3 DEF TypeOK, Get
    <3> QED
      BY <3>1 DEF QueueInv
  <2> QED
    BY <1>3, <2>1 DEF TypeOK, HandInv, Get, main
<1>4. ASSUME NEW k \in Consumer, Present(k) \/ Fetch(k) \/ Embed(k)
      PROVE  HandInv'
  BY <1>4 DEF TypeOK, HandInv, Present, Fetch, Embed, main
<1>5. ASSUME NEW k \in Consumer, Move(k) \/ Add(k)
      PROVE  HandInv'
  <2>1. PICK S : WriteRows(k, S) /\ UNCHANGED main
    BY <1>5 DEF Move, Add
  <2> QED
    BY <2>1 DEF TypeOK, HandInv, WriteRows, main
<1>6. ASSUME NEW k \in Consumer, ConsumerFails(k)
      PROVE  HandInv'
  BY <1>6 DEF TypeOK, HandInv, ConsumerFails, main
<1> QED
  BY <1>2, <1>3, <1>4, <1>5, <1>6 DEF Next, Consume, Fails

\* Rows of up-to-date chunks are never taken away.
LEMMA WrittenStays ==
  ASSUME TypeOK, RowsInv, Next, NEW c \in Chunk, Written(c)
  PROVE  Written(c)'
<1>1. UNCHANGED Want
  OBVIOUS
<1>2. CASE rows' = rows
  BY <1>2 DEF Written
<1>3. ASSUME NEW S \in SUBSET Chunk, Writes(S)
      PROVE  Written(c)'
  BY <1>3, Upsert DEF Writes, Written
<1> QED
  BY <1>2, <1>3, RowsChange

\* Every step keeps the rows of new ids this ingest's.
LEMMA RowsStep ==
  ASSUME TypeOK, NoDuplicateRows, RowsInv, Next
  PROVE  NoDuplicateRows' /\ RowsInv'
<1>1. snapshot' = snapshot
  BY DEF Next, Main, Consume, Fails, Submit, PutWindow, FlushPending, Close, PutSentinel, Joined,
         SubmitRaises, Drain, AbortJoined, MainRaises, Terminated, Get, Present, Fetch, Move,
         Embed, Add, ConsumerFails, vars
<1>2. CASE rows' = rows
  BY <1>1, <1>2 DEF NoDuplicateRows, RowsInv, Stored, Written
<1>3. ASSUME NEW S \in SUBSET Chunk, Writes(S)
      PROVE  NoDuplicateRows' /\ RowsInv'
  <2>1. rows' = {r \in rows : r[1] \notin S} \cup {<<c, Want[c]>> : c \in S}
    BY <1>3, Upsert DEF Writes
  <2>2. NoDuplicateRows'
    BY <2>1 DEF NoDuplicateRows
  <2>3. \A r \in rows' : ~Stored(r[1])' => r[2] = Want[r[1]]
    BY <1>1, <2>1 DEF RowsInv, Stored
  <2>4. \A c \in Chunk : snapshot'[c] = Want[c] => Written(c)'
    BY <1>1, WrittenStays DEF RowsInv
  <2> QED
    BY <2>2, <2>3, <2>4 DEF RowsInv
<1> QED
  BY <1>2, <1>3, RowsChange

--------------------------------------------------------------------------------
(* Nothing is lost.                                                        *)

\* No step loses a chunk, unless there is an error.
LEMMA LostStep ==
  ASSUME TypeOK, PhaseInv, QueueInv, HandInv, NoDuplicateRows, RowsInv, NothingLost, Next
  PROVE  NothingLost'
<1>0. /\ Chunks \in Nat /\ Window \in Nat \ {0}
      /\ Len(queue) \in Nat /\ sent \in Nat /\ fed \in Nat /\ sent <= fed /\ fed <= Chunks
      /\ Sentinel \in SUBSET Chunk /\ 1..sent \subseteq Chunk
  BY Constants DEF TypeOK, Sentinel, Chunk
<1> SUFFICES ASSUME ~error', pc' \in Well
             PROVE  \A c \in 1..sent' : Written(c)' \/ Queued(c)' \/ InHand(c)'
  BY DEF NothingLost
<1>1. ~error /\ pc \in Well
  <2>1. CASE Main
    BY <2>1 DEF Well, Feeding, Main, Submit, PutWindow, FlushPending, Close, PutSentinel, Joined,
                SubmitRaises, Drain, AbortJoined
  <2>2. ASSUME NEW k \in Consumer, Consume(k)
        PROVE  ~error /\ pc \in Well
    BY <2>2 DEF Consume, Get, Present, Fetch, Move, Embed, Add, main
  <2>3. CASE Fails
    BY <2>3 DEF Well, Feeding, Fails, MainRaises, ConsumerFails
  <2>4. CASE Terminated
    BY <2>4 DEF Terminated, vars, main
  <2> QED
    BY <2>1, <2>2, <2>3, <2>4 DEF Next
<1>2. \A c \in 1..sent : Written(c) \/ Queued(c) \/ InHand(c)
  BY <1>1 DEF NothingLost
<1>3. \A c \in 1..sent : Written(c) => Written(c)'
  BY <1>0, WrittenStays
<1>4. CASE Quiet \/ Terminated
  BY <1>2, <1>3, <1>4
     DEF Quiet, Submit, Close, Joined, SubmitRaises, AbortJoined, MainRaises, Terminated, Queued,
         InHand, sinks, main, vars
<1>5. ASSUME NEW item \in SUBSET Chunk, queue' = Append(queue, item), UNCHANGED todo,
             sent' \in Nat, \A c \in 1..sent' : c \in 1..sent \/ c \in item
      PROVE  \A c \in 1..sent' : Written(c)' \/ Queued(c)' \/ InHand(c)'
  <2>1. /\ Len(queue') = Len(queue) + 1 /\ queue'[Len(queue) + 1] = item
        /\ \A i \in 1..Len(queue) : queue'[i] = queue[i]
    BY <1>5, Put DEF TypeOK
  <2>2. \A c \in 1..sent : Queued(c) => Queued(c)'
    BY <1>0, <2>1 DEF Queued
  <2>3. \A c \in item : Queued(c)'
    BY <1>0, <2>1 DEF Queued
  <2>4. \A c \in 1..sent : InHand(c) => InHand(c)'
    BY <1>5 DEF InHand
  <2> QED
    BY <1>2, <1>3, <1>5, <2>2, <2>3, <2>4
<1>6. CASE PutWindow
  <2>1. sent + Window <= fed
    BY <1>0, <1>6 DEF PhaseInv, PutWindow
  <2>2. (sent + 1)..(sent + Window) \in SUBSET Chunk
    BY <1>0, <2>1 DEF Chunk
  <2>3. \A c \in 1..sent' : c \in 1..sent \/ c \in (sent + 1)..(sent + Window)
    BY <1>0, <1>6 DEF PutWindow
  <2> QED
    BY <1>0, <1>5, <1>6, <2>2, <2>3 DEF PutWindow, sinks
<1>7. CASE FlushPending
  <2>1. CASE sent = fed
    BY <1>2, <1>3, <1>7, <2>1 DEF FlushPending, Queued, InHand, sinks
  <2>2. CASE sent # fed
    <3>1. (sent + 1)..fed \in SUBSET Chunk
      BY <1>0 DEF Chunk
    <3>2. \A c \in 1..sent' : c \in 1..sent \/ c \in (sent + 1)..fed
      BY <1>0, <1>7, <2>2 DEF FlushPending
    <3> QED
      BY <1>0, <1>5, <1>7, <2>2, <3>1, <3>2 DEF FlushPending, sinks
  <2> QED
    BY <2>1, <2>2
<1>8. CASE PutSentinel("sentinels", "join") \/ PutSentinel("stop", "rejoin")
  <2>1. CASE left = 0
    BY <1>2, <1>3, <1>8, <2>1 DEF PutSentinel, Queued, InHand, sinks
  <2>2. CASE left # 0
    BY <1>0, <1>5, <1>8, <2>2 DEF PutSentinel, sinks
  <2> QED
    BY <2>1, <2>2
<1>9. CASE Drain
  BY <1>1, <1>9 DEF Drain, Well, Feeding
<1>10. ASSUME NEW k \in Consumer, Get(k)
       PROVE  \A c \in 1..sent' : Written(c)' \/ Queued(c)' \/ InHand(c)'
  <2>0. sent' = sent
    BY <1>10 DEF Get, main
  <2>1. /\ Head(queue) = queue[1] /\ Len(queue') + 1 = Len(queue) /\ Len(queue') \in Nat
        /\ \A i \in 1..Len(queue') : queue'[i] = queue[i + 1]
    BY <1>10, Taken DEF TypeOK, Get
  <2>2. \A c \in 1..sent : Queued(c) => c \in Head(queue) \/ Queued(c)'
    <3> SUFFICES ASSUME NEW c \in 1..sent, NEW i \in 1..Len(queue), c \in queue[i], i # 1
                 PROVE  Queued(c)'
      BY <2>1 DEF Queued
    <3>1. i - 1 \in 1..Len(queue') /\ queue'[i - 1] = queue[i]
      BY <2>1
    <3> QED
      BY <3>1 DEF Queued
  <2>3. \A c \in Head(queue) \cap 1..sent : Written(c)' \/ InHand(c)'
    <3> SUFFICES ASSUME NEW c \in Head(queue) \cap 1..sent
                 PROVE  Written(c)' \/ InHand(c)'
      OBVIOUS
    <3>1. CASE snapshot[c] = Want[c]
      BY <1>0, <1>3, <3>1 DEF RowsInv
    <3>2. CASE snapshot[c] # Want[c]
      <4>1. todo'[k] = {x \in Head(queue) : snapshot[x] # Want[x]}
        BY <1>1, <1>10, <3>2 DEF TypeOK, Get, Sentinel
      <4> QED
        BY <3>2, <4>1 DEF InHand
    <3> QED
      BY <3>1, <3>2
  <2>4. \A c \in 1..sent : InHand(c) => InHand(c)'
    <3>1. \A j \in Consumer : todo[j] \subseteq todo'[j]
      BY <1>10 DEF TypeOK, HandInv, Get
    <3> QED
      BY <3>1 DEF InHand
  <2> QED
    BY <1>2, <1>3, <2>0, <2>2, <2>3, <2>4
<1>11. ASSUME NEW k \in Consumer, Present(k) \/ Fetch(k) \/ Embed(k)
       PROVE  \A c \in 1..sent' : Written(c)' \/ Queued(c)' \/ InHand(c)'
  BY <1>2, <1>3, <1>11 DEF Present, Fetch, Embed, Queued, InHand, main
<1>12. ASSUME NEW k \in Consumer, Move(k) \/ Add(k)
       PROVE  \A c \in 1..sent' : Written(c)' \/ Queued(c)' \/ InHand(c)'
  <2>1. PICK S : WriteRows(k, S) /\ S \in SUBSET Chunk /\ UNCHANGED <<main, queue>>
    BY <1>12 DEF TypeOK, Move, Add
  <2>2. \A c \in S : Written(c)'
    BY <2>1, Upsert DEF WriteRows, Written
  <2>3. \A c \in 1..sent : InHand(c) => c \in S \/ InHand(c)'
    BY <2>1 DEF TypeOK, WriteRows, InHand
  <2> QED
    BY <1>2, <1>3, <2>1, <2>2, <2>3 DEF Queued, main
<1>13. ASSUME NEW k \in Consumer, ConsumerFails(k)
       PROVE  FALSE
  BY <1>13 DEF ConsumerFails
<1> QED
  BY <1>4, <1>6, <1>7, <1>8, <1>9, <1>10, <1>11, <1>12, <1>13
     DEF Next, Main, Consume, Fails, Quiet

--------------------------------------------------------------------------------
(* Nobody pays twice.                                                      *)

\* PaidInv for one consumer, in two parts.
Earned(k, d) ==
    \/ \E c \in Chunk : Want[c] = d /\ Written(c) /\ d \in hashes
    \/ cpc[k] = "add" /\ d \in Digests(todo[k])
    \/ error /\ cpc[k] \in {"get", "dead"}

Careful(k) ==
    /\ cpc[k] \in {"fetch", "move"} => paid[k] \cap Digests(todo[k]) \subseteq reuse[k]
    /\ cpc[k] = "embed" => paid[k] \cap Digests(todo[k]) = {}

\* Every step keeps what was paid for findable.
LEMMA PaidStep ==
  ASSUME TypeOK, RowsInv, PaidInv, PaidOnce, Next
  PROVE  PaidInv' /\ PaidOnce'
<1>0. PaidInv <=> \A k \in Consumer : (\A d \in paid[k] : Earned(k, d)) /\ Careful(k)
  BY DEF PaidInv, Earned, Careful
<1>1. PaidInv' <=> \A k \in Consumer : (\A d \in paid'[k] : Earned(k, d)') /\ Careful(k)'
  BY DEF PaidInv, Earned, Careful
<1>2. hashes \subseteq hashes'
  BY DEF Next, Main, Consume, Fails, Submit, PutWindow, FlushPending, Close, PutSentinel, Joined,
         SubmitRaises, Drain, AbortJoined, MainRaises, Terminated, Get, Present, Fetch, Move,
         Embed, Add, ConsumerFails, WriteRows, table, vars
<1>3. \A d : (\E c \in Chunk : Want[c] = d /\ Written(c) /\ d \in hashes)
             => (\E c \in Chunk : Want[c] = d /\ Written(c)' /\ d \in hashes')
  BY <1>2, WrittenStays
<1>4. ASSUME NEW k \in Consumer, UNCHANGED bill,
             \A j \in Consumer \ {k} :
               cpc'[j] = cpc[j] /\ todo'[j] = todo[j] /\ reuse'[j] = reuse[j],
             error => error',
             \A d \in paid[k] : Earned(k, d) => Earned(k, d)',
             Careful(k)'
      PROVE  PaidInv' /\ PaidOnce'
  <2>1. ASSUME NEW j \in Consumer \ {k}
        PROVE  (\A d \in paid'[j] : Earned(j, d)') /\ Careful(j)'
    BY <1>0, <1>3, <1>4, <2>1 DEF Earned, Careful, Digests, bill
  <2>2. \A d \in paid'[k] : Earned(k, d)'
    BY <1>0, <1>4 DEF bill
  <2> QED
    BY <1>1, <1>4, <2>1, <2>2 DEF PaidOnce, bill
<1>5. CASE Main \/ MainRaises \/ Terminated
  <2>1. UNCHANGED <<sinks, error, bill>>
    BY <1>5 DEF Main, Submit, PutWindow, FlushPending, Close, PutSentinel, Joined, SubmitRaises,
                Drain, AbortJoined, MainRaises, Terminated, vars
  <2> QED
    BY <1>0, <1>1, <1>3, <2>1 DEF Earned, Careful, Digests, PaidOnce, sinks, bill
<1>6. ASSUME NEW k \in Consumer, Get(k)
      PROVE  PaidInv' /\ PaidOnce'
  <2>1. \A d \in paid[k] : Earned(k, d) => Earned(k, d)'
    BY <1>3, <1>6 DEF TypeOK, Earned, Get, Digests
  <2>2. Careful(k)'
    BY <1>6 DEF TypeOK, Careful, Get
  <2> QED
    BY <1>4, <1>6, <2>1, <2>2 DEF TypeOK, Get
<1>7. ASSUME NEW k \in Consumer, Present(k)
      PROVE  PaidInv' /\ PaidOnce'
  <2>1. \A d \in paid[k] : d \in hashes
    BY <1>0, <1>7 DEF Earned, Present
  <2>2. Careful(k)'
    BY <1>7, <2>1 DEF TypeOK, Careful, Present, PresentHashes, Digests, bill
  <2>3. \A d \in paid[k] : Earned(k, d) => Earned(k, d)'
    BY <1>3, <1>7 DEF Earned, Present
  <2> QED
    BY <1>4, <1>7, <2>2, <2>3 DEF TypeOK, Present
<1>8. ASSUME NEW k \in Consumer, Fetch(k)
      PROVE  PaidInv' /\ PaidOnce'
  <2>1. \A d \in paid[k] : d \in {r[2] : r \in rows}
    <3> SUFFICES ASSUME NEW d \in paid[k]
                 PROVE  \E r \in rows : r[2] = d
      OBVIOUS
    <3>1. PICK c \in Chunk : Want[c] = d /\ <<c, Want[c]>> \in rows
      BY <1>0, <1>8 DEF Earned, Fetch, Written
    <3>2. <<c, Want[c]>>[2] = d
      BY <3>1
    <3> QED
      BY <3>1, <3>2
  <2>2. paid[k] \cap Digests(todo[k]) \subseteq reuse'[k]
    BY <1>0, <1>8, <2>1 DEF TypeOK, Careful, Fetch
  <2>3. Careful(k)'
    BY <1>8, <2>2 DEF TypeOK, Careful, Fetch, Digests, bill
  <2>4. \A d \in paid[k] : Earned(k, d) => Earned(k, d)'
    BY <1>3, <1>8 DEF Earned, Fetch
  <2> QED
    BY <1>4, <1>8, <2>3, <2>4 DEF TypeOK, Fetch
<1>9. ASSUME NEW k \in Consumer, Move(k)
      PROVE  PaidInv' /\ PaidOnce'
  <2>1. todo'[k] = todo[k] \ {c \in todo[k] : Want[c] \in reuse[k]} /\ paid' = paid
        /\ cpc'[k] \in {"get", "embed"}
    BY <1>9 DEF TypeOK, Move, WriteRows, bill
  <2>2. paid[k] \cap Digests(todo[k]) \subseteq reuse[k]
    BY <1>0, <1>9 DEF Careful, Move
  <2>3. Careful(k)'
    BY <2>1, <2>2 DEF Careful, Digests
  <2>4. \A d \in paid[k] : Earned(k, d) => Earned(k, d)'
    BY <1>3, <1>9 DEF Earned, Move
  <2> QED
    BY <1>4, <1>9, <2>3, <2>4 DEF TypeOK, Move, WriteRows
<1>10. ASSUME NEW k \in Consumer, Embed(k)
       PROVE  PaidInv' /\ PaidOnce'
  <2>1. paid[k] \cap Digests(todo[k]) = {}
    BY <1>0, <1>10 DEF Careful, Embed
  <2>2. PaidOnce'
    BY <1>10, <2>1 DEF PaidOnce, Embed
  <2>3. \A d \in paid[k] : \E c \in Chunk : Want[c] = d /\ Written(c) /\ d \in hashes
    BY <1>0, <1>10 DEF Earned, Embed
  <2>4. cpc'[k] = "add" /\ paid'[k] = paid[k] \cup Digests(todo[k]) /\ todo' = todo
    BY <1>10 DEF TypeOK, Embed
  <2>5. (\A d \in paid'[k] : Earned(k, d)') /\ Careful(k)'
    BY <1>3, <2>3, <2>4 DEF Earned, Careful, Digests
  <2>6. ASSUME NEW j \in Consumer \ {k}
        PROVE  (\A d \in paid'[j] : Earned(j, d)') /\ Careful(j)'
    <3>1. cpc'[j] = cpc[j] /\ todo'[j] = todo[j] /\ reuse'[j] = reuse[j] /\ paid'[j] = paid[j]
          /\ error' = error
      BY <1>10 DEF TypeOK, Embed
    <3> QED
      BY <1>0, <1>3, <3>1 DEF Earned, Careful, Digests
  <2> QED
    BY <1>1, <2>2, <2>5, <2>6
<1>11. ASSUME NEW k \in Consumer, Add(k)
       PROVE  PaidInv' /\ PaidOnce'
  <2>1. cpc'[k] = "get" /\ rows' = Upserted(todo[k]) /\ hashes' = hashes \cup Digests(todo[k])
    BY <1>11 DEF TypeOK, Add, WriteRows
  <2>2. todo[k] \in SUBSET Chunk
    BY DEF TypeOK
  <2>3. \A c \in todo[k] : Written(c)' /\ Want[c] \in hashes'
    BY <2>1, <2>2, Upsert DEF Written, Digests
  <2>4. \A d \in paid[k] : Earned(k, d) => Earned(k, d)'
    BY <1>3, <1>11, <2>2, <2>3 DEF Earned, Digests, Add
  <2>5. Careful(k)'
    BY <2>1 DEF Careful
  <2> QED
    BY <1>4, <1>11, <2>4, <2>5 DEF TypeOK, Add, WriteRows
<1>12. ASSUME NEW k \in Consumer, ConsumerFails(k)
       PROVE  PaidInv' /\ PaidOnce'
  <2>1. cpc'[k] = "get" /\ error'
    BY <1>12 DEF TypeOK, ConsumerFails, AfterError
  <2> QED
    BY <1>4, <1>12, <2>1 DEF TypeOK, ConsumerFails, Earned, Careful
<1> QED
  BY <1>5, <1>6, <1>7, <1>8, <1>9, <1>10, <1>11, <1>12 DEF Next, Consume, Fails

--------------------------------------------------------------------------------
(* The invariant.                                                          *)

\* The invariant holds at first
LEMMA InitEstablishes == Init => IndInv
<1> SUFFICES ASSUME Init PROVE IndInv
  OBVIOUS
<1>0. /\ Chunks \in Nat /\ Workers \in Nat /\ Capacity \in Nat /\ MaxFaults \in Nat
      /\ Want \in [Chunk -> Digest] /\ NoDigest \notin Digest
  BY Constants, PipelineAssumption DEF Capacity
<1>1. /\ queue = <<>> /\ Len(queue) = 0 /\ queue \in Seq(SUBSET Chunk)
      /\ 1..Len(queue) = {} /\ 1..sent = {}
  BY DEF Init
<1>2. /\ snapshot \in [Chunk -> Digest \cup {NoDigest}]
      /\ rows = {<<c, snapshot[c]>> : c \in {x \in Chunk : Stored(x)}}
      /\ hashes = {snapshot[c] : c \in {x \in Chunk : Stored(x)}}
  BY DEF Init
<1>3. rows \in SUBSET (Chunk \X Digest) /\ hashes \in SUBSET Digest
  BY <1>2 DEF Stored
<1>4. TypeOK
  <2>1. pc \in MainLabels /\ error \in BOOLEAN /\ repaid \in BOOLEAN
    BY DEF Init, MainLabels
  <2>2. fed \in 0..Chunks /\ sent \in 0..fed /\ left \in 0..Workers /\ faults \in Nat
    <3>1. fed = 0 /\ sent = 0 /\ left = 0 /\ faults = MaxFaults
      BY DEF Init
    <3> QED
      BY <1>0, <3>1
  <2>3. /\ cpc \in [Consumer -> ConsumerLabels] /\ todo \in [Consumer -> SUBSET Chunk]
        /\ reuse \in [Consumer -> SUBSET Digest] /\ paid \in [Consumer -> SUBSET Digest]
    BY DEF Init, ConsumerLabels
  <2>4. Len(queue) <= Capacity
    BY <1>0, <1>1
  <2> QED
    BY <1>1, <1>2, <1>3, <2>1, <2>2, <2>3, <2>4 DEF TypeOK
<1>5. PhaseInv
  BY <1>1 DEF Init, PhaseInv, Well, Feeding, Dead, Ended
<1>6. QueueInv /\ HandInv /\ NothingLost
  BY <1>1 DEF Init, QueueInv, HandInv, NothingLost, Dead
<1>7. NoDuplicateRows
  BY <1>2 DEF NoDuplicateRows
<1>8. RowsInv
  BY <1>0, <1>2 DEF RowsInv, Stored, Written
<1>9. PaidInv /\ PaidOnce
  BY DEF Init, PaidInv, PaidOnce
<1> QED
  BY <1>4, <1>5, <1>6, <1>7, <1>8, <1>9 DEF IndInv

\* and is kept by every step.
LEMMA StepKeeps == IndInv /\ [Next]_vars => IndInv'
<1> SUFFICES ASSUME IndInv, [Next]_vars PROVE IndInv'
  OBVIOUS
<1>1. CASE Next
  BY <1>1, TypeStep, PhaseStep, QueueStep, HandStep, RowsStep, LostStep, PaidStep DEF IndInv
<1>2. CASE UNCHANGED vars
  <2>1. TypeOK' /\ PhaseInv' /\ QueueInv' /\ HandInv'
    BY <1>2 DEF IndInv, TypeOK, PhaseInv, QueueInv, HandInv, Dead, Ended, AllEnded, vars, main,
                sinks, table, bill
  <2>2. NoDuplicateRows' /\ RowsInv' /\ NothingLost'
    BY <1>2 DEF IndInv, NoDuplicateRows, RowsInv, NothingLost, Stored, Written, Queued, InHand,
                vars, main, sinks, table
  <2>3. PaidInv' /\ PaidOnce'
    BY <1>2 DEF IndInv, PaidInv, PaidOnce, Written, Digests, vars, sinks, table, bill
  <2> QED
    BY <2>1, <2>2, <2>3 DEF IndInv
<1> QED
  BY <1>1, <1>2

\* The inductive invariant of the pipeline.
THEOREM Inductive == Spec => []IndInv
BY InitEstablishes, StepKeeps, PTL DEF Spec

\* Every variable keeps its type, and the queue never holds more windows than
\* its size.
THEOREM TypeCorrect == Spec => []TypeOK
<1>1. IndInv => TypeOK
  BY DEF IndInv
<1> QED
  BY <1>1, Inductive, PTL

\* No chunk id ever gets two rows in the vector table.
THEOREM OneRowPerChunk == Spec => []NoDuplicateRows
<1>1. IndInv => NoDuplicateRows
  BY DEF IndInv
<1> QED
  BY <1>1, Inductive, PTL

\* No consumer sends the same content to embed() twice in one ingest.
THEOREM PaidOnlyOnce == Spec => []PaidOnce
<1>1. IndInv => PaidOnce
  BY DEF IndInv
<1> QED
  BY <1>1, Inductive, PTL

--------------------------------------------------------------------------------
(* The refinement.                                                         *)

\* Stage's variables: its stage, the submitted chunks and the rows.
stageNow == IF pc = "ok" THEN "ok" ELSE IF pc = "raised" THEN "failed" ELSE "open"
stageVars == <<stageNow, 1..fed, rows>>

\* close() returns well: every consumer has taken its sentinel, so nothing is
\* queued or in hand, and every chunk has its row.
LEMMA AllWritten ==
  ASSUME IndInv, Joined, ~error
  PROVE  \A c \in 1..fed : Written(c)
<1>1. pc \in Well /\ sent = fed /\ \A k \in Consumer : Dead(k)
  BY DEF IndInv, PhaseInv, Joined, AllEnded, Dead, Well, Feeding
<1>2. \A k \in Consumer : todo[k] = {}
  BY <1>1 DEF IndInv, HandInv, Dead
<1>3. PICK k \in Consumer : Dead(k)
  BY <1>1, PipelineAssumption
<1> SUFFICES ASSUME NEW c \in 1..fed PROVE Written(c)
  OBVIOUS
<1>4. Written(c) \/ Queued(c) \/ InHand(c)
  BY <1>1 DEF IndInv, NothingLost
<1>5. ~InHand(c)
  BY <1>2 DEF InHand
<1>6. ~Queued(c)
  BY <1>3 DEF IndInv, QueueInv, Queued, Sentinel
<1> QED
  BY <1>4, <1>5, <1>6

\* The pipeline starts as the stage does,
LEMMA StageInit == Init => Stage!Init
BY DEF Init, Stage!Init

\* A consumer that still holds chunks keeps the stage open.
LEMMA StageOpen ==
  ASSUME IndInv, NEW k \in Consumer, cpc[k] # "dead"
  PROVE  stageNow = "open"
BY DEF IndInv, PhaseInv, Ended, AllEnded, stageNow

\* A write of a consumer is a write of the stage.
LEMMA StageWrite ==
  ASSUME IndInv, NEW k \in Consumer, cpc[k] # "dead",
         NEW S \in SUBSET todo[k], rows' = Upserted(S), UNCHANGED main
  PROVE  Stage!Write
<1>1. S \in SUBSET Chunk /\ S \in SUBSET (1..fed)
  <2>1. todo[k] \in SUBSET Chunk /\ todo[k] \subseteq 1..sent
    BY DEF IndInv, TypeOK, HandInv
  <2>2. 1..sent \subseteq 1..fed
    BY Constants DEF IndInv, TypeOK
  <2> QED
    BY <2>1, <2>2
<1>2. rows' = {r \in rows : r[1] \notin S} \cup {<<c, Want[c]>> : c \in S}
  BY <1>1, Upsert DEF IndInv
<1>3. stageNow = "open"
  BY StageOpen
<1> QED
  BY <1>1, <1>2, <1>3 DEF Stage!Write, Stage!Row, stageNow, main

\* and each of its steps is one of the stage or none.
LEMMA StageStep == IndInv /\ [Next]_vars => [Stage!Next]_stageVars
<1> SUFFICES ASSUME IndInv, [Next]_vars PROVE [Stage!Next]_stageVars
  OBVIOUS
<1>0. /\ Chunks \in Nat /\ fed \in 0..Chunks /\ MaxSubmit \in Nat
  BY Constants, PipelineAssumption DEF IndInv, TypeOK
<1>1. ASSUME NEW n \in 1..MaxSubmit, Submit(n)
      PROVE  Stage!Submit
  <2>1. fed' = fed + n /\ fed' \in 0..Chunks
    BY <1>0, <1>1 DEF Submit
  <2>2. 1..fed' \in SUBSET Chunk /\ 1..fed \subseteq 1..fed'
    BY <1>0, <2>1 DEF Chunk
  <2>3. rows' = rows /\ stageNow = "open" /\ stageNow' = "open"
    BY <1>1 DEF Submit, stageNow, table
  <2> QED
    BY <2>2, <2>3 DEF Stage!Submit, stageNow
<1>2. CASE Joined
  <2>1. CASE error
    BY <1>2, <2>1 DEF Joined, stageVars, stageNow, table
  <2>2. CASE ~error
    <3>1. \A c \in 1..fed : Written(c)
      BY <1>2, <2>2, AllWritten
    <3>2. pc = "join" /\ pc' = "ok" /\ fed' = fed /\ rows' = rows
      BY <1>2, <2>2 DEF Joined, table
    <3>3. Stage!Finish
      BY <3>1, <3>2 DEF Stage!Finish, Stage!Row, Written
    <3> QED
      BY <3>3 DEF Stage!Next
  <2> QED
    BY <2>1, <2>2
<1>3. CASE AbortJoined
  <2>1. Stage!Fail
    BY <1>3 DEF AbortJoined, Stage!Fail, table
  <2> QED
    BY <2>1 DEF Stage!Next
<1>4. CASE \/ PutWindow \/ FlushPending \/ Close \/ PutSentinel("sentinels", "join")
           \/ SubmitRaises \/ Drain \/ PutSentinel("stop", "rejoin") \/ MainRaises
           \/ Terminated \/ UNCHANGED vars
  BY <1>4 DEF PutWindow, FlushPending, Close, PutSentinel, SubmitRaises, Drain, MainRaises,
              Terminated, stageVars, stageNow, vars, main, table
<1>5. ASSUME NEW k \in Consumer, Get(k) \/ Present(k) \/ Fetch(k) \/ Embed(k)
      PROVE  UNCHANGED stageVars
  BY <1>5 DEF Get, Present, Fetch, Embed, stageVars, stageNow, main, table
<1>6. ASSUME NEW k \in Consumer, Move(k) \/ Add(k)
      PROVE  Stage!Write
  <2>1. PICK S \in SUBSET todo[k] : rows' = Upserted(S) /\ UNCHANGED main
    BY <1>6 DEF Move, Add, WriteRows
  <2>2. cpc[k] # "dead"
    BY <1>6 DEF Move, Add
  <2> QED
    BY <2>1, <2>2, StageWrite
<1>7. ASSUME NEW k \in Consumer, ConsumerFails(k)
      PROVE  Stage!Write
  <2>1. PICK S \in SUBSET todo[k] : rows' = Upserted(S) /\ UNCHANGED main
    BY <1>7 DEF ConsumerFails
  <2>2. cpc[k] # "dead"
    BY <1>7 DEF ConsumerFails
  <2> QED
    BY <2>1, <2>2, StageWrite
<1> QED
  BY <1>1, <1>2, <1>3, <1>4, <1>5, <1>6, <1>7 DEF Next, Main, Consume, Fails, Stage!Next

\* The pipeline keeps the promise of the vector stage: it ends well only when
\* every submitted chunk has its row, and nothing is written after its end.
THEOREM StageImplemented == Spec => Implements
BY StageInit, StageStep, Inductive, PTL DEF Spec, Implements, Stage!Spec, stageVars, stageNow
================================================================================
