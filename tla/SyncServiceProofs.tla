-------------------------- MODULE SyncServiceProofs --------------------------
(***************************************************************************)
(* The safety of SyncService for every set of paths, contents, handlers    *)
(* and indexers, and every bound.  IndInv is the inductive invariant: each *)
(* conjunct is a lemma of its own, so that a step cites only the parts of  *)
(* it that it needs.                                                       *)
(***************************************************************************)
EXTENDS SyncService, TLAPS

\* The labels a thread has only inside `with project_lock`.
Critical == {"put", "unlink", "flush", "write", "ack"}

\* Mutual exclusion: the holder, and nobody else, is inside.
LockInv == \A t \in Thread : pc[t] \in Critical <=> lock = t

\* The handlers that are deleting the project.
Deleters == {r \in Request : pc[r] \in {"marked", "stopped", "removed"}}

\* A handler inside works on a project that exists: nobody can remove it
\* meanwhile.  One deletion at a time, marked in _deleting until it ends.
ProjectInv ==
    /\ \A r \in Request : pc[r] \in Critical => project
    /\ Deleters # {} => deleting
    /\ \A q, r \in Deleters : q = r

\* What report_deletions is about to unlink is named by no ledger entry.
UnlinkInv == \A r \in Request : pc[r] = "unlink" => \A b \in batch[r] : files[b[1]] # b[2]

\* An absent project has no ledger and no mirror at all.
AbsentInv == ~project => pendingFiles = {} /\ pendingDeleted = {} /\ torn = {}

\* How far the ingest under way has come: the deletions are out of the index,
\* and before an acknowledgement every pending file is in it, or skipped.
IngestInv ==
    \A t \in Thread :
        /\ pc[t] \in {"write", "ack"} => \A p \in pendingDeleted : index[p] = NoFile
        /\ pc[t] = "ack" /\ ~report[t] =>
             \A p \in pendingFiles : Skips(p) \/ index[p] = Read(p)

\* Only the registered indexer runs without having been cancelled.
LiveInv == \A w \in Worker : Running(w) /\ ~cancelled[w] => w = current

IndInv ==
    /\ TypeOK
    /\ LockInv
    /\ ProjectInv
    /\ UnlinkInv
    /\ LedgerBlobsStored
    /\ PendingAgreesWithFiles
    /\ IngestInv
    /\ IndexFollowsLedger
    /\ AbsentInv
    /\ NoResurrection
    /\ IndexerOfLiveProject
    /\ LiveInv

\* What the mirror may hold when thread t stops among its blob writes or unlinks:
\* new blobs, perhaps torn, are of its batch, and so is whatever is missing.
LEMMA InterruptedFacts ==
  ASSUME TypeOK, NEW t \in Thread, NEW left \in Interrupted(t)
  PROVE  /\ left[1] \in SUBSET Blob /\ left[2] \in SUBSET Blob
         /\ pc[t] = "put" => /\ stored \subseteq left[1]
                             /\ torn \subseteq left[2]
                             /\ left[2] \ torn \subseteq batch[t] \ stored
         /\ pc[t] = "unlink" => /\ stored \ batch[t] \subseteq left[1]
                                /\ torn \ batch[t] \subseteq left[2]
                                /\ left[2] \subseteq torn
         /\ pc[t] \notin {"put", "unlink"} => left = <<stored, torn>>
  <1>1. CASE pc[t] = "put"
    <2>1. PICK done \in SUBSET batch[t], cut \in SUBSET (batch[t] \ stored) :
            left = <<stored \cup done \cup cut, torn \cup cut>>
      BY <1>1 DEF Interrupted
    <2>2. batch[t] \in SUBSET Blob
      BY <1>1 DEF TypeOK, Thread, WorkerLabels, InFlush
    <2> QED BY <1>1, <2>1, <2>2 DEF TypeOK
  <1>2. CASE pc[t] = "unlink"
    <2>1. PICK gone \in SUBSET batch[t] : left = <<stored \ gone, torn \ gone>>
      BY <1>2 DEF Interrupted
    <2> QED BY <1>2, <2>1 DEF TypeOK
  <1>3. CASE pc[t] \notin {"put", "unlink"}
    <2>1. left = <<stored, torn>>
      BY <1>3 DEF Interrupted
    <2> QED BY <1>3, <2>1 DEF TypeOK
  <1> QED BY <1>1, <1>2, <1>3

\* A handler that goes to a label of its kind keeps every label in its range.
LEMMA HandlerMoves ==
  ASSUME TypeOK, NEW r \in Request, NEW label \in HandlerLabels, Goto(r, label)
  PROVE  /\ pc' \in [Thread -> HandlerLabels \cup WorkerLabels]
         /\ \A q \in Request : pc'[q] \in HandlerLabels
         /\ \A w \in Worker : pc'[w] \in WorkerLabels
BY ConstantsAssumption DEF TypeOK, Thread, Goto

\* So does a worker.
LEMMA WorkerMoves ==
  ASSUME TypeOK, NEW w \in Worker, NEW label \in WorkerLabels, Goto(w, label)
  PROVE  /\ pc' \in [Thread -> HandlerLabels \cup WorkerLabels]
         /\ \A r \in Request : pc'[r] \in HandlerLabels
         /\ \A v \in Worker : pc'[v] \in WorkerLabels
BY ConstantsAssumption DEF TypeOK, Thread, Goto

\* A handler that returns keeps the types of all that Return assigns.
LEMMA HandlerReturns ==
  ASSUME TypeOK, NEW r \in Request, Return(r)
  PROVE  /\ lock' \in Thread \cup {Nobody}
         /\ pc' \in [Thread -> HandlerLabels \cup WorkerLabels]
         /\ \A q \in Request : pc'[q] \in HandlerLabels
         /\ \A w \in Worker : pc'[w] \in WorkerLabels
         /\ batch' \in [Request -> SUBSET Blob]
         /\ deferred' \in [Request -> BOOLEAN]
  <1>1. "idle" \in HandlerLabels
    BY DEF HandlerLabels
  <1>2. Goto(r, "idle")
    BY DEF Return, Leave
  <1> QED BY <1>1, <1>2, HandlerMoves DEF TypeOK, Return, Leave

\* Every step keeps the types: one step of the proof per action.
LEMMA TypeStep ==
  ASSUME TypeOK, [Next]_vars
  PROVE  TypeOK'
<1> USE ConstantsAssumption DEF TypeOK, Thread, HandlerLabels, WorkerLabels, InFlush, ledger,
    mirror, indexers, bounds
<1>1. ASSUME NEW r \in Request, Resolve(r) PROVE TypeOK'
  BY <1>1 DEF Resolve
<1>2. ASSUME NEW r \in Request, NEW items \in Batches, NEW dfr \in BOOLEAN,
             UploadBegin(r, items, dfr)
      PROVE  TypeOK'
  <2>1. items \in SUBSET Blob
    BY DEF Batches
  <2> QED BY <1>2, <2>1 DEF UploadBegin, ProjectExists, Edit, Goto
<1>3. ASSUME NEW r \in Request, UploadSave(r) PROVE TypeOK'
  <2>1. batch[r] \in SUBSET Blob
    BY DEF TypeOK
  <2>2. stored' \in SUBSET Blob /\ torn' \in SUBSET Blob
    BY <1>3, <2>1 DEF UploadSave, StoredAfterPut, TypeOK
  <2>3. files' \in [Path -> Content \cup {NoFile}]
    BY <1>3 DEF UploadSave, TypeOK
  <2>4. PathsOf(batch[r]) \in SUBSET Path
    BY <2>1 DEF PathsOf, Blob
  <2>5. /\ pendingFiles' \in SUBSET Path /\ pendingDeleted' \in SUBSET Path
        /\ skippedFiles' \in SUBSET Path
    BY <1>3, <2>4 DEF UploadSave, QueueFiles, TypeOK
  <2>6. CASE deferred[r]
    BY <1>3, <2>2, <2>3, <2>5, <2>6, HandlerReturns DEF TypeOK, UploadSave, indexers, bounds
  <2>7. CASE ~deferred[r]
    BY <1>3, <2>2, <2>3, <2>5, <2>7, HandlerMoves
    DEF TypeOK, UploadSave, HandlerLabels, InFlush, indexers, bounds
  <2> QED BY <2>6, <2>7
<1>4. ASSUME NEW r \in Request, BlobIOFails(r) PROVE TypeOK'
  <2>1. stored' \in SUBSET Blob /\ torn' \in SUBSET Blob
    BY <1>4, InterruptedFacts DEF BlobIOFails, Thread
  <2> QED BY <1>4, <2>1 DEF BlobIOFails, Fault, Return, Leave, Goto
<1>5. ASSUME NEW r \in Request, NEW paths \in SUBSET Path, NEW dfr \in BOOLEAN,
             DeletionsSave(r, paths, dfr)
      PROVE  TypeOK'
  <2> DEFINE deleted == {p \in paths : files[p] # NoFile}
  <2>1. {<<p, files[p]>> : p \in deleted} \in SUBSET Blob
    BY DEF TypeOK, Blob
  <2>2. /\ pendingFiles' \in SUBSET Path /\ pendingDeleted' \in SUBSET Path
        /\ skippedFiles' \in SUBSET Path
    BY <1>5 DEF DeletionsSave, QueueDeletions, TypeOK
  <2>3. files' \in [Path -> Content \cup {NoFile}]
    BY <1>5 DEF DeletionsSave, TypeOK
  <2>4. batch' \in [Request -> SUBSET Blob]
    BY <1>5, <2>1 DEF DeletionsSave, TypeOK
  <2> QED BY <1>5, <2>2, <2>3, <2>4 DEF DeletionsSave, ProjectExists, Edit, Goto
<1>6. ASSUME NEW r \in Request, DeletionsUnlink(r) PROVE TypeOK'
  BY <1>6 DEF DeletionsUnlink, Pending, Return, Leave, Goto
<1>7. ASSUME NEW t \in Thread, FlushNothing(t) PROVE TypeOK'
  <2>1. CASE t \in Request
    BY <1>7, <2>1, HandlerReturns
    DEF TypeOK, FlushNothing, FlushReturns, Thread, ledger, mirror, indexers, bounds
  <2>2. CASE t \in Worker
    BY <1>7, <2>2, WorkerMoves
    DEF TypeOK, FlushNothing, FlushReturns, Leave, Thread, WorkerLabels, ledger, mirror,
        indexers, bounds
  <2> QED BY <2>1, <2>2 DEF Thread
<1>8. ASSUME NEW t \in Thread, FlushDeletes(t) PROVE TypeOK'
  <2>1. CASE Unreadable = {}
    BY <1>8, <2>1 DEF FlushDeletes, Goto
  <2>2. CASE Unreadable # {} /\ t \in Request
    BY <1>8, <2>2 DEF FlushDeletes, Raise, Return, Leave, Goto
  <2>3. CASE Unreadable # {} /\ t \in Worker
    BY <1>8, <2>3 DEF FlushDeletes, Raise, Leave, Goto
  <2> QED BY <2>1, <2>2, <2>3 DEF Thread
<1>9. ASSUME NEW t \in Thread, IngestWrite(t) PROVE TypeOK'
  BY <1>9 DEF IngestWrite, Fault, Skips, Read, Goto
<1>10. ASSUME NEW t \in Thread, IngestRaises(t) PROVE TypeOK'
  <2>0. database' \in BOOLEAN
    BY <1>10 DEF IngestRaises
  <2>1. CASE t \in Request
    BY <1>10, <2>0, <2>1, HandlerReturns
    DEF TypeOK, IngestRaises, Fault, Raise, ledger, mirror, indexers
  <2>2. CASE t \in Worker
    <3>1. t \notin Request /\ edits' \in Nat /\ faults' \in Nat
      BY <1>10, <2>2 DEF TypeOK, IngestRaises, Fault
    <3>2. Leave(t, "exit") /\ "exit" \in WorkerLabels
      BY <1>10, <3>1 DEF IngestRaises, Raise, WorkerLabels
    <3>3. /\ progress' \in [Worker -> {"idle", "running", "done", "failed"}]
          /\ failure' \in [Worker -> BOOLEAN]
      BY <1>10, <3>1 DEF TypeOK, IngestRaises, Raise
    <3> QED BY <1>10, <2>0, <2>2, <3>1, <3>2, <3>3, WorkerMoves
            DEF TypeOK, IngestRaises, Raise, Leave, Thread, ledger, mirror
  <2> QED BY <2>1, <2>2 DEF Thread
<1>11. ASSUME NEW t \in Thread, FlushAcknowledge(t) PROVE TypeOK'
  BY <1>11
  DEF FlushAcknowledge, Acknowledge, CompletePending, ForgetFailedIndexer, Running,
      FlushReturns, Return, Leave, Goto, Skips, Read
<1>12. ASSUME NEW r \in Request, InitializeProject(r) PROVE TypeOK'
  BY <1>12 DEF InitializeProject, ProjectExists, Goto
<1>13. ASSUME NEW r \in Request, StartSyncReturns(r) PROVE TypeOK'
  BY <1>13 DEF StartSyncReturns, MayStart, Busy, Running, Pending, Goto
<1>14. ASSUME NEW r \in Request, StartSync(r) PROVE TypeOK'
  BY <1>14 DEF StartSync, MayStart, Busy, Running, Pending
<1>15. ASSUME NEW w \in Worker, WorkerCount(w) PROVE TypeOK'
  BY <1>15 DEF WorkerCount, Outcome, Goto
<1>16. ASSUME NEW w \in Worker, WorkerLock(w) PROVE TypeOK'
  BY <1>16 DEF WorkerLock, Outcome, Goto
<1>17. ASSUME NEW w \in Worker, WorkerFinish(w) PROVE TypeOK'
  BY <1>17 DEF WorkerFinish, Outcome, Goto
<1>18. ASSUME NEW w \in Worker, WorkerExit(w) PROVE TypeOK'
  BY <1>18 DEF WorkerExit, Goto
<1>19. ASSUME NEW r \in Request, DeleteBegin(r) PROVE TypeOK'
  BY <1>19 DEF DeleteBegin, ProjectExists, Edit, Goto
<1>20. ASSUME NEW r \in Request, DeleteRemove(r) PROVE TypeOK'
  BY <1>20 DEF DeleteRemove, Goto
<1>21. ASSUME NEW r \in Request, DeleteEnd(r) PROVE TypeOK'
  BY <1>21 DEF DeleteEnd, Goto
<1>22. ASSUME NEW r \in Request, StopIndexer(r) PROVE TypeOK'
  BY <1>22 DEF StopIndexer, Goto
<1>23. ASSUME NEW r \in Request, QueryBegin(r) PROVE TypeOK'
  BY <1>23 DEF QueryBegin, ProjectExists, Edit, Goto
<1>24. ASSUME NEW r \in Request, QueryOpen(r) PROVE TypeOK'
  BY <1>24 DEF QueryOpen, Goto
<1>25. ASSUME Crash PROVE TypeOK'
  <2>1. stored' \in SUBSET Blob /\ torn' \in SUBSET Blob
    <3>1. CASE lock = Nobody
      BY <1>25, <3>1 DEF Crash, mirror, TypeOK
    <3>2. CASE lock # Nobody
      BY <1>25, <3>2, InterruptedFacts DEF Crash, TypeOK
    <3> QED BY <3>1, <3>2
  <2>2. /\ pc' \in [Thread -> HandlerLabels \cup WorkerLabels]
        /\ \A r \in Request : pc'[r] \in HandlerLabels
        /\ \A w \in Worker : pc'[w] \in WorkerLabels
    BY <1>25 DEF Crash, Thread, HandlerLabels, WorkerLabels
  <2>3. edits' \in Nat /\ faults' \in Nat
    BY <1>25 DEF TypeOK, Crash, Fault
  <2> QED BY <1>25, <2>1, <2>2, <2>3 DEF TypeOK, Crash, ledger
<1>26. ASSUME UNCHANGED vars PROVE TypeOK'
  BY <1>26 DEF vars
<1> HIDE DEF TypeOK, Thread, HandlerLabels, WorkerLabels, InFlush, ledger, mirror, indexers,
    bounds
<1> QED
  BY <1>1, <1>2, <1>3, <1>4, <1>5, <1>6, <1>7, <1>8, <1>9, <1>10, <1>11, <1>12, <1>13, <1>14,
      <1>15, <1>16, <1>17, <1>18, <1>19, <1>20, <1>21, <1>22, <1>23, <1>24, <1>25, <1>26
  DEF Next, Arrive, Handle, Work, Fail, Flush, Thread

\* Every way into a `with project_lock` block takes the lock, every way out of it
\* (an exception, an interrupted write, a crash) gives it back.
LEMMA LockStep ==
  ASSUME TypeOK, LockInv, [Next]_vars
  PROVE  LockInv'
<1> USE ConstantsAssumption DEF TypeOK, LockInv, Critical, Thread, HandlerLabels,
    WorkerLabels, InFlush
<1>1. ASSUME NEW r \in Request, Resolve(r) PROVE LockInv'
  BY <1>1 DEF Resolve
<1>2. ASSUME NEW r \in Request, NEW items \in Batches, NEW dfr \in BOOLEAN,
             UploadBegin(r, items, dfr)
      PROVE  LockInv'
  BY <1>2 DEF UploadBegin, ProjectExists, Goto
<1>3. ASSUME NEW r \in Request, UploadSave(r) PROVE LockInv'
  BY <1>3 DEF UploadSave, Return, Leave, Goto
<1>4. ASSUME NEW r \in Request, BlobIOFails(r) PROVE LockInv'
  BY <1>4 DEF BlobIOFails, Return, Leave, Goto
<1>5. ASSUME NEW r \in Request, NEW paths \in SUBSET Path, NEW dfr \in BOOLEAN,
             DeletionsSave(r, paths, dfr)
      PROVE  LockInv'
  BY <1>5 DEF DeletionsSave, ProjectExists, Goto
<1>6. ASSUME NEW r \in Request, DeletionsUnlink(r) PROVE LockInv'
  BY <1>6 DEF DeletionsUnlink, Return, Leave, Goto
<1>7. ASSUME NEW t \in Thread, FlushNothing(t) PROVE LockInv'
  BY <1>7 DEF FlushNothing, FlushReturns, Return, Leave, Goto
<1>8. ASSUME NEW t \in Thread, FlushDeletes(t) PROVE LockInv'
  BY <1>8 DEF FlushDeletes, Raise, Return, Leave, Goto
<1>9. ASSUME NEW t \in Thread, IngestWrite(t) PROVE LockInv'
  BY <1>9 DEF IngestWrite, Goto
<1>10. ASSUME NEW t \in Thread, IngestRaises(t) PROVE LockInv'
  BY <1>10 DEF IngestRaises, Raise, Return, Leave, Goto
<1>11. ASSUME NEW t \in Thread, FlushAcknowledge(t) PROVE LockInv'
  BY <1>11 DEF FlushAcknowledge, FlushReturns, Return, Leave, Goto
<1>12. ASSUME NEW r \in Request, InitializeProject(r) PROVE LockInv'
  BY <1>12 DEF InitializeProject, ProjectExists, Goto
<1>13. ASSUME NEW r \in Request, StartSyncReturns(r) PROVE LockInv'
  BY <1>13 DEF StartSyncReturns, Goto
<1>14. ASSUME NEW r \in Request, StartSync(r) PROVE LockInv'
  BY <1>14 DEF StartSync
<1>15. ASSUME NEW w \in Worker, WorkerCount(w) PROVE LockInv'
  BY <1>15 DEF WorkerCount, Goto
<1>16. ASSUME NEW w \in Worker, WorkerLock(w) PROVE LockInv'
  BY <1>16 DEF WorkerLock, Goto
<1>17. ASSUME NEW w \in Worker, WorkerFinish(w) PROVE LockInv'
  BY <1>17 DEF WorkerFinish, Goto
<1>18. ASSUME NEW w \in Worker, WorkerExit(w) PROVE LockInv'
  BY <1>18 DEF WorkerExit, Goto
<1>19. ASSUME NEW r \in Request, DeleteBegin(r) PROVE LockInv'
  BY <1>19 DEF DeleteBegin, ProjectExists, Goto
<1>20. ASSUME NEW r \in Request, DeleteRemove(r) PROVE LockInv'
  BY <1>20 DEF DeleteRemove, Goto
<1>21. ASSUME NEW r \in Request, DeleteEnd(r) PROVE LockInv'
  BY <1>21 DEF DeleteEnd, Goto
<1>22. ASSUME NEW r \in Request, StopIndexer(r) PROVE LockInv'
  BY <1>22 DEF StopIndexer, Goto
<1>23. ASSUME NEW r \in Request, QueryBegin(r) PROVE LockInv'
  BY <1>23 DEF QueryBegin, ProjectExists, Goto
<1>24. ASSUME NEW r \in Request, QueryOpen(r) PROVE LockInv'
  BY <1>24 DEF QueryOpen, Goto
<1>25. ASSUME Crash PROVE LockInv'
  BY <1>25 DEF Crash
<1>26. ASSUME UNCHANGED vars PROVE LockInv'
  BY <1>26 DEF vars
<1> HIDE DEF TypeOK, LockInv, Critical, Thread, HandlerLabels, WorkerLabels, InFlush
<1> QED
  BY <1>1, <1>2, <1>3, <1>4, <1>5, <1>6, <1>7, <1>8, <1>9, <1>10, <1>11, <1>12, <1>13, <1>14,
      <1>15, <1>16, <1>17, <1>18, <1>19, <1>20, <1>21, <1>22, <1>23, <1>24, <1>25, <1>26
  DEF Next, Arrive, Handle, Work, Fail, Flush, Thread

--------------------------------------------------------------------------------
(* The ledger, the mirror and the index.                                   *)

\* The actions that write to the project's directory.
DataStep ==
    \/ UNCHANGED <<ledger, mirror, index>>
    \/ \E r \in Request :
          UploadSave(r) \/ BlobIOFails(r) \/ DeletionsUnlink(r) \/ DeleteRemove(r)
    \/ \E r \in Request, paths \in SUBSET Path, dfr \in BOOLEAN : DeletionsSave(r, paths, dfr)
    \/ \E t \in Thread : FlushDeletes(t) \/ IngestWrite(t) \/ FlushAcknowledge(t)
    \/ Crash

\* Every other action leaves the ledger, the mirror and the index alone.
LEMMA DataSteps ==
  ASSUME [Next]_vars
  PROVE  DataStep
<1> USE DEF DataStep, ledger, mirror
<1>1. ASSUME NEW r \in Request, Resolve(r) PROVE DataStep
  BY <1>1 DEF Resolve
<1>2. ASSUME NEW r \in Request, NEW items \in Batches, NEW dfr \in BOOLEAN,
             UploadBegin(r, items, dfr)
      PROVE  DataStep
  BY <1>2 DEF UploadBegin
<1>3. ASSUME NEW r \in Request, UploadSave(r) PROVE DataStep
  BY <1>3 DEF DataStep
<1>4. ASSUME NEW r \in Request, BlobIOFails(r) PROVE DataStep
  BY <1>4 DEF DataStep
<1>5. ASSUME NEW r \in Request, NEW paths \in SUBSET Path, NEW dfr \in BOOLEAN,
             DeletionsSave(r, paths, dfr)
      PROVE  DataStep
  BY <1>5 DEF DataStep
<1>6. ASSUME NEW r \in Request, DeletionsUnlink(r) PROVE DataStep
  BY <1>6 DEF DataStep
<1>7. ASSUME NEW t \in Thread, FlushNothing(t) PROVE DataStep
  BY <1>7 DEF FlushNothing
<1>8. ASSUME NEW t \in Thread, FlushDeletes(t) PROVE DataStep
  BY <1>8 DEF DataStep
<1>9. ASSUME NEW t \in Thread, IngestWrite(t) PROVE DataStep
  BY <1>9 DEF DataStep
<1>10. ASSUME NEW t \in Thread, IngestRaises(t) PROVE DataStep
  BY <1>10 DEF IngestRaises
<1>11. ASSUME NEW t \in Thread, FlushAcknowledge(t) PROVE DataStep
  BY <1>11 DEF DataStep
<1>12. ASSUME NEW r \in Request, InitializeProject(r) PROVE DataStep
  BY <1>12 DEF InitializeProject
<1>13. ASSUME NEW r \in Request, StartSyncReturns(r) PROVE DataStep
  BY <1>13 DEF StartSyncReturns
<1>14. ASSUME NEW r \in Request, StartSync(r) PROVE DataStep
  BY <1>14 DEF StartSync
<1>15. ASSUME NEW w \in Worker, WorkerCount(w) PROVE DataStep
  BY <1>15 DEF WorkerCount
<1>16. ASSUME NEW w \in Worker, WorkerLock(w) PROVE DataStep
  BY <1>16 DEF WorkerLock
<1>17. ASSUME NEW w \in Worker, WorkerFinish(w) PROVE DataStep
  BY <1>17 DEF WorkerFinish
<1>18. ASSUME NEW w \in Worker, WorkerExit(w) PROVE DataStep
  BY <1>18 DEF WorkerExit
<1>19. ASSUME NEW r \in Request, DeleteBegin(r) PROVE DataStep
  BY <1>19 DEF DeleteBegin
<1>20. ASSUME NEW r \in Request, DeleteRemove(r) PROVE DataStep
  BY <1>20 DEF DataStep
<1>21. ASSUME NEW r \in Request, DeleteEnd(r) PROVE DataStep
  BY <1>21 DEF DeleteEnd
<1>22. ASSUME NEW r \in Request, StopIndexer(r) PROVE DataStep
  BY <1>22 DEF StopIndexer
<1>23. ASSUME NEW r \in Request, QueryBegin(r) PROVE DataStep
  BY <1>23 DEF QueryBegin
<1>24. ASSUME NEW r \in Request, QueryOpen(r) PROVE DataStep
  BY <1>24 DEF QueryOpen
<1>25. ASSUME Crash PROVE DataStep
  BY <1>25 DEF DataStep
<1>26. ASSUME UNCHANGED vars PROVE DataStep
  BY <1>26 DEF vars
<1> HIDE DEF DataStep, ledger, mirror
<1> QED
  BY <1>1, <1>2, <1>3, <1>4, <1>5, <1>6, <1>7, <1>8, <1>9, <1>10, <1>11, <1>12, <1>13, <1>14,
      <1>15, <1>16, <1>17, <1>18, <1>19, <1>20, <1>21, <1>22, <1>23, <1>24, <1>25, <1>26
  DEF Next, Arrive, Handle, Work, Fail, Flush, Thread

\* The holder of the lock, when it dies, leaves what the ledger names as it was.
LEMMA InterruptedKeeps ==
  ASSUME TypeOK, UnlinkInv, LedgerBlobsStored, NEW t \in Thread, NEW left \in Interrupted(t),
         NEW p \in Path, files[p] # NoFile
  PROVE  /\ <<p, files[p]>> \in left[1]
         /\ <<p, files[p]>> \in left[2] <=> <<p, files[p]>> \in torn
<1>1. <<p, files[p]>> \in stored
  BY DEF LedgerBlobsStored
<1>2. CASE pc[t] = "put"
  BY <1>1, <1>2, InterruptedFacts
<1>3. CASE pc[t] = "unlink"
  <2>1. t \in Request
    BY <1>3 DEF TypeOK, Thread, WorkerLabels, InFlush
  <2>2. <<p, files[p]>> \notin batch[t]
    BY <1>3, <2>1 DEF UnlinkInv
  <2> QED BY <1>1, <1>3, <2>2, InterruptedFacts
<1>4. CASE pc[t] \notin {"put", "unlink"}
  BY <1>1, <1>4, InterruptedFacts
<1> QED BY <1>2, <1>3, <1>4

\* So do the two actions that stop a handler in its blob writes.
LEMMA StopKeeps ==
  ASSUME TypeOK, UnlinkInv, LedgerBlobsStored,
         Crash \/ \E r \in Request : BlobIOFails(r),
         NEW p \in Path, files[p] # NoFile
  PROVE  /\ files' = files /\ <<p, files[p]>> \in stored'
         /\ <<p, files[p]>> \in torn' <=> <<p, files[p]>> \in torn
<1>1. <<p, files[p]>> \in stored
  BY DEF LedgerBlobsStored
<1>2. CASE Crash
  <2>1. CASE lock = Nobody
    BY <1>1, <1>2, <2>1 DEF Crash, ledger, mirror
  <2>2. CASE lock # Nobody
    <3>1. PICK left \in Interrupted(lock) : stored' = left[1] /\ torn' = left[2]
      BY <1>2, <2>2 DEF Crash
    <3>2. lock \in Thread
      BY <2>2 DEF TypeOK
    <3> QED BY <1>2, <3>1, <3>2, InterruptedKeeps DEF Crash, ledger
  <2> QED BY <2>1, <2>2
<1>3. CASE \E r \in Request : BlobIOFails(r)
  <2>1. PICK r \in Request : BlobIOFails(r)
    BY <1>3
  <2>2. PICK left \in Interrupted(r) : stored' = left[1] /\ torn' = left[2]
    BY <2>1 DEF BlobIOFails
  <2> QED BY <2>1, <2>2, InterruptedKeeps DEF BlobIOFails, Thread, ledger
<1> QED BY <1>2, <1>3

\* What an uploaded path holds once its batch is saved.
LEMMA UploadedFiles ==
  ASSUME TypeOK, NEW r \in Request, UploadSave(r), NEW p \in Path
  PROVE  /\ p \in PathsOf(batch[r]) => /\ files'[p] \in Content
                                       /\ <<p, files'[p]>> \in batch[r]
         /\ p \notin PathsOf(batch[r]) => files'[p] = files[p]
<1> DEFINE Has == \E c \in Content : <<p, c>> \in batch[r]
<1>1. Has <=> p \in PathsOf(batch[r])
  <2>1. \A b \in batch[r] : b = <<b[1], b[2]>> /\ b[1] \in Path /\ b[2] \in Content
    BY DEF TypeOK, Blob
  <2> QED BY <2>1 DEF PathsOf
<1>2. files'[p] = IF Has THEN CHOOSE c \in Content : <<p, c>> \in batch[r] ELSE files[p]
  BY DEF UploadSave
<1> QED BY <1>1, <1>2

\* Blobs are put before the ledger names them and unlinked after it forgets them.
LEMMA LedgerBlobsStep ==
  ASSUME TypeOK, UnlinkInv, LedgerBlobsStored, [Next]_vars
  PROVE  LedgerBlobsStored'
<1> USE ConstantsAssumption
<1>1. DataStep
  BY DataSteps
<1>2. CASE UNCHANGED <<ledger, mirror, index>>
  BY <1>2 DEF LedgerBlobsStored, ledger, mirror
<1>3. ASSUME NEW r \in Request, UploadSave(r) PROVE LedgerBlobsStored'
  <2>1. stored' = stored \cup batch[r]
    BY <1>3 DEF UploadSave, StoredAfterPut
  <2> QED BY <1>3, <2>1, UploadedFiles DEF LedgerBlobsStored
<1>4. CASE Crash \/ \E r \in Request : BlobIOFails(r)
  <2>1. files' = files
    BY <1>4 DEF Crash, BlobIOFails, ledger
  <2> QED BY <1>4, <2>1, StopKeeps DEF LedgerBlobsStored
<1>5. ASSUME NEW r \in Request, DeletionsUnlink(r) PROVE LedgerBlobsStored'
  BY <1>5 DEF DeletionsUnlink, LedgerBlobsStored, UnlinkInv, ledger
<1>6. ASSUME NEW r \in Request, NEW paths \in SUBSET Path, NEW dfr \in BOOLEAN,
             DeletionsSave(r, paths, dfr)
      PROVE  LedgerBlobsStored'
  BY <1>6 DEF DeletionsSave, LedgerBlobsStored, mirror
<1>7. ASSUME NEW r \in Request, DeleteRemove(r) PROVE LedgerBlobsStored'
  BY <1>7 DEF DeleteRemove, LedgerBlobsStored
<1>8. ASSUME NEW t \in Thread, FlushDeletes(t) \/ IngestWrite(t) \/ FlushAcknowledge(t)
      PROVE  LedgerBlobsStored'
  BY <1>8 DEF FlushDeletes, IngestWrite, FlushAcknowledge, Acknowledge, CompletePending,
              LedgerBlobsStored, ledger, mirror
<1> QED BY <1>1, <1>2, <1>3, <1>4, <1>5, <1>6, <1>7, <1>8 DEF DataStep

\* queue_file and queue_deletions move a path to one list and out of the other.
LEMMA PendingAgreesStep ==
  ASSUME TypeOK, PendingAgreesWithFiles, [Next]_vars
  PROVE  PendingAgreesWithFiles'
<1> USE ConstantsAssumption
<1>1. DataStep
  BY DataSteps
<1>2. CASE UNCHANGED <<ledger, mirror, index>>
  BY <1>2 DEF PendingAgreesWithFiles, ledger
<1>3. ASSUME NEW r \in Request, UploadSave(r) PROVE PendingAgreesWithFiles'
  <2>1. PathsOf(batch[r]) \in SUBSET Path
    <3>1. batch[r] \in SUBSET Blob
      BY DEF TypeOK
    <3> QED BY <3>1 DEF PathsOf, Blob
  <2> DEFINE paths == PathsOf(batch[r])
  <2>2. /\ pendingFiles' = pendingFiles \cup paths
        /\ pendingDeleted' = pendingDeleted \ paths
    BY <1>3 DEF UploadSave, QueueFiles
  <2>3. \A p \in Path : /\ p \in paths => files'[p] # NoFile
                        /\ p \notin paths => files'[p] = files[p]
    BY <1>3, UploadedFiles
  <2> HIDE DEF paths
  <2> QED BY <2>1, <2>2, <2>3 DEF TypeOK, PendingAgreesWithFiles, paths
<1>4. CASE Crash \/ \E r \in Request : BlobIOFails(r) \/ DeletionsUnlink(r)
  BY <1>4 DEF Crash, BlobIOFails, DeletionsUnlink, PendingAgreesWithFiles, ledger
<1>5. ASSUME NEW r \in Request, NEW paths \in SUBSET Path, NEW dfr \in BOOLEAN,
             DeletionsSave(r, paths, dfr)
      PROVE  PendingAgreesWithFiles'
  BY <1>5 DEF TypeOK, DeletionsSave, QueueDeletions, PendingAgreesWithFiles
<1>6. ASSUME NEW r \in Request, DeleteRemove(r) PROVE PendingAgreesWithFiles'
  BY <1>6 DEF DeleteRemove, PendingAgreesWithFiles
<1>7. ASSUME NEW t \in Thread, FlushDeletes(t) \/ IngestWrite(t) PROVE PendingAgreesWithFiles'
  BY <1>7 DEF FlushDeletes, IngestWrite, PendingAgreesWithFiles, ledger
<1>8. ASSUME NEW t \in Thread, FlushAcknowledge(t) PROVE PendingAgreesWithFiles'
  BY <1>8 DEF FlushAcknowledge, Acknowledge, CompletePending, PendingAgreesWithFiles, ledger
<1> QED BY <1>1, <1>2, <1>3, <1>4, <1>5, <1>6, <1>7, <1>8 DEF DataStep

\* How thread u comes to wait to unlink, or between the two commits of an ingest.
Advances(u) ==
    \/ /\ pc'[u] = pc[u] /\ report'[u] = report[u]
       /\ u \in Request => batch'[u] = batch[u]
    \/ \E paths \in SUBSET Path, dfr \in BOOLEAN :
          u \in Request /\ DeletionsSave(u, paths, dfr)
    \/ FlushDeletes(u) /\ pc'[u] = "write"
    \/ IngestWrite(u)

\* A thread reaches one of the three labels in one of these ways only.
LEMMA HolderAdvances ==
  ASSUME TypeOK, [Next]_vars, NEW u \in Thread, pc'[u] \in {"unlink", "write", "ack"}
  PROVE  Advances(u)
<1> USE ConstantsAssumption DEF TypeOK, Advances, Thread
<1>1. ASSUME NEW r \in Request, Resolve(r) PROVE Advances(u)
  BY <1>1 DEF Resolve
<1>2. ASSUME NEW r \in Request, NEW items \in Batches, NEW dfr \in BOOLEAN,
             UploadBegin(r, items, dfr)
      PROVE  Advances(u)
  BY <1>2 DEF UploadBegin, ProjectExists, Goto
<1>3. ASSUME NEW r \in Request, UploadSave(r) PROVE Advances(u)
  BY <1>3 DEF UploadSave, Return, Leave, Goto
<1>4. ASSUME NEW r \in Request, BlobIOFails(r) PROVE Advances(u)
  BY <1>4 DEF BlobIOFails, Return, Leave, Goto
<1>5. ASSUME NEW r \in Request, NEW paths \in SUBSET Path, NEW dfr \in BOOLEAN,
             DeletionsSave(r, paths, dfr)
      PROVE  Advances(u)
  <2>1. CASE r = u
    BY <1>5, <2>1 DEF Advances
  <2>2. CASE r # u
    <3>1. pc'[u] = pc[u] /\ report'[u] = report[u] /\ (u \in Request => batch'[u] = batch[u])
      BY <1>5, <2>2 DEF TypeOK, Thread, DeletionsSave, Goto
    <3> QED BY <3>1 DEF Advances
  <2> QED BY <2>1, <2>2
<1>6. ASSUME NEW r \in Request, DeletionsUnlink(r) PROVE Advances(u)
  BY <1>6 DEF DeletionsUnlink, Return, Leave, Goto
<1>7. ASSUME NEW t \in Thread, FlushNothing(t) PROVE Advances(u)
  BY <1>7 DEF FlushNothing, FlushReturns, Return, Leave, Goto
<1>8. ASSUME NEW t \in Thread, FlushDeletes(t) PROVE Advances(u)
  BY <1>8 DEF FlushDeletes, Raise, Return, Leave, Goto
<1>9. ASSUME NEW t \in Thread, IngestWrite(t) PROVE Advances(u)
  <2>1. CASE t = u
    BY <1>9, <2>1 DEF Advances
  <2>2. CASE t # u
    <3>1. pc'[u] = pc[u] /\ report'[u] = report[u] /\ batch' = batch
      BY <1>9, <2>2 DEF TypeOK, IngestWrite, Goto
    <3> QED BY <3>1 DEF Advances
  <2> QED BY <2>1, <2>2
<1>10. ASSUME NEW t \in Thread, IngestRaises(t) PROVE Advances(u)
  BY <1>10 DEF IngestRaises, Raise, Return, Leave, Goto
<1>11. ASSUME NEW t \in Thread, FlushAcknowledge(t) PROVE Advances(u)
  BY <1>11 DEF FlushAcknowledge, FlushReturns, Return, Leave, Goto
<1>12. ASSUME NEW r \in Request, InitializeProject(r) PROVE Advances(u)
  BY <1>12 DEF InitializeProject, ProjectExists, Goto
<1>13. ASSUME NEW r \in Request, StartSyncReturns(r) PROVE Advances(u)
  BY <1>13 DEF StartSyncReturns, Goto
<1>14. ASSUME NEW r \in Request, StartSync(r) PROVE Advances(u)
  BY <1>14 DEF StartSync
<1>15. ASSUME NEW w \in Worker, WorkerCount(w) PROVE Advances(u)
  BY <1>15 DEF WorkerCount, Goto
<1>16. ASSUME NEW w \in Worker, WorkerLock(w) PROVE Advances(u)
  BY <1>16 DEF WorkerLock, Goto
<1>17. ASSUME NEW w \in Worker, WorkerFinish(w) PROVE Advances(u)
  BY <1>17 DEF WorkerFinish, Goto
<1>18. ASSUME NEW w \in Worker, WorkerExit(w) PROVE Advances(u)
  BY <1>18 DEF WorkerExit, Goto
<1>19. ASSUME NEW r \in Request, DeleteBegin(r) PROVE Advances(u)
  BY <1>19 DEF DeleteBegin, ProjectExists, Goto
<1>20. ASSUME NEW r \in Request, DeleteRemove(r) PROVE Advances(u)
  BY <1>20 DEF DeleteRemove, Goto
<1>21. ASSUME NEW r \in Request, DeleteEnd(r) PROVE Advances(u)
  BY <1>21 DEF DeleteEnd, Goto
<1>22. ASSUME NEW r \in Request, StopIndexer(r) PROVE Advances(u)
  BY <1>22 DEF StopIndexer, Goto
<1>23. ASSUME NEW r \in Request, QueryBegin(r) PROVE Advances(u)
  BY <1>23 DEF QueryBegin, ProjectExists, Goto
<1>24. ASSUME NEW r \in Request, QueryOpen(r) PROVE Advances(u)
  BY <1>24 DEF QueryOpen, Goto
<1>25. ASSUME Crash PROVE Advances(u)
  BY <1>25 DEF Crash
<1>26. ASSUME UNCHANGED vars PROVE Advances(u)
  BY <1>26 DEF vars
<1> HIDE DEF TypeOK, Advances, Thread
<1> QED
  BY <1>1, <1>2, <1>3, <1>4, <1>5, <1>6, <1>7, <1>8, <1>9, <1>10, <1>11, <1>12, <1>13, <1>14,
      <1>15, <1>16, <1>17, <1>18, <1>19, <1>20, <1>21, <1>22, <1>23, <1>24, <1>25, <1>26
  DEF Next, Arrive, Handle, Work, Fail, Flush, Thread

\* While the holder stays where it is, nobody touches the project's directory.
LEMMA Undisturbed ==
  ASSUME TypeOK, LockInv, [Next]_vars, NEW u \in Thread, pc[u] \in Critical, pc'[u] = pc[u]
  PROVE  UNCHANGED <<ledger, mirror, index>>
<1> USE ConstantsAssumption
<1>1. DataStep
  BY DataSteps
<1>2. lock = u /\ lock # Nobody /\ \A t \in Thread : pc[t] \in Critical => t = u
  BY DEF LockInv, Thread
<1>3. ASSUME NEW r \in Request, UploadSave(r) \/ BlobIOFails(r) \/ DeletionsUnlink(r)
      PROVE  FALSE
  <2>1. r = u
    BY <1>2, <1>3 DEF UploadSave, BlobIOFails, DeletionsUnlink, Critical, Thread
  <2>2. pc'[u] \in {"idle", "flush"}
    BY <1>3, <2>1
    DEF TypeOK, UploadSave, BlobIOFails, DeletionsUnlink, Return, Leave, Goto, Thread
  <2> QED BY <1>3, <2>1, <2>2 DEF UploadSave, BlobIOFails, DeletionsUnlink
<1>4. ASSUME NEW r \in Request, DeleteRemove(r) PROVE FALSE
  BY <1>2, <1>4 DEF DeleteRemove
<1>5. ASSUME NEW r \in Request, NEW paths \in SUBSET Path, NEW dfr \in BOOLEAN,
             DeletionsSave(r, paths, dfr)
      PROVE  FALSE
  BY <1>2, <1>5 DEF DeletionsSave
<1>6. ASSUME NEW t \in Thread, FlushDeletes(t) PROVE FALSE
  <2>1. t = u
    BY <1>2, <1>6 DEF FlushDeletes, Critical
  <2>2. pc'[u] \in {"idle", "exit", "write"}
    BY <1>6, <2>1 DEF TypeOK, FlushDeletes, Raise, Return, Leave, Goto, Thread
  <2> QED BY <1>6, <2>1, <2>2 DEF FlushDeletes
<1>7. ASSUME NEW t \in Thread, IngestWrite(t) PROVE FALSE
  <2>1. t = u
    BY <1>2, <1>7 DEF IngestWrite, Critical
  <2> QED BY <1>7, <2>1 DEF TypeOK, IngestWrite, Goto
<1>8. ASSUME NEW t \in Thread, FlushAcknowledge(t) PROVE FALSE
  <2>1. t = u
    BY <1>2, <1>8 DEF FlushAcknowledge, Critical
  <2>2. pc'[u] \in {"idle", "finish"}
    BY <1>8, <2>1 DEF TypeOK, FlushAcknowledge, FlushReturns, Return, Leave, Goto, Thread
  <2> QED BY <1>8, <2>1, <2>2 DEF FlushAcknowledge
<1>9. ASSUME Crash PROVE FALSE
  BY <1>9 DEF Crash, Critical
<1> QED BY <1>1, <1>3, <1>4, <1>5, <1>6, <1>7, <1>8, <1>9 DEF DataStep

\* The blobs of a deletion notice stay unreferenced until they are unlinked.
LEMMA UnlinkStep ==
  ASSUME TypeOK, LockInv, UnlinkInv, [Next]_vars
  PROVE  UnlinkInv'
<1> SUFFICES ASSUME NEW r \in Request, pc'[r] = "unlink"
             PROVE  \A b \in batch'[r] : files'[b[1]] # b[2]
  BY DEF UnlinkInv
<1>1. Advances(r)
  BY HolderAdvances DEF Thread
<1>2. CASE pc'[r] = pc[r] /\ batch'[r] = batch[r]
  BY <1>2, Undisturbed DEF UnlinkInv, Critical, Thread, ledger
<1>3. ASSUME NEW paths \in SUBSET Path, NEW dfr \in BOOLEAN, DeletionsSave(r, paths, dfr)
      PROVE  \A b \in batch'[r] : files'[b[1]] # b[2]
  <2> DEFINE deleted == {p \in paths : files[p] # NoFile}
  <2>1. batch'[r] = {<<p, files[p]>> : p \in deleted}
    BY <1>3 DEF TypeOK, DeletionsSave
  <2>2. \A p \in deleted : files'[p] = NoFile
    BY <1>3 DEF DeletionsSave
  <2> QED BY <2>1, <2>2
<1>4. ~FlushDeletes(r) \/ pc'[r] # "write"
  OBVIOUS
<1>5. ~IngestWrite(r)
  BY DEF TypeOK, IngestWrite, Goto, Thread
<1> QED BY <1>1, <1>2, <1>3, <1>4, <1>5 DEF Advances

\* Under the lock the two commits of an ingest bring the index up to the ledger.
LEMMA IngestStep ==
  ASSUME TypeOK, LockInv, PendingAgreesWithFiles, IngestInv, [Next]_vars
  PROVE  IngestInv'
<1> USE ConstantsAssumption
<1> DEFINE Out == \A p \in pendingDeleted : index[p] = NoFile
           In  == \A p \in pendingFiles : Skips(p) \/ index[p] = Read(p)
<1> SUFFICES ASSUME NEW u \in Thread, pc'[u] \in {"write", "ack"}
             PROVE  Out' /\ (pc'[u] = "ack" /\ ~report'[u] => In')
  BY DEF IngestInv
<1>1. Advances(u)
  BY HolderAdvances
<1>2. CASE pc'[u] = pc[u] /\ report'[u] = report[u]
  <2>1. UNCHANGED <<ledger, mirror, index>>
    BY <1>2, Undisturbed DEF Critical
  <2>2. Out /\ (pc[u] = "ack" /\ ~report[u] => In)
    BY <1>2 DEF IngestInv
  <2> QED BY <1>2, <2>1, <2>2 DEF ledger, mirror, Skips, Read
<1>3. CASE FlushDeletes(u) /\ pc'[u] = "write"
  <2>1. Unreadable = {}
    BY <1>3 DEF TypeOK, FlushDeletes, Raise, Return, Leave, Goto, Thread
  <2>2. Out'
    BY <1>3, <2>1 DEF TypeOK, FlushDeletes, ledger
  <2> QED BY <1>3, <2>2
<1>4. CASE IngestWrite(u)
  <2>1. PICK failed \in SUBSET {p \in pendingFiles : ~Skips(p)} :
          /\ index' = [p \in Path |-> IF p \in pendingFiles \ failed /\ ~Skips(p)
                                      THEN Read(p) ELSE index[p]]
          /\ report' = [report EXCEPT ![u] =
               failed # {} \/ \E p \in pendingFiles : Read(p) \in Broken]
    BY <1>4 DEF IngestWrite
  <2>2. Out
    BY <1>4 DEF IngestInv, IngestWrite
  <2>3. UNCHANGED <<ledger, mirror>>
    BY <1>4 DEF IngestWrite
  <2>4. Out'
    BY <2>1, <2>2, <2>3 DEF TypeOK, ledger, PendingAgreesWithFiles
  <2>5. ASSUME ~report'[u] PROVE In'
    <3>1. failed = {}
      BY <2>1, <2>5 DEF TypeOK
    <3> QED BY <2>1, <2>3, <3>1 DEF TypeOK, ledger, mirror, Skips, Read
  <2> QED BY <2>4, <2>5
<1>5. ASSUME NEW paths \in SUBSET Path, NEW dfr \in BOOLEAN, u \in Request,
             DeletionsSave(u, paths, dfr)
      PROVE  FALSE
  BY <1>5 DEF TypeOK, DeletionsSave, Goto, Thread
<1> QED BY <1>1, <1>2, <1>3, <1>4, <1>5 DEF Advances

\* What a path reads as depends on its entry and on that entry's blob alone.
LEMMA ReadStays ==
  ASSUME TypeOK, NEW p \in Path, files'[p] = files[p], torn' \in SUBSET Blob,
         files[p] # NoFile => (<<p, files[p]>> \in torn' <=> <<p, files[p]>> \in torn)
  PROVE  Read(p)' = Read(p)
<1>1. CASE files[p] = NoFile
  <2>1. <<p, NoFile>> \notin torn /\ <<p, NoFile>> \notin torn'
    BY ConstantsAssumption DEF TypeOK, Blob
  <2> QED BY <1>1, <2>1 DEF Read
<1>2. CASE files[p] # NoFile
  BY <1>2 DEF Read
<1> QED BY <1>1, <1>2

\* A path without an entry reads as nothing.
LEMMA ReadOfNone ==
  ASSUME TypeOK, NEW p \in Path, files[p] = NoFile
  PROVE  Read(p) = NoFile
BY ConstantsAssumption DEF TypeOK, Blob, Read

\* Only a path that is queued or skipped may differ between ledger and index.
LEMMA IndexFollowsStep ==
  ASSUME TypeOK, TypeOK', UnlinkInv, LedgerBlobsStored, PendingAgreesWithFiles, IngestInv,
         IndexFollowsLedger, [Next]_vars
  PROVE  IndexFollowsLedger'
<1> USE ConstantsAssumption
<1> DEFINE Open == pendingFiles \cup pendingDeleted \cup skippedFiles
<1> SUFFICES ASSUME NEW p \in Path, p \notin Open' PROVE index'[p] = Read(p)'
  BY DEF IndexFollowsLedger
<1>1. DataStep
  BY DataSteps
<1>2. torn' \in SUBSET Blob
  BY DEF TypeOK
<1>3. p \notin Open => index[p] = Read(p)
  BY DEF IndexFollowsLedger
<1>4. CASE UNCHANGED <<ledger, mirror, index>>
  BY <1>3, <1>4 DEF ledger, mirror, Read
<1>5. ASSUME NEW r \in Request, UploadSave(r) PROVE index'[p] = Read(p)'
  <2>1. p \notin PathsOf(batch[r]) /\ p \notin Open
    BY <1>5 DEF UploadSave, QueueFiles
  <2>2. files'[p] = files[p]
    BY <1>5, <2>1, UploadedFiles
  <2> QED BY <1>2, <1>3, <1>5, <2>1, <2>2, ReadStays DEF UploadSave
<1>6. CASE Crash \/ \E r \in Request : BlobIOFails(r)
  <2>1. files' = files /\ UNCHANGED index /\ Open' = Open
    BY <1>6 DEF Crash, BlobIOFails, ledger
  <2>2. files[p] # NoFile => (<<p, files[p]>> \in torn' <=> <<p, files[p]>> \in torn)
    BY <1>6, StopKeeps
  <2> QED BY <1>2, <1>3, <2>1, <2>2, ReadStays
<1>7. ASSUME NEW r \in Request, DeletionsUnlink(r) PROVE index'[p] = Read(p)'
  <2>1. UNCHANGED <<ledger, index>> /\ torn' = torn \ batch[r]
    BY <1>7 DEF DeletionsUnlink
  <2>2. <<p, files[p]>> \notin batch[r]
    BY <1>7 DEF DeletionsUnlink, UnlinkInv
  <2> QED BY <1>2, <1>3, <2>1, <2>2, ReadStays DEF ledger
<1>8. ASSUME NEW r \in Request, NEW paths \in SUBSET Path, NEW dfr \in BOOLEAN,
             DeletionsSave(r, paths, dfr)
      PROVE  index'[p] = Read(p)'
  <2>1. p \notin Open /\ files'[p] = files[p] /\ UNCHANGED <<mirror, index>>
    BY <1>8 DEF DeletionsSave, QueueDeletions, TypeOK
  <2> QED BY <1>2, <1>3, <2>1, ReadStays DEF mirror
<1>9. ASSUME NEW r \in Request, DeleteRemove(r) PROVE index'[p] = Read(p)'
  <2>1. index'[p] = NoFile /\ files'[p] = NoFile
    BY <1>9 DEF DeleteRemove
  <2>2. <<p, NoFile>> \notin torn'
    BY <1>2 DEF Blob
  <2> QED BY <2>1, <2>2 DEF Read
<1>10. ASSUME NEW t \in Thread, FlushDeletes(t) \/ IngestWrite(t)
       PROVE  index'[p] = Read(p)'
  <2>1. UNCHANGED <<ledger, mirror>>
    BY <1>10 DEF FlushDeletes, IngestWrite
  <2>2. p \notin Open
    BY <2>1 DEF ledger
  <2>3. index'[p] = index[p]
    BY <1>10, <2>2 DEF FlushDeletes, IngestWrite, TypeOK
  <2> QED BY <1>3, <2>1, <2>2, <2>3 DEF ledger, mirror, Read
<1>11. ASSUME NEW t \in Thread, FlushAcknowledge(t) PROVE index'[p] = Read(p)'
  <2>1. UNCHANGED <<files, mirror, index>>
    BY <1>11 DEF FlushAcknowledge, Acknowledge, CompletePending, ledger
  <2>2. Read(p)' = Read(p)
    BY <2>1 DEF mirror, Read
  <2>3. CASE report[t]
    BY <1>3, <1>11, <2>1, <2>2, <2>3 DEF FlushAcknowledge, Acknowledge, ledger
  <2>4. CASE ~report[t]
    <3>1. skippedFiles' = skippedFiles \cup {q \in pendingFiles : Skips(q)}
      BY <1>11, <2>4 DEF FlushAcknowledge, Acknowledge, CompletePending
    <3>2. CASE p \in pendingFiles
      BY <1>11, <2>1, <2>2, <2>4, <3>1, <3>2 DEF FlushAcknowledge, IngestInv
    <3>3. CASE p \in pendingDeleted
      BY <1>11, <2>1, <2>2, <3>3, ReadOfNone
      DEF FlushAcknowledge, IngestInv, PendingAgreesWithFiles
    <3>4. p \notin skippedFiles
      BY <3>1
    <3> QED BY <1>3, <2>1, <2>2, <3>2, <3>3, <3>4
  <2> QED BY <2>3, <2>4
<1> QED BY <1>1, <1>4, <1>5, <1>6, <1>7, <1>8, <1>9, <1>10, <1>11 DEF DataStep

--------------------------------------------------------------------------------
(* Deletion of the project and the registry of indexers.                   *)

\* A project is removed under its lock only, by the one deletion under way.
LEMMA ProjectStep ==
  ASSUME TypeOK, LockInv, ProjectInv, [Next]_vars
  PROVE  ProjectInv'
<1> USE ConstantsAssumption DEF TypeOK, ProjectInv, Deleters, Critical, Thread
<1>1. ASSUME NEW r \in Request, Resolve(r) PROVE ProjectInv'
  BY <1>1 DEF Resolve
<1>2. ASSUME NEW r \in Request, NEW items \in Batches, NEW dfr \in BOOLEAN,
             UploadBegin(r, items, dfr)
      PROVE  ProjectInv'
  BY <1>2 DEF UploadBegin, ProjectExists, Goto
<1>3. ASSUME NEW r \in Request, UploadSave(r) PROVE ProjectInv'
  BY <1>3 DEF UploadSave, Return, Leave, Goto
<1>4. ASSUME NEW r \in Request, BlobIOFails(r) PROVE ProjectInv'
  BY <1>4 DEF BlobIOFails, Return, Leave, Goto
<1>5. ASSUME NEW r \in Request, NEW paths \in SUBSET Path, NEW dfr \in BOOLEAN,
             DeletionsSave(r, paths, dfr)
      PROVE  ProjectInv'
  BY <1>5 DEF DeletionsSave, ProjectExists, Goto
<1>6. ASSUME NEW r \in Request, DeletionsUnlink(r) PROVE ProjectInv'
  BY <1>6 DEF DeletionsUnlink, Return, Leave, Goto
<1>7. ASSUME NEW t \in Thread, FlushNothing(t) PROVE ProjectInv'
  BY <1>7 DEF FlushNothing, FlushReturns, Return, Leave, Goto
<1>8. ASSUME NEW t \in Thread, FlushDeletes(t) PROVE ProjectInv'
  BY <1>8 DEF FlushDeletes, Raise, Return, Leave, Goto
<1>9. ASSUME NEW t \in Thread, IngestWrite(t) PROVE ProjectInv'
  BY <1>9 DEF IngestWrite, Goto
<1>10. ASSUME NEW t \in Thread, IngestRaises(t) PROVE ProjectInv'
  BY <1>10 DEF IngestRaises, Raise, Return, Leave, Goto
<1>11. ASSUME NEW t \in Thread, FlushAcknowledge(t) PROVE ProjectInv'
  BY <1>11 DEF FlushAcknowledge, FlushReturns, Return, Leave, Goto
<1>12. ASSUME NEW r \in Request, InitializeProject(r) PROVE ProjectInv'
  BY <1>12 DEF InitializeProject, ProjectExists, Goto
<1>13. ASSUME NEW r \in Request, StartSyncReturns(r) PROVE ProjectInv'
  BY <1>13 DEF StartSyncReturns, Goto
<1>14. ASSUME NEW r \in Request, StartSync(r) PROVE ProjectInv'
  BY <1>14 DEF StartSync
<1>15. ASSUME NEW w \in Worker, WorkerCount(w) PROVE ProjectInv'
  BY <1>15 DEF WorkerCount, Goto
<1>16. ASSUME NEW w \in Worker, WorkerLock(w) PROVE ProjectInv'
  BY <1>16 DEF WorkerLock, Goto
<1>17. ASSUME NEW w \in Worker, WorkerFinish(w) PROVE ProjectInv'
  BY <1>17 DEF WorkerFinish, Goto
<1>18. ASSUME NEW w \in Worker, WorkerExit(w) PROVE ProjectInv'
  BY <1>18 DEF WorkerExit, Goto
<1>19. ASSUME NEW r \in Request, DeleteBegin(r) PROVE ProjectInv'
  BY <1>19 DEF DeleteBegin, ProjectExists, Goto
<1>20. ASSUME NEW r \in Request, DeleteRemove(r) PROVE ProjectInv'
  BY <1>20 DEF LockInv, DeleteRemove, Goto
<1>21. ASSUME NEW r \in Request, DeleteEnd(r) PROVE ProjectInv'
  BY <1>21 DEF DeleteEnd, Goto
<1>22. ASSUME NEW r \in Request, StopIndexer(r) PROVE ProjectInv'
  BY <1>22 DEF StopIndexer, Goto
<1>23. ASSUME NEW r \in Request, QueryBegin(r) PROVE ProjectInv'
  BY <1>23 DEF QueryBegin, ProjectExists, Goto
<1>24. ASSUME NEW r \in Request, QueryOpen(r) PROVE ProjectInv'
  BY <1>24 DEF QueryOpen, Goto
<1>25. ASSUME Crash PROVE ProjectInv'
  BY <1>25 DEF Crash
<1>26. ASSUME UNCHANGED vars PROVE ProjectInv'
  BY <1>26 DEF vars
<1> HIDE DEF TypeOK, ProjectInv, Deleters, Critical, Thread
<1> QED
  BY <1>1, <1>2, <1>3, <1>4, <1>5, <1>6, <1>7, <1>8, <1>9, <1>10, <1>11, <1>12, <1>13, <1>14,
      <1>15, <1>16, <1>17, <1>18, <1>19, <1>20, <1>21, <1>22, <1>23, <1>24, <1>25, <1>26
  DEF Next, Arrive, Handle, Work, Fail, Flush, Thread

\* Nothing is written to a project that is not there.
LEMMA AbsentStep ==
  ASSUME TypeOK, ProjectInv, AbsentInv, NoResurrection, [Next]_vars
  PROVE  (AbsentInv /\ NoResurrection)'
<1> USE ConstantsAssumption DEF TypeOK, AbsentInv, NoResurrection, ledger, mirror
<1>1. ASSUME NEW r \in Request, Resolve(r) PROVE (AbsentInv /\ NoResurrection)'
  BY <1>1 DEF Resolve
<1>2. ASSUME NEW r \in Request, NEW items \in Batches, NEW dfr \in BOOLEAN,
             UploadBegin(r, items, dfr)
      PROVE  (AbsentInv /\ NoResurrection)'
  BY <1>2 DEF UploadBegin, ProjectExists
<1>3. ASSUME NEW r \in Request, UploadSave(r) PROVE (AbsentInv /\ NoResurrection)'
  BY <1>3 DEF UploadSave, ProjectInv, Critical
<1>4. ASSUME NEW r \in Request, BlobIOFails(r) PROVE (AbsentInv /\ NoResurrection)'
  BY <1>4 DEF BlobIOFails, ProjectInv, Critical, AbsentInv, NoResurrection
<1>5. ASSUME NEW r \in Request, NEW paths \in SUBSET Path, NEW dfr \in BOOLEAN,
             DeletionsSave(r, paths, dfr)
      PROVE  (AbsentInv /\ NoResurrection)'
  BY <1>5 DEF DeletionsSave, ProjectExists
<1>6. ASSUME NEW r \in Request, DeletionsUnlink(r) PROVE (AbsentInv /\ NoResurrection)'
  BY <1>6 DEF DeletionsUnlink, ProjectInv, Critical
<1>7. ASSUME NEW t \in Thread, FlushNothing(t) PROVE (AbsentInv /\ NoResurrection)'
  BY <1>7 DEF FlushNothing
<1>8. ASSUME NEW t \in Thread, FlushDeletes(t) PROVE (AbsentInv /\ NoResurrection)'
  BY <1>8 DEF FlushDeletes, Pending
<1>9. ASSUME NEW t \in Thread, IngestWrite(t) PROVE (AbsentInv /\ NoResurrection)'
  BY <1>9 DEF IngestWrite
<1>10. ASSUME NEW t \in Thread, IngestRaises(t) PROVE (AbsentInv /\ NoResurrection)'
  BY <1>10 DEF IngestRaises
<1>11. ASSUME NEW t \in Thread, FlushAcknowledge(t) PROVE (AbsentInv /\ NoResurrection)'
  BY <1>11 DEF FlushAcknowledge, Acknowledge, CompletePending
<1>12. ASSUME NEW r \in Request, InitializeProject(r) PROVE (AbsentInv /\ NoResurrection)'
  BY <1>12 DEF InitializeProject, ProjectExists
<1>13. ASSUME NEW r \in Request, StartSyncReturns(r) PROVE (AbsentInv /\ NoResurrection)'
  BY <1>13 DEF StartSyncReturns
<1>14. ASSUME NEW r \in Request, StartSync(r) PROVE (AbsentInv /\ NoResurrection)'
  BY <1>14 DEF StartSync
<1>15. ASSUME NEW w \in Worker, WorkerCount(w) PROVE (AbsentInv /\ NoResurrection)'
  BY <1>15 DEF WorkerCount
<1>16. ASSUME NEW w \in Worker, WorkerLock(w) PROVE (AbsentInv /\ NoResurrection)'
  BY <1>16 DEF WorkerLock
<1>17. ASSUME NEW w \in Worker, WorkerFinish(w) PROVE (AbsentInv /\ NoResurrection)'
  BY <1>17 DEF WorkerFinish
<1>18. ASSUME NEW w \in Worker, WorkerExit(w) PROVE (AbsentInv /\ NoResurrection)'
  BY <1>18 DEF WorkerExit
<1>19. ASSUME NEW r \in Request, DeleteBegin(r) PROVE (AbsentInv /\ NoResurrection)'
  BY <1>19 DEF DeleteBegin, ProjectExists
<1>20. ASSUME NEW r \in Request, DeleteRemove(r) PROVE (AbsentInv /\ NoResurrection)'
  BY <1>20 DEF DeleteRemove
<1>21. ASSUME NEW r \in Request, DeleteEnd(r) PROVE (AbsentInv /\ NoResurrection)'
  BY <1>21 DEF DeleteEnd
<1>22. ASSUME NEW r \in Request, StopIndexer(r) PROVE (AbsentInv /\ NoResurrection)'
  BY <1>22 DEF StopIndexer
<1>23. ASSUME NEW r \in Request, QueryBegin(r) PROVE (AbsentInv /\ NoResurrection)'
  BY <1>23 DEF QueryBegin
<1>24. ASSUME NEW r \in Request, QueryOpen(r) PROVE (AbsentInv /\ NoResurrection)'
  BY <1>24 DEF QueryOpen
<1>25. ASSUME Crash PROVE (AbsentInv /\ NoResurrection)'
  <2>1. CASE ~project /\ lock # Nobody
    <3>1. pc[lock] \notin {"put", "unlink"} /\ lock \in Thread
      BY <2>1 DEF TypeOK, ProjectInv, Critical, Thread, WorkerLabels, InFlush
    <3>2. stored' = stored /\ torn' = torn
      BY <1>25, <2>1, <3>1, InterruptedFacts DEF Crash
    <3> QED BY <1>25, <3>2 DEF Crash, AbsentInv, NoResurrection, ledger
  <2>2. CASE project \/ lock = Nobody
    BY <1>25, <2>2 DEF Crash, AbsentInv, NoResurrection, ledger, mirror
  <2> QED BY <2>1, <2>2
<1>26. ASSUME UNCHANGED vars PROVE (AbsentInv /\ NoResurrection)'
  BY <1>26 DEF vars
<1> HIDE DEF TypeOK, AbsentInv, NoResurrection, ledger, mirror
<1> QED
  BY <1>1, <1>2, <1>3, <1>4, <1>5, <1>6, <1>7, <1>8, <1>9, <1>10, <1>11, <1>12, <1>13, <1>14,
      <1>15, <1>16, <1>17, <1>18, <1>19, <1>20, <1>21, <1>22, <1>23, <1>24, <1>25, <1>26
  DEF Next, Arrive, Handle, Work, Fail, Flush, Thread

\* delete_project unregisters the indexer after it marks the project, and
\* start_sync looks at the mark before it registers one.
LEMMA RegistryStep ==
  ASSUME TypeOK, ProjectInv, IndexerOfLiveProject, [Next]_vars
  PROVE  IndexerOfLiveProject'
<1> USE ConstantsAssumption DEF TypeOK, IndexerOfLiveProject, Thread, indexers
<1>1. ASSUME NEW r \in Request, Resolve(r) PROVE IndexerOfLiveProject'
  BY <1>1 DEF Resolve
<1>2. ASSUME NEW r \in Request, NEW items \in Batches, NEW dfr \in BOOLEAN,
             UploadBegin(r, items, dfr)
      PROVE  IndexerOfLiveProject'
  BY <1>2 DEF UploadBegin, Goto
<1>3. ASSUME NEW r \in Request, UploadSave(r) PROVE IndexerOfLiveProject'
  BY <1>3 DEF UploadSave, Return, Leave, Goto
<1>4. ASSUME NEW r \in Request, BlobIOFails(r) PROVE IndexerOfLiveProject'
  BY <1>4 DEF BlobIOFails, Return, Leave, Goto
<1>5. ASSUME NEW r \in Request, NEW paths \in SUBSET Path, NEW dfr \in BOOLEAN,
             DeletionsSave(r, paths, dfr)
      PROVE  IndexerOfLiveProject'
  BY <1>5 DEF DeletionsSave, Goto
<1>6. ASSUME NEW r \in Request, DeletionsUnlink(r) PROVE IndexerOfLiveProject'
  BY <1>6 DEF DeletionsUnlink, Return, Leave, Goto
<1>7. ASSUME NEW t \in Thread, FlushNothing(t) PROVE IndexerOfLiveProject'
  BY <1>7 DEF FlushNothing, FlushReturns, Return, Leave, Goto
<1>8. ASSUME NEW t \in Thread, FlushDeletes(t) PROVE IndexerOfLiveProject'
  BY <1>8 DEF FlushDeletes, Raise, Return, Leave, Goto
<1>9. ASSUME NEW t \in Thread, IngestWrite(t) PROVE IndexerOfLiveProject'
  BY <1>9 DEF IngestWrite, Goto
<1>10. ASSUME NEW t \in Thread, IngestRaises(t) PROVE IndexerOfLiveProject'
  <2>1. UNCHANGED <<current, project, deleting>>
    BY <1>10 DEF IngestRaises, Raise
  <2>2. ASSUME NEW r \in Request, pc[r] = "marked" PROVE pc'[r] = "marked"
    BY <1>10, <2>2 DEF IngestRaises, Raise, Return, Leave, Goto, InFlush
  <2> QED BY <2>1, <2>2
<1>11. ASSUME NEW t \in Thread, FlushAcknowledge(t) PROVE IndexerOfLiveProject'
  BY <1>11
  DEF FlushAcknowledge, Acknowledge, ForgetFailedIndexer, FlushReturns, Return, Leave, Goto
<1>12. ASSUME NEW r \in Request, InitializeProject(r) PROVE IndexerOfLiveProject'
  BY <1>12 DEF InitializeProject, Goto
<1>13. ASSUME NEW r \in Request, StartSyncReturns(r) PROVE IndexerOfLiveProject'
  BY <1>13 DEF StartSyncReturns, Goto
<1>14. ASSUME NEW r \in Request, StartSync(r) PROVE IndexerOfLiveProject'
  BY <1>14 DEF StartSync, MayStart
<1>15. ASSUME NEW w \in Worker, WorkerCount(w) PROVE IndexerOfLiveProject'
  BY <1>15 DEF WorkerCount, Outcome, Goto
<1>16. ASSUME NEW w \in Worker, WorkerLock(w) PROVE IndexerOfLiveProject'
  BY <1>16 DEF WorkerLock, Outcome, Goto
<1>17. ASSUME NEW w \in Worker, WorkerFinish(w) PROVE IndexerOfLiveProject'
  BY <1>17 DEF WorkerFinish, Outcome, Goto
<1>18. ASSUME NEW w \in Worker, WorkerExit(w) PROVE IndexerOfLiveProject'
  BY <1>18 DEF WorkerExit, Goto
<1>19. ASSUME NEW r \in Request, DeleteBegin(r) PROVE IndexerOfLiveProject'
  BY <1>19 DEF DeleteBegin, ProjectInv, Deleters, Goto
<1>20. ASSUME NEW r \in Request, DeleteRemove(r) PROVE IndexerOfLiveProject'
  BY <1>20 DEF DeleteRemove, ProjectInv, Deleters, Goto
<1>21. ASSUME NEW r \in Request, DeleteEnd(r) PROVE IndexerOfLiveProject'
  BY <1>21 DEF DeleteEnd, ProjectInv, Deleters, Goto
<1>22. ASSUME NEW r \in Request, StopIndexer(r) PROVE IndexerOfLiveProject'
  BY <1>22 DEF StopIndexer, ProjectInv, Deleters, Goto
<1>23. ASSUME NEW r \in Request, QueryBegin(r) PROVE IndexerOfLiveProject'
  BY <1>23 DEF QueryBegin, Goto
<1>24. ASSUME NEW r \in Request, QueryOpen(r) PROVE IndexerOfLiveProject'
  BY <1>24 DEF QueryOpen, Goto
<1>25. ASSUME Crash PROVE IndexerOfLiveProject'
  BY <1>25 DEF Crash
<1>26. ASSUME UNCHANGED vars PROVE IndexerOfLiveProject'
  BY <1>26 DEF vars
<1> HIDE DEF TypeOK, IndexerOfLiveProject, Thread, indexers
<1> QED
  BY <1>1, <1>2, <1>3, <1>4, <1>5, <1>6, <1>7, <1>8, <1>9, <1>10, <1>11, <1>12, <1>13, <1>14,
      <1>15, <1>16, <1>17, <1>18, <1>19, <1>20, <1>21, <1>22, <1>23, <1>24, <1>25, <1>26
  DEF Next, Arrive, Handle, Work, Fail, Flush, Thread

\* start_sync replaces only an indexer whose thread is over, delete_project
\* cancels the one it unregisters.
LEMMA LiveStep ==
  ASSUME TypeOK, LiveInv, [Next]_vars
  PROVE  LiveInv'
<1> USE ConstantsAssumption DEF TypeOK, LiveInv, Running, Thread, indexers
<1>1. ASSUME NEW r \in Request, Resolve(r) PROVE LiveInv'
  BY <1>1 DEF Resolve
<1>2. ASSUME NEW r \in Request, NEW items \in Batches, NEW dfr \in BOOLEAN,
             UploadBegin(r, items, dfr)
      PROVE  LiveInv'
  BY <1>2 DEF UploadBegin, Goto
<1>3. ASSUME NEW r \in Request, UploadSave(r) PROVE LiveInv'
  BY <1>3 DEF UploadSave, Return, Leave, Goto
<1>4. ASSUME NEW r \in Request, BlobIOFails(r) PROVE LiveInv'
  BY <1>4 DEF BlobIOFails, Return, Leave, Goto
<1>5. ASSUME NEW r \in Request, NEW paths \in SUBSET Path, NEW dfr \in BOOLEAN,
             DeletionsSave(r, paths, dfr)
      PROVE  LiveInv'
  BY <1>5 DEF DeletionsSave, Goto
<1>6. ASSUME NEW r \in Request, DeletionsUnlink(r) PROVE LiveInv'
  BY <1>6 DEF DeletionsUnlink, Return, Leave, Goto
<1>7. ASSUME NEW t \in Thread, FlushNothing(t) PROVE LiveInv'
  BY <1>7 DEF FlushNothing, FlushReturns, Return, Leave, Goto
<1>8. ASSUME NEW t \in Thread, FlushDeletes(t) PROVE LiveInv'
  BY <1>8 DEF FlushDeletes, Raise, Return, Leave, Goto
<1>9. ASSUME NEW t \in Thread, IngestWrite(t) PROVE LiveInv'
  BY <1>9 DEF IngestWrite, Goto
<1>10. ASSUME NEW t \in Thread, IngestRaises(t) PROVE LiveInv'
  <2>1. CASE t \in Request
    BY <1>10, <2>1 DEF IngestRaises, Raise, Return, Leave, Goto
  <2>2. CASE t \in Worker
    BY <1>10, <2>2 DEF IngestRaises, Raise, Leave, Goto, InFlush
  <2> QED BY <2>1, <2>2 DEF Thread
<1>11. ASSUME NEW t \in Thread, FlushAcknowledge(t) PROVE LiveInv'
  BY <1>11
  DEF FlushAcknowledge, FlushReturns, Return, Leave, Goto, Acknowledge, ForgetFailedIndexer
<1>12. ASSUME NEW r \in Request, InitializeProject(r) PROVE LiveInv'
  BY <1>12 DEF InitializeProject, Goto
<1>13. ASSUME NEW r \in Request, StartSyncReturns(r) PROVE LiveInv'
  BY <1>13 DEF StartSyncReturns, Busy, Goto
<1>14. ASSUME NEW r \in Request, StartSync(r) PROVE LiveInv'
  BY <1>14 DEF StartSync, Busy
<1>15. ASSUME NEW w \in Worker, WorkerCount(w) PROVE LiveInv'
  BY <1>15 DEF WorkerCount, Outcome, Goto
<1>16. ASSUME NEW w \in Worker, WorkerLock(w) PROVE LiveInv'
  BY <1>16 DEF WorkerLock, Outcome, Goto
<1>17. ASSUME NEW w \in Worker, WorkerFinish(w) PROVE LiveInv'
  BY <1>17 DEF WorkerFinish, Outcome, Goto
<1>18. ASSUME NEW w \in Worker, WorkerExit(w) PROVE LiveInv'
  BY <1>18 DEF WorkerExit, Goto
<1>19. ASSUME NEW r \in Request, DeleteBegin(r) PROVE LiveInv'
  BY <1>19 DEF DeleteBegin, Goto
<1>20. ASSUME NEW r \in Request, DeleteRemove(r) PROVE LiveInv'
  BY <1>20 DEF DeleteRemove, Goto
<1>21. ASSUME NEW r \in Request, DeleteEnd(r) PROVE LiveInv'
  BY <1>21 DEF DeleteEnd, Goto
<1>22. ASSUME NEW r \in Request, StopIndexer(r) PROVE LiveInv'
  BY <1>22 DEF StopIndexer, Goto
<1>23. ASSUME NEW r \in Request, QueryBegin(r) PROVE LiveInv'
  BY <1>23 DEF QueryBegin, Goto
<1>24. ASSUME NEW r \in Request, QueryOpen(r) PROVE LiveInv'
  BY <1>24 DEF QueryOpen, Goto
<1>25. ASSUME Crash PROVE LiveInv'
  BY <1>25 DEF Crash
<1>26. ASSUME UNCHANGED vars PROVE LiveInv'
  BY <1>26 DEF vars
<1> HIDE DEF TypeOK, LiveInv, Running, Thread, indexers
<1> QED
  BY <1>1, <1>2, <1>3, <1>4, <1>5, <1>6, <1>7, <1>8, <1>9, <1>10, <1>11, <1>12, <1>13, <1>14,
      <1>15, <1>16, <1>17, <1>18, <1>19, <1>20, <1>21, <1>22, <1>23, <1>24, <1>25, <1>26
  DEF Next, Arrive, Handle, Work, Fail, Flush, Thread

--------------------------------------------------------------------------------
(* The theorems.                                                           *)

\* A server that has just started, with no project, satisfies the invariant.
LEMMA InitEstablishes ==
  ASSUME Init
  PROVE  IndInv
<1> USE ConstantsAssumption
<1>1. TypeOK
  BY DEF Init, TypeOK, Thread, HandlerLabels, WorkerLabels, InFlush
<1>2. LockInv /\ ProjectInv /\ UnlinkInv /\ IngestInv
  BY DEF Init, LockInv, ProjectInv, UnlinkInv, IngestInv, Critical, Deleters,
         Thread
<1>3. LedgerBlobsStored /\ PendingAgreesWithFiles
  BY DEF Init, LedgerBlobsStored, PendingAgreesWithFiles
<1>4. IndexFollowsLedger
  BY DEF Init, IndexFollowsLedger, Read
<1>5. AbsentInv /\ NoResurrection /\ IndexerOfLiveProject
  BY DEF Init, AbsentInv, NoResurrection, IndexerOfLiveProject
<1>6. LiveInv
  BY DEF Init, LiveInv, Running, Thread
<1> QED BY <1>1, <1>2, <1>3, <1>4, <1>5, <1>6 DEF IndInv

\* The inductive invariant holds in every reachable state.
THEOREM Inductive == Spec => []IndInv
<1>1. Init => IndInv
  BY InitEstablishes
<1>2. IndInv /\ [Next]_vars => IndInv'
  <2> SUFFICES ASSUME IndInv, [Next]_vars PROVE IndInv'
    OBVIOUS
  <2>1. TypeOK' /\ LockInv'
    BY TypeStep, LockStep DEF IndInv
  <2>2. ProjectInv' /\ UnlinkInv'
    BY ProjectStep, UnlinkStep DEF IndInv
  <2>3. LedgerBlobsStored' /\ PendingAgreesWithFiles'
    BY LedgerBlobsStep, PendingAgreesStep DEF IndInv
  <2>4. IngestInv' /\ IndexFollowsLedger'
    BY <2>1, IngestStep, IndexFollowsStep DEF IndInv
  <2>5. AbsentInv' /\ NoResurrection' /\ IndexerOfLiveProject' /\ LiveInv'
    BY AbsentStep, RegistryStep, LiveStep DEF IndInv
  <2> QED BY <2>1, <2>2, <2>3, <2>4, <2>5 DEF IndInv
<1> QED BY <1>1, <1>2, PTL DEF Spec

\* Every variable keeps its type, however many threads, paths and faults there are.
THEOREM TypeCorrect == Spec => []TypeOK
<1>1. IndInv => TypeOK
  BY DEF IndInv
<1> QED BY <1>1, Inductive, PTL

\* No crash, I/O error or order of uploads and deletions leaves a ledger entry
\* without its blob.
THEOREM BlobsStored == Spec => []LedgerBlobsStored
<1>1. IndInv => LedgerBlobsStored
  BY DEF IndInv
<1> QED BY <1>1, Inductive, PTL

\* What waits to be indexed is a file of the ledger, what waits to be deleted none.
THEOREM PendingAgrees == Spec => []PendingAgreesWithFiles
<1>1. IndInv => PendingAgreesWithFiles
  BY DEF IndInv
<1> QED BY <1>1, Inductive, PTL

\* What is acknowledged and not skipped is in the index as its blob reads.
THEOREM IndexFollows == Spec => []IndexFollowsLedger
<1>1. IndInv => IndexFollowsLedger
  BY DEF IndInv
<1> QED BY <1>1, Inductive, PTL

\* No handler or worker under way brings any data of a deleted project back.
THEOREM DeletedStaysDeleted == Spec => []NoResurrection
<1>1. IndInv => NoResurrection
  BY DEF IndInv
<1> QED BY <1>1, Inductive, PTL

\* Only an existing project has a registered indexer, and none is registered once
\* its deletion has stopped the last one.
THEOREM IndexerIsLive == Spec => []IndexerOfLiveProject
<1>1. IndInv => IndexerOfLiveProject
  BY DEF IndInv
<1> QED BY <1>1, Inductive, PTL

\* At most one background run of a project has not been cancelled.
THEOREM SingleRun == Spec => []OneLiveRun
<1>1. IndInv => OneLiveRun
  BY DEF IndInv, LiveInv, OneLiveRun
<1> QED BY <1>1, Inductive, PTL

\* A pending path is acknowledged with all the others and only once it is
\* indexed or skipped; an upload saved meanwhile is never acknowledged with them.
THEOREM AcknowledgesWhole == Spec => AcknowledgedWhole
<1> DEFINE Whole ==
      \A p \in pendingFiles \cup pendingDeleted :
        p \notin pendingFiles' \cup pendingDeleted' =>
          \/ ~project'
          \/ pendingFiles' = {} /\ pendingDeleted' = {}
             /\ (p \in skippedFiles' \/ index'[p] = Read(p))
<1>1. IndInv /\ [Next]_vars => [Whole]_vars
  <2> SUFFICES ASSUME IndInv, [Next]_vars,
                      NEW p \in pendingFiles \cup pendingDeleted,
                      p \notin pendingFiles' \cup pendingDeleted'
               PROVE  \/ ~project'
                      \/ pendingFiles' = {} /\ pendingDeleted' = {}
                         /\ (p \in skippedFiles' \/ index'[p] = Read(p))
    OBVIOUS
  <2>1. TypeOK /\ PendingAgreesWithFiles /\ IngestInv
    BY DEF IndInv
  <2>2. DataStep
    BY DataSteps
  <2>3. ASSUME NEW r \in Request, DeleteRemove(r) PROVE ~project'
    BY <2>3 DEF DeleteRemove
  <2>4. ~UNCHANGED <<ledger, mirror, index>> /\ ~Crash
    BY DEF Crash, ledger
  <2>5. ASSUME NEW r \in Request,
               UploadSave(r) \/ BlobIOFails(r) \/ DeletionsUnlink(r)
        PROVE  FALSE
    BY <2>5 DEF UploadSave, QueueFiles, BlobIOFails, DeletionsUnlink, ledger
  <2>6. ASSUME NEW r \in Request, NEW paths \in SUBSET Path, NEW dfr \in BOOLEAN,
               DeletionsSave(r, paths, dfr)
        PROVE  FALSE
    BY <2>6 DEF DeletionsSave, QueueDeletions
  <2>7. ASSUME NEW t \in Thread, FlushDeletes(t) \/ IngestWrite(t) PROVE FALSE
    BY <2>7 DEF FlushDeletes, IngestWrite, ledger
  <2>8. ASSUME NEW t \in Thread, FlushAcknowledge(t)
        PROVE  pendingFiles' = {} /\ pendingDeleted' = {}
               /\ (p \in skippedFiles' \/ index'[p] = Read(p))
    <3>1. ~report[t] /\ CompletePending /\ index' = index
      BY <2>8 DEF FlushAcknowledge, Acknowledge, ledger
    <3>2. CASE p \in pendingFiles
      BY <2>1, <2>8, <3>1, <3>2 DEF FlushAcknowledge, CompletePending, IngestInv
    <3>3. CASE p \in pendingDeleted
      BY <2>1, <2>8, <3>1, <3>3, ReadOfNone
      DEF TypeOK, FlushAcknowledge, CompletePending, IngestInv, PendingAgreesWithFiles
    <3> QED BY <3>2, <3>3
  <2> QED BY <2>2, <2>3, <2>4, <2>5, <2>6, <2>7, <2>8 DEF DataStep
<1> QED BY <1>1, Inductive, PTL DEF Spec, AcknowledgedWhole

==============================================================================
