---------------------------- MODULE WorkspaceProofs ----------------------------
(***************************************************************************)
(* What Workspace promises of a checkout that is indexed holds for any     *)
(* paths, contents, client processes, handlers, indexers, edits and        *)
(* faults: a call of a client searches what it scanned and what the server *)
(* has ingested for it, and a recorded scan of local mode is what the      *)
(* index holds.                                                            *)
(***************************************************************************)
EXTENDS Workspace, TLAPS

--------------------------------------------------------------------------------
(* The client and the server.                                              *)

CallFields == {"entries", "rules", "send", "gone", "scanned", "sent", "trusted", "alone", "unseen"}
Message == [by : Process \cup {Nobody}, paths : SUBSET Path, content : Content \cup {Absent}]

\* The labels of a call after its requests have been answered, and after the
\* server has said that it is ready.
Answered == {"commit", "flush", "poll", "forget", "checkpoint", "search"}
Ready == {"forget", "checkpoint", "search"}
Labels == {"idle", "upload", "delete", "deleting"} \cup Answered

CallTyped(k) ==
    /\ DOMAIN k = CallFields /\ k.alone \in BOOLEAN
    /\ k.entries \in Entries /\ k.scanned \in Entries
    /\ k.send \subseteq Path /\ k.gone \subseteq Path /\ k.sent \subseteq Path
    /\ k.trusted \subseteq Path /\ k.unseen \subseteq Path

ClientTyped ==
    /\ disk \in [Path -> Content \cup {Absent, Unread}]
    /\ DOMAIN cache = {"rules", "entries"} /\ cache.entries \in Entries
    /\ pc \in [Process -> Labels]
    /\ DOMAIN call = Process /\ \A c \in Process : CallTyped(call[c])
    /\ files \in Entries /\ index \in Entries
    /\ pending \subseteq Path /\ skippedFiles \subseteq Path

\* Requests of a call: files while it uploads, then one deletion notice.
NetInv ==
    \A m \in net :
        /\ m \in Message
        /\ m.by \in Process =>
              /\ pc[m.by] \in {"upload", "deleting"}
              /\ pc[m.by] = "upload" <=> m.content # Absent
              /\ m.content = Absent => \A n \in net : n.by = m.by => n = m

\* What is not pending has been ingested, or skipped.
ServerInv == \A p \in Path \ pending : index[p] = files[p] \/ p \in skippedFiles

\* What the server recorded for a call is pending until an ingest has covered it.
SeenInv ==
    \A c \in Process :
        /\ call[c].unseen \subseteq pending
        /\ pc[c] \in Ready => call[c].unseen = {}

\* What a call sends is there.
SendInv == \A c \in Process : pc[c] = "upload" => \A p \in call[c].send : call[c].entries[p] # Absent

\* The cache and the entries of a call, as far as it has come.
EntriesOK(c) ==
    LET k == call[c]
        left == [p \in Path |-> IF p \in skippedFiles THEN Absent ELSE k.scanned[p]]
    IN  /\ \A p \in k.gone : k.scanned[p] = Absent
        /\ pc[c] \notin Ready => k.entries = k.scanned
        /\ pc[c] \in {"flush", "poll", "forget"} => cache.entries = k.scanned
        /\ pc[c] \in Ready => pending = {}
        /\ pc[c] = "forget" => k.entries = left
        /\ pc[c] \in {"checkpoint", "search"} => cache.entries = left

\* What a call knows of is on the server, on its way there, or about to be sent.
Arrives(c, p) ==
    \/ files[p] = call[c].scanned[p]
    \/ \E m \in net : p \in m.paths
    \/ pc[c] = "upload" /\ p \in call[c].send
    \/ pc[c] \in {"upload", "delete"} /\ p \in call[c].gone

\* A call that is alone: nobody else writes the ledger or the cache.
AloneOK(c) ==
    /\ \A d \in Process \ {c} : pc[d] = "idle"
    /\ \A m \in net : m.by = c /\ \A p \in m.paths : m.content = call[c].scanned[p]
    /\ EntriesOK(c)
    /\ \A p \in Known(c) : Arrives(c, p)

AloneInv == \A c \in Process : pc[c] # "idle" /\ call[c].alone => AloneOK(c)

--------------------------------------------------------------------------------
(* Local mode.                                                             *)

Critical == {"scan", "delete", "store", "record", "release"}
ThreadLabels == {"none", "count", "wait", "ending"} \cup Critical
RequestLabels == {"idle", "bind", "initialize", "register", "start", "search", "stop", "remove", "wait"}
                 \cup Critical

\* Who works on the index holds the lock.
LockInv ==
    /\ lock \in Request \cup Worker \cup {Unlocked}
    /\ thread \in [Worker -> ThreadLabels] /\ at \in [Request -> RequestLabels]
    /\ \A w \in Worker : thread[w] \in Critical <=> lock = w
    /\ \A r \in Request : at[r] \in Critical <=> lock = r

\* The rows are what was seen, but for what went astray and what is refused.
Agrees(seen, have, lost) == \A p \in Path \ lost : have[p] = seen[p] \/ seen[p] \in Refused

\* What a manifest claims the index has, or had when the scan under way began.
ManifestInv ==
    Agrees(manifest, IF Where \in {"delete", "store", "record"} THEN job.before ELSE rows, astray)

\* How far the scan under way has come.
ScanInv ==
    LET touched == job.changed \cup job.gone IN
    /\ Where = "delete" => job.before = rows
    /\ Where \in {"delete", "store"} =>
          /\ \A p \in job.gone : job.seen[p] = Absent
          /\ Agrees(job.seen, rows, astray \cup touched)
    /\ Where = "store" => \A p \in job.gone : rows[p] = Absent
    /\ Where = "record" => Agrees(job.seen, rows, (astray \ touched) \cup job.lost)
    /\ Where = "release" => job.seen = manifest

JobFields == {"seen", "changed", "gone", "before", "lost"}

LocalTyped ==
    /\ manifest \in Entries /\ rows \in Entries /\ astray \subseteq Path
    /\ DOMAIN job = JobFields /\ job.seen \in Entries /\ job.before \in Entries
    /\ job.changed \subseteq Path /\ job.gone \subseteq Path /\ job.lost \subseteq Path

ClientInv == ClientTyped /\ NetInv /\ ServerInv /\ SeenInv /\ SendInv /\ AloneInv
LocalInv == LockInv /\ LocalTyped /\ ManifestInv /\ ScanInv
IndInv == ClientInv /\ LocalInv

--------------------------------------------------------------------------------
(* A step of a call: Touches(c, F) if it changes the fields F of the locals   *)
(* of process c, and of no other.                                             *)

Touches(c, F) ==
    /\ DOMAIN call' = Process /\ \A d \in Process \ {c} : call'[d] = call[d]
    /\ DOMAIN call'[c] = CallFields
    /\ \A f \in CallFields \ F : call'[c][f] = call[c][f]

\* Goto moves one process.
LEMMA GotoMoves ==
    ASSUME ClientTyped, NEW c \in Process, NEW l, Goto(c, l),
           l \in Labels
    PROVE  /\ pc' \in [Process -> Labels]
           /\ pc'[c] = l /\ \A d \in Process \ {c} : pc'[d] = pc[d]
BY DEF ClientTyped, Goto

\* What a walk reads are entries.
LEMMA WalkedTyped == ASSUME ClientTyped PROVE Walked \in Entries
<1> DEFINE walk == WalkUnion(rules, Here)
<1>1. Walked = [p \in Path |-> IF p \notin walk \/ disk[p] = Unread THEN Absent ELSE disk[p]]
    BY DEF Walked
<1> HIDE DEF walk
<1> QED BY <1>1 DEF ClientTyped, Entries

\* No entries are entries.
LEMMA NoneTyped == None \in Entries /\ \A p \in Path : None[p] = Absent
BY DEF None, Entries

\* What a call begins with.
LEMMA StartEffect ==
    ASSUME ClientTyped, NEW c \in Process, Start(c)
    PROVE  /\ pc[c] = "idle" /\ pc'[c] = "upload" /\ \A d \in Process \ {c} : pc'[d] = pc[d]
           /\ pc' \in [Process -> Labels]
           /\ DOMAIN call' = Process
           /\ call'[c] = ScanStreaming
           /\ \A d \in Process \ {c} :
                 /\ DOMAIN call'[d] = CallFields
                 /\ \A f \in CallFields \ {"alone"} : call'[d][f] = call[d][f]
                 /\ call'[d].alone \in BOOLEAN
                 /\ pc[d] # "idle" => ~call'[d].alone
<1>1. pc[c] = "idle" /\ Goto(c, "upload")
    BY DEF Start
<1>2. DOMAIN call' = Process /\ call'[c] = ScanStreaming
    BY DEF Start
<1>3. ASSUME NEW d \in Process \ {c}
      PROVE  /\ DOMAIN call'[d] = CallFields
             /\ \A f \in CallFields \ {"alone"} : call'[d][f] = call[d][f]
             /\ call'[d].alone \in BOOLEAN
             /\ pc[d] # "idle" => ~call'[d].alone
  <2> DEFINE k == call[d]
  <2>1. DOMAIN k = CallFields /\ k.alone \in BOOLEAN
      BY DEF ClientTyped, CallTyped
  <2>2. call'[d] = IF d \in Busy THEN [k EXCEPT !.alone = FALSE] ELSE k
      BY DEF Start
  <2>3. d \in Busy <=> pc[d] # "idle"
      BY DEF Busy
  <2> HIDE DEF k
  <2>4. /\ DOMAIN [k EXCEPT !.alone = FALSE] = CallFields
        /\ \A f \in CallFields \ {"alone"} : [k EXCEPT !.alone = FALSE][f] = k[f]
        /\ [k EXCEPT !.alone = FALSE].alone = FALSE
      BY <2>1 DEF CallFields
  <2>5. CASE d \in Busy
      BY <2>2, <2>3, <2>4, <2>5 DEF k
  <2>6. CASE d \notin Busy
      BY <2>1, <2>2, <2>3, <2>6 DEF k
  <2> QED BY <2>5, <2>6
<1> QED BY <1>1, <1>2, <1>3, GotoMoves DEF Labels, Answered

\* A call that begins leaves everything as it should be.
LEMMA StartKeeps ==
    ASSUME ClientInv, NEW c \in Process, Start(c)
    PROVE  ClientInv'
<1>1. /\ ClientTyped /\ NetInv /\ ServerInv /\ SeenInv /\ SendInv /\ AloneInv
    BY DEF ClientInv
<1>2. /\ disk' = disk /\ UNCHANGED <<cache, net, files, pending, skippedFiles, index>>
    BY DEF Start, checkout, server
<1>3. /\ pc[c] = "idle" /\ pc'[c] = "upload" /\ \A d \in Process \ {c} : pc'[d] = pc[d]
      /\ pc' \in [Process -> Labels]
    BY <1>1, StartEffect
<1>4. /\ DOMAIN call' = Process /\ call'[c] = ScanStreaming
      /\ \A d \in Process \ {c} :
            /\ DOMAIN call'[d] = CallFields
            /\ \A f \in CallFields \ {"alone"} : call'[d][f] = call[d][f]
            /\ call'[d].alone \in BOOLEAN
            /\ pc[d] # "idle" => ~call'[d].alone
    BY <1>1, StartEffect
<1>5. PICK w \in Entries : w = Walked
    BY <1>1, WalkedTyped
<1> DEFINE k == call'[c]
<1>6. /\ DOMAIN k = CallFields /\ k.entries = w /\ k.scanned = w
      /\ k.send = {p \in Path : w[p] # Absent /\ Loaded[p] # w[p]}
      /\ k.gone = {p \in Path : Loaded[p] # Absent /\ w[p] = Absent}
      /\ k.sent = {} /\ k.unseen = {} /\ k.trusted = {p \in Path : Loaded[p] = files[p]}
      /\ k.alone = (Busy = {} /\ net = {})
    BY <1>4, <1>5 DEF ScanStreaming, CallFields, VerifiedHit, Deleted
<1> HIDE DEF k
<1>7. CallTyped(k)
    BY <1>6 DEF CallTyped
<1>8. ClientTyped'
  <2>1. ASSUME NEW d \in Process PROVE CallTyped(call'[d])
    <3>1. CASE d = c
        BY <3>1, <1>7 DEF k
    <3>2. CASE d # c
        BY <3>2, <1>1, <1>4 DEF ClientTyped, CallTyped, CallFields
    <3> QED BY <3>1, <3>2
  <2> QED BY <1>1, <1>2, <1>3, <1>4, <2>1 DEF ClientTyped
<1>9. NetInv'
    BY <1>1, <1>2, <1>3 DEF NetInv
<1>10. ServerInv'
    BY <1>1, <1>2 DEF ServerInv
<1>11. SeenInv'
  <2>1. ASSUME NEW d \in Process
        PROVE  call'[d].unseen \subseteq pending /\ (pc'[d] \in Ready => call'[d].unseen = {})
    <3>1. CASE d = c
        BY <3>1, <1>6 DEF k
    <3>2. CASE d # c
        BY <3>2, <1>1, <1>3, <1>4 DEF SeenInv, CallFields
    <3> QED BY <3>1, <3>2
  <2> QED BY <2>1, <1>2 DEF SeenInv
<1>12. SendInv'
  <2>1. ASSUME NEW d \in Process, pc'[d] = "upload", NEW p \in call'[d].send
        PROVE  call'[d].entries[p] # Absent
    <3>1. CASE d = c
        BY <3>1, <2>1, <1>6 DEF k
    <3>2. CASE d # c
        BY <3>2, <2>1, <1>1, <1>3, <1>4 DEF SendInv, CallFields
    <3> QED BY <3>1, <3>2
  <2> QED BY <2>1 DEF SendInv
<1>13. AloneInv'
  <2>1. ASSUME NEW d \in Process, pc'[d] # "idle", call'[d].alone
        PROVE  d = c
      BY <2>1, <1>3, <1>4
  <2>2. ASSUME k.alone
        PROVE  AloneOK(c)'
    <3>1. net = {} /\ \A d \in Process : pc[d] = "idle"
        BY <2>2, <1>6 DEF Busy
    <3>2. EntriesOK(c)'
        BY <1>3, <1>6 DEF EntriesOK, k, Ready
    <3>3. ASSUME NEW p \in k.trusted \cup k.sent
          PROVE  files[p] = w[p] \/ p \in k.send \/ p \in k.gone
        BY <3>3, <1>6
    <3>4. \A p \in Known(c)' : Arrives(c, p)'
        BY <3>3, <1>2, <1>3, <1>6 DEF Known, Arrives, k
    <3> QED BY <3>1, <3>2, <3>4, <1>2, <1>3 DEF AloneOK
  <2> QED BY <2>1, <2>2 DEF AloneInv, k
<1> QED BY <1>8, <1>9, <1>10, <1>11, <1>12, <1>13 DEF ClientInv

\* Of the calls, only the one that makes a step can be alone.
LEMMA OnlyAlone ==
    ASSUME AloneInv, NEW c \in Process, pc[c] # "idle",
           \A d \in Process \ {c} : pc'[d] = pc[d] /\ call'[d].alone = call[d].alone,
           call'[c].alone => call[c].alone,
           AloneOK(c) /\ pc'[c] # "idle" /\ call'[c].alone => AloneOK(c)'
    PROVE  AloneInv'
<1>1. ASSUME NEW d \in Process, pc'[d] # "idle", call'[d].alone
      PROVE  d = c
  <2>1. CASE d # c
      BY <2>1, <1>1 DEF AloneInv, AloneOK
  <2> QED BY <2>1
<1>2. ASSUME pc'[c] # "idle", call'[c].alone
      PROVE  AloneOK(c)'
    BY <1>2 DEF AloneInv
<1> QED BY <1>1, <1>2 DEF AloneInv

\* A step that touches a call leaves the types of the calls, if it leaves its own.
LEMMA CallsTyped ==
    ASSUME ClientTyped, NEW c \in Process, NEW F, Touches(c, F), CallTyped(call'[c])
    PROVE  DOMAIN call' = Process /\ \A d \in Process : CallTyped(call'[d])
<1>1. ASSUME NEW d \in Process PROVE CallTyped(call'[d])
  <2>1. CASE d # c
      BY <2>1 DEF Touches, ClientTyped
  <2> QED BY <2>1
<1> QED BY <1>1 DEF Touches

\* A batch is sent.
LEMMA SendEffect ==
    ASSUME ClientTyped, NEW c \in Process, NEW p \in Path, SendUploadBatch(c, p)
    PROVE  /\ Touches(c, {"send", "sent"})
           /\ call'[c].send = call[c].send \ {p} /\ call'[c].sent = call[c].sent \cup {p}
<1> DEFINE k == call[c]
           q == [k EXCEPT !.send = @ \ {p}, !.sent = @ \cup {p}]
<1>1. DOMAIN call = Process /\ DOMAIN k = CallFields
    BY DEF ClientTyped, CallTyped
<1>2. call' = [call EXCEPT ![c] = q]
    BY DEF SendUploadBatch
<1>3. /\ DOMAIN q = CallFields /\ \A f \in CallFields \ {"send", "sent"} : q[f] = k[f]
      /\ q.send = k.send \ {p} /\ q.sent = k.sent \cup {p}
  <2> HIDE DEF k
  <2> QED BY <1>1 DEF CallFields
<1> HIDE DEF q
<1>4. call'[c] = q
    BY <1>1, <1>2
<1> QED BY <1>1, <1>2, <1>3, <1>4 DEF Touches

\* A batch on its way is from an uploading call, and holds what the call scanned.
LEMMA SendKeeps ==
    ASSUME ClientInv, NEW c \in Process, NEW p \in Path, SendUploadBatch(c, p)
    PROVE  ClientInv'
<1>1. /\ ClientTyped /\ NetInv /\ ServerInv /\ SeenInv /\ SendInv /\ AloneInv
    BY DEF ClientInv
<1>2. /\ disk' = disk /\ UNCHANGED <<cache, pc, files, pending, skippedFiles, index>>
      /\ pc[c] = "upload" /\ p \in call[c].send
    BY DEF SendUploadBatch, checkout, server
<1>3. PICK m : m = [by |-> c, paths |-> {p}, content |-> call[c].entries[p]] /\ net' = net \cup {m}
    BY DEF SendUploadBatch
<1>4. /\ Touches(c, {"send", "sent"})
      /\ call'[c].send = call[c].send \ {p} /\ call'[c].sent = call[c].sent \cup {p}
    BY <1>1, SendEffect
<1>5. /\ DOMAIN call'[c] = CallFields /\ call'[c].entries = call[c].entries
      /\ call'[c].scanned = call[c].scanned /\ call'[c].gone = call[c].gone
      /\ call'[c].trusted = call[c].trusted /\ call'[c].unseen = call[c].unseen
      /\ call'[c].alone = call[c].alone
      /\ \A d \in Process \ {c} : call'[d] = call[d]
    BY <1>4 DEF Touches, CallFields
<1>6. CallTyped(call[c])
    BY <1>1 DEF ClientTyped
<1>7. /\ m \in Message /\ m.by = c /\ m.paths = {p}
      /\ m.content = call[c].entries[p] /\ m.content # Absent
  <2>1. call[c].entries[p] \in Content \cup {Absent} /\ call[c].entries[p] # Absent
      BY <1>1, <1>2, <1>6 DEF CallTyped, Entries, SendInv
  <2> QED BY <2>1, <1>3 DEF Message
<1>8. ClientTyped'
  <2>1. CallTyped(call'[c])
      BY <1>4, <1>5, <1>6 DEF CallTyped
  <2> QED BY <2>1, <1>1, <1>2, <1>4, CallsTyped DEF ClientTyped
<1>9. NetInv'
  <2>1. ASSUME NEW n \in net', n.by \in Process, n.content = Absent
        PROVE  pc[n.by] = "deleting" /\ \A o \in net' : o.by = n.by => o = n
      BY <2>1, <1>1, <1>2, <1>3, <1>7 DEF NetInv
  <2>2. ASSUME NEW n \in net'
        PROVE  /\ n \in Message
               /\ n.by \in Process =>
                     /\ pc[n.by] \in {"upload", "deleting"}
                     /\ pc[n.by] = "upload" <=> n.content # Absent
      BY <2>2, <1>1, <1>2, <1>3, <1>7 DEF NetInv
  <2> QED BY <1>2, <2>1, <2>2 DEF NetInv
<1>10. ServerInv'
    BY <1>1, <1>2 DEF ServerInv
<1>11. SeenInv'
    BY <1>1, <1>2, <1>5 DEF SeenInv
<1>12. SendInv'
    BY <1>1, <1>2, <1>4, <1>5 DEF SendInv
<1>13. AloneInv'
  <2>1. ASSUME AloneOK(c) PROVE AloneOK(c)'
    <3>1. EntriesOK(c)'
        BY <2>1, <1>2, <1>5 DEF AloneOK, EntriesOK
    <3>2. m.content = call'[c].scanned[p]
        BY <2>1, <1>2, <1>5, <1>7 DEF AloneOK, EntriesOK, Ready
    <3>3. \A q \in Known(c)' : Arrives(c, q)'
      <4>1. ASSUME NEW q \in Known(c)' PROVE Arrives(c, q)'
        <5>1. CASE q = p
            BY <5>1, <1>3, <1>7 DEF Arrives
        <5>2. CASE q # p
          <6>1. q \in Known(c)
              BY <5>2, <1>4, <1>5 DEF Known
          <6> QED BY <5>2, <6>1, <2>1, <1>2, <1>3, <1>4, <1>5 DEF AloneOK, Arrives
        <5> QED BY <5>1, <5>2
      <4> QED BY <4>1
    <3> QED BY <3>1, <3>2, <3>3, <2>1, <1>2, <1>3, <1>5, <1>7 DEF AloneOK
  <2>2. pc[c] # "idle"
      BY <1>2
  <2> QED BY <2>1, <2>2, <1>1, <1>2, <1>5, OnlyAlone
<1> QED BY <1>8, <1>9, <1>10, <1>11, <1>12, <1>13 DEF ClientInv

\* The uploads of a call are over.
LEMMA UploadedKeeps ==
    ASSUME ClientInv, NEW c \in Process, Uploaded(c)
    PROVE  ClientInv'
<1>1. /\ ClientTyped /\ NetInv /\ ServerInv /\ SeenInv /\ SendInv /\ AloneInv
    BY DEF ClientInv
<1>2. /\ disk' = disk /\ UNCHANGED <<cache, call, net, files, pending, skippedFiles, index>>
      /\ pc[c] = "upload" /\ call[c].send = {} /\ \A m \in net : m.by # c
    BY DEF Uploaded, checkout, server, Mine
<1>3. /\ pc' \in [Process -> Labels]
      /\ pc'[c] \in {"commit", "delete"} /\ (pc'[c] = "commit" => call[c].gone = {})
      /\ \A d \in Process \ {c} : pc'[d] = pc[d]
    BY <1>1, GotoMoves DEF Uploaded, Labels, Answered
<1>4. ClientTyped'
    BY <1>1, <1>2, <1>3 DEF ClientTyped
<1>5. NetInv'
    BY <1>1, <1>2, <1>3 DEF NetInv
<1>6. ServerInv'
    BY <1>1, <1>2 DEF ServerInv
<1>7. SeenInv' /\ SendInv'
    BY <1>1, <1>2, <1>3 DEF SeenInv, SendInv, Ready
<1>8. AloneInv'
  <2>1. ASSUME AloneOK(c) PROVE AloneOK(c)'
    <3>1. EntriesOK(c)'
        BY <2>1, <1>2, <1>3 DEF AloneOK, EntriesOK, Ready
    <3>2. \A p \in Known(c)' : Arrives(c, p)'
        BY <2>1, <1>2, <1>3 DEF AloneOK, Known, Arrives
    <3> QED BY <3>1, <3>2, <2>1, <1>2, <1>3 DEF AloneOK
  <2> QED BY <2>1, <1>1, <1>2, <1>3, OnlyAlone
<1> QED BY <1>4, <1>5, <1>6, <1>7, <1>8 DEF ClientInv

\* The deletion notice is sent.
LEMMA NotifyEffect ==
    ASSUME ClientTyped, NEW c \in Process, NotifyDeletions(c)
    PROVE  Touches(c, {"sent"}) /\ call'[c].sent = call[c].sent \cup call[c].gone
<1> DEFINE k == call[c]
           q == [k EXCEPT !.sent = @ \cup k.gone]
<1>1. DOMAIN call = Process /\ DOMAIN k = CallFields
    BY DEF ClientTyped, CallTyped
<1>2. call' = [call EXCEPT ![c] = q]
    BY DEF NotifyDeletions
<1>3. /\ DOMAIN q = CallFields /\ \A f \in CallFields \ {"sent"} : q[f] = k[f]
      /\ q.sent = k.sent \cup k.gone
  <2> HIDE DEF k
  <2> QED BY <1>1 DEF CallFields
<1> HIDE DEF q
<1>4. call'[c] = q
    BY <1>1, <1>2
<1> QED BY <1>1, <1>2, <1>3, <1>4 DEF Touches

\* A deletion notice is the only request of its call, and names what the call
\* did not find.
LEMMA NotifyKeeps ==
    ASSUME ClientInv, NEW c \in Process, NotifyDeletions(c)
    PROVE  ClientInv'
<1>1. /\ ClientTyped /\ NetInv /\ ServerInv /\ SeenInv /\ SendInv /\ AloneInv
    BY DEF ClientInv
<1>2. /\ disk' = disk /\ UNCHANGED <<cache, files, pending, skippedFiles, index>>
      /\ pc[c] = "delete" /\ \A m \in net : m.by # c
    BY DEF NotifyDeletions, checkout, server, Mine
<1>3. /\ pc' \in [Process -> Labels]
      /\ pc'[c] = "deleting" /\ \A d \in Process \ {c} : pc'[d] = pc[d]
    BY <1>1, GotoMoves DEF NotifyDeletions, Labels
<1>4. PICK m : m = [by |-> c, paths |-> call[c].gone, content |-> Absent] /\ net' = net \cup {m}
    BY DEF NotifyDeletions
<1>5. Touches(c, {"sent"}) /\ call'[c].sent = call[c].sent \cup call[c].gone
    BY <1>1, NotifyEffect
<1>6. /\ DOMAIN call'[c] = CallFields /\ call'[c].entries = call[c].entries
      /\ call'[c].scanned = call[c].scanned /\ call'[c].gone = call[c].gone
      /\ call'[c].send = call[c].send
      /\ call'[c].trusted = call[c].trusted /\ call'[c].unseen = call[c].unseen
      /\ call'[c].alone = call[c].alone
      /\ \A d \in Process \ {c} : call'[d] = call[d]
    BY <1>5 DEF Touches, CallFields
<1>7. CallTyped(call[c])
    BY <1>1 DEF ClientTyped
<1>8. /\ m \in Message /\ m.by = c /\ m.paths = call[c].gone /\ m.content = Absent
    BY <1>4, <1>7 DEF Message, CallTyped
<1>9. ClientTyped'
  <2>1. CallTyped(call'[c])
      BY <1>5, <1>6, <1>7 DEF CallTyped
  <2> QED BY <2>1, <1>1, <1>2, <1>3, <1>5, CallsTyped DEF ClientTyped
<1>10. NetInv'
  <2>1. ASSUME NEW n \in net', n.by \in Process, n.content = Absent
        PROVE  pc'[n.by] = "deleting" /\ \A o \in net' : o.by = n.by => o = n
      BY <2>1, <1>1, <1>2, <1>3, <1>4, <1>8 DEF NetInv
  <2>2. ASSUME NEW n \in net'
        PROVE  /\ n \in Message
               /\ n.by \in Process =>
                     /\ pc'[n.by] \in {"upload", "deleting"}
                     /\ pc'[n.by] = "upload" <=> n.content # Absent
      BY <2>2, <1>1, <1>2, <1>3, <1>4, <1>7, <1>8 DEF NetInv, CallTyped
  <2> QED BY <2>1, <2>2 DEF NetInv
<1>11. ServerInv'
    BY <1>1, <1>2 DEF ServerInv
<1>12. SeenInv' /\ SendInv'
    BY <1>1, <1>2, <1>3, <1>6 DEF SeenInv, SendInv, Ready
<1>13. AloneInv'
  <2>1. ASSUME AloneOK(c) PROVE AloneOK(c)'
    <3>1. EntriesOK(c)'
        BY <2>1, <1>2, <1>3, <1>6 DEF AloneOK, EntriesOK, Ready
    <3>2. \A p \in m.paths : m.content = call'[c].scanned[p]
        BY <2>1, <1>6, <1>8 DEF AloneOK, EntriesOK
    <3>3. \A p \in Known(c)' : Arrives(c, p)'
      <4>1. ASSUME NEW p \in Known(c)' PROVE Arrives(c, p)'
        <5>1. CASE p \in call[c].gone
            BY <5>1, <1>4, <1>8 DEF Arrives
        <5>2. CASE p \notin call[c].gone
          <6>1. p \in Known(c)
              BY <5>2, <1>5, <1>6 DEF Known
          <6> QED BY <5>2, <6>1, <2>1, <1>2, <1>4, <1>6 DEF AloneOK, Arrives
        <5> QED BY <5>1, <5>2
      <4> QED BY <4>1
    <3> QED BY <3>1, <3>2, <3>3, <2>1, <1>3, <1>4, <1>6, <1>8 DEF AloneOK
  <2> QED BY <2>1, <1>1, <1>2, <1>3, <1>6, OnlyAlone
<1> QED BY <1>9, <1>10, <1>11, <1>12, <1>13 DEF ClientInv

\* A step after the requests have been answered, which changes at most the cache.
LEMMA AnsweredKeeps ==
    ASSUME ClientInv, NEW c \in Process, pc[c] \in Answered,
           disk' = disk, UNCHANGED <<call, net, files, pending, skippedFiles, index>>,
           DOMAIN cache' = {"rules", "entries"}, cache'.entries \in Entries,
           pc' \in [Process -> Labels],
           \A d \in Process \ {c} : pc'[d] = pc[d],
           pc'[c] \in Answered, pc'[c] \in Ready => pc[c] \in Ready,
           EntriesOK(c) => EntriesOK(c)'
    PROVE  ClientInv'
<1>1. /\ ClientTyped /\ NetInv /\ ServerInv /\ SeenInv /\ SendInv /\ AloneInv
    BY DEF ClientInv
<1>2. \A m \in net : m.by # c
    BY <1>1 DEF NetInv, Answered
<1>3. ClientTyped'
    BY <1>1 DEF ClientTyped
<1>4. NetInv'
    BY <1>1, <1>2 DEF NetInv
<1>5. ServerInv'
    BY <1>1 DEF ServerInv
<1>6. SeenInv' /\ SendInv'
    BY <1>1 DEF SeenInv, SendInv, Answered
<1>7. AloneInv'
  <2>1. ASSUME AloneOK(c) PROVE AloneOK(c)'
    <3>1. EntriesOK(c)'
        BY <2>1 DEF AloneOK
    <3>2. \A p \in Known(c)' : Arrives(c, p)'
        BY <2>1, <1>2 DEF AloneOK, Known, Arrives, Answered
    <3> QED BY <3>1, <3>2, <2>1, <1>2 DEF AloneOK
  <2>2. pc[c] # "idle"
      BY DEF Answered
  <2> QED BY <2>1, <2>2, <1>1, OnlyAlone
<1> QED BY <1>3, <1>4, <1>5, <1>6, <1>7 DEF ClientInv

\* The cache is written.
LEMMA CommitKeeps ==
    ASSUME ClientInv, NEW c \in Process, Commit(c)
    PROVE  ClientInv'
<1>1. ClientTyped /\ CallTyped(call[c])
    BY DEF ClientInv, ClientTyped
<1>2. /\ disk' = disk /\ UNCHANGED <<call, net, files, pending, skippedFiles, index>> /\ pc[c] = "commit"
      /\ cache' = [rules |-> call[c].rules, entries |-> call[c].entries]
    BY DEF Commit, checkout, server
<1>3. /\ pc' \in [Process -> Labels]
      /\ pc'[c] = "flush" /\ \A d \in Process \ {c} : pc'[d] = pc[d]
    BY <1>1, GotoMoves DEF Commit, Labels, Answered
<1>4. DOMAIN cache' = {"rules", "entries"} /\ cache'.entries = call[c].entries
    BY <1>2
<1>5. EntriesOK(c) => EntriesOK(c)'
    BY <1>2, <1>3, <1>4 DEF EntriesOK, Ready
<1>6. pc[c] \in Answered /\ pc'[c] \in Answered /\ pc'[c] \notin Ready
    BY <1>2, <1>3 DEF Answered, Ready
<1>7. cache'.entries \in Entries
    BY <1>1, <1>4 DEF CallTyped
<1> QED BY <1>2, <1>3, <1>4, <1>5, <1>6, <1>7, AnsweredKeeps

\* The server is asked to ingest, at first or again.
LEMMA FlushKeeps ==
    ASSUME ClientInv, NEW c \in Process, Flush(c) \/ PollAgain(c)
    PROVE  ClientInv'
<1>1. ClientTyped
    BY DEF ClientInv
<1>2. /\ disk' = disk /\ UNCHANGED <<cache, call, net, files, pending, skippedFiles, index>>
      /\ pc[c] \in {"flush", "poll"}
    BY DEF Flush, PollAgain, StartSync, checkout
<1>3. /\ pc' \in [Process -> Labels]
      /\ pc'[c] = "poll" /\ \A d \in Process \ {c} : pc'[d] = pc[d]
  <2>1. CASE Flush(c)
      BY <2>1, <1>1, GotoMoves DEF Flush, Labels, Answered
  <2>2. CASE PollAgain(c)
      BY <2>2, <1>1 DEF PollAgain, ClientTyped
  <2> QED BY <2>1, <2>2
<1>4. EntriesOK(c) => EntriesOK(c)'
    BY <1>2, <1>3 DEF EntriesOK, Ready
<1>5. pc[c] \in Answered /\ pc'[c] \in Answered /\ pc'[c] \notin Ready
    BY <1>2, <1>3 DEF Answered, Ready
<1>6. DOMAIN cache' = {"rules", "entries"} /\ cache'.entries \in Entries
    BY <1>1, <1>2 DEF ClientTyped
<1> QED BY <1>2, <1>3, <1>4, <1>5, <1>6, AnsweredKeeps

\* The skipped files leave the cache.
LEMMA ForgetKeeps ==
    ASSUME ClientInv, NEW c \in Process, Forget(c)
    PROVE  ClientInv'
<1>1. ClientTyped /\ CallTyped(call[c])
    BY DEF ClientInv, ClientTyped
<1>2. /\ disk' = disk /\ UNCHANGED <<call, net, files, pending, skippedFiles, index>> /\ pc[c] = "forget"
      /\ cache' = [rules |-> call[c].rules, entries |-> call[c].entries]
    BY DEF Forget, checkout, server
<1>3. /\ pc' \in [Process -> Labels]
      /\ pc'[c] = "checkpoint" /\ \A d \in Process \ {c} : pc'[d] = pc[d]
    BY <1>1, GotoMoves DEF Forget, Labels, Answered
<1>4. DOMAIN cache' = {"rules", "entries"} /\ cache'.entries = call[c].entries
    BY <1>2
<1>5. EntriesOK(c) => EntriesOK(c)'
    BY <1>2, <1>3, <1>4 DEF EntriesOK, Ready
<1>6. pc[c] \in Answered \cap Ready /\ pc'[c] \in Answered
    BY <1>2, <1>3 DEF Answered, Ready
<1>7. cache'.entries \in Entries
    BY <1>1, <1>4 DEF CallTyped
<1> QED BY <1>2, <1>3, <1>4, <1>5, <1>6, <1>7, AnsweredKeeps

\* The checkpoint is made, or not.
LEMMA CheckpointKeeps ==
    ASSUME ClientInv, NEW c \in Process, Checkpoint(c)
    PROVE  ClientInv'
<1>1. ClientTyped
    BY DEF ClientInv
<1>2. /\ disk' = disk /\ UNCHANGED <<cache, call, net, files, pending, skippedFiles, index>>
      /\ pc[c] = "checkpoint"
    BY DEF Checkpoint, checkout, server
<1>3. /\ pc' \in [Process -> Labels]
      /\ pc'[c] = "search" /\ \A d \in Process \ {c} : pc'[d] = pc[d]
    BY <1>1, GotoMoves DEF Checkpoint, Labels, Answered
<1>4. EntriesOK(c) => EntriesOK(c)'
    BY <1>2, <1>3 DEF EntriesOK, Ready
<1>5. pc[c] \in Answered \cap Ready /\ pc'[c] \in Answered
    BY <1>2, <1>3 DEF Answered, Ready
<1>6. DOMAIN cache' = {"rules", "entries"} /\ cache'.entries \in Entries
    BY <1>1, <1>2 DEF ClientTyped
<1> QED BY <1>2, <1>3, <1>4, <1>5, <1>6, AnsweredKeeps

\* The server says that it is ready, and which files it skipped.
LEMMA ReadyEffect ==
    ASSUME ClientTyped, NEW c \in Process, PollReady(c)
    PROVE  /\ Touches(c, {"entries"})
           /\ call'[c].entries = [p \in Path |-> IF p \in skippedFiles THEN Absent ELSE call[c].entries[p]]
<1> DEFINE k == call[c]
           left == [p \in Path |-> IF p \in skippedFiles THEN Absent ELSE k.entries[p]]
           q == [k EXCEPT !.entries = left]
<1>1. DOMAIN call = Process /\ DOMAIN k = CallFields
    BY DEF ClientTyped, CallTyped
<1>2. call' = [call EXCEPT ![c] = q]
    BY DEF PollReady
<1>3. /\ DOMAIN q = CallFields /\ \A f \in CallFields \ {"entries"} : q[f] = k[f]
      /\ q.entries = left
  <2> HIDE DEF k, left
  <2> QED BY <1>1 DEF CallFields
<1> HIDE DEF q
<1>4. call'[c] = q
    BY <1>1, <1>2
<1> QED BY <1>1, <1>2, <1>3, <1>4 DEF Touches

\* A call the server is ready for has nothing unseen and leaves out what was
\* skipped.
LEMMA ReadyKeeps ==
    ASSUME ClientInv, NEW c \in Process, PollReady(c)
    PROVE  ClientInv'
<1>1. /\ ClientTyped /\ NetInv /\ ServerInv /\ SeenInv /\ SendInv /\ AloneInv
    BY DEF ClientInv
<1>2. /\ disk' = disk /\ UNCHANGED <<cache, net, files, pending, skippedFiles, index>>
      /\ pc[c] = "poll" /\ pending = {}
    BY DEF PollReady, PendingJobs, checkout, server
<1>3. /\ pc' \in [Process -> Labels]
      /\ pc'[c] \in {"checkpoint", "forget"} /\ (pc'[c] = "checkpoint" => skippedFiles = {})
      /\ \A d \in Process \ {c} : pc'[d] = pc[d]
    BY <1>1, GotoMoves DEF PollReady, Labels, Answered
<1>4. /\ Touches(c, {"entries"})
      /\ call'[c].entries = [p \in Path |-> IF p \in skippedFiles THEN Absent ELSE call[c].entries[p]]
    BY <1>1, ReadyEffect
<1>5. /\ DOMAIN call'[c] = CallFields /\ call'[c].send = call[c].send /\ call'[c].sent = call[c].sent
      /\ call'[c].scanned = call[c].scanned /\ call'[c].gone = call[c].gone
      /\ call'[c].trusted = call[c].trusted /\ call'[c].unseen = call[c].unseen
      /\ call'[c].alone = call[c].alone
      /\ \A d \in Process \ {c} : call'[d] = call[d]
    BY <1>4 DEF Touches, CallFields
<1>6. CallTyped(call[c])
    BY <1>1 DEF ClientTyped
<1>7. \A m \in net : m.by # c
    BY <1>1, <1>2 DEF NetInv
<1>8. ClientTyped'
  <2>1. call'[c].entries \in Entries
      BY <1>4, <1>6 DEF CallTyped, Entries
  <2>2. CallTyped(call'[c])
      BY <2>1, <1>5, <1>6 DEF CallTyped
  <2> QED BY <2>2, <1>1, <1>2, <1>3, <1>4, CallsTyped DEF ClientTyped
<1>9. NetInv'
    BY <1>1, <1>2, <1>3, <1>7 DEF NetInv
<1>10. ServerInv'
    BY <1>1, <1>2 DEF ServerInv
<1>11. SeenInv' /\ SendInv'
    BY <1>1, <1>2, <1>3, <1>5 DEF SeenInv, SendInv, Ready
<1>12. AloneInv'
  <2>1. ASSUME AloneOK(c) PROVE AloneOK(c)'
    <3>1. call[c].entries = call[c].scanned /\ cache.entries = call[c].scanned
        BY <2>1, <1>2 DEF AloneOK, EntriesOK, Ready
    <3>2. skippedFiles = {} =>
            cache.entries = [p \in Path |-> IF p \in skippedFiles THEN Absent ELSE call[c].scanned[p]]
        BY <3>1, <1>6 DEF CallTyped, Entries
    <3>3. EntriesOK(c)'
        BY <2>1, <3>1, <3>2, <1>2, <1>3, <1>4, <1>5 DEF AloneOK, EntriesOK, Ready
    <3>4. \A p \in Known(c)' : Arrives(c, p)'
        BY <2>1, <1>2, <1>3, <1>5 DEF AloneOK, Known, Arrives
    <3> QED BY <3>3, <3>4, <2>1, <1>2, <1>3, <1>5 DEF AloneOK
  <2> QED BY <2>1, <1>1, <1>2, <1>3, <1>5, OnlyAlone
<1> QED BY <1>8, <1>9, <1>10, <1>11, <1>12 DEF ClientInv

\* A call is over; what it has sent belongs to nobody.
LEMMA LeaveEffect ==
    ASSUME ClientTyped, NetInv, NEW c \in Process, Leave(c)
    PROVE  /\ \A n \in net' : \E m \in net :
                /\ n \in Message /\ n.paths = m.paths /\ n.content = m.content
                /\ n.by = (IF m.by = c THEN Nobody ELSE m.by)
                /\ m.by # c => n = m
           /\ DOMAIN call' = Process /\ call'[c] = NoCall /\ \A d \in Process \ {c} : call'[d] = call[d]
<1> DEFINE of(m) == [m EXCEPT !.by = IF @ = c THEN Nobody ELSE @]
<1>1. net' = {of(m) : m \in net}
    BY DEF Leave
<1>2. ASSUME NEW m \in net
      PROVE  /\ of(m) \in Message /\ of(m).paths = m.paths /\ of(m).content = m.content
             /\ of(m).by = (IF m.by = c THEN Nobody ELSE m.by)
             /\ m.by # c => of(m) = m
  <2>1. m \in Message
      BY DEF NetInv
  <2> QED BY <2>1 DEF Message
<1> HIDE DEF of
<1>3. \A n \in net' : \E m \in net : n = of(m)
    BY <1>1
<1>4. DOMAIN call' = Process /\ call'[c] = NoCall /\ \A d \in Process \ {c} : call'[d] = call[d]
    BY DEF Leave, ClientTyped
<1> QED BY <1>2, <1>3, <1>4

\* A call that is left leaves its requests behind, and nobody's call is alone
\* with them.
LEMMA LeaveKeeps ==
    ASSUME ClientInv, NEW c \in Process, Leave(c), pc[c] # "idle",
           disk' = disk, UNCHANGED <<cache, files, pending, skippedFiles, index>>
    PROVE  ClientInv'
<1>1. /\ ClientTyped /\ NetInv /\ ServerInv /\ SeenInv /\ SendInv /\ AloneInv
    BY DEF ClientInv
<1>2. /\ pc' \in [Process -> Labels]
      /\ pc'[c] = "idle" /\ \A d \in Process \ {c} : pc'[d] = pc[d]
    BY <1>1, GotoMoves DEF Leave, Labels
<1>3. /\ \A n \in net' : \E m \in net :
            /\ n \in Message /\ n.paths = m.paths /\ n.content = m.content
            /\ n.by = (IF m.by = c THEN Nobody ELSE m.by)
            /\ m.by # c => n = m
      /\ DOMAIN call' = Process /\ call'[c] = NoCall /\ \A d \in Process \ {c} : call'[d] = call[d]
    BY <1>1, LeaveEffect
<1>4. ClientTyped'
  <2>1. CallTyped(NoCall)
      BY NoneTyped DEF NoCall, CallTyped, CallFields
  <2> QED BY <2>1, <1>1, <1>2, <1>3 DEF ClientTyped
<1>5. NetInv'
  <2>1. ASSUME NEW n \in net', n.by \in Process
        PROVE  n \in net /\ n.by # c
      BY <2>1, <1>3, ClientConstants
  <2>2. ASSUME NEW n \in net'
        PROVE  n \in Message
      BY <2>2, <1>1, <1>3 DEF NetInv
  <2>3. ASSUME NEW n \in net', n.by \in Process
        PROVE  /\ pc'[n.by] \in {"upload", "deleting"}
               /\ pc'[n.by] = "upload" <=> n.content # Absent
               /\ n.content = Absent => \A o \in net' : o.by = n.by => o = n
    <3>1. n \in net /\ n.by # c /\ pc'[n.by] = pc[n.by]
        BY <2>3, <2>1, <1>2
    <3>2. ASSUME n.content = Absent, NEW o \in net', o.by = n.by PROVE o = n
        BY <3>1, <3>2, <2>1, <2>3, <1>1 DEF NetInv
    <3> QED BY <3>1, <3>2, <2>3, <1>1 DEF NetInv
  <2> QED BY <2>2, <2>3 DEF NetInv
<1>6. ServerInv'
    BY <1>1 DEF ServerInv
<1>7. SeenInv' /\ SendInv'
  <2>1. NoCall.unseen = {} /\ NoCall.send = {}
      BY DEF NoCall
  <2> QED BY <2>1, <1>1, <1>2, <1>3 DEF SeenInv, SendInv
<1>8. AloneInv'
  <2>1. ASSUME NEW d \in Process, pc'[d] # "idle", call'[d].alone PROVE FALSE
    <3>1. d # c
        BY <2>1, <1>2
    <3>2. AloneOK(d)
        BY <2>1, <3>1, <1>1, <1>2, <1>3 DEF AloneInv
    <3> QED BY <3>1, <3>2 DEF AloneOK
  <2> QED BY <2>1 DEF AloneInv
<1> QED BY <1>4, <1>5, <1>6, <1>7, <1>8 DEF ClientInv

\* A call ends, with an answer or not.
LEMMA EndKeeps ==
    ASSUME ClientInv, NEW c \in Process, Search(c) \/ Refuse(c) \/ Fail(c)
    PROVE  ClientInv'
<1>1. /\ Leave(c) /\ pc[c] # "idle" /\ disk' = disk
      /\ UNCHANGED <<cache, files, pending, skippedFiles, index>>
  <2>1. CASE Search(c)
      BY <2>1 DEF Search, checkout, server
  <2>2. CASE Refuse(c)
      BY <2>2 DEF Refuse, checkout, server
  <2>3. CASE Fail(c)
      BY <2>3 DEF Fail, checkout, server
  <2> QED BY <2>1, <2>2, <2>3
<1> QED BY <1>1, LeaveKeeps

--------------------------------------------------------------------------------
(* The server's steps.                                                        *)

\* What the server records for a call.
LEMMA RecordedEffect ==
    ASSUME ClientTyped, NEW m \in net, m.by \in Process \cup {Nobody}, NEW paths, Recorded(m, paths)
    PROVE  /\ DOMAIN call' = Process
           /\ \A d \in Process :
                 /\ DOMAIN call'[d] = CallFields
                 /\ \A f \in CallFields \ {"unseen"} : call'[d][f] = call[d][f]
                 /\ d = m.by => call'[d].unseen = call[d].unseen \cup paths
                 /\ d # m.by => call'[d].unseen = call[d].unseen
<1>1. DOMAIN call = Process /\ \A d \in Process : DOMAIN call[d] = CallFields
    BY DEF ClientTyped, CallTyped
<1>2. CASE m.by = Nobody
    BY <1>1, <1>2, ClientConstants DEF Recorded
<1>3. CASE m.by \in Process
  <2> DEFINE c == m.by
             k == call[c]
             q == [k EXCEPT !.unseen = @ \cup paths]
  <2>1. call' = [call EXCEPT ![c] = q]
      BY <1>3, ClientConstants DEF Recorded
  <2>2. /\ DOMAIN q = CallFields /\ \A f \in CallFields \ {"unseen"} : q[f] = k[f]
        /\ q.unseen = k.unseen \cup paths
    <3>1. DOMAIN k = CallFields
        BY <1>1, <1>3
    <3> HIDE DEF k
    <3> QED BY <3>1 DEF CallFields
  <2> HIDE DEF q
  <2>3. call'[c] = q /\ DOMAIN call' = Process /\ \A d \in Process \ {c} : call'[d] = call[d]
      BY <1>1, <1>3, <2>1
  <2> QED BY <1>1, <1>3, <2>2, <2>3
<1> QED BY <1>2, <1>3

\* An upload is recorded.
LEMMA UploadKeeps ==
    ASSUME ClientInv, NEW m \in net, BatchUpload(m)
    PROVE  ClientInv'
<1>1. /\ ClientTyped /\ NetInv /\ ServerInv /\ SeenInv /\ SendInv /\ AloneInv
    BY DEF ClientInv
<1>2. /\ disk' = disk /\ UNCHANGED <<cache, pc, index>> /\ net' = net \ {m} /\ m.content # Absent
      /\ files' = [p \in Path |-> IF p \in m.paths THEN m.content ELSE files[p]]
      /\ pending' = pending \cup m.paths /\ skippedFiles' = skippedFiles \ m.paths
    BY DEF BatchUpload, checkout
<1>3. m.by \in Process \cup {Nobody} /\ m.paths \subseteq Path /\ m.content \in Content \cup {Absent}
    BY <1>1 DEF NetInv, Message
<1>4. /\ DOMAIN call' = Process
      /\ \A d \in Process :
            /\ DOMAIN call'[d] = CallFields
            /\ \A f \in CallFields \ {"unseen"} : call'[d][f] = call[d][f]
            /\ d = m.by => call'[d].unseen = call[d].unseen \cup m.paths
            /\ d # m.by => call'[d].unseen = call[d].unseen
  <2>1. Recorded(m, m.paths)
      BY DEF BatchUpload
  <2> QED BY <2>1, <1>1, <1>3, RecordedEffect
<1>5. \A d \in Process :
        /\ call'[d].entries = call[d].entries /\ call'[d].scanned = call[d].scanned
        /\ call'[d].send = call[d].send /\ call'[d].gone = call[d].gone /\ call'[d].sent = call[d].sent
        /\ call'[d].trusted = call[d].trusted /\ call'[d].alone = call[d].alone
  <2>1. \A d \in Process : \A f \in CallFields \ {"unseen"} : call'[d][f] = call[d][f]
      BY <1>4
  <2> QED BY <2>1 DEF CallFields
<1>6. ClientTyped'
  <2>1. files' \in Entries
      BY <1>1, <1>2, <1>3 DEF ClientTyped, Entries
  <2>2. ASSUME NEW d \in Process PROVE CallTyped(call'[d])
      BY <1>1, <1>3, <1>4, <1>5 DEF ClientTyped, CallTyped
  <2> QED BY <2>1, <2>2, <1>1, <1>2, <1>3, <1>4 DEF ClientTyped
<1>7. NetInv'
    BY <1>1, <1>2 DEF NetInv
<1>8. ServerInv'
    BY <1>1, <1>2 DEF ServerInv
<1>9. SeenInv'
    BY <1>1, <1>2, <1>3, <1>4 DEF SeenInv, NetInv, Ready
<1>10. SendInv'
    BY <1>1, <1>2, <1>5 DEF SendInv
<1>11. AloneInv'
  <2>1. ASSUME NEW d \in Process, pc[d] # "idle", AloneOK(d) PROVE AloneOK(d)'
    <3>1. m.by = d /\ pc[d] = "upload" /\ \A p \in m.paths : m.content = call[d].scanned[p]
        BY <2>1, <1>1, <1>2 DEF AloneOK, NetInv
    <3>2. EntriesOK(d)'
        BY <2>1, <3>1, <1>2, <1>5 DEF AloneOK, EntriesOK, Ready
    <3>3. ASSUME NEW p \in Path, Arrives(d, p) PROVE Arrives(d, p)'
      <4>1. CASE p \in m.paths
          BY <4>1, <3>1, <1>2, <1>5 DEF Arrives
      <4>2. CASE p \notin m.paths
          BY <4>2, <3>3, <3>1, <1>2, <1>5 DEF Arrives
      <4> QED BY <4>1, <4>2
    <3>4. Known(d)' = Known(d) /\ Known(d) \subseteq Path
        BY <1>1, <1>5 DEF Known, ClientTyped, CallTyped
    <3>5. \A p \in Known(d)' : Arrives(d, p)'
        BY <2>1, <3>3, <3>4 DEF AloneOK
    <3> QED BY <3>2, <3>5, <2>1, <1>2, <1>5 DEF AloneOK
  <2> QED BY <2>1, <1>1, <1>2, <1>5 DEF AloneInv
<1> QED BY <1>6, <1>7, <1>8, <1>9, <1>10, <1>11 DEF ClientInv

\* A deletion notice is recorded, and answered.
LEMMA DeletionKeeps ==
    ASSUME ClientInv, NEW m \in net, ReportDeletions(m)
    PROVE  ClientInv'
<1>1. /\ ClientTyped /\ NetInv /\ ServerInv /\ SeenInv /\ SendInv /\ AloneInv
    BY DEF ClientInv
<1> DEFINE deleted == {p \in m.paths : files[p] # Absent}
<1>2. /\ disk' = disk /\ UNCHANGED <<cache, index>> /\ net' = net \ {m} /\ m.content = Absent
      /\ files' = [p \in Path |-> IF p \in deleted THEN Absent ELSE files[p]]
      /\ pending' = pending \cup deleted /\ skippedFiles' = skippedFiles \ deleted
      /\ pc' = IF m.by = Nobody THEN pc ELSE [pc EXCEPT ![m.by] = "commit"]
    BY DEF ReportDeletions, checkout
<1>3. m.by \in Process \cup {Nobody} /\ m.paths \subseteq Path
    BY <1>1 DEF NetInv, Message
<1>4. /\ DOMAIN call' = Process
      /\ \A d \in Process :
            /\ DOMAIN call'[d] = CallFields
            /\ \A f \in CallFields \ {"unseen"} : call'[d][f] = call[d][f]
            /\ d = m.by => call'[d].unseen = call[d].unseen \cup deleted
            /\ d # m.by => call'[d].unseen = call[d].unseen
  <2>1. Recorded(m, deleted)
      BY DEF ReportDeletions
  <2> HIDE DEF deleted
  <2> QED BY <2>1, <1>1, <1>3, RecordedEffect
<1>5. \A d \in Process :
        /\ call'[d].entries = call[d].entries /\ call'[d].scanned = call[d].scanned
        /\ call'[d].send = call[d].send /\ call'[d].gone = call[d].gone /\ call'[d].sent = call[d].sent
        /\ call'[d].trusted = call[d].trusted /\ call'[d].alone = call[d].alone
  <2>1. \A d \in Process : \A f \in CallFields \ {"unseen"} : call'[d][f] = call[d][f]
      BY <1>4
  <2> QED BY <2>1 DEF CallFields
<1>6. /\ deleted \subseteq m.paths
      /\ \A p \in Path : files'[p] = IF p \in m.paths THEN Absent ELSE files[p]
    BY <1>2
<1> HIDE DEF deleted
<1>7. /\ pc' \in [Process -> Labels]
      /\ \A d \in Process \ {m.by} : pc'[d] = pc[d]
      /\ m.by \in Process => pc[m.by] = "deleting" /\ pc'[m.by] = "commit"
  <2>1. CASE m.by = Nobody
      BY <2>1, <1>1, <1>2, ClientConstants DEF ClientTyped
  <2>2. CASE m.by \in Process
      BY <2>2, <1>1, <1>2, ClientConstants DEF ClientTyped, NetInv, Labels, Answered
  <2> QED BY <2>1, <2>2, <1>3
<1>8. ClientTyped'
  <2>1. files' \in Entries
      BY <1>1, <1>2 DEF ClientTyped, Entries
  <2>2. ASSUME NEW d \in Process PROVE CallTyped(call'[d])
      BY <1>1, <1>3, <1>4, <1>5, <1>6 DEF ClientTyped, CallTyped
  <2> QED BY <2>1, <2>2, <1>1, <1>2, <1>3, <1>4, <1>6, <1>7 DEF ClientTyped
<1>9. NetInv'
  <2>1. ASSUME NEW n \in net', n.by \in Process PROVE n.by # m.by
      BY <2>1, <1>1, <1>2 DEF NetInv
  <2> QED BY <2>1, <1>1, <1>2, <1>7 DEF NetInv
<1>10. ServerInv'
    BY <1>1, <1>2 DEF ServerInv
<1>11. SeenInv'
    BY <1>1, <1>2, <1>4, <1>7 DEF SeenInv, Ready
<1>12. SendInv'
    BY <1>1, <1>5, <1>7 DEF SendInv
<1>13. AloneInv'
  <2>1. ASSUME NEW d \in Process, pc[d] # "idle", AloneOK(d) PROVE AloneOK(d)'
    <3>1. m.by = d /\ pc[d] = "deleting" /\ \A p \in m.paths : call[d].scanned[p] = Absent
        BY <2>1, <1>1, <1>2, <1>7 DEF AloneOK
    <3>2. EntriesOK(d)'
        BY <2>1, <3>1, <1>2, <1>5, <1>7 DEF AloneOK, EntriesOK, Ready
    <3>3. ASSUME NEW p \in Path, Arrives(d, p) PROVE Arrives(d, p)'
      <4>1. CASE p \in m.paths
          BY <4>1, <3>1, <1>5, <1>6 DEF Arrives
      <4>2. CASE p \notin m.paths
          BY <4>2, <3>3, <3>1, <1>2, <1>5, <1>6 DEF Arrives
      <4> QED BY <4>1, <4>2
    <3>4. Known(d)' = Known(d) /\ Known(d) \subseteq Path
        BY <1>1, <1>5 DEF Known, ClientTyped, CallTyped
    <3>5. \A p \in Known(d)' : Arrives(d, p)'
        BY <2>1, <3>3, <3>4 DEF AloneOK
    <3> QED BY <3>1, <3>2, <3>5, <2>1, <1>2, <1>5, <1>7 DEF AloneOK
  <2>2. ASSUME NEW d \in Process, pc'[d] # "idle" PROVE pc[d] # "idle"
      BY <2>2, <1>7
  <2> QED BY <2>1, <2>2, <1>1, <1>5 DEF AloneInv
<1> QED BY <1>8, <1>9, <1>10, <1>11, <1>12, <1>13 DEF ClientInv

\* An ingest covers what is pending.
LEMMA IngestKeeps ==
    ASSUME ClientInv, Ingest
    PROVE  ClientInv'
<1>1. /\ ClientTyped /\ NetInv /\ ServerInv /\ SeenInv /\ SendInv /\ AloneInv
    BY DEF ClientInv
<1>2. /\ disk' = disk /\ UNCHANGED <<cache, pc, net, files>> /\ pending' = {}
      /\ index' = [p \in Path |-> IF p \in pending /\ files[p] \notin Refused THEN files[p] ELSE index[p]]
      /\ skippedFiles' = skippedFiles \cup {p \in pending : files[p] \in Refused}
    BY DEF Ingest, Stored, checkout
<1>3. /\ DOMAIN call' = Process
      /\ \A d \in Process :
            /\ DOMAIN call'[d] = CallFields
            /\ \A f \in CallFields \ {"unseen"} : call'[d][f] = call[d][f]
            /\ call'[d].unseen = {}
  <2>1. call' = [d \in Process |-> [call[d] EXCEPT !.unseen = {}]]
      BY DEF Ingest
  <2>2. ASSUME NEW k, DOMAIN k = CallFields
        PROVE  LET q == [k EXCEPT !.unseen = {}] IN
               DOMAIN q = CallFields /\ (\A f \in CallFields \ {"unseen"} : q[f] = k[f]) /\ q.unseen = {}
      BY <2>2 DEF CallFields
  <2>3. \A d \in Process : DOMAIN call[d] = CallFields
      BY <1>1 DEF ClientTyped, CallTyped
  <2> QED BY <2>1, <2>2, <2>3
<1>4. \A d \in Process :
        /\ call'[d].entries = call[d].entries /\ call'[d].scanned = call[d].scanned
        /\ call'[d].send = call[d].send /\ call'[d].gone = call[d].gone /\ call'[d].sent = call[d].sent
        /\ call'[d].trusted = call[d].trusted /\ call'[d].alone = call[d].alone
    BY <1>3 DEF CallFields
<1>5. ClientTyped'
  <2>1. index' \in Entries
      BY <1>1, <1>2 DEF ClientTyped, Entries
  <2>2. ASSUME NEW d \in Process PROVE CallTyped(call'[d])
      BY <1>1, <1>3, <1>4 DEF ClientTyped, CallTyped
  <2> QED BY <2>1, <2>2, <1>1, <1>2, <1>3 DEF ClientTyped
<1>6. NetInv'
    BY <1>1, <1>2 DEF NetInv
<1>7. ServerInv'
    BY <1>1, <1>2 DEF ServerInv
<1>8. SeenInv' /\ SendInv'
    BY <1>1, <1>2, <1>3, <1>4 DEF SeenInv, SendInv
<1>9. AloneInv'
  <2>1. ASSUME NEW d \in Process, pc[d] # "idle", AloneOK(d) PROVE AloneOK(d)'
    <3>1. pc[d] \in Ready => skippedFiles' = skippedFiles
        BY <2>1, <1>2 DEF AloneOK, EntriesOK
    <3>2. EntriesOK(d)'
        BY <2>1, <3>1, <1>2, <1>4 DEF AloneOK, EntriesOK, Ready
    <3>3. \A p \in Known(d)' : Arrives(d, p)'
        BY <2>1, <1>2, <1>4 DEF AloneOK, Known, Arrives
    <3> QED BY <3>2, <3>3, <2>1, <1>2, <1>4 DEF AloneOK
  <2> QED BY <2>1, <1>1, <1>2, <1>4 DEF AloneInv
<1> QED BY <1>5, <1>6, <1>7, <1>8, <1>9 DEF ClientInv

\* A step that changes nothing the calls look at but the index or the cache.
LEMMA QuietKeeps ==
    ASSUME ClientInv, disk' \in [Path -> Content \cup {Absent, Unread}],
           UNCHANGED <<pc, call, net, files, pending, skippedFiles>>,
           index' \in Entries, \A p \in Path \ pending : index'[p] = index[p],
           DOMAIN cache' = {"rules", "entries"}, cache'.entries \in Entries,
           cache' = cache \/ \A c \in Process : pc[c] = "idle"
    PROVE  ClientInv'
<1>1. /\ ClientTyped /\ NetInv /\ ServerInv /\ SeenInv /\ SendInv /\ AloneInv
    BY DEF ClientInv
<1>2. ClientTyped'
    BY <1>1 DEF ClientTyped
<1>3. NetInv' /\ SeenInv' /\ SendInv'
    BY <1>1 DEF NetInv, SeenInv, SendInv
<1>4. ServerInv'
    BY <1>1 DEF ServerInv
<1>5. AloneInv'
  <2>1. ASSUME NEW c \in Process, pc[c] # "idle", AloneOK(c) PROVE AloneOK(c)'
    <3>1. EntriesOK(c)'
        BY <2>1 DEF AloneOK, EntriesOK
    <3>2. \A p \in Known(c)' : Arrives(c, p)'
        BY <2>1 DEF AloneOK, Known, Arrives
    <3> QED BY <2>1, <3>1, <3>2 DEF AloneOK
  <2> QED BY <2>1, <1>1 DEF AloneInv
<1> QED BY <1>2, <1>3, <1>4, <1>5 DEF ClientInv

\* The worker fails, or the server is started again.
LEMMA StopsKeeps ==
    ASSUME ClientInv, IngestStops
    PROVE  ClientInv'
<1>1. ClientTyped
    BY DEF ClientInv
<1>2. disk' = disk /\ UNCHANGED <<cache, pc, call, net, files, pending, skippedFiles>>
    BY DEF IngestStops, checkout
<1>3. \/ index' = index
      \/ \E done \in SUBSET pending : index' = Stored(done)
    BY DEF IngestStops
<1>4. index' \in Entries /\ \A p \in Path \ pending : index'[p] = index[p]
  <2>1. ASSUME NEW done \in SUBSET pending, index' = Stored(done)
        PROVE  index' \in Entries /\ \A p \in Path \ pending : index'[p] = index[p]
      BY <2>1, <1>1 DEF ClientTyped, Stored, Entries
  <2> QED BY <1>1, <1>3, <2>1 DEF ClientTyped
<1> QED BY <1>1, <1>2, <1>4, QuietKeeps DEF ClientTyped

\* The cache file is lost.
LEMMA LoseKeeps ==
    ASSUME ClientInv, LoseCache
    PROVE  ClientInv'
<1>1. ClientTyped
    BY DEF ClientInv
<1>2. /\ disk' = disk /\ UNCHANGED <<pc, call, net, files, pending, skippedFiles, index>>
      /\ cache' = [cache EXCEPT !.entries = None] /\ \A c \in Process : pc[c] = "idle"
    BY DEF LoseCache, Busy, checkout, server
<1>3. DOMAIN cache' = {"rules", "entries"} /\ cache'.entries \in Entries
    BY <1>1, <1>2, NoneTyped DEF ClientTyped
<1> QED BY <1>1, <1>2, <1>3, QuietKeeps DEF ClientTyped

\* Every step of the clients and the server keeps the invariant.
LEMMA ClientStep == ClientInv /\ ClientNext => ClientInv'
<1> SUFFICES ASSUME ClientInv, ClientNext PROVE ClientInv'
    OBVIOUS
<1>1. ASSUME NEW c \in Process, Start(c) PROVE ClientInv'
    BY <1>1, StartKeeps
<1>2. ASSUME NEW c \in Process, Step(c) PROVE ClientInv'
    BY <1>2, SendKeeps, UploadedKeeps, NotifyKeeps, CommitKeeps, FlushKeeps, ReadyKeeps, ForgetKeeps,
       CheckpointKeeps, EndKeeps DEF Step
<1>3. ASSUME NEW c \in Process, Fail(c) PROVE ClientInv'
    BY <1>3, EndKeeps
<1>4. ASSUME NEW m \in net, Serve(m) PROVE ClientInv'
    BY <1>4, UploadKeeps, DeletionKeeps DEF Serve
<1> QED BY <1>1, <1>2, <1>3, <1>4, IngestKeeps, StopsKeeps, LoseKeeps DEF ClientNext

--------------------------------------------------------------------------------
(* Local mode: the lock, and where its holder is.                             *)

\* Who holds the lock is at work on the index, and nobody else.
LEMMA HolderWorks ==
    ASSUME LockInv
    PROVE  /\ Held => Where \in Critical
           /\ ~Held => Where = "idle"
BY LocalConstants DEF LockInv, Held, Where

\* The holder goes on.
LEMMA MovesEffect ==
    ASSUME LockInv, Held, NEW l \in Critical, Moves(l), lock' = lock
    PROVE  LockInv' /\ Where' = l
<1>1. CASE lock \in Worker
  <2>1. /\ thread' = [thread EXCEPT ![lock] = l] /\ at' = at
      BY <1>1 DEF Moves, Walk, request
  <2>2. /\ thread' \in [Worker -> ThreadLabels] /\ thread'[lock] = l
        /\ \A w \in Worker \ {lock} : thread'[w] = thread[w]
      BY <1>1, <2>1 DEF LockInv, ThreadLabels
  <2> QED BY <1>1, <2>1, <2>2 DEF LockInv, Where
<1>2. CASE lock \in Request
  <2>0. lock \notin Worker
      BY <1>2, LocalConstants
  <2>1. /\ at' = [at EXCEPT ![lock] = l] /\ thread' = thread
      BY <2>0 DEF Moves, GoesTo, indexer
  <2>2. /\ at' \in [Request -> RequestLabels] /\ at'[lock] = l
        /\ \A r \in Request \ {lock} : at'[r] = at[r]
      BY <1>2, <2>1 DEF LockInv, RequestLabels
  <2>3. LockInv'
      BY <1>2, <2>1, <2>2 DEF LockInv
  <2> QED BY <1>2, <2>0, <2>2, <2>3 DEF Where, Held
<1> QED BY <1>1, <1>2 DEF LockInv, Held

\* The holder gives the lock back.
LEMMA LeavesEffect ==
    ASSUME LockInv, Held, Leaves(IF lock \in Worker THEN "ending" ELSE "search")
    PROVE  LockInv' /\ Where' = "idle" /\ job' = NoJob
<1>1. lock' = Unlocked /\ job' = NoJob
    BY DEF Leaves
<1>2. CASE lock \in Worker
  <2>1. /\ thread' = [thread EXCEPT ![lock] = "ending"] /\ at' = at
      BY <1>2 DEF Leaves, Moves, Walk, request
  <2>2. /\ thread' \in [Worker -> ThreadLabels] /\ thread'[lock] = "ending"
        /\ \A w \in Worker \ {lock} : thread'[w] = thread[w]
      BY <1>2, <2>1 DEF LockInv, ThreadLabels
  <2>3. LockInv'
      BY <1>1, <1>2, <2>1, <2>2, LocalConstants DEF LockInv, Critical
  <2> QED BY <1>1, <2>3, LocalConstants DEF Where, Held
<1>3. CASE lock \in Request
  <2>0. lock \notin Worker
      BY <1>3, LocalConstants
  <2>1. /\ at' = [at EXCEPT ![lock] = "search"] /\ thread' = thread
      BY <2>0 DEF Leaves, Moves, GoesTo, indexer
  <2>2. /\ at' \in [Request -> RequestLabels] /\ at'[lock] = "search"
        /\ \A r \in Request \ {lock} : at'[r] = at[r]
      BY <1>3, <2>1 DEF LockInv, RequestLabels
  <2>3. LockInv'
      BY <1>1, <1>3, <2>1, <2>2, LocalConstants DEF LockInv, Critical
  <2> QED BY <1>1, <2>3, LocalConstants DEF Where, Held
<1> QED BY <1>1, <1>2, <1>3 DEF LockInv, Held

\* A request that is not at work goes on, and stays away from the index.
LEMMA Aside ==
    ASSUME LockInv, NEW r \in Request, NEW l \in RequestLabels \ Critical, at[r] \notin Critical,
           GoesTo(r, l), lock' = lock, thread' = thread
    PROVE  LockInv' /\ Where' = Where
<1>1. /\ at' \in [Request -> RequestLabels] /\ at'[r] = l /\ \A q \in Request \ {r} : at'[q] = at[q]
    BY DEF GoesTo, LockInv
<1>2. lock # r
    BY DEF LockInv
<1> QED BY <1>1, <1>2 DEF LockInv, Where, Held

\* An indexer's thread that is not at work goes on, and stays away from the index.
LEMMA AsideThread ==
    ASSUME LockInv, NEW w, NEW l \in ThreadLabels \ Critical,
           w \in Worker => thread[w] \notin Critical,
           Walk(w, l), lock' = lock, at' \in [Request -> RequestLabels],
           \A r \in Request : at'[r] = at[r] \/ (at[r] \notin Critical /\ at'[r] \notin Critical)
    PROVE  LockInv' /\ Where' = Where
<1>1. thread' \in [Worker -> ThreadLabels] /\ \A v \in Worker : thread'[v] = IF v = w THEN l ELSE thread[v]
    BY DEF Walk, LockInv
<1>2. lock # w \/ w \notin Worker
    BY DEF LockInv
<1>3. LockInv'
    BY <1>1, <1>2 DEF LockInv
<1>4. CASE lock \in Worker
    BY <1>1, <1>2, <1>3, <1>4 DEF Where
<1>5. CASE lock \in Request
    BY <1>3, <1>5, LocalConstants DEF LockInv, Where, Held
<1>6. CASE lock = Unlocked
    BY <1>3, <1>6, LocalConstants DEF Where, Held
<1> QED BY <1>3, <1>4, <1>5, <1>6 DEF LockInv

--------------------------------------------------------------------------------
(* Local mode: the manifest and the rows.                                     *)

\* Nothing of the index changes, and no scan that has begun ends or goes on.
LEMMA StoreSame ==
    ASSUME LocalInv, LockInv', UNCHANGED <<job, manifest, rows, astray>>,
           \/ Where' = Where
           \/ Where' \in {"idle", "scan"} /\ Where \notin {"delete", "store", "record"}
    PROVE  LocalInv'
<1>1. LocalTyped' /\ ManifestInv'
    BY DEF LocalInv, LocalTyped, ManifestInv, Agrees
<1>2. ScanInv'
    BY DEF LocalInv, ScanInv, Agrees
<1> QED BY <1>1, <1>2 DEF LocalInv

\* The walk lists what can be read.
LEMMA HashesTyped == ASSUME ClientTyped PROVE Hashes \in Entries
<1> DEFINE walk == ListFiles(rules, Here)
<1>1. Hashes = [p \in Path |-> IF p \in walk /\ disk[p] # Unread THEN disk[p] ELSE Absent]
    BY DEF Hashes
<1> HIDE DEF walk
<1> QED BY <1>1 DEF ClientTyped, Entries

\* A scan is planned: what is neither changed nor gone is as the index has it.
LEMMA PlanKeeps ==
    ASSUME ClientTyped, LocalInv, PlanScan
    PROVE  LocalInv'
<1>1. LockInv /\ LocalTyped /\ ManifestInv
    BY DEF LocalInv
<1>2. Where = "scan" /\ Held /\ lock' = lock /\ manifest' = manifest /\ rows' = rows
    BY <1>1, HolderWorks DEF PlanScan
<1>3. LockInv' /\ Where' = "delete"
    BY <1>1, <1>2, MovesEffect DEF PlanScan, Critical
<1>4. PICK seen \in Entries : seen = Hashes
    BY HashesTyped
<1>5. PICK previous \in {manifest, None} :
        /\ IF previous = manifest THEN astray' = astray
           ELSE astray' = astray \cup {p \in Path : rows[p] # Absent}
        /\ job' = [seen |-> seen, changed |-> Changed(previous, seen), gone |-> Gone(previous, seen),
                   before |-> rows, lost |-> {}]
    BY <1>4 DEF PlanScan
<1>6. /\ DOMAIN job' = JobFields /\ job'.seen = seen /\ job'.before = rows /\ job'.lost = {}
      /\ job'.changed = {p \in Path : seen[p] # Absent /\ seen[p] # previous[p]}
      /\ job'.gone = {p \in Path : previous[p] # Absent /\ seen[p] = Absent}
    BY <1>5 DEF JobFields, Changed, Gone
<1>7. astray \subseteq astray' /\ astray' \subseteq Path
    BY <1>1, <1>5 DEF LocalTyped
<1>8. LocalTyped'
    BY <1>1, <1>2, <1>4, <1>6, <1>7 DEF LocalTyped
<1>9. ManifestInv'
    BY <1>1, <1>2, <1>3, <1>6, <1>7 DEF ManifestInv, Agrees
<1>10. Agrees(previous, rows, astray')
  <2>1. CASE previous = manifest
      BY <2>1, <1>1, <1>2, <1>5 DEF ManifestInv, Agrees
  <2>2. CASE previous # manifest
      BY <2>2, <1>5, NoneTyped DEF Agrees
  <2> QED BY <2>1, <2>2
<1>11. ASSUME NEW p \in Path, p \notin astray', p \notin job'.changed, p \notin job'.gone
       PROVE  rows[p] = seen[p] \/ seen[p] \in Refused
  <2>1. seen[p] = previous[p] \/ (seen[p] = Absent /\ previous[p] = Absent)
      BY <1>6, <1>11
  <2> QED BY <2>1, <1>10, <1>11 DEF Agrees
<1>12. ScanInv'
    BY <1>2, <1>3, <1>6, <1>11 DEF ScanInv, Agrees
<1> QED BY <1>3, <1>8, <1>9, <1>12 DEF LocalInv

\* The deleted files lose their rows.
LEMMA DeleteRowsKeeps ==
    ASSUME LocalInv, DeleteRows
    PROVE  LocalInv'
<1>1. LockInv /\ LocalTyped /\ ManifestInv /\ ScanInv
    BY DEF LocalInv
<1>2. /\ Where = "delete" /\ Held /\ lock' = lock /\ manifest' = manifest /\ job' = job /\ astray' = astray
      /\ rows' = [p \in Path |-> IF p \in job.gone THEN Absent ELSE rows[p]]
    BY <1>1, HolderWorks DEF DeleteRows
<1>3. LockInv' /\ Where' = "store"
    BY <1>1, <1>2, MovesEffect DEF DeleteRows, Critical
<1>4. LocalTyped'
    BY <1>1, <1>2 DEF LocalTyped, Entries
<1>5. ManifestInv'
    BY <1>1, <1>2, <1>3 DEF ManifestInv, Agrees
<1>6. ScanInv'
  <2>1. \A p \in job.gone : rows'[p] = Absent
      BY <1>1, <1>2 DEF LocalTyped
  <2>2. Agrees(job.seen, rows', astray \cup (job.changed \cup job.gone))
      BY <1>1, <1>2 DEF ScanInv, Agrees
  <2> QED BY <2>1, <2>2, <1>1, <1>2, <1>3 DEF ScanInv
<1> QED BY <1>3, <1>4, <1>5, <1>6 DEF LocalInv

\* The changed files are stored, but for some.
LEMMA StoreKeeps ==
    ASSUME LocalInv, StoreFiles
    PROVE  LocalInv'
<1>1. LockInv /\ LocalTyped /\ ManifestInv /\ ScanInv
    BY DEF LocalInv
<1>2. Where = "store" /\ Held /\ lock' = lock /\ manifest' = manifest /\ astray' = astray
    BY <1>1, HolderWorks DEF StoreFiles
<1>3. LockInv' /\ Where' = "record"
    BY <1>1, <1>2, MovesEffect DEF StoreFiles, Critical
<1>4. PICK lost \in SUBSET job.changed :
        /\ rows' = [p \in Path |-> IF p \in job.changed \ lost /\ job.seen[p] \notin Refused
                                   THEN job.seen[p] ELSE rows[p]]
        /\ job' = [job EXCEPT !.lost = lost]
    BY DEF StoreFiles
<1>5. /\ DOMAIN job' = JobFields /\ job'.lost = lost /\ job'.seen = job.seen /\ job'.before = job.before
      /\ job'.changed = job.changed /\ job'.gone = job.gone
    BY <1>1, <1>4 DEF LocalTyped, JobFields
<1>6. LocalTyped'
    BY <1>1, <1>2, <1>4, <1>5 DEF LocalTyped, Entries
<1>7. ManifestInv'
    BY <1>1, <1>2, <1>3, <1>5 DEF ManifestInv, Agrees
<1>8. Agrees(job.seen, rows', (astray \ (job.changed \cup job.gone)) \cup lost)
    BY <1>1, <1>2, <1>4 DEF ScanInv, Agrees, LocalTyped
<1>9. ScanInv'
    BY <1>2, <1>3, <1>5, <1>8 DEF ScanInv
<1> QED BY <1>3, <1>6, <1>7, <1>9 DEF LocalInv

\* The manifest is written.
LEMMA RecordKeeps ==
    ASSUME LocalInv, WriteManifest
    PROVE  LocalInv'
<1>1. LockInv /\ LocalTyped /\ ManifestInv /\ ScanInv
    BY DEF LocalInv
<1>2. /\ Where = "record" /\ Held /\ lock' = lock /\ manifest' = job.seen /\ rows' = rows /\ job' = job
      /\ astray' = (astray \ (job.changed \cup job.gone)) \cup job.lost
    BY <1>1, HolderWorks DEF WriteManifest
<1>3. LockInv' /\ Where' = "release"
    BY <1>1, <1>2, MovesEffect DEF WriteManifest, Critical
<1>4. LocalTyped'
    BY <1>1, <1>2 DEF LocalTyped
<1>5. ManifestInv'
    BY <1>1, <1>2, <1>3 DEF ManifestInv, ScanInv
<1>6. ScanInv'
    BY <1>2, <1>3 DEF ScanInv
<1> QED BY <1>3, <1>4, <1>5, <1>6 DEF LocalInv

\* The scan is over, or was cut off: what it changed is astray.
LEMMA CutOffAgrees ==
    ASSUME LocalInv, Where \in {"delete", "store", "record"}, CutOff
    PROVE  astray' \subseteq Path /\ Agrees(manifest, rows, astray')
<1>1. astray' = astray \cup {p \in Path : rows[p] # job.before[p]}
    BY DEF CutOff
<1> QED BY <1>1 DEF LocalInv, LocalTyped, ManifestInv, Agrees

\* No scan is a scan of nothing.
LEMMA NoJobTyped ==
    /\ DOMAIN NoJob = JobFields /\ NoJob.seen \in Entries /\ NoJob.before \in Entries
    /\ NoJob.changed = {} /\ NoJob.gone = {} /\ NoJob.lost = {}
BY NoneTyped DEF NoJob, JobFields

\* A recorded scan is over: the manifest is what it saw.
LEMMA ReleaseKeeps ==
    ASSUME LocalInv, Release
    PROVE  LocalInv'
<1>1. LockInv /\ LocalTyped /\ ManifestInv
    BY DEF LocalInv
<1>2. Where = "release" /\ Held /\ UNCHANGED <<manifest, rows, astray>>
    BY <1>1, HolderWorks DEF Release, store
<1>3. LockInv' /\ Where' = "idle" /\ job' = NoJob
    BY <1>1, <1>2, LeavesEffect DEF Release
<1>4. LocalTyped'
    BY <1>1, <1>2, <1>3, NoJobTyped DEF LocalTyped
<1>5. ManifestInv' /\ ScanInv'
    BY <1>1, <1>2, <1>3 DEF ManifestInv, ScanInv, Agrees
<1> QED BY <1>3, <1>4, <1>5 DEF LocalInv

\* A scan fails: the manifest claims no more than before.
LEMMA FailsKeeps ==
    ASSUME LocalInv, IngestFails
    PROVE  LocalInv'
<1>1. LockInv /\ LocalTyped /\ ManifestInv
    BY DEF LocalInv
<1>2. Held
    BY <1>1, HolderWorks DEF IngestFails
<1>3. LockInv' /\ Where' = "idle" /\ job' = NoJob
    BY <1>1, <1>2, LeavesEffect DEF IngestFails
<1>4. manifest' = manifest /\ rows' = rows /\ astray' \subseteq Path /\ Agrees(manifest, rows, astray')
  <2>1. CASE Where = "scan"
    <3>1. UNCHANGED <<manifest, rows, astray>>
        BY <2>1 DEF IngestFails, store
    <3> QED BY <2>1, <3>1, <1>1 DEF LocalTyped, ManifestInv
  <2>2. CASE Where # "scan"
    <3>1. CutOff /\ Where \in {"delete", "store", "record"} /\ manifest' = manifest /\ rows' = rows
        BY <2>2 DEF IngestFails, LeaveManifest
    <3> QED BY <3>1, CutOffAgrees
  <2> QED BY <2>1, <2>2
<1>5. LocalTyped'
    BY <1>1, <1>3, <1>4, NoJobTyped DEF LocalTyped
<1>6. ManifestInv' /\ ScanInv'
    BY <1>3, <1>4 DEF ManifestInv, ScanInv
<1> QED BY <1>3, <1>5, <1>6 DEF LocalInv

\* A restart cuts off the scan under way, if one has begun.
LEMMA RestartKeeps ==
    ASSUME LocalInv, Restart
    PROVE  LocalInv'
<1>1. LockInv /\ LocalTyped /\ ManifestInv
    BY DEF LocalInv
<1>2. /\ lock' = Unlocked /\ job' = NoJob /\ manifest' = manifest /\ rows' = rows
      /\ at' = [r \in Request |-> "idle"]
      /\ thread' = [w \in Worker |-> IF w = registered' THEN "count" ELSE "none"]
    BY DEF Restart
<1>3. LockInv'
  <2>1. thread' \in [Worker -> ThreadLabels] /\ \A w \in Worker : thread'[w] \notin Critical
      BY <1>2 DEF ThreadLabels, Critical
  <2>2. at' \in [Request -> RequestLabels] /\ \A r \in Request : at'[r] \notin Critical
      BY <1>2 DEF RequestLabels, Critical
  <2> QED BY <1>2, <2>1, <2>2, LocalConstants DEF LockInv
<1>4. Where' = "idle"
    BY <1>2, LocalConstants DEF Where, Held
<1>5. astray' \subseteq Path /\ Agrees(manifest, rows, astray')
  <2>1. CASE Held /\ Where # "scan" /\ Where # "release"
    <3>1. Where \in {"delete", "store", "record"}
        BY <2>1, <1>1, HolderWorks DEF Critical
    <3>2. CutOff
        BY <2>1 DEF Restart
    <3> QED BY <3>1, <3>2, CutOffAgrees
  <2>2. CASE ~(Held /\ Where # "scan" /\ Where # "release")
    <3>1. astray' = astray
        BY <2>2 DEF Restart
    <3>2. Where \notin {"delete", "store", "record"}
        BY <2>2, <1>1, HolderWorks
    <3> QED BY <3>1, <3>2, <1>1 DEF LocalTyped, ManifestInv
  <2> QED BY <2>1, <2>2
<1>6. LocalTyped'
    BY <1>1, <1>2, <1>5, NoJobTyped DEF LocalTyped
<1>7. ManifestInv' /\ ScanInv'
    BY <1>2, <1>4, <1>5 DEF ManifestInv, ScanInv
<1> QED BY <1>3, <1>6, <1>7 DEF LocalInv

\* The project's directory is removed.
LEMMA RemoveKeeps ==
    ASSUME LocalInv, NEW r \in Request, Remove(r)
    PROVE  LocalInv'
<1>1. LockInv /\ LocalTyped
    BY DEF LocalInv
<1>2. /\ at[r] = "remove" /\ ~Held /\ GoesTo(r, "idle") /\ lock' = lock /\ thread' = thread /\ job' = job
      /\ manifest' = None /\ rows' = None /\ astray' = {}
    BY DEF Remove, indexer
<1>3. Where = "idle"
    BY <1>1, <1>2, HolderWorks
<1>4. LockInv' /\ Where' = "idle"
    BY <1>1, <1>2, <1>3, Aside DEF Critical, RequestLabels
<1>5. LocalTyped'
    BY <1>1, <1>2, NoneTyped DEF LocalTyped
<1>6. ManifestInv' /\ ScanInv'
    BY <1>2, <1>4 DEF ManifestInv, ScanInv, Agrees
<1> QED BY <1>4, <1>5, <1>6 DEF LocalInv

--------------------------------------------------------------------------------
(* Local mode: everybody else.                                                *)

\* A handler that is not at work on the index.
LEMMA HandlerKeeps ==
    ASSUME LocalInv, NEW r \in Request,
           \/ Attach(r) \/ Rescan(r) \/ Ask(r) \/ Delete(r)
           \/ Bind(r) \/ Initialize(r) \/ Register(r) \/ Answer(r) \/ StopIndexer(r)
    PROVE  LocalInv'
<1>1. LockInv
    BY DEF LocalInv
<1>2. at[r] \notin Critical
    BY DEF Begins, Attach, Rescan, Ask, Delete, Bind, Initialize, Register, Answer, StopIndexer, Critical
<1>3. \E l \in RequestLabels \ Critical : GoesTo(r, l)
  <2>1. {"idle", "bind", "initialize", "register", "start", "search", "stop", "remove", "wait"}
            \subseteq RequestLabels \ Critical
      BY DEF RequestLabels, Critical
  <2> QED BY <2>1 DEF Attach, Rescan, Ask, Delete, Bind, Initialize, Register, Answer, StopIndexer
<1>4. lock' = lock /\ thread' = thread /\ UNCHANGED <<job, manifest, rows, astray>>
    BY DEF Attach, Rescan, Ask, Delete, Bind, Initialize, Register, Answer, StopIndexer, indexer, store
<1>5. LockInv' /\ Where' = Where
    BY <1>1, <1>2, <1>3, <1>4, Aside
<1> QED BY <1>4, <1>5, StoreSame

\* An indexer's thread begins, or goes on without the lock.
LEMMA ThreadKeeps ==
    ASSUME LocalInv,
           \/ \E r \in Request : StartWorker(r)
           \/ \E w \in Worker : CountFiles(w) \/ WorkerEnds(w)
    PROVE  LocalInv'
<1>1. LockInv
    BY DEF LocalInv
<1>2. ASSUME NEW r \in Request, StartWorker(r)
      PROVE  LocalInv'
  <2> DEFINE w == target[r]
  <2>1. lock' = lock /\ UNCHANGED <<job, manifest, rows, astray>> /\ at[r] = "start" /\ GoesTo(r, "idle")
      BY <1>2 DEF StartWorker, store
  <2>2. CASE Alive(w)
    <3>1. thread' = thread
        BY <2>2, <1>2 DEF StartWorker, indexer
    <3>2. LockInv' /\ Where' = Where
        BY <1>1, <2>1, <3>1, Aside DEF RequestLabels, Critical
    <3> QED BY <2>1, <3>2, StoreSame
  <2>3. CASE ~Alive(w)
    <3>1. Walk(w, "count") /\ thread[w] \notin Critical
        BY <2>3, <1>2 DEF StartWorker, Alive, Critical
    <3>2. /\ at' \in [Request -> RequestLabels]
          /\ \A q \in Request : at'[q] = at[q] \/ (at[q] \notin Critical /\ at'[q] \notin Critical)
        BY <1>1, <2>1 DEF LockInv, GoesTo, RequestLabels, Critical
    <3>3. "count" \in ThreadLabels \ Critical
        BY DEF ThreadLabels, Critical
    <3>4. LockInv' /\ Where' = Where
        BY <1>1, <2>1, <3>1, <3>2, <3>3, AsideThread
    <3> QED BY <2>1, <3>4, StoreSame
  <2> QED BY <2>2, <2>3
<1>3. ASSUME NEW w \in Worker, CountFiles(w) \/ WorkerEnds(w)
      PROVE  LocalInv'
  <2>1. lock' = lock /\ UNCHANGED <<job, manifest, rows, astray>> /\ at' = at /\ thread[w] \notin Critical
      BY <1>3 DEF CountFiles, WorkerEnds, request, store, Critical
  <2>2. PICK l \in ThreadLabels \ Critical : Walk(w, l)
    <3>1. {"none", "wait", "ending"} \subseteq ThreadLabels \ Critical
        BY DEF ThreadLabels, Critical
    <3> QED BY <3>1, <1>3 DEF CountFiles, WorkerEnds
  <2>3. at' \in [Request -> RequestLabels]
      BY <1>1, <2>1 DEF LockInv
  <2>4. LockInv' /\ Where' = Where
      BY <1>1, <2>1, <2>2, <2>3, AsideThread
  <2> QED BY <2>1, <2>4, StoreSame
<1> QED BY <1>2, <1>3

\* The lock is taken, or found to be no longer wanted.
LEMMA LockKeeps ==
    ASSUME LocalInv,
           (\E w \in Worker : WorkerLocks(w)) \/ \E r \in Request : AskLocks(r)
    PROVE  LocalInv'
<1>1. LockInv
    BY DEF LocalInv
<1>2. ASSUME NEW w \in Worker, WorkerLocks(w)
      PROVE  LocalInv'
  <2>1. ~Held /\ thread[w] = "wait" /\ at' = at /\ UNCHANGED <<job, manifest, rows, astray>>
      BY <1>2 DEF WorkerLocks, request, store
  <2>2. Where = "idle" /\ lock = Unlocked
      BY <1>1, <2>1, HolderWorks DEF Held
  <2>3. CASE cancelled[w]
    <3>1. Walk(w, "none") /\ lock' = lock
        BY <2>3, <1>2 DEF WorkerLocks
    <3>2. "none" \in ThreadLabels \ Critical /\ thread[w] \notin Critical
        BY <2>1 DEF ThreadLabels, Critical
    <3>3. at' \in [Request -> RequestLabels]
        BY <1>1, <2>1 DEF LockInv
    <3>4. LockInv' /\ Where' = Where
        BY <1>1, <2>1, <3>1, <3>2, <3>3, AsideThread
    <3> QED BY <2>1, <3>4, StoreSame
  <2>4. CASE ~cancelled[w]
    <3>1. Walk(w, "scan") /\ lock' = w
        BY <2>4, <1>2 DEF WorkerLocks
    <3>2. /\ thread' \in [Worker -> ThreadLabels] /\ thread'[w] = "scan"
          /\ \A v \in Worker \ {w} : thread'[v] = thread[v]
        BY <1>1, <3>1 DEF LockInv, Walk, ThreadLabels, Critical
    <3>3. \A v \in Worker : thread[v] \notin Critical
        BY <1>1, <2>2, LocalConstants DEF LockInv
    <3>4. \A r \in Request : at[r] \notin Critical /\ r # w
        BY <1>1, <2>2, LocalConstants DEF LockInv
    <3>5. LockInv'
        BY <1>1, <2>1, <3>1, <3>2, <3>3, <3>4 DEF LockInv, Critical
    <3>6. Where' = "scan"
        BY <3>1, <3>2 DEF Where
    <3> QED BY <2>1, <2>2, <3>5, <3>6, StoreSame
  <2> QED BY <2>3, <2>4
<1>3. ASSUME NEW r \in Request, AskLocks(r)
      PROVE  LocalInv'
  <2>1. /\ ~Held /\ at[r] = "wait" /\ lock' = r /\ GoesTo(r, "scan") /\ thread' = thread
        /\ UNCHANGED <<job, manifest, rows, astray>>
      BY <1>3 DEF AskLocks, indexer, store
  <2>2. Where = "idle" /\ lock = Unlocked
      BY <1>1, <2>1, HolderWorks DEF Held
  <2>3. /\ at' \in [Request -> RequestLabels] /\ at'[r] = "scan"
        /\ \A q \in Request \ {r} : at'[q] = at[q]
      BY <1>1, <2>1 DEF LockInv, GoesTo, RequestLabels, Critical
  <2>4. \A v \in Worker : thread[v] \notin Critical /\ v # r
      BY <1>1, <2>2, LocalConstants DEF LockInv
  <2>5. \A q \in Request : at[q] \notin Critical
      BY <1>1, <2>2, LocalConstants DEF LockInv
  <2>6. LockInv'
      BY <1>1, <2>1, <2>3, <2>4, <2>5 DEF LockInv, Critical
  <2>7. Where' = "scan"
      BY <2>1, <2>3, LocalConstants DEF Where, Held
  <2> QED BY <2>1, <2>2, <2>6, <2>7, StoreSame
<1> QED BY <1>2, <1>3

\* Every step of local mode keeps the invariant.
LEMMA LocalStep == ClientTyped /\ LocalInv /\ LocalNext => LocalInv'
<1> SUFFICES ASSUME ClientTyped, LocalInv, LocalNext PROVE LocalInv'
    OBVIOUS
<1>1. ASSUME NEW r \in Request, Attach(r) \/ Rescan(r) \/ Ask(r) \/ Delete(r) \/ Handle(r)
      PROVE  LocalInv'
    BY <1>1, HandlerKeeps, ThreadKeeps, LockKeeps, RemoveKeeps DEF Handle
<1>2. ASSUME NEW w \in Worker, Run(w)
      PROVE  LocalInv'
    BY <1>2, ThreadKeeps, LockKeeps DEF Run
<1>3. ASSUME Scan PROVE LocalInv'
    BY <1>3, PlanKeeps, DeleteRowsKeeps, StoreKeeps, RecordKeeps, ReleaseKeeps DEF Scan
<1> QED BY <1>1, <1>2, <1>3, FailsKeeps, RestartKeeps DEF LocalNext


--------------------------------------------------------------------------------
(* The checkout, indexed either way.                                          *)

\* The client and the server begin as the invariant says.
LEMMA ClientBegins ==
    ASSUME ClientInit, disk \in [Path -> Content \cup {Absent, Unread}]
    PROVE  ClientInv
<1>1. /\ cache = [rules |-> Fingerprint(FirstRules), entries |-> None]
      /\ pc = [c \in Process |-> "idle"] /\ call = [c \in Process |-> NoCall]
      /\ net = {} /\ files = None /\ index = None /\ pending = {} /\ skippedFiles = {}
    BY DEF ClientInit
<1>2. CallTyped(NoCall) /\ NoCall.unseen = {}
    BY NoneTyped DEF NoCall, CallTyped, CallFields
<1>3. ClientTyped
    BY <1>1, <1>2, NoneTyped DEF ClientTyped, Labels
<1>4. NetInv /\ ServerInv
    BY <1>1 DEF NetInv, ServerInv
<1>5. \A c \in Process : pc[c] = "idle" /\ call[c] = NoCall
    BY <1>1
<1>6. SeenInv /\ SendInv /\ AloneInv
    BY <1>1, <1>2, <1>5 DEF SeenInv, SendInv, AloneInv, Ready
<1> QED BY <1>3, <1>4, <1>6 DEF ClientInv

\* So does local mode, with an indexer at work or without.
LEMMA LocalBegins == ASSUME LocalInit PROVE LocalInv
<1>1. /\ lock = Unlocked /\ job = NoJob /\ at = [r \in Request |-> "idle"]
      /\ manifest = None /\ rows = None /\ astray = {}
      /\ thread = [w \in Worker |-> IF w = registered THEN "count" ELSE "none"]
    BY DEF LocalInit
<1>2. LockInv
    BY <1>1, LocalConstants DEF LockInv, ThreadLabels, RequestLabels, Critical
<1>3. Where = "idle"
    BY <1>1, LocalConstants DEF Where, Held
<1>4. LocalTyped
    BY <1>1, NoJobTyped, NoneTyped DEF LocalTyped
<1>5. ManifestInv /\ ScanInv
    BY <1>1, <1>3 DEF ManifestInv, ScanInv, Agrees
<1> QED BY <1>2, <1>4, <1>5 DEF LocalInv

\* The invariant holds at first, in each mode.
LEMMA InitInv == Init => IndInv
<1> SUFFICES ASSUME Init PROVE IndInv
    OBVIOUS
<1>1. ClientInit /\ LocalInit /\ (CheckoutInit \/ disk = None)
    BY DEF Init
<1>2. disk \in [Path -> Content \cup {Absent, Unread}]
    BY <1>1, NoneTyped, CheckoutConstants DEF CheckoutInit, Entries
<1> QED BY <1>1, <1>2, ClientBegins, LocalBegins DEF IndInv

\* Local mode reads the checkout and does not write it.
LEMMA OnlyReads == ASSUME LocalNext PROVE disk' = disk
<1>1. ASSUME NEW r \in Request, Attach(r) \/ Rescan(r) \/ Ask(r) \/ Delete(r) \/ Handle(r)
      PROVE  disk' = disk
    BY <1>1 DEF Attach, Rescan, Ask, Delete, Handle, Bind, Initialize, Register, StartWorker,
                AskLocks, Answer, StopIndexer, Remove, checkout
<1>2. ASSUME NEW w \in Worker, Run(w)
      PROVE  disk' = disk
    BY <1>2 DEF Run, CountFiles, WorkerLocks, WorkerEnds, checkout
<1>3. Scan \/ IngestFails \/ Restart => disk' = disk
    BY DEF Scan, PlanScan, DeleteRows, StoreFiles, WriteManifest, Release, IngestFails, Restart,
           checkout
<1> QED BY <1>1, <1>2, <1>3 DEF LocalNext

\* A user writes contents to files, or no file.
LEMMA EditsTyped ==
    ASSUME ClientTyped, UserEdits
    PROVE  disk' \in [Path -> Content \cup {Absent, Unread}]
<1>1. disk \in [Path -> Content \cup {Absent, Unread}]
    BY DEF ClientTyped
<1>2. ASSUME NEW p \in Path, NEW content \in Content \cup {Absent, Unread}, EditFile(p, content)
      PROVE  disk' \in [Path -> Content \cup {Absent, Unread}]
    BY <1>1, <1>2 DEF EditFile
<1> QED BY <1>1, <1>2 DEF UserEdits, EditRules

\* The invariant does not look at the checkout, but for its type: a step of
\* the other mode, or of the user, keeps this mode's part.
LEMMA ClientSame ==
    ASSUME ClientInv, disk' \in [Path -> Content \cup {Absent, Unread}], UNCHANGED <<client, server>>
    PROVE  ClientInv'
<1>1. ClientTyped
    BY DEF ClientInv
<1>2. UNCHANGED <<cache, pc, call, net, files, pending, skippedFiles, index>>
    BY DEF client, server
<1> QED BY <1>1, <1>2, QuietKeeps DEF ClientTyped

\* Likewise local mode's part.
LEMMA LocalSame ==
    ASSUME LocalInv, UNCHANGED localVars
    PROVE  LocalInv'
<1>1. UNCHANGED <<lock, thread, at, job, manifest, rows, astray>>
    BY DEF localVars, request, indexer, store
<1>2. LockInv' /\ Where' = Where
    BY <1>1 DEF LocalInv, LockInv, Where, Held
<1> QED BY <1>1, <1>2, StoreSame

\* Every step keeps the invariant.
LEMMA NextInv == IndInv /\ [Next]_vars => IndInv'
<1> SUFFICES ASSUME IndInv, [Next]_vars PROVE IndInv'
    OBVIOUS
<1>1. ClientInv /\ LocalInv /\ ClientTyped
    BY DEF IndInv, ClientInv
<1>2. ASSUME ClientNext, UNCHANGED localVars PROVE IndInv'
    BY <1>1, <1>2, ClientStep, LocalSame DEF IndInv
<1>3. ASSUME LocalNext, UNCHANGED <<client, server>> PROVE IndInv'
    BY <1>1, <1>3, LocalStep, OnlyReads, ClientSame DEF IndInv, ClientTyped
<1>4. ASSUME UserEdits, UNCHANGED <<client, server, localVars>> PROVE IndInv'
    BY <1>1, <1>4, EditsTyped, ClientSame, LocalSame DEF IndInv
<1>5. ASSUME UNCHANGED vars PROVE IndInv'
  <2>1. disk' = disk /\ UNCHANGED <<client, server>> /\ UNCHANGED localVars
      BY <1>5 DEF vars, checkout
  <2> QED BY <1>1, <2>1, ClientSame, LocalSame DEF IndInv, ClientTyped
<1> QED BY <1>2, <1>3, <1>4, <1>5 DEF Next

\* So the invariant always holds, whatever the fairness.
LEMMA IsInvariant == FairSpec => []IndInv
BY InitInv, NextInv, PTL DEF FairSpec

--------------------------------------------------------------------------------
(* What a checkout is promised.                                               *)

\* What a call searches is what it scanned, and the cache is right again for
\* what the call knows of: whatever the client processes before and after it
\* did, whatever requests were lost on the way, and however often the server's
\* worker died (sync_project, resolve to search).
THEOREM CallSearchesScan == FairSpec => []ScannedIsSearched
<1>1. IndInv => ScannedIsSearched
  <2> SUFFICES ASSUME IndInv, NEW c \in Process, pc[c] = "search", call[c].alone, NEW p \in Known(c)
               PROVE  /\ index[p] = call[c].scanned[p] \/ p \in skippedFiles
                      /\ \/ cache.entries[p] = files[p]
                         \/ cache.entries[p] = Absent /\ p \in skippedFiles
      BY DEF ScannedIsSearched
  <2>1. /\ ClientTyped /\ NetInv /\ ServerInv /\ AloneOK(c)
      BY DEF IndInv, ClientInv, AloneInv
  <2>2. p \in Path
      BY <2>1 DEF ClientTyped, CallTyped, Known
  <2>3. pending = {}
      BY <2>1 DEF AloneOK, EntriesOK, Ready
  <2>4. \A m \in net : m.by # c
      BY <2>1 DEF NetInv
  <2>5. files[p] = call[c].scanned[p]
      BY <2>1, <2>4 DEF AloneOK, Arrives
  <2>6. index[p] = files[p] \/ p \in skippedFiles
      BY <2>1, <2>2, <2>3 DEF ServerInv
  <2>7. cache.entries[p] = IF p \in skippedFiles THEN Absent ELSE call[c].scanned[p]
      BY <2>1, <2>2 DEF AloneOK, EntriesOK
  <2> QED BY <2>5, <2>6, <2>7
<1> QED BY <1>1, IsInvariant, PTL

\* A call that searches has waited for an ingest of everything the server
\* recorded for it, however many clients upload (wait_for_indexing).
THEOREM CallWaitsForIndex == FairSpec => []SearchedIsIndexed
<1>1. IndInv => SearchedIsIndexed
    BY DEF IndInv, ClientInv, SeenInv, Ready, SearchedIsIndexed
<1> QED BY <1>1, IsInvariant, PTL

\* When a scan of local mode is recorded, the index holds what it read: across
\* any failed ingests, restarts and deletions, any number of indexers and
\* searches that scan by themselves (ingest_repo, plan_scan, write_manifest).
THEOREM ManifestIsTrue == FairSpec => []RescanReadsDisk
<1>1. IndInv => RescanReadsDisk
  <2> SUFFICES ASSUME IndInv, Where = "release", NEW p \in Path \ astray
               PROVE  rows[p] = job.seen[p] \/ job.seen[p] \in Refused
      BY DEF RescanReadsDisk
  <2>1. job.seen = manifest /\ Agrees(manifest, rows, astray)
      BY DEF IndInv, LocalInv, ScanInv, ManifestInv
  <2> QED BY <2>1 DEF Agrees
<1> QED BY <1>1, IsInvariant, PTL
================================================================================
