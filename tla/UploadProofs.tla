---------------------------- MODULE UploadProofs ----------------------------
(***************************************************************************)
(* Proofs about Upload.                                                    *)
(***************************************************************************)
EXTENDS Upload, TLAPS

\* What pending_batch returns are snapshots that are in pending rows.
LEMMA PendingBatchType ==
    ASSUME OutboxTypeOK, NEW limit
    PROVE  /\ PendingBatch(limit) \subseteq Snapshot
           /\ \A x \in PendingBatch(limit) :
                 x.key \in Sessions /\ x = QueuedSnapshot(x.key)
                 /\ outbox[x.key].status = "pending"
<1> SUFFICES ASSUME NEW x \in PendingBatch(limit)
             PROVE  /\ x \in Snapshot
                    /\ x.key \in Sessions /\ x = QueuedSnapshot(x.key)
                    /\ outbox[x.key].status = "pending"
    OBVIOUS
<1>1. PICK s \in Pending : x = QueuedSnapshot(s)
    BY DEF PendingBatch
<1>2. s \in Sessions /\ outbox[s].status = "pending" /\ x.key = s
    BY <1>1 DEF Pending, QueuedSnapshot
<1>3. outbox[s].rev \in Nat /\ outbox[s].content \in Contents
    BY <1>2 DEF OutboxTypeOK, Row, AbsentRow
<1> QED
    BY <1>1, <1>2, <1>3 DEF QueuedSnapshot, Snapshot

\* Marking rows keeps the outbox a table of rows and changes no snapshot.
LEMMA AcknowledgedType ==
    ASSUME OutboxTypeOK, NEW batch, NEW keys
    PROVE  /\ Acknowledged(batch, keys) \in [Sessions -> Row]
           /\ \A s \in Sessions :
                 /\ Acknowledged(batch, keys)[s].rev = outbox[s].rev
                 /\ Acknowledged(batch, keys)[s].content = outbox[s].content
                 /\ Acknowledged(batch, keys)[s].status = "absent"
                        <=> outbox[s].status = "absent"
BY DEF Acknowledged, OutboxTypeOK, Row, AbsentRow

\* The table of visible rows stays one.
LEMMA ReplaceType ==
    ASSUME NEW rows \in SUBSET IngestSnapshot,
           NEW shown \in [Sessions -> [rev : Nat, src : Nat]]
    PROVE  Replace(shown, rows) \in [Sessions -> [rev : Nat, src : Nat]]
<1> SUFFICES ASSUME NEW s \in Sessions
             PROVE  Replace(shown, rows)[s] \in [rev : Nat, src : Nat]
    BY DEF Replace
<1> DEFINE newer(x) == x.key = s /\ x.rev >= shown[s].rev
<1>1. CASE \E x \in rows : newer(x)
  <2> DEFINE x == CHOOSE x \in rows : newer(x)
  <2>1. x \in rows
      BY <1>1
  <2>2. x.rev \in Nat
      BY <2>1 DEF IngestSnapshot
  <2>3. Replace(shown, rows)[s] = [rev |-> x.rev, src |-> x.rev]
      BY <1>1 DEF Replace
  <2> QED
      BY <2>2, <2>3
<1>2. CASE ~ \E x \in rows : newer(x)
    BY <1>2 DEF Replace
<1> QED
    BY <1>1, <1>2

\* Moving a request to another phase touches that request only.
LEMMA SetPhaseType ==
    ASSUME IngestTypeOK, NEW q \in Requests, NEW phase \in Running \cup Answered,
           SetPhase(q, phase)
    PROVE  /\ requests' \in [Requests -> [phase : {"free"} \cup Running \cup Answered,
                                          batch : SUBSET IngestSnapshot]]
           /\ requests'[q].phase = phase
           /\ \A p \in Requests : /\ requests'[p].batch = requests[p].batch
                                  /\ p # q => requests'[p] = requests[p]
<1>1. requests' = [requests EXCEPT ![q] = [requests[q] EXCEPT !.phase = phase]]
    BY DEF SetPhase, IngestTypeOK
<1>2. [requests[q] EXCEPT !.phase = phase] = [phase |-> phase, batch |-> requests[q].batch]
    BY DEF IngestTypeOK
<1> QED
    BY <1>1, <1>2 DEF IngestTypeOK

-----------------------------------------------------------------------------
(***************************************************************************)
(* Type correctness.                                                       *)
(***************************************************************************)
LEMMA InitType == Init => TypeOK
BY UploadAssumption, BoundsAssumption
   DEF Init, OutboxInit, IngestInit, TypeOK, OutboxTypeOK, IngestTypeOK, Row,
       AbsentRow, FreeRequest, IdleUpload, Running, Answered

LEMMA ScanStepType == TypeOK /\ ScanStep => TypeOK'
<1> SUFFICES ASSUME TypeOK, ScanStep PROVE TypeOK'
    OBVIOUS
<1> USE DEF TypeOK
<1>1. IngestTypeOK' /\ (uploads' = uploads /\ faults' = faults /\ restarts' = restarts)
    BY DEF ScanStep, serverVars, IngestTypeOK
<1>2. ASSUME NEW s \in Sessions, NEW c \in Contents, NEW o \in Observed,
             NextRevision(s, c, o)
      PROVE  OutboxTypeOK'
    BY <1>2, UploadAssumption DEF NextRevision, NextRevisionAfter, OutboxTypeOK, Snapshot
<1>3. ASSUME NEW d \in drafts, QueueSnapshot(d)
      PROVE  OutboxTypeOK'
    BY <1>3 DEF QueueSnapshot, OutboxTypeOK, Snapshot, Row
<1>4. ASSUME NEW d \in drafts, DropDraft(d)
      PROVE  OutboxTypeOK'
    BY <1>4 DEF DropDraft, OutboxTypeOK
<1>5. ASSUME NEW expired \in SUBSET Sessions, PruneExpiredRows(expired)
      PROVE  OutboxTypeOK'
    BY <1>5 DEF PruneExpiredRows, OutboxTypeOK, Row
<1> QED
    BY <1>1, <1>2, <1>3, <1>4, <1>5 DEF ScanStep

LEMMA ClientStepType ==
    ASSUME TypeOK, NEW u \in Uploaders,
           \/ \E q \in Requests : StartUpload(u, q)
           \/ AbandonUpload(u) \/ HandleAck(u) \/ HandleError(u) \/ Relaunch(u)
    PROVE  TypeOK'
<1> USE DEF TypeOK
<1>1. ASSUME NEW q \in Requests, StartUpload(u, q)
      PROVE  TypeOK'
  <2>1. PendingBatch(BatchLimit) \subseteq Snapshot
      BY PendingBatchType
  <2>2. PendingBatch(BatchLimit) \subseteq IngestSnapshot
      BY <2>1, UploadAssumption DEF Snapshot, IngestSnapshot, Verdicts
  <2>3. IngestTypeOK'
      BY <1>1, <2>2 DEF StartUpload, Receive, IngestTypeOK, Running
  <2> QED
      BY <1>1, <2>1, <2>3 DEF StartUpload, outboxVars, OutboxTypeOK
<1>2. CASE AbandonUpload(u)
  <2>1. OutboxTypeOK' /\ IngestTypeOK'
      BY <1>2 DEF AbandonUpload, outboxVars, serverVars, OutboxTypeOK, IngestTypeOK
  <2>2. faults' \in 0..MaxFaults /\ restarts' = restarts
      BY <1>2, UploadAssumption DEF AbandonUpload, Fault
  <2> QED
      BY <1>2, <2>1, <2>2 DEF AbandonUpload, IdleUpload
<1>3. ASSUME NEW q, Discard(q)
      PROVE  IngestTypeOK'
  <2>1. FreeRequest \in [phase : {"free"} \cup Running \cup Answered,
                         batch : SUBSET IngestSnapshot]
      BY DEF FreeRequest
  <2> QED
      BY <1>3, <2>1 DEF Discard, IngestTypeOK
<1>4. CASE HandleAck(u)
  <2>1. \E keys : outbox' = Acknowledged(uploads[u].batch, keys)
      BY <1>4 DEF HandleAck
  <2>2. OutboxTypeOK'
      BY <1>4, <2>1, AcknowledgedType DEF HandleAck, OutboxTypeOK
  <2>3. faults' \in 0..MaxFaults /\ restarts' = restarts
      BY <1>4, UploadAssumption DEF HandleAck, Fault
  <2> QED
      BY <1>3, <1>4, <2>2, <2>3 DEF HandleAck, IdleUpload
<1>5. CASE HandleError(u)
    BY <1>3, <1>5 DEF HandleError, IdleUpload, ExitedUpload, outboxVars, OutboxTypeOK
<1>6. CASE Relaunch(u)
    BY <1>6 DEF Relaunch, IdleUpload, outboxVars, serverVars, OutboxTypeOK, IngestTypeOK
<1> QED
    BY <1>1, <1>2, <1>4, <1>5, <1>6

LEMMA ServerStepType ==
    ASSUME TypeOK,
           \/ \E q \in Requests : ServerStep(q) \/ ServerFault(q) \/ DiscardAnswer(q)
           \/ RestartServer
    PROVE  TypeOK'
<1> USE DEF TypeOK
<1>1. ASSUME NEW q \in Requests, NEW outcome \in {"stored", "failed"}, InsertRows(q, outcome)
      PROVE  IngestTypeOK'
  <2>1. Accepted(requests[q].batch) \in SUBSET IngestSnapshot
      BY DEF IngestTypeOK, Accepted
  <2>2. visible' \in [Sessions -> [rev : Nat, src : Nat]]
      BY <1>1, <2>1, ReplaceType DEF InsertRows, IngestTypeOK
  <2> QED
      BY <1>1, <2>1, <2>2 DEF InsertRows, SetPhase, IngestTypeOK, Running, Answered
<1>2. ASSUME NEW q \in Requests, ServerStep(q)
      PROVE  TypeOK'
  <2>1. CASE InsertRows(q, "stored")
      BY <1>1, <1>2, <2>1 DEF ServerStep, outboxVars, OutboxTypeOK
  <2>2. CASE CheckCompleted(q) \/ RejectBatch(q)
    <3>1. \E phase \in Running \cup Answered : SetPhase(q, phase)
        BY <2>2 DEF CheckCompleted, RejectBatch, Running, Answered
    <3>2. IngestTypeOK'
        BY <2>2, <3>1, SetPhaseType DEF CheckCompleted, RejectBatch, IngestTypeOK
    <3> QED
        BY <1>2, <3>2 DEF ServerStep, outboxVars, OutboxTypeOK
  <2>3. CASE RecordBatch(q)
    <3>1. \E phase \in Running \cup Answered : SetPhase(q, phase)
        BY <2>3 DEF RecordBatch, Running, Answered
    <3>2. IngestTypeOK'
        BY <2>3, <3>1, SetPhaseType DEF RecordBatch, IngestTypeOK
    <3> QED
        BY <1>2, <3>2 DEF ServerStep, outboxVars, OutboxTypeOK
  <2> QED
      BY <1>2, <2>1, <2>2, <2>3 DEF ServerStep
<1>3. ASSUME NEW q \in Requests, ServerFault(q)
      PROVE  TypeOK'
  <2>1. IngestTypeOK'
    <3>1. CASE InsertRows(q, "failed")
        BY <1>1, <3>1
    <3>2. CASE RejectClient(q) \/ RequestFails(q)
      <4>1. \E phase \in Running \cup Answered : SetPhase(q, phase)
          BY <3>2 DEF RejectClient, RequestFails, Answered
      <4> QED
          BY <3>2, <4>1, SetPhaseType DEF RejectClient, RequestFails, IngestTypeOK
    <3> QED
        BY <1>3, <3>1, <3>2 DEF ServerFault
  <2> QED
      BY <1>3, <2>1, UploadAssumption DEF ServerFault, Fault, outboxVars, OutboxTypeOK
<1>4. ASSUME NEW q \in Requests, DiscardAnswer(q)
      PROVE  TypeOK'
    BY <1>4 DEF DiscardAnswer, Discard, FreeRequest, outboxVars, OutboxTypeOK, IngestTypeOK
<1>5. CASE RestartServer
  <2>1. PICK repriced \in SUBSET Sessions : Restart(repriced)
      BY <1>5 DEF RestartServer
  <2>2. IngestTypeOK'
      BY <2>1 DEF Restart, IngestTypeOK, Answered
  <2> QED
      BY <1>5, <2>2, UploadAssumption DEF RestartServer, outboxVars, OutboxTypeOK
<1> QED
    BY <1>2, <1>3, <1>4, <1>5

LEMMA TypeNext == TypeOK /\ [Next]_vars => TypeOK'
<1> SUFFICES ASSUME TypeOK, [Next]_vars PROVE TypeOK'
    OBVIOUS
<1>1. CASE Next
    BY <1>1, ScanStepType, ClientStepType, ServerStepType DEF Next
<1>2. CASE UNCHANGED vars
    BY <1>2 DEF vars, outboxVars, serverVars, TypeOK, OutboxTypeOK, IngestTypeOK
<1> QED
    BY <1>1, <1>2

\* Every reachable state is made of rows, requests and counters as described.
THEOREM TypeCorrect == Spec => []TypeOK
BY InitType, TypeNext, PTL DEF Spec

-----------------------------------------------------------------------------
(***************************************************************************)
(* Acknowledged rows are stored.  AckedIsStored alone is not inductive: an *)
(* answer in flight, a batch recorded as completed and a draft that is     *)
(* about to replace a row all decide what a later step may acknowledge.    *)
(* UploadInv says what is true of each of them.                            *)
(***************************************************************************)
LEMMA InitInv == Init => UploadInv
<1> SUFFICES ASSUME Init PROVE UploadInv
    OBVIOUS
<1>1. TypeOK
    BY InitType
<1>2. RevisionsAreFresh /\ AckedIsStored
    BY DEF Init, OutboxInit, AbsentRow, RevisionsAreFresh, AckedIsStored
<1>3. InFlightIsNotNewer /\ UploadersOwnRequests
    BY DEF Init, IdleUpload, InFlightIsNotNewer, UploadersOwnRequests
<1>4. ClaimsAreStored
    BY DEF Init, IngestInit, FreeRequest, ClaimsAreStored, CompletedIsStored
<1> QED
    BY <1>1, <1>2, <1>3, <1>4 DEF UploadInv

\* The scanning side: rows and drafts move, the server and the uploads do not.
LEMMA ScanStepInv == UploadInv /\ ScanStep => UploadInv'
<1> SUFFICES ASSUME UploadInv, ScanStep PROVE UploadInv'
    OBVIOUS
<1> USE DEF UploadInv
<1>1. TypeOK'
    BY ScanStepType
<1>2. UploadersOwnRequests' /\ ClaimsAreStored'
    BY DEF ScanStep, serverVars, UploadersOwnRequests, ClaimsAreStored, CompletedIsStored
<1>3. UNCHANGED <<uploads, stored>>
    BY DEF ScanStep, serverVars
<1>t. /\ outbox \in [Sessions -> Row] /\ lastRevision \in Nat /\ drafts \subseteq Snapshot
      /\ \A u \in Uploaders : uploads[u].batch \subseteq Snapshot
      /\ \A s \in Sessions : outbox[s].rev \in Nat
    BY DEF TypeOK, OutboxTypeOK, Row, AbsentRow
<1>4. ASSUME NEW s \in Sessions, NEW c \in Contents, NEW o \in Observed,
             NextRevision(s, c, o)
      PROVE  RevisionsAreFresh' /\ InFlightIsNotNewer' /\ AckedIsStored'
  <2> DEFINE d == [key |-> s, rev |-> lastRevision', content |-> c]
  <2>1. /\ drafts' = drafts \cup {d} /\ lastRevision' > lastRevision
        /\ lastRevision' \in Nat /\ outbox' = outbox
      BY <1>4, <1>t, UploadAssumption DEF NextRevision, NextRevisionAfter
  <2>2. RevisionsAreFresh'
      BY <2>1, <1>t DEF RevisionsAreFresh, Snapshot
  <2>3. InFlightIsNotNewer'
      BY <2>1, <1>3, <1>t DEF InFlightIsNotNewer, Snapshot, QueuedSnapshot
  <2> QED
      BY <2>1, <2>2, <2>3, <1>3 DEF AckedIsStored, QueuedSnapshot
<1>5. ASSUME NEW d \in drafts, QueueSnapshot(d)
      PROVE  RevisionsAreFresh' /\ InFlightIsNotNewer' /\ AckedIsStored'
  <2>1. d.key \in Sessions /\ d.rev \in Nat /\ lastRevision' = lastRevision
        /\ drafts' = drafts \ {d}
      BY <1>5, <1>t DEF Snapshot, QueueSnapshot
  <2>2. CASE d.rev >= outbox[d.key].rev
    <3>1. /\ outbox'[d.key].status = "pending" /\ outbox'[d.key].rev = d.rev
          /\ \A s \in Sessions : s # d.key => outbox'[s] = outbox[s]
        BY <1>5, <2>2, <1>t, <2>1 DEF QueueSnapshot
    <3>2. RevisionsAreFresh'
        BY <2>1, <3>1, <1>t DEF RevisionsAreFresh, Snapshot
    <3>3. d.rev > outbox[d.key].rev
        BY <2>1, <2>2, <1>t DEF RevisionsAreFresh
    <3>4. ASSUME NEW u \in Uploaders, NEW x \in uploads[u].batch
          PROVE  /\ x.rev <= lastRevision
                 /\ \A e \in drafts' : e.key = x.key => e.rev # x.rev
                 /\ \/ /\ outbox'[x.key].status = "absent"
                       /\ \A e \in drafts' : e.key = x.key => e.rev > x.rev
                    \/ outbox'[x.key].rev > x.rev
                    \/ outbox'[x.key].status # "absent" /\ QueuedSnapshot(x.key)' = x
      <4>1. x.key \in Sessions /\ x.rev \in Nat
          BY <1>t DEF Snapshot
      <4>2. CASE x.key = d.key
          BY <4>1, <4>2, <3>1, <3>3, <2>1, <1>t DEF InFlightIsNotNewer, QueuedSnapshot
      <4>3. CASE x.key # d.key
          BY <4>1, <4>3, <3>1, <2>1 DEF InFlightIsNotNewer, QueuedSnapshot
      <4> QED
          BY <4>2, <4>3
    <3>5. InFlightIsNotNewer'
        BY <3>4, <1>3, <2>1 DEF InFlightIsNotNewer
    <3> QED
        BY <3>1, <3>2, <3>5, <1>3 DEF AckedIsStored, QueuedSnapshot
  <2>3. CASE ~(d.rev >= outbox[d.key].rev)
      BY <1>5, <2>1, <2>3, <1>3, <1>t
         DEF QueueSnapshot, RevisionsAreFresh, InFlightIsNotNewer, AckedIsStored, QueuedSnapshot
  <2> QED
      BY <2>2, <2>3
<1>6. ASSUME NEW d \in drafts, DropDraft(d)
      PROVE  RevisionsAreFresh' /\ InFlightIsNotNewer' /\ AckedIsStored'
    BY <1>6, <1>3
       DEF DropDraft, RevisionsAreFresh, InFlightIsNotNewer, AckedIsStored, QueuedSnapshot
<1>7. ASSUME NEW expired \in SUBSET Sessions, PruneExpiredRows(expired)
      PROVE  RevisionsAreFresh' /\ InFlightIsNotNewer' /\ AckedIsStored'
  <2>1. /\ \A s \in Sessions : outbox'[s] = IF s \in expired THEN AbsentRow ELSE outbox[s]
        /\ UNCHANGED <<lastRevision, drafts>>
        /\ \A s \in expired : \A d \in drafts : d.key # s
      BY <1>7 DEF PruneExpiredRows
  <2>2. RevisionsAreFresh'
      BY <2>1, <1>t DEF RevisionsAreFresh, AbsentRow, Snapshot
  <2>3. InFlightIsNotNewer'
      BY <2>1, <1>3, <1>t DEF InFlightIsNotNewer, QueuedSnapshot, AbsentRow, Snapshot
  <2>4. AckedIsStored'
      BY <2>1, <1>3 DEF AckedIsStored, QueuedSnapshot, AbsentRow
  <2> QED
      BY <2>2, <2>3, <2>4
<1> QED
    BY <1>1, <1>2, <1>4, <1>5, <1>6, <1>7 DEF ScanStep

\* What stays true when neither rows nor drafts move and the server forgets
\* nothing it stored.
LEMMA OutboxSideInv ==
    ASSUME UploadInv, UNCHANGED outboxVars, stored \subseteq stored',
           \A u \in Uploaders : \/ uploads'[u].batch = uploads[u].batch
                                \/ uploads'[u].batch = {}
    PROVE  RevisionsAreFresh' /\ InFlightIsNotNewer' /\ AckedIsStored'
<1>1. RevisionsAreFresh' /\ AckedIsStored'
    BY DEF UploadInv, RevisionsAreFresh, AckedIsStored, QueuedSnapshot, outboxVars
<1>2. InFlightIsNotNewer'
    BY DEF UploadInv, InFlightIsNotNewer, QueuedSnapshot, outboxVars
<1> QED
    BY <1>1, <1>2

LEMMA StartUploadInv ==
    ASSUME UploadInv, NEW u \in Uploaders, NEW q \in Requests, StartUpload(u, q)
    PROVE  UploadInv'
<1> USE DEF UploadInv
<1> DEFINE batch == PendingBatch(BatchLimit)
<1>1. TypeOK'
    BY ClientStepType
<1>t. OutboxTypeOK /\ uploads \in [Uploaders -> [phase : {"idle", "sent", "exited"},
                              request : Requests \cup {NoRequest}, batch : SUBSET Snapshot]]
      /\ requests \in [Requests -> [phase : {"free"} \cup Running \cup Answered,
                                    batch : SUBSET IngestSnapshot]]
    BY DEF TypeOK, IngestTypeOK
<1>2. /\ requests[q].phase = "free"
      /\ requests' = [requests EXCEPT ![q] = [phase |-> "received", batch |-> batch]]
      /\ uploads' = [uploads EXCEPT ![u] = [phase |-> "sent", request |-> q, batch |-> batch]]
      /\ UNCHANGED <<outbox, lastRevision, drafts, clock, ingestBatches, stored>>
    BY DEF StartUpload, Receive, outboxVars
<1>3. RevisionsAreFresh' /\ AckedIsStored'
    BY <1>2 DEF RevisionsAreFresh, AckedIsStored, QueuedSnapshot
<1>4. ASSUME NEW x \in batch
      PROVE  /\ x.key \in Sessions /\ x.rev <= lastRevision
             /\ \A d \in drafts : d.key = x.key => d.rev # x.rev
             /\ outbox[x.key].status # "absent" /\ QueuedSnapshot(x.key) = x
  <2>1. /\ x.key \in Sessions /\ x = QueuedSnapshot(x.key)
        /\ outbox[x.key].status = "pending"
      BY <1>t, PendingBatchType
  <2>2. x.rev = outbox[x.key].rev
      BY <2>1 DEF QueuedSnapshot
  <2> QED
      BY <2>1, <2>2 DEF RevisionsAreFresh
<1>5. InFlightIsNotNewer'
  <2> SUFFICES ASSUME NEW v \in Uploaders, NEW x \in uploads'[v].batch
               PROVE  /\ x.rev <= lastRevision
                      /\ \A d \in drafts : d.key = x.key => d.rev # x.rev
                      /\ \/ /\ outbox[x.key].status = "absent"
                            /\ \A d \in drafts : d.key = x.key => d.rev > x.rev
                         \/ outbox[x.key].rev > x.rev
                         \/ outbox[x.key].status # "absent" /\ QueuedSnapshot(x.key) = x
      BY <1>2 DEF InFlightIsNotNewer, QueuedSnapshot
  <2>1. CASE v = u
      BY <2>1, <1>2, <1>t, <1>4
  <2>2. CASE v # u
      BY <2>2, <1>2, <1>t DEF InFlightIsNotNewer
  <2> QED
      BY <2>1, <2>2
<1>6. UploadersOwnRequests'
  <2>1. \A v \in Uploaders : uploads[v].request # q
      BY <1>2, UploadAssumption DEF UploadersOwnRequests
  <2>2. /\ uploads'[u].phase = "sent" /\ uploads'[u].request = q /\ uploads'[u].batch = batch
        /\ requests'[q].phase = "received" /\ requests'[q].batch = batch
        /\ \A v \in Uploaders : v # u => uploads'[v] = uploads[v]
        /\ \A p \in Requests : p # q => requests'[p] = requests[p]
      BY <1>2, <1>t
  <2> QED
      BY <2>1, <2>2, UploadAssumption DEF UploadersOwnRequests
<1>7. ClaimsAreStored'
    BY <1>2, <1>t DEF ClaimsAreStored, CompletedIsStored, Accepted, Rejected
<1> QED
    BY <1>1, <1>3, <1>5, <1>6, <1>7

\* An uploader that stops waiting and drops its request, or leaves it behind.
LEMMA LetGoInv ==
    ASSUME UploadInv, TypeOK', NEW u \in Uploaders, UNCHANGED <<stored, ingestBatches>>,
           uploads' = [uploads EXCEPT ![u] = IdleUpload]
               \/ uploads' = [uploads EXCEPT ![u] = ExitedUpload],
           requests' = requests
               \/ (uploads[u].phase = "sent"
                   /\ requests' = [requests EXCEPT ![uploads[u].request] = FreeRequest])
    PROVE  UploadersOwnRequests' /\ ClaimsAreStored'
<1> USE DEF UploadInv
<1>t. /\ uploads \in [Uploaders -> [phase : {"idle", "sent", "exited"},
                              request : Requests \cup {NoRequest}, batch : SUBSET Snapshot]]
      /\ requests \in [Requests -> [phase : {"free"} \cup Running \cup Answered,
                                    batch : SUBSET IngestSnapshot]]
    BY DEF TypeOK, IngestTypeOK
<1>1. /\ uploads'[u].phase # "sent" /\ uploads'[u].request = NoRequest
      /\ uploads'[u].batch = {}
      /\ \A v \in Uploaders : v # u => uploads'[v] = uploads[v]
    BY <1>t DEF IdleUpload, ExitedUpload
<1>2. \A p \in Requests : \/ requests'[p] = requests[p]
                          \/ requests'[p] = FreeRequest /\ p = uploads[u].request
                             /\ uploads[u].phase = "sent"
    BY <1>t
<1>3. UploadersOwnRequests'
  <2>1. ASSUME NEW v \in Uploaders, uploads'[v].phase = "sent"
        PROVE  /\ uploads'[v].request \in Requests
               /\ requests'[uploads'[v].request] = requests[uploads[v].request]
               /\ v # u
      BY <2>1, <1>1, <1>2 DEF UploadersOwnRequests
  <2>2. ASSUME NEW v \in Uploaders, NEW w \in Uploaders,
               uploads'[v].phase = "sent", uploads'[w].request = uploads'[v].request
        PROVE  v = w
      BY <2>1, <2>2, <1>1, UploadAssumption DEF UploadersOwnRequests
  <2> QED
      BY <2>1, <2>2, <1>1 DEF UploadersOwnRequests
<1>4. ClaimsAreStored'
    BY <1>2 DEF ClaimsAreStored, CompletedIsStored, Accepted, Rejected, FreeRequest
<1> QED
    BY <1>3, <1>4

LEMMA GiveUpInv ==
    ASSUME UploadInv, NEW u \in Uploaders,
           AbandonUpload(u) \/ HandleError(u) \/ Relaunch(u)
    PROVE  UploadInv'
<1> USE DEF UploadInv
<1>1. TypeOK'
    BY ClientStepType
<1>2. /\ UNCHANGED outboxVars /\ UNCHANGED <<stored, ingestBatches>>
      /\ uploads' = [uploads EXCEPT ![u] = IdleUpload]
               \/ uploads' = [uploads EXCEPT ![u] = ExitedUpload]
      /\ requests' = requests
               \/ (uploads[u].phase = "sent"
                   /\ requests' = [requests EXCEPT ![uploads[u].request] = FreeRequest])
    BY DEF AbandonUpload, HandleError, Relaunch, Discard, serverVars
<1>3. \A v \in Uploaders : uploads'[v].batch = uploads[v].batch \/ uploads'[v].batch = {}
    BY <1>2 DEF TypeOK, IdleUpload, ExitedUpload
<1>4. RevisionsAreFresh' /\ InFlightIsNotNewer' /\ AckedIsStored'
    BY <1>2, <1>3, OutboxSideInv
<1>5. UploadersOwnRequests' /\ ClaimsAreStored'
    BY <1>1, <1>2, LetGoInv
<1> QED
    BY <1>1, <1>4, <1>5

\* The step the invariant is for: the answer is about the batch the uploader
\* sent, the rows it marks hold snapshots of that batch, and those are stored.
LEMMA HandleAckInv ==
    ASSUME UploadInv, NEW u \in Uploaders, HandleAck(u)
    PROVE  UploadInv'
<1> USE DEF UploadInv
<1> DEFINE batch == uploads[u].batch
           answer == requests[uploads[u].request]
<1>1. TypeOK'
    BY ClientStepType
<1>t. /\ OutboxTypeOK /\ outbox \in [Sessions -> Row] /\ lastRevision \in Nat
      /\ \A s \in Sessions : outbox[s].rev \in Nat
      /\ \A v \in Uploaders : uploads[v].batch \subseteq Snapshot
      /\ drafts \subseteq Snapshot
    BY DEF TypeOK, OutboxTypeOK, Row, AbsentRow
<1>2. PICK keys : outbox' = Acknowledged(batch, keys)
    BY DEF HandleAck
<1>3. UNCHANGED <<lastRevision, drafts, stored, ingestBatches>>
      /\ uploads' = [uploads EXCEPT ![u] = IdleUpload]
      /\ requests' = [requests EXCEPT ![uploads[u].request] = FreeRequest]
      /\ uploads[u].phase = "sent"
    BY DEF HandleAck, Discard
<1>4. UploadersOwnRequests' /\ ClaimsAreStored'
    BY <1>1, <1>3, LetGoInv
<1>5. \A s \in Sessions : /\ outbox'[s].rev = outbox[s].rev
                          /\ outbox'[s].content = outbox[s].content
                          /\ outbox'[s].status = "absent" <=> outbox[s].status = "absent"
    BY <1>2, <1>t, AcknowledgedType
<1>6. RevisionsAreFresh'
    BY <1>3, <1>5, <1>t DEF RevisionsAreFresh, Snapshot
<1>7. InFlightIsNotNewer'
  <2>1. \A v \in Uploaders : uploads'[v].batch \subseteq uploads[v].batch
      BY <1>3 DEF TypeOK, IdleUpload
  <2>2. \A v \in Uploaders : \A x \in uploads[v].batch :
            x.key \in Sessions /\ QueuedSnapshot(x.key)' = QueuedSnapshot(x.key)
      BY <1>5, <1>t DEF QueuedSnapshot, Snapshot
  <2> QED
      BY <2>1, <2>2, <1>3, <1>5, <1>t DEF InFlightIsNotNewer
<1>8. AckedIsStored'
  <2> SUFFICES ASSUME NEW s \in Sessions, outbox'[s].status = "acknowledged",
                      outbox'[s].content # "invalid"
               PROVE  QueuedSnapshot(s) \in stored
      BY <1>3, <1>5 DEF AckedIsStored, QueuedSnapshot
  <2>1. CASE outbox[s].status = "acknowledged"
      BY <2>1, <1>5 DEF AckedIsStored
  <2>2. CASE outbox[s].status # "acknowledged"
    <3>1. PICK x \in batch : x.key = s /\ outbox[s].status # "absent" /\ outbox[s].rev <= x.rev
        BY <2>2, <1>2 DEF Acknowledged
    <3>2. QueuedSnapshot(s) = x
        BY <3>1, <1>t DEF InFlightIsNotNewer, Snapshot
    <3>3. x.content # "invalid"
        BY <3>2, <1>5 DEF QueuedSnapshot
    <3>4. answer.batch = batch /\ uploads[u].request \in Requests
          /\ answer.phase \in {"duplicate", "processed"}
        BY <1>3 DEF UploadersOwnRequests, HandleAck
    <3>5. x \in stored
        BY <3>1, <3>3, <3>4 DEF ClaimsAreStored, Accepted, Rejected
    <3> QED
        BY <3>2, <3>5
  <2> QED
      BY <2>1, <2>2
<1> QED
    BY <1>1, <1>4, <1>6, <1>7, <1>8

\* A step of the server on one request: the outbox side follows from what is
\* stored, the rest is about that request.
LEMMA ServerRequestInv ==
    ASSUME UploadInv, NEW q \in Requests, ServerStep(q) \/ ServerFault(q)
    PROVE  UploadInv'
<1> USE DEF UploadInv
<1>1. TypeOK'
    BY ServerStepType
<1>t. IngestTypeOK /\ requests[q].batch \subseteq IngestSnapshot
    BY DEF TypeOK, IngestTypeOK
<1>2. UNCHANGED outboxVars /\ UNCHANGED uploads
    BY DEF ServerStep, ServerFault
<1>3. stored \subseteq stored'
    BY DEF ServerStep, ServerFault, CheckCompleted, RejectBatch, InsertRows, RecordBatch,
           RejectClient, RequestFails
<1>4. RevisionsAreFresh' /\ InFlightIsNotNewer' /\ AckedIsStored'
    BY <1>2, <1>3, OutboxSideInv
<1>5. PICK phase \in Running \cup Answered : SetPhase(q, phase)
    BY DEF ServerStep, ServerFault, CheckCompleted, RejectBatch, InsertRows, RecordBatch,
           RejectClient, RequestFails, Running, Answered
<1>6. /\ requests'[q].phase = phase
      /\ \A p \in Requests : /\ requests'[p].batch = requests[p].batch
                             /\ p # q => requests'[p] = requests[p]
    BY <1>5, <1>t, SetPhaseType
<1>7. UploadersOwnRequests'
    BY <1>2, <1>6 DEF UploadersOwnRequests, Running, Answered
<1>8. ClaimsAreStored'
  <2>1. CASE CheckCompleted(q)
    <3>1. /\ UNCHANGED <<stored, ingestBatches>>
          /\ requests'[q].phase \in {"duplicate", "open"}
          /\ requests'[q].phase = "duplicate" => requests[q].batch \in ingestBatches
        BY <2>1, <1>t DEF CheckCompleted, SetPhase, IngestTypeOK
    <3>2. CompletedIsStored'
        BY <3>1 DEF ClaimsAreStored, CompletedIsStored
    <3>3. ASSUME NEW p \in Requests
          PROVE  /\ requests'[p].phase \in {"stored", "processed"} =>
                      Accepted(requests'[p].batch) \cup Rejected(requests'[p].batch) =
                          requests'[p].batch
                      /\ Accepted(requests'[p].batch) \subseteq stored'
                 /\ requests'[p].phase = "duplicate" => requests'[p].batch \subseteq stored'
      <4>1. CASE p = q
          BY <4>1, <3>1, <1>6 DEF ClaimsAreStored, CompletedIsStored
      <4>2. CASE p # q
          BY <4>2, <3>1, <1>6 DEF ClaimsAreStored
      <4> QED
          BY <4>1, <4>2
    <3> QED
        BY <3>2, <3>3 DEF ClaimsAreStored, Accepted, Rejected
  <2>2. CASE RejectBatch(q) \/ RejectClient(q) \/ RequestFails(q)
    <3>1. requests'[q].phase \in {"failed", "unsupported"} /\ UNCHANGED <<stored, ingestBatches>>
        BY <2>2, <1>t DEF RejectBatch, RejectClient, RequestFails, SetPhase, IngestTypeOK
    <3> QED
        BY <3>1, <1>6 DEF ClaimsAreStored, CompletedIsStored, Accepted, Rejected
  <2>3. ASSUME NEW outcome \in {"stored", "failed"}, InsertRows(q, outcome)
        PROVE  ClaimsAreStored'
    <3>1. Accepted(requests[q].batch) \cup Rejected(requests[q].batch) = requests[q].batch
        BY <2>3, <1>t DEF InsertRows, Overpriced, Accepted, Rejected, IngestSnapshot, Verdicts
    <3>2. requests'[q].phase = outcome
        BY <2>3, <1>t DEF InsertRows, SetPhase, IngestTypeOK
    <3>3. stored' = stored \cup Accepted(requests[q].batch) /\ ingestBatches' = ingestBatches
        BY <2>3 DEF InsertRows
    <3> QED
        BY <3>1, <3>2, <3>3, <1>6 DEF ClaimsAreStored, CompletedIsStored, Accepted, Rejected
  <2>4. CASE RecordBatch(q)
    <3>1. requests[q].phase = "stored" /\ stored' = stored
          /\ (\/ ingestBatches' = ingestBatches
              \/ ingestBatches' = ingestBatches \cup {requests[q].batch}
                 /\ Rejected(requests[q].batch) = {})
        BY <2>4 DEF RecordBatch
    <3>2. requests'[q].phase = "processed"
        BY <2>4, <1>t DEF RecordBatch, SetPhase, IngestTypeOK
    <3>3. CompletedIsStored'
        BY <3>1 DEF ClaimsAreStored, CompletedIsStored
    <3> QED
        BY <3>1, <3>2, <3>3, <1>6 DEF ClaimsAreStored, Accepted, Rejected
  <2> QED
      BY <2>1, <2>2, <2>3, <2>4 DEF ServerStep, ServerFault
<1> QED
    BY <1>1, <1>4, <1>7, <1>8

LEMMA ServerOtherInv ==
    ASSUME UploadInv, (\E q \in Requests : DiscardAnswer(q)) \/ RestartServer
    PROVE  UploadInv'
<1> USE DEF UploadInv
<1>1. TypeOK'
    BY ServerStepType
<1>2. UNCHANGED outboxVars /\ UNCHANGED <<uploads, stored, ingestBatches>>
    BY DEF DiscardAnswer, RestartServer, Discard, Restart
<1>3. RevisionsAreFresh' /\ InFlightIsNotNewer' /\ AckedIsStored'
    BY <1>2, OutboxSideInv
<1>4. ASSUME NEW q \in Requests, DiscardAnswer(q)
      PROVE  UploadersOwnRequests' /\ ClaimsAreStored'
  <2>1. /\ \A p \in Requests : p # q => requests'[p] = requests[p]
        /\ requests'[q] = FreeRequest
        /\ \A u \in Uploaders : uploads[u].request # q
      BY <1>4 DEF DiscardAnswer, Discard, TypeOK, IngestTypeOK
  <2> QED
      BY <2>1, <1>2 DEF UploadersOwnRequests, ClaimsAreStored, CompletedIsStored, FreeRequest,
                        Accepted, Rejected
<1>5. CASE RestartServer
  <2>1. \A p \in Requests : requests'[p] = requests[p]
            \/ (requests'[p].phase = "failed" /\ requests'[p].batch = requests[p].batch)
      BY <1>5 DEF RestartServer, Restart, TypeOK, IngestTypeOK
  <2>2. UploadersOwnRequests' /\ ClaimsAreStored'
      BY <2>1, <1>2 DEF UploadersOwnRequests, ClaimsAreStored, CompletedIsStored, Accepted,
                        Rejected
  <2> QED
      BY <2>2, <1>1, <1>3
<1> QED
    BY <1>1, <1>3, <1>4, <1>5

LEMMA NextInv == UploadInv /\ [Next]_vars => UploadInv'
<1> SUFFICES ASSUME UploadInv, [Next]_vars PROVE UploadInv'
    OBVIOUS
<1>1. CASE Next
    BY <1>1, ScanStepInv, StartUploadInv, GiveUpInv, HandleAckInv, ServerRequestInv,
       ServerOtherInv DEF Next
<1>2. CASE UNCHANGED vars
    BY <1>2 DEF vars, outboxVars, serverVars, UploadInv, TypeOK, OutboxTypeOK, IngestTypeOK,
                RevisionsAreFresh, InFlightIsNotNewer, UploadersOwnRequests, ClaimsAreStored,
                CompletedIsStored, AckedIsStored, QueuedSnapshot, Accepted, Rejected
<1> QED
    BY <1>1, <1>2

\* Whatever is lost, repeated, interrupted or restarted, a snapshot the client
\* stops sending is in ClickHouse or was rejected as invalid.
THEOREM AckedSafe == Spec => []AckedIsStored
<1>1. UploadInv => AckedIsStored
    BY DEF UploadInv
<1> QED
    BY <1>1, InitInv, NextInv, PTL DEF Spec

\* A batch that ingest_batches names as completed is in ClickHouse in full.
THEOREM CompletedSafe == Spec => []CompletedIsStored
<1>1. UploadInv => CompletedIsStored
    BY DEF UploadInv, ClaimsAreStored
<1> QED
    BY <1>1, InitInv, NextInv, PTL DEF Spec

\* A snapshot that is in flight is never newer than the row it came from.
THEOREM InFlightSafe == Spec => []InFlightIsNotNewer
<1>1. UploadInv => InFlightIsNotNewer
    BY DEF UploadInv
<1> QED
    BY <1>1, InitInv, NextInv, PTL DEF Spec

(***************************************************************************)
(* Upload implements Delivery.                                             *)
(***************************************************************************)
\* The initial state is one of Delivery.
LEMMA InitDelivers == Init => Abstract!DeliveryInit
BY DEF Init, OutboxInit, IngestInit, AbsentRow, Offers, Abstract!DeliveryInit,
       Abstract!NoOffer

\* A scan's step offers a newer snapshot, forgets settled ones, or changes
\* nothing that Delivery sees.
LEMMA ScanStepDelivers ==
    ASSUME UploadInv, ScanStep
    PROVE  Abstract!DeliveryNext \/ UNCHANGED <<Offers, stored>>
<1>t. /\ outbox \in [Sessions -> Row] /\ drafts \subseteq Snapshot
      /\ \A s \in Sessions : outbox[s].rev \in Nat
      /\ stored' = stored
    BY DEF UploadInv, TypeOK, OutboxTypeOK, Row, AbsentRow, ScanStep, serverVars
<1>1. CASE outbox' = outbox
    BY <1>1, <1>t DEF Offers
<1>2. ASSUME NEW d \in drafts, QueueSnapshot(d), outbox' # outbox
      PROVE  Abstract!DeliveryNext
  <2>1. /\ d.key \in Sessions /\ d.rev \in Nat /\ d.content \in Contents
        /\ d.rev > outbox[d.key].rev
      BY <1>2, <1>t DEF UploadInv, RevisionsAreFresh, Snapshot, QueueSnapshot
  <2>2. outbox' = [outbox EXCEPT ![d.key] = [status |-> "pending", rev |-> d.rev,
                                             content |-> d.content, at |-> clock + 1]]
      BY <1>2 DEF QueueSnapshot
  <2>3. Offers'[d.key] = [status |-> "pending", rev |-> d.rev, content |-> d.content]
      BY <1>t, <2>1, <2>2 DEF Offers
  <2>4. \A s \in Sessions \ {d.key} : Offers'[s] = Offers[s]
      BY <1>t, <2>2 DEF Offers
  <2>5. Offers' = [Offers EXCEPT ![d.key] = Offers'[d.key]]
      BY <2>1, <2>4 DEF Offers
  <2>6. Offers[d.key].rev = outbox[d.key].rev
      BY <2>1 DEF Offers
  <2>7. Abstract!Offer(d.key)
      BY <1>t, <2>1, <2>3, <2>5, <2>6 DEF Abstract!Offer
  <2> QED
      BY <2>1, <2>7 DEF Abstract!DeliveryNext
<1>3. ASSUME NEW expired \in SUBSET Sessions, PruneExpiredRows(expired)
      PROVE  Abstract!DeliveryNext
  <2>1. \A s \in expired : Offers[s].status = "acknowledged"
      BY <1>3 DEF PruneExpiredRows, Offers
  <2>2. \A s \in Sessions : Offers'[s] = IF s \in expired THEN Abstract!NoOffer ELSE Offers[s]
      BY <1>3 DEF PruneExpiredRows, Offers, AbsentRow, Abstract!NoOffer
  <2>3. Offers' = [s \in Sessions |-> IF s \in expired THEN Abstract!NoOffer ELSE Offers[s]]
      BY <2>2 DEF Offers
  <2>4. Abstract!Forget(expired)
      BY <1>t, <2>1, <2>3 DEF Abstract!Forget
  <2> QED
      BY <2>4 DEF Abstract!DeliveryNext
<1> QED
    BY <1>1, <1>2, <1>3 DEF ScanStep, NextRevision, DropDraft

\* An answer settles rows whose snapshots are stored or were rejected: that
\* UploadInv holds after the step says so.
LEMMA HandleAckDelivers ==
    ASSUME UploadInv, NEW u \in Uploaders, HandleAck(u)
    PROVE  Abstract!DeliveryNext
<1> DEFINE settled == {s \in Sessions : outbox[s].status = "pending"
                                        /\ outbox'[s].status = "acknowledged"}
<1>t. outbox \in [Sessions -> Row] /\ stored' = stored
    BY DEF UploadInv, TypeOK, OutboxTypeOK, HandleAck, Discard
<1>1. PICK batch, keys : outbox' = Acknowledged(batch, keys)
    BY DEF HandleAck
<1>2. AckedIsStored'
    BY HandleAckInv DEF UploadInv
<1>3. \A s \in Sessions :
         /\ outbox'[s].rev = outbox[s].rev /\ outbox'[s].content = outbox[s].content
         /\ outbox'[s].status = IF s \in settled THEN "acknowledged" ELSE outbox[s].status
    BY <1>1, <1>t DEF Acknowledged, Row, AbsentRow
<1>4. \A s \in settled : /\ Offers[s].status = "pending"
                         /\ \/ Abstract!Offered(s) \in stored
                            \/ Offers[s].content \in {"invalid"}
    BY <1>2, <1>3, <1>t DEF AckedIsStored, QueuedSnapshot, Offers, Abstract!Offered
<1>5. \A s \in Sessions :
         Offers'[s] = IF s \in settled THEN [Offers[s] EXCEPT !.status = "acknowledged"]
                      ELSE Offers[s]
    BY <1>3 DEF Offers
<1>6. Offers' = [s \in Sessions |->
         IF s \in settled THEN [Offers[s] EXCEPT !.status = "acknowledged"] ELSE Offers[s]]
    BY <1>5 DEF Offers
<1>7. Abstract!Settle(settled)
    BY <1>t, <1>4, <1>6 DEF Abstract!Settle
<1> QED
    BY <1>7 DEF Abstract!DeliveryNext

\* Every other step leaves the rows alone and stores valid snapshots or none.
LEMMA OtherStepDelivers ==
    ASSUME UploadInv, Next, ~ScanStep, ~ \E u \in Uploaders : HandleAck(u)
    PROVE  Abstract!DeliveryNext \/ UNCHANGED <<Offers, stored>>
<1>1. Offers' = Offers
    BY DEF Next, StartUpload, AbandonUpload, HandleError, Relaunch, ServerStep,
           ServerFault, DiscardAnswer, RestartServer, outboxVars, Offers
<1>2. CASE \E q \in Requests : InsertRows(q, "stored") \/ InsertRows(q, "failed")
  <2>1. /\ stored \subseteq stored'
        /\ \A x \in stored' \ stored : x.content \in {"valid"}
      BY <1>2 DEF InsertRows, Accepted
  <2>2. Abstract!Arrive
      BY <1>1, <2>1 DEF Abstract!Arrive
  <2> QED
      BY <2>2 DEF Abstract!DeliveryNext
<1>3. CASE stored' = stored
    BY <1>1, <1>3
<1> QED
    BY <1>2, <1>3 DEF Next, StartUpload, AbandonUpload, HandleError, Relaunch, ServerStep,
        ServerFault, DiscardAnswer, RestartServer, Receive, Discard, Restart, RejectClient,
        CheckCompleted, RejectBatch, RecordBatch, RequestFails, serverVars

\* Every behaviour of the outbox, the uploads and the ingest endpoint is one of
\* at-least-once delivery: a queued snapshot is given up only for a newer one
\* or when it is stored or rejected, whatever fails or is repeated.
THEOREM DeliveryImplemented == Spec => ImplementsDelivery
<1>1. UploadInv /\ [Next]_vars => [Abstract!DeliveryNext]_<<Offers, stored>>
  <2> SUFFICES ASSUME UploadInv, [Next]_vars
               PROVE  Abstract!DeliveryNext \/ UNCHANGED <<Offers, stored>>
      OBVIOUS
  <2>1. CASE UNCHANGED vars
      BY <2>1 DEF vars, outboxVars, serverVars, Offers
  <2>2. CASE Next
      BY <2>2, ScanStepDelivers, HandleAckDelivers, OtherStepDelivers
  <2> QED
      BY <2>1, <2>2
<1> QED
    BY <1>1, InitInv, InitDelivers, NextInv, PTL
       DEF Spec, ImplementsDelivery, Abstract!DeliverySpec, Abstract!deliveryVars

-----------------------------------------------------------------------------
(***************************************************************************)
(* The newest snapshot is visible.  reprice_unknown_history raises the     *)
(* revision of a stored row, by one at each start of the server, and a     *)
(* snapshot with a revision below that is hidden.  VisibleInv says how far *)
(* the two can be apart.                                                   *)
(***************************************************************************)
\* A batch has one row of a session.
OneRowPerSession ==
    \A q \in Requests : \A x, y \in requests[q].batch : x.key = y.key => x = y

RaisedByRestarts ==
    \A s \in Sessions : /\ visible[s].src <= visible[s].rev
                        /\ visible[s].rev <= visible[s].src + restarts

\* A stored snapshot is shown, replaced by a newer one, or fewer revisions ahead
\* of the shown one than there were restarts.
HiddenByRestarts ==
    \A x \in stored : \/ x.rev <= visible[x.key].src
                      \/ x.rev < visible[x.key].src + restarts

VisibleInv == TypeOK /\ OneRowPerSession /\ RaisedByRestarts /\ HiddenByRestarts

\* What ClickHouse keeps of an insert: the session's row of the block where its
\* revision is not smaller, the row it had otherwise.
LEMMA ReplaceKeepsNewest ==
    ASSUME NEW rows \in SUBSET IngestSnapshot,
           \A x, y \in rows : x.key = y.key => x = y,
           NEW shown \in [Sessions -> [rev : Nat, src : Nat]], NEW s \in Sessions
    PROVE  /\ \A x \in rows : x.key = s /\ x.rev >= shown[s].rev =>
                 Replace(shown, rows)[s] = [rev |-> x.rev, src |-> x.rev]
           /\ (\A x \in rows : x.key = s => ~(x.rev >= shown[s].rev)) =>
                 Replace(shown, rows)[s] = shown[s]
<1> DEFINE newer(x) == x.key = s /\ x.rev >= shown[s].rev
<1>1. ASSUME NEW x \in rows, newer(x)
      PROVE  Replace(shown, rows)[s] = [rev |-> x.rev, src |-> x.rev]
  <2> DEFINE y == CHOOSE y \in rows : newer(y)
  <2>1. y \in rows /\ newer(y)
      BY <1>1
  <2>2. y = x
      BY <1>1, <2>1
  <2>3. Replace(shown, rows)[s] = [rev |-> y.rev, src |-> y.rev]
      BY <1>1 DEF Replace
  <2> QED
      BY <2>2, <2>3
<1>2. ASSUME \A x \in rows : x.key = s => ~(x.rev >= shown[s].rev)
      PROVE  Replace(shown, rows)[s] = shown[s]
    BY <1>2 DEF Replace
<1> QED
    BY <1>1, <1>2

LEMMA InsertVisible ==
    ASSUME VisibleInv, NEW q \in Requests, NEW outcome, InsertRows(q, outcome), restarts' = restarts
    PROVE  RaisedByRestarts' /\ HiddenByRestarts'
<1> DEFINE rows == Accepted(requests[q].batch)
<1>1. /\ rows \in SUBSET IngestSnapshot /\ \A x, y \in rows : x.key = y.key => x = y
      /\ visible \in [Sessions -> [rev : Nat, src : Nat]] /\ stored \subseteq IngestSnapshot
      /\ restarts \in Nat
    BY UploadAssumption DEF VisibleInv, TypeOK, IngestTypeOK, OneRowPerSession, Accepted
<1>2. stored' = stored \cup rows /\ visible' = Replace(visible, rows)
    BY DEF InsertRows
<1> HIDE DEF rows
<1>3. \A s \in Sessions : /\ visible[s].rev \in Nat /\ visible[s].src \in Nat
                          /\ visible[s].src <= visible[s].rev
                          /\ visible[s].rev <= visible[s].src + restarts
    BY <1>1 DEF VisibleInv, RaisedByRestarts
<1>4. \A x \in stored \cup rows : x.key \in Sessions /\ x.rev \in Nat
    BY <1>1 DEF IngestSnapshot
\* A row gives way to one whose revision is not smaller, or stays.
<1>5. ASSUME NEW s \in Sessions
      PROVE  \/ /\ visible'[s] = visible[s]
                /\ \A x \in rows : x.key = s => x.rev < visible[s].rev
             \/ \E x \in rows : /\ x.key = s /\ x.rev >= visible[s].rev
                                /\ visible'[s].rev = x.rev /\ visible'[s].src = x.rev
  <2>1. CASE \E x \in rows : x.key = s /\ x.rev >= visible[s].rev
    <3>1. PICK x \in rows : x.key = s /\ x.rev >= visible[s].rev
        BY <2>1
    <3>2. visible'[s] = [rev |-> x.rev, src |-> x.rev]
        BY <1>1, <1>2, <3>1, ReplaceKeepsNewest
    <3> QED
        BY <3>1, <3>2
  <2>2. CASE \A x \in rows : x.key = s => ~(x.rev >= visible[s].rev)
    <3>1. visible'[s] = visible[s]
        BY <1>1, <1>2, <2>2, ReplaceKeepsNewest
    <3> QED
        BY <1>3, <1>4, <2>2, <3>1
  <2> QED
      BY <2>1, <2>2
<1>6. RaisedByRestarts'
  <2> SUFFICES ASSUME NEW s \in Sessions
               PROVE  /\ visible'[s].src <= visible'[s].rev
                      /\ visible'[s].rev <= visible'[s].src + restarts
      BY DEF RaisedByRestarts
  <2> QED
      BY <1>1, <1>3, <1>4, <1>5
<1>7. ASSUME NEW x \in stored'
      PROVE  x.rev <= visible'[x.key].src \/ x.rev < visible'[x.key].src + restarts
  <2>1. CASE x \in stored
    <3>1. x.rev <= visible[x.key].src \/ x.rev < visible[x.key].src + restarts
        BY <2>1 DEF VisibleInv, HiddenByRestarts
    <3>2. visible'[x.key].src \in Nat /\ visible[x.key].src <= visible'[x.key].src
        BY <1>3, <1>4, <1>5, <2>1
    <3> QED
        BY <1>1, <1>3, <1>4, <2>1, <3>1, <3>2
  <2>2. CASE x \in rows
    <3>1. CASE visible'[x.key] = visible[x.key] /\ x.rev < visible[x.key].rev
        BY <1>1, <1>3, <1>4, <2>2, <3>1
    <3>2. ASSUME NEW y \in rows, y.key = x.key, visible'[x.key].src = y.rev
          PROVE  x.rev <= visible'[x.key].src
        BY <1>1, <1>4, <2>2, <3>2
    <3> QED
        BY <1>4, <1>5, <2>2, <3>1, <3>2
  <2> QED
      BY <1>2, <2>1, <2>2
<1> QED
    BY <1>6, <1>7 DEF HiddenByRestarts

LEMMA RestartVisible ==
    ASSUME VisibleInv, RestartServer
    PROVE  RaisedByRestarts' /\ HiddenByRestarts'
<1>1. PICK repriced \in SUBSET Sessions : Restart(repriced)
    BY DEF RestartServer
<1>2. /\ restarts' = restarts + 1 /\ restarts \in Nat /\ stored' = stored
      /\ visible \in [Sessions -> [rev : Nat, src : Nat]] /\ stored \subseteq IngestSnapshot
    BY <1>1, UploadAssumption DEF RestartServer, Restart, VisibleInv, TypeOK, IngestTypeOK
<1>3. \A s \in Sessions : /\ visible[s].rev \in Nat /\ visible[s].src \in Nat
                          /\ visible[s].src <= visible[s].rev
                          /\ visible[s].rev <= visible[s].src + restarts
    BY <1>2 DEF VisibleInv, RaisedByRestarts
<1>4. ASSUME NEW s \in Sessions
      PROVE  /\ visible'[s].src = visible[s].src
             /\ visible'[s].rev = visible[s].rev \/ visible'[s].rev = visible[s].rev + 1
  <2>1. visible'[s] = IF s \in repriced THEN [visible[s] EXCEPT !.rev = visible[s].rev + 1] ELSE visible[s]
      BY <1>1 DEF Restart
  <2> QED
      BY <1>2, <2>1
<1>5. RaisedByRestarts'
  <2> SUFFICES ASSUME NEW s \in Sessions
               PROVE  /\ visible'[s].src <= visible'[s].rev
                      /\ visible'[s].rev <= visible'[s].src + restarts'
      BY DEF RaisedByRestarts
  <2> QED
      BY <1>2, <1>3, <1>4
<1>6. ASSUME NEW x \in stored'
      PROVE  x.rev <= visible'[x.key].src \/ x.rev < visible'[x.key].src + restarts'
  <2>1. x.key \in Sessions /\ x.rev \in Nat
      BY <1>2 DEF IngestSnapshot
  <2>2. x.rev <= visible[x.key].src \/ x.rev < visible[x.key].src + restarts
      BY <1>2 DEF VisibleInv, HiddenByRestarts
  <2> QED
      BY <1>2, <1>3, <1>4, <2>1, <2>2
<1> QED
    BY <1>5, <1>6 DEF HiddenByRestarts

\* A request keeps its batch, and a new one is a set of rows of the outbox.
LEMMA BatchesVisible ==
    ASSUME VisibleInv, TypeOK', [Next]_vars
    PROVE  OneRowPerSession'
<1>1. ASSUME \A q \in Requests : requests'[q].batch = requests[q].batch \/ requests'[q].batch = {}
      PROVE  OneRowPerSession'
    BY <1>1 DEF VisibleInv, OneRowPerSession
<1>2. ASSUME NEW q \in Requests, NEW phase, SetPhase(q, phase)
      PROVE  OneRowPerSession'
    BY <1>1, <1>2 DEF SetPhase, VisibleInv, TypeOK, IngestTypeOK
<1>3. ASSUME NEW q \in Requests, Discard(q)
      PROVE  OneRowPerSession'
    BY <1>1, <1>3 DEF Discard, FreeRequest, VisibleInv, TypeOK, IngestTypeOK
<1>4. ASSUME NEW u \in Uploaders, NEW q \in Requests, StartUpload(u, q)
      PROVE  OneRowPerSession'
  <2>1. /\ requests'[q].batch = PendingBatch(BatchLimit)
        /\ \A r \in Requests : r # q => requests'[r] = requests[r]
      BY <1>4 DEF StartUpload, Receive, VisibleInv, TypeOK, IngestTypeOK
  <2>2. \A x, y \in PendingBatch(BatchLimit) : x.key = y.key => x = y
      BY PendingBatchType DEF VisibleInv, TypeOK
  <2> QED
      BY <2>1, <2>2 DEF VisibleInv, OneRowPerSession
<1>5. ASSUME NEW u \in Uploaders, HandleAck(u) \/ HandleError(u)
      PROVE  OneRowPerSession'
  <2>1. Discard(uploads[u].request)
      BY <1>5 DEF HandleAck, HandleError
  <2> QED
      BY <1>1, <2>1 DEF Discard, FreeRequest, VisibleInv, TypeOK, IngestTypeOK
<1>6. ASSUME NEW q \in Requests, ServerStep(q) \/ ServerFault(q)
      PROVE  OneRowPerSession'
    BY <1>2, <1>6 DEF ServerStep, ServerFault, CheckCompleted, RejectBatch, InsertRows, RecordBatch,
                      RejectClient, RequestFails
<1>7. CASE RestartServer
  <2>1. \A q \in Requests : requests'[q].batch = requests[q].batch
      BY <1>7 DEF RestartServer, Restart, VisibleInv, TypeOK, IngestTypeOK
  <2> QED
      BY <1>1, <2>1
<1>8. ASSUME UNCHANGED requests PROVE OneRowPerSession'
    BY <1>1, <1>8
<1> QED
    BY <1>3, <1>4, <1>5, <1>6, <1>7, <1>8
       DEF Next, ScanStep, AbandonUpload, Relaunch, DiscardAnswer, serverVars, vars

LEMMA VisibleNext == VisibleInv /\ [Next]_vars => VisibleInv'
<1> SUFFICES ASSUME VisibleInv, [Next]_vars PROVE VisibleInv'
    OBVIOUS
<1>1. TypeOK'
    BY TypeNext DEF VisibleInv
<1>2. OneRowPerSession'
    BY <1>1, BatchesVisible
<1>3. ASSUME UNCHANGED <<stored, visible, restarts>>
      PROVE  RaisedByRestarts' /\ HiddenByRestarts'
    BY <1>3 DEF VisibleInv, RaisedByRestarts, HiddenByRestarts
<1>4. ASSUME NEW q \in Requests, ServerStep(q) \/ ServerFault(q)
      PROVE  RaisedByRestarts' /\ HiddenByRestarts'
  <2>1. restarts' = restarts
      BY <1>4 DEF ServerStep, ServerFault, Fault
  <2>2. CASE InsertRows(q, "stored") \/ InsertRows(q, "failed")
      BY <2>1, <2>2, InsertVisible
  <2>3. CASE ~(InsertRows(q, "stored") \/ InsertRows(q, "failed"))
      BY <1>3, <1>4, <2>1, <2>3 DEF ServerStep, ServerFault, CheckCompleted, RejectBatch, RecordBatch,
                                   RejectClient, RequestFails
  <2> QED
      BY <2>2, <2>3
<1>5. RaisedByRestarts' /\ HiddenByRestarts'
    BY <1>3, <1>4, RestartVisible
       DEF Next, ScanStep, StartUpload, Receive, AbandonUpload, HandleAck, HandleError, Discard,
           Relaunch, DiscardAnswer, serverVars, vars
<1> QED
    BY <1>1, <1>2, <1>5 DEF VisibleInv

\* However requests are delayed and repeated, the newest stored snapshot of a
\* session is the visible one until the server has been started twice: a start
\* raises revisions by one, and a hidden snapshot is ahead of the visible one by
\* fewer revisions than there were restarts (ReplacingMergeTree by revision,
\* reprice_unknown_history).
THEOREM NewestIsVisibleSafe == Spec => [](HiddenByRestarts /\ (restarts <= 1 => NewestIsVisible))
<1>1. Init => VisibleInv
  <2> SUFFICES ASSUME Init PROVE VisibleInv
      OBVIOUS
  <2> QED
      BY InitType DEF Init, IngestInit, FreeRequest, VisibleInv, OneRowPerSession, RaisedByRestarts,
                      HiddenByRestarts
<1>2. VisibleInv => HiddenByRestarts /\ (restarts <= 1 => NewestIsVisible)
  <2> SUFFICES ASSUME VisibleInv, restarts <= 1, NEW x \in stored PROVE x.rev <= visible[x.key].src
      BY DEF VisibleInv, NewestIsVisible
  <2>1. x.rev \in Nat /\ visible[x.key].src \in Nat /\ restarts \in Nat
      BY UploadAssumption DEF VisibleInv, TypeOK, IngestTypeOK, IngestSnapshot
  <2>2. x.rev <= visible[x.key].src \/ x.rev < visible[x.key].src + restarts
      BY DEF VisibleInv, HiddenByRestarts
  <2> QED
      BY <2>1, <2>2
<1> QED
    BY <1>1, <1>2, VisibleNext, PTL DEF Spec

=============================================================================
