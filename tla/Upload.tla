------------------------------- MODULE Upload -------------------------------
(***************************************************************************)
(* Session snapshots on their way from the client's outbox to the server:  *)
(* upload in crates/metrune-cli/src/app.rs, run by `metrune watch` and by  *)
(* any other metrune process on the machine, against the ingest endpoint.  *)
(*                                                                         *)
(* The two ends share nothing but requests and answers.  An answer can be  *)
(* lost while the server goes on with the request, so the same batch can   *)
(* be handled twice, and rows can be acknowledged, revised and uploaded by *)
(* two processes at once.                                                  *)
(***************************************************************************)
EXTENDS Outbox

CONSTANTS
    Uploaders,      \* client processes that upload
    Watch,          \* the one of them that runs `metrune watch`
    Requests,       \* requests the server can be handling at once
    NoRequest,      \* the request of an uploader that is not waiting for one
    BatchLimit,     \* snapshots in a batch
    Observed,       \* revisions a scan may derive from the message times
    MaxFaults,      \* bound on failures, timeouts, kills and 426 answers
    MaxRestarts     \* bound on the server's restarts

ASSUME UploadAssumption ==
    /\ Watch \in Uploaders
    /\ NoRequest \notin Requests
    /\ BatchLimit \in Nat
    /\ Observed \subseteq Nat
    /\ MaxFaults \in Nat /\ MaxRestarts \in Nat
    /\ Contents \subseteq {"valid", "invalid", "overpriced"}
    /\ NoContent \notin Contents

VARIABLES
    requests, ingestBatches, stored, visible,
    uploads,        \* what each uploader is doing
    faults,         \* failures so far
    restarts        \* restarts of the server so far

INSTANCE Ingest

serverVars == <<requests, ingestBatches, stored, visible>>
vars == <<outboxVars, serverVars, uploads, faults, restarts>>

\* phase is "idle", "sent" (waiting for the answer to batch) or "exited".
IdleUpload == [phase |-> "idle", request |-> NoRequest, batch |-> {}]
ExitedUpload == [phase |-> "exited", request |-> NoRequest, batch |-> {}]

TypeOK ==
    /\ OutboxTypeOK
    /\ IngestTypeOK
    /\ uploads \in [Uploaders -> [phase : {"idle", "sent", "exited"},
                                  request : Requests \cup {NoRequest},
                                  batch : SUBSET Snapshot]]
    /\ faults \in 0..MaxFaults
    /\ restarts \in 0..MaxRestarts

Init ==
    /\ OutboxInit
    /\ IngestInit
    /\ uploads = [u \in Uploaders |-> IdleUpload]
    /\ faults = 0
    /\ restarts = 0

(***************************************************************************)
(* The scanning side, as the uploads see it.                               *)
(***************************************************************************)
ScanStep ==
    /\ \/ \E s \in Sessions, c \in Contents, o \in Observed : NextRevision(s, c, o)
       \/ \E d \in drafts : QueueSnapshot(d)
       \/ \E d \in drafts : DropDraft(d)
       \/ \E expired \in SUBSET Sessions : PruneExpiredRows(expired)
    /\ UNCHANGED <<serverVars, uploads, faults, restarts>>

(***************************************************************************)
(* upload.                                                                 *)
(***************************************************************************)
Fault ==
    /\ faults < MaxFaults
    /\ faults' = faults + 1

\* Read the oldest pending rows and send them.
StartUpload(u, q) ==
    /\ uploads[u].phase = "idle"
    /\ PendingBatch(BatchLimit) # {}
    /\ Receive(q, PendingBatch(BatchLimit))
    /\ uploads' = [uploads EXCEPT ![u] =
           [phase |-> "sent", request |-> q, batch |-> PendingBatch(BatchLimit)]]
    /\ UNCHANGED <<outboxVars, faults, restarts>>

\* The process stops waiting: HTTP client timeout, broken connection, Ctrl-C.
\* The server may or may not go on with the request.
AbandonUpload(u) ==
    /\ uploads[u].phase = "sent"
    /\ uploads' = [uploads EXCEPT ![u] = IdleUpload]
    /\ Fault
    /\ UNCHANGED <<outboxVars, serverVars, restarts>>

\* Mutant of SettledKeys: rejected rows stay queued.
AcceptedKeys(u) == {x.key : x \in Accepted(requests[uploads[u].request].batch)}

\* Keys an answer lets the client mark: those of the whole batch if no row is
\* rejected, otherwise the accepted and the rejected keys the answer names.
SettledKeys(u) ==
    LET answer == requests[uploads[u].request]
    IN  IF answer.phase = "duplicate" \/ Rejected(answer.batch) = {}
        THEN {x.key : x \in uploads[u].batch}
        ELSE {x.key : x \in Accepted(answer.batch) \cup Rejected(answer.batch)}

\* A 2xx answer.  Rows are marked one UPDATE each, so a killed process marks
\* some of them only.
HandleAck(u) ==
    /\ uploads[u].phase = "sent"
    /\ requests[uploads[u].request].phase \in {"duplicate", "processed"}
    /\ \/ /\ outbox' = Acknowledged(uploads[u].batch, SettledKeys(u))
          /\ UNCHANGED faults
       \/ /\ \E keys \in SUBSET SettledKeys(u) :
                outbox' = Acknowledged(uploads[u].batch, keys)
          /\ Fault
    /\ uploads' = [uploads EXCEPT ![u] = IdleUpload]
    /\ Discard(uploads[u].request)
    /\ UNCHANGED <<lastRevision, drafts, clock, restarts>>

\* Any other status: the rows stay queued.  After a 426 watch exits.
HandleError(u) ==
    /\ uploads[u].phase = "sent"
    /\ requests[uploads[u].request].phase \in {"failed", "unsupported"}
    /\ uploads' = [uploads EXCEPT ![u] =
           IF requests[uploads[u].request].phase = "unsupported"
           THEN ExitedUpload ELSE IdleUpload]
    /\ Discard(uploads[u].request)
    /\ UNCHANGED <<outboxVars, faults, restarts>>

\* Someone upgrades the client and starts the process again.
Relaunch(u) ==
    /\ uploads[u].phase = "exited"
    /\ uploads' = [uploads EXCEPT ![u] = IdleUpload]
    /\ UNCHANGED <<outboxVars, serverVars, faults, restarts>>

(***************************************************************************)
(* The server.                                                             *)
(***************************************************************************)
ServerStep(q) ==
    /\ CheckCompleted(q) \/ RejectBatch(q) \/ InsertRows(q, "stored") \/ RecordBatch(q)
    /\ UNCHANGED <<outboxVars, uploads, faults, restarts>>

ServerFault(q) ==
    /\ RejectClient(q) \/ InsertRows(q, "failed") \/ RequestFails(q)
    /\ Fault
    /\ UNCHANGED <<outboxVars, uploads, restarts>>

\* The answer to a request nobody waits for any more.
DiscardAnswer(q) ==
    /\ \A u \in Uploaders : uploads[u].request # q
    /\ Discard(q)
    /\ UNCHANGED <<outboxVars, uploads, faults, restarts>>

RestartServer ==
    /\ restarts < MaxRestarts
    /\ restarts' = restarts + 1
    /\ \E repriced \in SUBSET Sessions : Restart(repriced)
    /\ UNCHANGED <<outboxVars, uploads, faults>>

Next ==
    \/ ScanStep
    \/ \E u \in Uploaders, q \in Requests : StartUpload(u, q)
    \/ \E u \in Uploaders : AbandonUpload(u) \/ HandleAck(u) \/ HandleError(u) \/ Relaunch(u)
    \/ \E q \in Requests : ServerStep(q) \/ ServerFault(q) \/ DiscardAnswer(q)
    \/ RestartServer

Spec == Init /\ [][Next]_vars

\* watch uploads every interval for as long as it runs, and somebody starts
\* it again after a 426; the server works on every request until it has
\* answered; an answer that arrives is handled.  Nothing is assumed of scans,
\* of the other uploaders' starts or of faults.
Fairness ==
    /\ WF_vars(\E q \in Requests : StartUpload(Watch, q))
    /\ WF_vars(Relaunch(Watch))
    /\ \A u \in Uploaders : WF_vars(HandleAck(u)) /\ WF_vars(HandleError(u))
    /\ \A q \in Requests : WF_vars(ServerStep(q)) /\ WF_vars(DiscardAnswer(q))

FairSpec == Spec /\ Fairness

(***************************************************************************)
(* Properties.                                                             *)
(***************************************************************************)
\* A row the client has marked as acknowledged - and will therefore never send
\* again - holds exactly the snapshot the server stored, unless the server
\* rejected that snapshot as invalid (acknowledge and acknowledge_session_keys
\* against ingest_sessions, whatever was lost or repeated in between).
AckedIsStored ==
    \A s \in Sessions :
        outbox[s].status = "acknowledged" /\ outbox[s].content # "invalid"
            => QueuedSnapshot(s) \in stored

\* A batch that is answered as a duplicate, because ingest_batches names it,
\* has every one of its snapshots in ClickHouse: the record is written after
\* the rows and only when no row was rejected.
CompletedIsStored == \A batch \in ingestBatches : batch \subseteq stored

\* What dashboards show for a session is the newest snapshot stored for it,
\* whatever the order in which delayed and repeated requests insert theirs
\* (ReplacingMergeTree by revision, reprice_unknown_history at a restart).
NewestIsVisible == \A x \in stored : x.rev <= visible[x.key].src

\* A queued session does not wait for ever: it is acknowledged in the end, with
\* the revision that is newest by then (the retry of watch, the order of
\* pending_batch, and the acknowledgement of rejected rows).
EventuallyAcked ==
    \A s \in Sessions :
        outbox[s].status = "pending" ~> outbox[s].status # "pending"

\* The same for the sessions whose snapshots are in order: a bad snapshot of
\* another session does not keep them waiting (the comment in upload that "a
\* single malformed row cannot starve later uploads").
ValidEventuallyAcked ==
    \A s \in Sessions :
        outbox[s].status = "pending" /\ outbox[s].content = "valid"
            ~> outbox[s].status # "pending" \/ outbox[s].content # "valid"

\* The outbox as Delivery sees it: rows without the time they were queued.
Offers == [s \in Sessions |->
    [status |-> outbox[s].status, rev |-> outbox[s].rev, content |-> outbox[s].content]]

Abstract == INSTANCE Delivery WITH
    queue <- Offers, store <- stored,
    Deliverable <- {"valid"}, Rejectable <- {"invalid"}

\* Outbox, uploads and ingest together implement at-least-once delivery: each
\* of their steps, faults included, is a step of Delivery or none at all.
ImplementsDelivery == Abstract!DeliverySpec

(***************************************************************************)
(* The inductive invariant behind AckedIsStored.                           *)
(***************************************************************************)
\* Revisions are handed out once: a draft's revision is that of no row of its
\* session and of no other draft (next_revision across concurrent scans).
RevisionsAreFresh ==
    /\ \A s \in Sessions : outbox[s].rev <= lastRevision
    /\ \A d \in drafts :
          /\ 0 < d.rev /\ d.rev <= lastRevision
          /\ d.rev # outbox[d.key].rev
    /\ \A d, e \in drafts : d.rev = e.rev => d = e

\* A snapshot an uploader is waiting for is the one in its row or older than
\* it, and if the row has been pruned, older than every draft of the session:
\* that is why acknowledging "revision <= the uploaded one" marks the uploaded
\* revision or nothing.
InFlightIsNotNewer ==
    \A u \in Uploaders : \A x \in uploads[u].batch :
        /\ x.rev <= lastRevision
        /\ \A d \in drafts : d.key = x.key => d.rev # x.rev
        /\ \/ /\ outbox[x.key].status = "absent"
              /\ \A d \in drafts : d.key = x.key => d.rev > x.rev
           \/ outbox[x.key].rev > x.rev
           \/ outbox[x.key].status # "absent" /\ QueuedSnapshot(x.key) = x

\* An uploader that waits has a request of its own with its batch.
UploadersOwnRequests ==
    /\ \A u \in Uploaders :
          IF uploads[u].phase = "sent"
          THEN /\ uploads[u].request \in Requests
               /\ requests[uploads[u].request].phase # "free"
               /\ requests[uploads[u].request].batch = uploads[u].batch
          ELSE uploads[u].request = NoRequest /\ uploads[u].batch = {}
    /\ \A u, v \in Uploaders :
          uploads[u].phase = "sent" /\ uploads[v].request = uploads[u].request => u = v

\* What the server claims of a batch is true of ClickHouse.
ClaimsAreStored ==
    /\ \A q \in Requests :
          /\ requests[q].phase \in {"stored", "processed"} =>
                Accepted(requests[q].batch) \cup Rejected(requests[q].batch) =
                    requests[q].batch
                /\ Accepted(requests[q].batch) \subseteq stored
          /\ requests[q].phase = "duplicate" => requests[q].batch \subseteq stored
    /\ CompletedIsStored

UploadInv ==
    /\ TypeOK
    /\ RevisionsAreFresh
    /\ InFlightIsNotNewer
    /\ UploadersOwnRequests
    /\ ClaimsAreStored
    /\ AckedIsStored

=============================================================================
