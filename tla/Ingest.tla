------------------------------- MODULE Ingest -------------------------------
(***************************************************************************)
(* The server's ingest endpoint (ingest_sessions in                        *)
(* crates/metrune-api/src/app.rs) with the two stores it writes: the       *)
(* ClickHouse table session_snapshots_dedup and the PostgreSQL table       *)
(* ingest_batches that makes a retry of a completed batch a no-op.  The    *)
(* two are not written in one transaction; requests run concurrently and   *)
(* can stop at any await.                                                  *)
(*                                                                         *)
(* A snapshot is "valid", "invalid" (validate_snapshot fails on it as      *)
(* uploaded) or "overpriced" (valid as uploaded, but no longer once        *)
(* apply_server_prices has replaced its costs).                            *)
(***************************************************************************)
EXTENDS Naturals

CONSTANTS
    Sessions,       \* session keys of one owner in one organization
    Requests        \* requests the server can be handling at once

VARIABLES
    requests,       \* the state of each request
    ingestBatches,  \* batches recorded as completed
    stored,         \* snapshots whose rows were inserted in ClickHouse
    visible         \* what SELECT ... FINAL shows for each session

ingestVars == <<requests, ingestBatches, stored, visible>>

Verdicts == {"valid", "invalid", "overpriced"}

IngestSnapshot == [key : Sessions, rev : Nat, content : Verdicts]

Running == {"received", "open", "stored"}
Answered == {"duplicate", "processed", "failed", "unsupported"}

\* rev is the revision of the row, src the client revision its content has:
\* repricing raises the first without the second.  Zero: no row.
IngestTypeOK ==
    /\ requests \in [Requests -> [phase : {"free"} \cup Running \cup Answered,
                                  batch : SUBSET IngestSnapshot]]
    /\ ingestBatches \subseteq SUBSET IngestSnapshot
    /\ stored \subseteq IngestSnapshot
    /\ visible \in [Sessions -> [rev : Nat, src : Nat]]

FreeRequest == [phase |-> "free", batch |-> {}]

IngestInit ==
    /\ requests = [q \in Requests |-> FreeRequest]
    /\ ingestBatches = {}
    /\ stored = {}
    /\ visible = [s \in Sessions |-> [rev |-> 0, src |-> 0]]

Accepted(batch) == {x \in batch : x.content = "valid"}
Rejected(batch) == {x \in batch : x.content = "invalid"}
Overpriced(batch) == {x \in batch : x.content = "overpriced"}

SetPhase(q, phase) == requests' = [requests EXCEPT ![q].phase = phase]

\* Mutant of Replace: MergeTree without a version column, the last insert wins.
ReplaceByArrival(shown, rows) ==
    [s \in Sessions |->
        IF \E x \in rows : x.key = s
        THEN LET x == CHOOSE x \in rows : x.key = s IN [rev |-> x.rev, src |-> x.rev]
        ELSE shown[s]]

\* ReplacingMergeTree(revision): of the rows with one sorting key the largest
\* revision survives, and of equal revisions the one inserted last.
Replace(shown, rows) ==
    [s \in Sessions |->
        IF \E x \in rows : x.key = s /\ x.rev >= shown[s].rev
        THEN LET x == CHOOSE x \in rows : x.key = s /\ x.rev >= shown[s].rev
             IN  [rev |-> x.rev, src |-> x.rev]
        ELSE shown[s]]

(***************************************************************************)
(* The steps of ingest_sessions.                                           *)
(***************************************************************************)
\* A request that arrives; authentication, rate limit and body limits are the
\* reasons for which RequestFails may end it.
Receive(q, batch) ==
    /\ requests[q].phase = "free"
    /\ requests' = [requests EXCEPT ![q] = [phase |-> "received", batch |-> batch]]
    /\ UNCHANGED <<ingestBatches, stored, visible>>

\* The client version or the schema is not supported: 426.
RejectClient(q) ==
    /\ requests[q].phase = "received"
    /\ SetPhase(q, "unsupported")
    /\ UNCHANGED <<ingestBatches, stored, visible>>

\* SELECT EXISTS(... ingest_batches ...): a completed batch is answered at once.
CheckCompleted(q) ==
    /\ requests[q].phase = "received"
    /\ SetPhase(q, IF requests[q].batch \in ingestBatches THEN "duplicate" ELSE "open")
    /\ UNCHANGED <<ingestBatches, stored, visible>>

\* The loop over the snapshots finds one that pricing made invalid: 400, and
\* the ClickHouse insert is dropped before its end.
RejectBatch(q) ==
    /\ requests[q].phase = "open"
    /\ Overpriced(requests[q].batch) # {}
    /\ SetPhase(q, "failed")
    /\ UNCHANGED <<ingestBatches, stored, visible>>

\* insert.end() sends the accepted rows, one block.  The answer of ClickHouse
\* may be lost after the rows are in: then the request fails.
InsertRows(q, outcome) ==
    /\ requests[q].phase = "open"
    /\ Overpriced(requests[q].batch) = {}
    /\ stored' = stored \cup Accepted(requests[q].batch)
    /\ visible' = Replace(visible, Accepted(requests[q].batch))
    /\ SetPhase(q, outcome)
    /\ UNCHANGED ingestBatches

\* Mutant of RecordBatch: a batch with rejected rows is recorded as well.
RecordEveryBatch(q) ==
    /\ requests[q].phase = "stored"
    /\ ingestBatches' = ingestBatches \cup {requests[q].batch}
    /\ SetPhase(q, "processed")
    /\ UNCHANGED <<stored, visible>>

\* Only a batch without a rejected row is recorded as completed.  A failure of
\* mark_installation_seen after it is a lost answer.
RecordBatch(q) ==
    /\ requests[q].phase = "stored"
    /\ ingestBatches' = IF Rejected(requests[q].batch) = {}
                        THEN ingestBatches \cup {requests[q].batch}
                        ELSE ingestBatches
    /\ SetPhase(q, "processed")
    /\ UNCHANGED <<stored, visible>>

\* An error of PostgreSQL or ClickHouse, 401, 413, 429 or the request timeout.
RequestFails(q) ==
    /\ requests[q].phase \in Running
    /\ SetPhase(q, "failed")
    /\ UNCHANGED <<ingestBatches, stored, visible>>

\* The server stops and starts again: requests in progress are dropped, and
\* before it serves, reprice_unknown_history rewrites some rows with a
\* revision one larger.
Restart(repriced) ==
    /\ \A s \in repriced : visible[s].rev > 0
    /\ requests' = [q \in Requests |->
           IF requests[q].phase \in Running
           THEN [requests[q] EXCEPT !.phase = "failed"] ELSE requests[q]]
    /\ visible' = [s \in Sessions |->
           IF s \in repriced THEN [visible[s] EXCEPT !.rev = @ + 1] ELSE visible[s]]
    /\ UNCHANGED <<ingestBatches, stored>>

\* The connection is gone: the answer is discarded.
Discard(q) ==
    /\ requests[q].phase \in Answered
    /\ requests' = [requests EXCEPT ![q] = FreeRequest]
    /\ UNCHANGED <<ingestBatches, stored, visible>>

=============================================================================
