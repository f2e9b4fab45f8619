------------------------------- MODULE Outbox -------------------------------
(***************************************************************************)
(* The client's local SQLite state (crates/metrune-core/src/state.rs): the *)
(* session outbox, one row per session key, and the revision counter that  *)
(* every scan of every process on the machine draws from.                  *)
(*                                                                         *)
(* A scan allocates a revision for a session (next_revision), then         *)
(* classifies the session - remote calls, so other processes run in        *)
(* between - and only then queues the snapshot.  Between the two the       *)
(* snapshot is a draft.  What a snapshot holds is left to the modules      *)
(* that extend this one: the constant Contents.                            *)
(***************************************************************************)
EXTENDS Naturals, FiniteSets

CONSTANTS
    Sessions,       \* session keys
    Contents,       \* what a snapshot can hold
    NoContent,      \* stands for the content of a row that does not exist
    MaxRevision,    \* bound on the revision counter
    MaxDrafts       \* bound on the scans running at once

ASSUME BoundsAssumption == MaxRevision \in Nat /\ MaxDrafts \in Nat

VARIABLES
    outbox,         \* session_outbox: the row of each session key
    lastRevision,   \* local_metadata.last_session_revision
    drafts,         \* snapshots with a revision that are not queued yet
    clock           \* the time queue_snapshot writes in updated_at

outboxVars == <<outbox, lastRevision, drafts, clock>>

Snapshot == [key : Sessions, rev : Nat, content : Contents]

\* A row is absent, pending (acknowledged_at IS NULL) or acknowledged.
AbsentRow == [status |-> "absent", rev |-> 0, content |-> NoContent, at |-> 0]

Row == {AbsentRow} \cup
       [status : {"pending", "acknowledged"}, rev : Nat, content : Contents, at : Nat]

OutboxTypeOK ==
    /\ outbox \in [Sessions -> Row]
    /\ lastRevision \in Nat
    /\ drafts \subseteq Snapshot
    /\ clock \in Nat

OutboxInit ==
    /\ outbox = [s \in Sessions |-> AbsentRow]
    /\ lastRevision = 0
    /\ drafts = {}
    /\ clock = 0

(***************************************************************************)
(* Reading the outbox.                                                     *)
(***************************************************************************)
Pending == {s \in Sessions : outbox[s].status = "pending"}

QueuedSnapshot(s) ==
    [key |-> s, rev |-> outbox[s].rev, content |-> outbox[s].content]

\* pending_batch: the `limit` rows that have waited longest.  The batch
\* identifier is a digest of the ordered payload; a snapshot is fixed by its
\* key and revision and the order by the rows, so the set of snapshots stands
\* for the identifier as well as for the payload.
PendingBatch(limit) ==
    {QueuedSnapshot(s) : s \in
        {p \in Pending :
            Cardinality({q \in Pending : outbox[q].at < outbox[p].at}) < limit}}

(***************************************************************************)
(* Writing it.                                                             *)
(***************************************************************************)
\* Mutant of NextRevisionAfter: an observed revision equal to the counter is
\* handed out again.
NextRevisionAfterReused(observed) ==
    IF observed >= lastRevision THEN observed ELSE lastRevision + 1

\* next_revision, one immediate transaction: the observed revision, or the
\* successor of the counter where that is larger.
NextRevisionAfter(observed) ==
    IF observed > lastRevision + 1 THEN observed ELSE lastRevision + 1

NextRevision(s, content, observed) ==
    /\ Cardinality(drafts) < MaxDrafts
    /\ NextRevisionAfter(observed) <= MaxRevision
    /\ lastRevision' = NextRevisionAfter(observed)
    /\ drafts' = drafts \cup
           {[key |-> s, rev |-> NextRevisionAfter(observed), content |-> content]}
    /\ UNCHANGED <<outbox, clock>>

\* Mutant of QueueSnapshot: the row is replaced whatever its revision.
QueueSnapshotAlways(d) ==
    /\ d \in drafts
    /\ drafts' = drafts \ {d}
    /\ outbox' = [outbox EXCEPT ![d.key] =
           [status |-> "pending", rev |-> d.rev, content |-> d.content, at |-> clock + 1]]
    /\ clock' = clock + 1
    /\ UNCHANGED lastRevision

\* queue_snapshot: insert, or replace a row whose revision is not larger; a
\* replaced row is pending again and goes to the back of the queue.
QueueSnapshot(d) ==
    /\ d \in drafts
    /\ drafts' = drafts \ {d}
    /\ IF d.rev >= outbox[d.key].rev
       THEN /\ outbox' = [outbox EXCEPT ![d.key] =
                  [status |-> "pending", rev |-> d.rev,
                   content |-> d.content, at |-> clock + 1]]
            /\ clock' = clock + 1
       ELSE UNCHANGED <<outbox, clock>>
    /\ UNCHANGED lastRevision

\* A scan that is interrupted, or whose queue_snapshot fails, forgets the
\* revisions it allocated.
DropDraft(d) ==
    /\ d \in drafts
    /\ drafts' = drafts \ {d}
    /\ UNCHANGED <<outbox, lastRevision, clock>>

\* Mutant of Acknowledged: the revision that was uploaded is not compared.
AcknowledgedByKey(batch, keys) ==
    [s \in Sessions |->
        IF s \in keys /\ outbox[s].status # "absent"
        THEN [outbox[s] EXCEPT !.status = "acknowledged"]
        ELSE outbox[s]]

\* The rows after acknowledge(batch) or acknowledge_session_keys(batch, keys)
\* has reached the sessions in keys: a row is marked unless a newer revision
\* has been queued since the batch was read.
Acknowledged(batch, keys) ==
    [s \in Sessions |->
        IF \E x \in batch : x.key = s /\ s \in keys
                            /\ outbox[s].status # "absent"
                            /\ outbox[s].rev <= x.rev
        THEN [outbox[s] EXCEPT !.status = "acknowledged"]
        ELSE outbox[s]]

\* prune_expired_rows, run when the state is opened: acknowledged rows older
\* than thirty days go.  No scan lasts that long, so a draft of the session
\* cannot be older than the row.
PruneExpiredRows(expired) ==
    /\ expired # {}
    /\ \A s \in expired : /\ outbox[s].status = "acknowledged"
                          /\ \A d \in drafts : d.key # s
    /\ outbox' = [s \in Sessions |-> IF s \in expired THEN AbsentRow ELSE outbox[s]]
    /\ UNCHANGED <<lastRevision, drafts, clock>>

=============================================================================
