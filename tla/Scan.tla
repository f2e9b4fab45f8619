-------------------------------- MODULE Scan --------------------------------
(***************************************************************************)
(* Incremental scanning: scan in crates/metrune-cli/src/app.rs with the    *)
(* checkpoints, the revision counter and the outbox of state.rs.           *)
(*                                                                         *)
(* The coding agents append to their session stores while the scan reads   *)
(* them.  A scan first visits every source - fingerprint, compare with the *)
(* checkpoint, parse, write the checkpoint - and only then aggregates the  *)
(* sessions it found and queues a snapshot of each, with remote calls to   *)
(* the classifier in between.  It can stop at any point: Ctrl-C and a      *)
(* kill, or an error of SQLite.                                            *)
(*                                                                         *)
(* A source is an append-only log, so its length stands for its content,   *)
(* for its fingerprint (size and modification time) and for the time of    *)
(* its last message.  A snapshot's content is the number of messages it    *)
(* covers in each source.                                                  *)
(*                                                                         *)
(* A session may have several sources: OpenCode keeps a file per message,  *)
(* Claude several logs of a session.  A snapshot covers those of them that *)
(* this scan has read, and replaces the row whatever the row covers.       *)
(***************************************************************************)
EXTENDS Outbox

CONSTANTS
    Scanners,       \* processes that scan
    Sources,        \* session stores
    SessionOf,      \* the session whose messages a source holds
    MaxMessages,    \* bound on the messages of a source
    MaxInterrupts   \* bound on interrupted scans

ASSUME ScanAssumption ==
    /\ SessionOf \in [Sources -> Sessions]
    /\ MaxMessages \in Nat /\ MaxInterrupts \in Nat
    /\ Contents = [Sources -> 0..MaxMessages]
    /\ NoContent \in Contents /\ \A f \in Sources : NoContent[f] = 0

VARIABLES
    file,           \* messages in each source
    checkpoints,    \* source_checkpoints; zero: no row
    scans,          \* what each scanner is doing
    interrupts,     \* interrupted scans so far
    handed,         \* most messages of each source in a snapshot that was queued
    cut             \* most messages of each source an interrupted scan had in hand

scanVars == <<file, checkpoints, scans, interrupts, handed, cut>>
vars == <<outboxVars, scanVars>>

Lengths == [Sources -> 0..MaxMessages]

\* todo: sources still to visit; at: the source in hand with its fingerprint
\* mark; got: messages collected per source; left: sessions still to queue.
Scanning == [phase : {"idle", "visiting", "parsing", "parsed", "queueing"},
             force : BOOLEAN,
             todo : SUBSET Sources, at : SUBSET Sources, mark : 0..MaxMessages,
             got : Lengths, left : SUBSET {SessionOf[f] : f \in Sources},
             draft : SUBSET Snapshot]

Nothing == [f \in Sources |-> 0]

IdleScan == [phase |-> "idle", force |-> FALSE, todo |-> {}, at |-> {}, mark |-> 0,
             got |-> Nothing, left |-> {}, draft |-> {}]

TypeOK ==
    /\ OutboxTypeOK
    /\ file \in Lengths
    /\ checkpoints \in Lengths
    /\ scans \in [Scanners -> Scanning]
    /\ interrupts \in 0..MaxInterrupts
    /\ handed \in Lengths /\ cut \in Lengths

Init ==
    /\ OutboxInit
    /\ file = Nothing
    /\ checkpoints = Nothing
    /\ scans = [p \in Scanners |-> IdleScan]
    /\ interrupts = 0
    /\ handed = Nothing /\ cut = Nothing

\* A coding agent appends a message.
AppendMessage(f) ==
    /\ file[f] < MaxMessages
    /\ file' = [file EXCEPT ![f] = @ + 1]
    /\ UNCHANGED <<outboxVars, checkpoints, scans, interrupts, handed, cut>>

StartScan(p, force) ==
    /\ scans[p].phase = "idle"
    /\ scans' = [scans EXCEPT ![p] =
           [IdleScan EXCEPT !.phase = "visiting", !.force = force,
                            !.todo = {f \in Sources : file[f] > 0}]]
    /\ UNCHANGED <<outboxVars, file, checkpoints, interrupts, handed, cut>>

\* Take the fingerprint and skip the source if the checkpoint has the same one.
VisitSource(p, f) ==
    /\ scans[p].phase = "visiting"
    /\ f \in scans[p].todo
    /\ LET left == scans[p].todo \ {f}
       IN  scans' = [scans EXCEPT ![p] =
               IF ~scans[p].force /\ checkpoints[f] = file[f]
               THEN [@ EXCEPT !.todo = left]
               ELSE [@ EXCEPT !.todo = left, !.phase = "parsing", !.at = {f}, !.mark = file[f]]]
    /\ UNCHANGED <<outboxVars, file, checkpoints, interrupts, handed, cut>>

\* The parser reads what the source holds by now.
ParseSource(p, f) ==
    /\ scans[p].phase = "parsing" /\ scans[p].at = {f}
    /\ scans' = [scans EXCEPT ![p].phase = "parsed", ![p].got[f] = file[f]]
    /\ UNCHANGED <<outboxVars, file, checkpoints, interrupts, handed, cut>>

\* The scan after the source in hand.
Leave(p) == [scans EXCEPT ![p].phase = "visiting", ![p].at = {}, ![p].mark = 0]

\* A source that cannot be parsed is skipped; its checkpoint is not written.
ParseFails(p) ==
    /\ scans[p].phase = "parsing"
    /\ scans' = Leave(p)
    /\ UNCHANGED <<outboxVars, file, checkpoints, interrupts, handed, cut>>

\* Mutant of WriteCheckpoint: the fingerprint is taken after parsing.
WriteLateCheckpoint(p, f) ==
    /\ scans[p].phase = "parsed" /\ scans[p].at = {f}
    /\ checkpoints' = [checkpoints EXCEPT ![f] = file[f]]
    /\ scans' = Leave(p)
    /\ UNCHANGED <<outboxVars, file, interrupts, handed, cut>>

\* The fingerprint that was taken before parsing becomes the checkpoint.
WriteCheckpoint(p, f) ==
    /\ scans[p].phase = "parsed" /\ scans[p].at = {f}
    /\ checkpoints' = [checkpoints EXCEPT ![f] = scans[p].mark]
    /\ scans' = Leave(p)
    /\ UNCHANGED <<outboxVars, file, interrupts, handed, cut>>

\* Every source visited: the messages are grouped by session.
GroupSessions(p) ==
    /\ scans[p].phase = "visiting" /\ scans[p].todo = {}
    /\ LET found == {SessionOf[f] : f \in {g \in Sources : scans[p].got[g] > 0}}
       IN  scans' = [scans EXCEPT ![p] =
               IF found = {} THEN IdleScan
               ELSE [@ EXCEPT !.phase = "queueing", !.left = found]]
    /\ UNCHANGED <<outboxVars, file, checkpoints, interrupts, handed, cut>>

\* What the scan found of a session, and the time of the newest message in it.
Collected(p, s) == [f \in Sources |-> IF SessionOf[f] = s THEN scans[p].got[f] ELSE 0]

ObservedRevision(content) ==
    CHOOSE n \in 0..MaxMessages : /\ \E f \in Sources : content[f] = n
                                  /\ \A f \in Sources : content[f] <= n

\* next_revision; the classifier is asked about the session's turns after it.
TakeRevision(p, s) ==
    LET content == Collected(p, s)
        observed == ObservedRevision(content)
    IN  /\ scans[p].phase = "queueing" /\ scans[p].draft = {}
        /\ s \in scans[p].left
        /\ NextRevision(s, content, observed)
        /\ scans' = [scans EXCEPT ![p].left = @ \ {s}, ![p].draft =
               {[key |-> s, rev |-> NextRevisionAfter(observed), content |-> content]}]
        /\ UNCHANGED <<file, checkpoints, interrupts, handed, cut>>

AtLeast(counts, more) == [f \in Sources |-> IF more[f] > counts[f] THEN more[f] ELSE counts[f]]

\* queue_snapshot, and on to the next session.
FinishSession(p, d) ==
    /\ scans[p].draft = {d}
    /\ QueueSnapshot(d)
    /\ scans' = [scans EXCEPT ![p] =
           IF scans[p].left = {} THEN IdleScan ELSE [@ EXCEPT !.draft = {}]]
    /\ handed' = AtLeast(handed, d.content)
    /\ UNCHANGED <<file, checkpoints, interrupts, cut>>

\* This source's messages are collected and not given to queue_snapshot yet.
InHand(p, f) ==
    \/ scans[p].phase # "queueing"
    \/ SessionOf[f] \in scans[p].left
    \/ \E d \in scans[p].draft : d.key = SessionOf[f]

\* The process stops.  Revisions it took and sessions it collected are lost;
\* checkpoints it wrote are not.
Interrupt(p) ==
    /\ interrupts < MaxInterrupts
    /\ scans[p].phase # "idle"
    /\ interrupts' = interrupts + 1
    /\ scans' = [scans EXCEPT ![p] = IdleScan]
    /\ drafts' = drafts \ scans[p].draft
    /\ cut' = AtLeast(cut, [f \in Sources |-> IF InHand(p, f) THEN scans[p].got[f] ELSE 0])
    /\ UNCHANGED <<outbox, lastRevision, clock, file, checkpoints, handed>>

Next ==
    \/ \E f \in Sources : AppendMessage(f)
    \/ \E p \in Scanners :
          \/ \E force \in BOOLEAN : StartScan(p, force)
          \/ \E f \in Sources : VisitSource(p, f) \/ ParseSource(p, f) \/ WriteCheckpoint(p, f)
          \/ ParseFails(p)
          \/ GroupSessions(p)
          \/ \E s \in Sessions : TakeRevision(p, s)
          \/ \E d \in drafts : FinishSession(p, d)
          \/ Interrupt(p)

Spec == Init /\ [][Next]_vars

(***************************************************************************)
(* Properties.                                                             *)
(***************************************************************************)
\* A checkpoint promises no messages that were not read: they went to
\* queue_snapshot, a scan has them in hand, or they are those of an interrupted
\* scan.  The fingerprint is taken before the source is parsed, so a message
\* appended meanwhile is read again (scan's order of file_fingerprint, parse,
\* checkpoint and queue_snapshot).  That the row of the session keeps them is
\* not promised: see ResumedHasMore.
CheckpointIsQueued ==
    \A f \in Sources :
        \/ checkpoints[f] <= handed[f]
        \/ checkpoints[f] <= cut[f]
        \/ \E p \in Scanners : InHand(p, f) /\ checkpoints[f] <= scans[p].got[f]

\* "The same session, resumed: higher revision, more tokens": the snapshot that
\* replaces the row of a session covers what the row did.  It does not: scan
\* builds it from the sources it has read again, and the checkpoints of the
\* session's other sources keep those out.
ResumedHasMore ==
    [][\A s \in Sessions : outbox'[s].rev > outbox[s].rev =>
          \A f \in Sources : outbox'[s].content[f] >= outbox[s].content[f]]_vars

=============================================================================
