----------------------------- MODULE ScanProofs -----------------------------
(***************************************************************************)
(* Proofs about Scan, for any number of scanners, sources, messages and    *)
(* interruptions: the state keeps its type, and a checkpoint promises no   *)
(* messages that were not read.  And about Usage, which is what a scan     *)
(* makes of one source: what the adapter reports the agent used, and what  *)
(* the client adds up the server's rules accept.                           *)
(*                                                                         *)
(* CheckpointIsQueued is not inductive: it needs that a source in hand had *)
(* its fingerprint taken before it was parsed, and that a draft has all    *)
(* that its scan has read of the session.                                  *)
(***************************************************************************)
EXTENDS Scan, Usage, FiniteSetTheorems, WellFoundedInduction, TLAPS

\* InHand, of a scanner's state.
Has(x, f) ==
    x.phase # "queueing" \/ SessionOf[f] \in x.left \/ \E d \in x.draft : d.key = SessionOf[f]

Covered(f) ==
    \/ checkpoints[f] <= handed[f]
    \/ checkpoints[f] <= cut[f]
    \/ \E p \in Scanners : InHand(p, f) /\ checkpoints[f] <= scans[p].got[f]

\* What a scanner has read is in the source, the fingerprint is not newer than
\* what was parsed after it, and a draft has what was read of its session.
Holds(x) ==
    /\ \A f \in Sources : x.got[f] <= file[f] /\ (f \in x.at => x.mark <= file[f])
    /\ x.phase = "parsed" => \A f \in x.at : x.mark <= x.got[f]
    /\ x.phase # "queueing" => x.draft = {}
    /\ x.phase = "idle" => x.got = Nothing
    /\ \A d \in x.draft : \A f \in Sources : SessionOf[f] = d.key => d.content[f] = x.got[f]

ScanInv == TypeOK /\ (\A f \in Sources : Covered(f)) /\ \A p \in Scanners : Holds(scans[p])
-----------------------------------------------------------------------------
(* Types                                                                   *)

LEMMA ScanTypes ==
    ASSUME TypeOK
    PROVE  /\ file \in Lengths /\ checkpoints \in Lengths
           /\ \A p \in Scanners : scans[p] \in Scanning /\ scans[p].got \in Lengths
           /\ \A s \in Sessions : /\ outbox[s] \in Row /\ outbox[s].rev \in Nat
                                  /\ outbox[s].content \in Lengths /\ outbox[s].content \in Contents
           /\ lastRevision \in Nat /\ clock \in Nat
<1>1. \A s \in Sessions : outbox[s] \in Row
  BY DEF TypeOK, OutboxTypeOK
<1>2. \A r \in Row : r.rev \in Nat /\ r.content \in Contents
  BY ScanAssumption DEF Row, AbsentRow
<1> QED
  BY <1>1, <1>2, ScanAssumption DEF TypeOK, OutboxTypeOK, Lengths, Scanning

LEMMA NothingShape == Nothing \in Lengths /\ \A f \in Sources : Nothing[f] = 0
BY ScanAssumption DEF Nothing, Lengths

LEMMA IdleShape ==
    /\ IdleScan \in Scanning /\ IdleScan.phase = "idle" /\ IdleScan.got = Nothing
    /\ IdleScan.draft = {} /\ IdleScan.left = {} /\ IdleScan.at = {} /\ IdleScan.mark = 0
<1>1. 0 \in 0..MaxMessages
  BY ScanAssumption
<1> QED
  BY <1>1, NothingShape DEF IdleScan, Scanning

LEMMA LeastElement ==
    ASSUME NEW T \in SUBSET Nat, T # {}
    PROVE  \E n \in T : \A m \in T : n <= m
<1>1. PICK R : R = OpToRel(<, Nat)
  OBVIOUS
<1>2. IsWellFoundedOn(R, Nat)
  BY <1>1, NatLessThanWellFounded
<1>3. \E x \in T : \A y \in T : ~(<<y, x>> \in R)
  BY <1>2, WFMin
<1>4. \A x, y \in Nat : <<y, x>> \in R <=> y < x
  BY <1>1 DEF OpToRel
<1>5. PICK n \in T : \A y \in T : ~(<<y, n>> \in R)
  BY <1>3
<1>6. ASSUME NEW m \in T PROVE n <= m
  <2>1. ~(m < n) /\ m \in Nat /\ n \in Nat
    BY <1>4, <1>5
  <2> QED
    BY <2>1
<1> QED
  BY <1>5, <1>6

\* A session that was found has a newest message.
LEMMA ObservedIsNatural ==
    ASSUME NEW content \in Lengths, Sources # {}
    PROVE  ObservedRevision(content) \in 0..MaxMessages
<1> DEFINE T == {n \in 0..MaxMessages : \A f \in Sources : content[f] <= n}
<1>1. \A f \in Sources : content[f] \in 0..MaxMessages
  BY DEF Lengths
<1>2. T \in SUBSET Nat /\ T # {}
  <2>1. MaxMessages \in T
    BY <1>1, ScanAssumption
  <2> QED
    BY <2>1, ScanAssumption
<1>3. PICK n \in T : \A m \in T : n <= m
  <2> HIDE DEF T
  <2> QED
    BY <1>2, LeastElement
<1>4. \E f \in Sources : content[f] = n
  <2> SUFFICES ASSUME \A f \in Sources : content[f] # n PROVE FALSE
    OBVIOUS
  <2>1. PICK f \in Sources : TRUE
    OBVIOUS
  <2>2. n \in Nat /\ n # 0 /\ n - 1 \in 0..MaxMessages
    BY <1>1, <1>3, <2>1, ScanAssumption
  <2>3. \A g \in Sources : content[g] <= n - 1
    BY <1>1, <1>3, <2>2
  <2>4. n - 1 \in T
    BY <2>2, <2>3
  <2> QED
    BY <1>3, <2>2, <2>4
<1>5. \E m \in 0..MaxMessages : (\E f \in Sources : content[f] = m) /\ \A f \in Sources : content[f] <= m
  BY <1>3, <1>4
<1> QED
  BY <1>5 DEF ObservedRevision

LEMMA StartShape ==
    ASSUME TypeOK, NEW p \in Scanners, NEW force \in BOOLEAN, StartScan(p, force)
    PROVE  \E x \in Scanning :
             /\ scans' = [scans EXCEPT ![p] = x] /\ x.phase = "visiting" /\ x.draft = {}
             /\ x.got = Nothing /\ x.at = {} /\ scans[p].phase = "idle"
<1>1. PICK todo : todo = {f \in Sources : file[f] > 0}
  OBVIOUS
<1>2. PICK x : /\ x = [IdleScan EXCEPT !.phase = "visiting", !.force = force, !.todo = todo]
               /\ scans' = [scans EXCEPT ![p] = x] /\ scans[p].phase = "idle"
  BY <1>1 DEF StartScan
<1>3. x \in Scanning /\ x.phase = "visiting" /\ x.draft = {} /\ x.got = Nothing /\ x.at = {}
  BY <1>1, <1>2, IdleShape DEF Scanning
<1> QED
  BY <1>2, <1>3

LEMMA VisitShape ==
    ASSUME TypeOK, NEW p \in Scanners, NEW f \in Sources, VisitSource(p, f)
    PROVE  \E x \in Scanning :
             /\ scans' = [scans EXCEPT ![p] = x] /\ scans[p].phase = "visiting"
             /\ x.draft = scans[p].draft /\ x.got = scans[p].got
             /\ \/ x.phase = "visiting" /\ x.at = scans[p].at /\ x.mark = scans[p].mark
                \/ x.phase = "parsing" /\ x.at = {f} /\ x.mark = file[f]
<1>1. scans[p] \in Scanning /\ file[f] \in 0..MaxMessages
  BY ScanTypes DEF Lengths
<1>2. CASE ~scans[p].force /\ checkpoints[f] = file[f]
  <2>1. PICK x : /\ x = [scans[p] EXCEPT !.todo = scans[p].todo \ {f}]
                 /\ scans' = [scans EXCEPT ![p] = x] /\ scans[p].phase = "visiting"
    BY <1>1, <1>2 DEF VisitSource, TypeOK
  <2>2. /\ x \in Scanning /\ x.phase = "visiting" /\ x.at = scans[p].at /\ x.mark = scans[p].mark
        /\ x.draft = scans[p].draft /\ x.got = scans[p].got
    BY <1>1, <2>1 DEF Scanning
  <2> QED
    BY <2>1, <2>2
<1>3. CASE ~(~scans[p].force /\ checkpoints[f] = file[f])
  <2>1. PICK x : /\ x = [scans[p] EXCEPT !.todo = scans[p].todo \ {f}, !.phase = "parsing",
                                          !.at = {f}, !.mark = file[f]]
                 /\ scans' = [scans EXCEPT ![p] = x] /\ scans[p].phase = "visiting"
    BY <1>1, <1>3 DEF VisitSource, TypeOK
  <2>2. /\ x \in Scanning /\ x.phase = "parsing" /\ x.at = {f} /\ x.mark = file[f]
        /\ x.draft = scans[p].draft /\ x.got = scans[p].got
    BY <1>1, <2>1 DEF Scanning
  <2> QED
    BY <2>1, <2>2
<1> QED
  BY <1>2, <1>3

LEMMA ParseShape ==
    ASSUME TypeOK, NEW p \in Scanners, NEW f \in Sources, ParseSource(p, f)
    PROVE  \E x \in Scanning :
             /\ scans' = [scans EXCEPT ![p] = x] /\ x.phase = "parsed"
             /\ x.draft = scans[p].draft /\ x.got = [scans[p].got EXCEPT ![f] = file[f]]
             /\ x.at = {f} /\ scans[p].at = {f} /\ x.mark = scans[p].mark
             /\ scans[p].phase = "parsing"
<1>1. scans[p] \in Scanning /\ scans[p].got \in Lengths /\ file[f] \in 0..MaxMessages
  BY ScanTypes DEF Lengths
<1>2. PICK got : got = [scans[p].got EXCEPT ![f] = file[f]]
  OBVIOUS
<1>3. PICK x : /\ x = [scans[p] EXCEPT !.phase = "parsed", !.got = got]
               /\ scans' = [scans EXCEPT ![p] = x] /\ scans[p].phase = "parsing" /\ scans[p].at = {f}
  BY <1>1, <1>2 DEF ParseSource, Scanning
<1>4. got \in Lengths
  BY <1>1, <1>2 DEF Lengths
<1>5. /\ x \in Scanning /\ x.phase = "parsed" /\ x.draft = scans[p].draft /\ x.got = got
      /\ x.at = {f} /\ x.mark = scans[p].mark
  BY <1>1, <1>3, <1>4 DEF Scanning
<1> QED
  BY <1>2, <1>3, <1>5

\* ParseFails and WriteCheckpoint leave the source.
LEMMA LeaveShape ==
    ASSUME TypeOK, NEW p \in Scanners, scans' = Leave(p)
    PROVE  \E x \in Scanning :
             /\ scans' = [scans EXCEPT ![p] = x] /\ x.phase = "visiting"
             /\ x.draft = scans[p].draft /\ x.got = scans[p].got /\ x.at = {}
<1>1. scans[p] \in Scanning /\ 0 \in 0..MaxMessages
  BY ScanTypes, ScanAssumption
<1>2. PICK x : /\ x = [scans[p] EXCEPT !.phase = "visiting", !.at = {}, !.mark = 0]
               /\ scans' = [scans EXCEPT ![p] = x]
  BY <1>1 DEF Leave, Scanning
<1>3. x \in Scanning /\ x.phase = "visiting" /\ x.draft = scans[p].draft /\ x.got = scans[p].got /\ x.at = {}
  BY <1>1, <1>2 DEF Scanning
<1> QED
  BY <1>2, <1>3

LEMMA GroupShape ==
    ASSUME TypeOK, NEW p \in Scanners, GroupSessions(p)
    PROVE  \E x \in Scanning :
             /\ scans' = [scans EXCEPT ![p] = x] /\ scans[p].phase = "visiting"
             /\ \/ x = IdleScan /\ \A f \in Sources : ~(scans[p].got[f] > 0)
                \/ /\ x.phase = "queueing" /\ x.got = scans[p].got /\ x.draft = scans[p].draft
                   /\ x.at = scans[p].at /\ x.mark = scans[p].mark
                   /\ x.left = {SessionOf[f] : f \in {g \in Sources : scans[p].got[g] > 0}}
<1>1. scans[p] \in Scanning
  BY ScanTypes
<1>2. PICK found : found = {SessionOf[f] : f \in {g \in Sources : scans[p].got[g] > 0}}
  OBVIOUS
<1>3. /\ scans[p].phase = "visiting"
      /\ scans' = [scans EXCEPT ![p] = IF found = {} THEN IdleScan
                                       ELSE [@ EXCEPT !.phase = "queueing", !.left = found]]
  BY <1>2 DEF GroupSessions
<1>4. CASE found = {}
  BY <1>2, <1>3, <1>4, IdleShape
<1>5. CASE found # {}
  <2>1. PICK x : /\ x = [scans[p] EXCEPT !.phase = "queueing", !.left = found]
                 /\ scans' = [scans EXCEPT ![p] = x]
    BY <1>1, <1>3, <1>5 DEF TypeOK
  <2>2. found \in SUBSET {SessionOf[f] : f \in Sources}
    BY <1>2
  <2>3. /\ x \in Scanning /\ x.phase = "queueing" /\ x.got = scans[p].got /\ x.draft = scans[p].draft
        /\ x.at = scans[p].at /\ x.mark = scans[p].mark /\ x.left = found
    BY <1>1, <2>1, <2>2 DEF Scanning
  <2> QED
    BY <1>2, <1>3, <2>1, <2>3
<1> QED
  BY <1>4, <1>5

LEMMA CollectedType ==
    ASSUME TypeOK, NEW p \in Scanners, NEW s
    PROVE  /\ Collected(p, s) \in Lengths
           /\ \A f \in Sources : Collected(p, s)[f] = IF SessionOf[f] = s THEN scans[p].got[f] ELSE 0
<1>1. scans[p].got \in Lengths
  BY ScanTypes
<1> QED
  BY <1>1, ScanAssumption DEF Collected, Lengths

LEMMA TakeShape ==
    ASSUME TypeOK, NEW p \in Scanners, NEW s \in Sessions, TakeRevision(p, s)
    PROVE  \E x \in Scanning, d \in Snapshot :
             /\ scans' = [scans EXCEPT ![p] = x] /\ scans[p].phase = "queueing" /\ s \in scans[p].left
             /\ scans[p].draft = {} /\ x.phase = "queueing" /\ x.got = scans[p].got
             /\ x.left = scans[p].left \ {s} /\ x.draft = {d} /\ x.at = scans[p].at /\ x.mark = scans[p].mark
             /\ d.key = s /\ d.content = Collected(p, s) /\ d.rev > lastRevision
             /\ lastRevision' = d.rev /\ drafts' = drafts \cup {d}
<1>1. PICK content, rev : content = Collected(p, s) /\ rev = NextRevisionAfter(ObservedRevision(content))
  OBVIOUS
<1>2. content \in Contents /\ ObservedRevision(content) \in Nat
  <2>1. Sources # {}
    BY ScanTypes DEF TakeRevision, Scanning
  <2> QED
    BY <1>1, <2>1, CollectedType, ObservedIsNatural, ScanAssumption DEF Lengths
<1>3. rev \in Nat /\ rev > lastRevision
  BY <1>1, <1>2, ScanTypes DEF NextRevisionAfter
<1>4. PICK d : d = [key |-> s, rev |-> rev, content |-> content]
  OBVIOUS
<1>5. d \in Snapshot /\ d.key = s /\ d.rev = rev /\ d.content = content
  BY <1>2, <1>3, <1>4 DEF Snapshot
<1>6. scans[p] \in Scanning
  BY ScanTypes
<1>7. PICK x : /\ x = [scans[p] EXCEPT !.left = scans[p].left \ {s}, !.draft = {d}]
               /\ scans' = [scans EXCEPT ![p] = x]
  BY <1>1, <1>4, <1>6 DEF TakeRevision, Scanning
<1>8. /\ scans[p].phase = "queueing" /\ s \in scans[p].left /\ scans[p].draft = {}
      /\ lastRevision' = d.rev /\ drafts' = drafts \cup {d}
  BY <1>1, <1>4, <1>5 DEF TakeRevision, NextRevision
<1>9. /\ x \in Scanning /\ x.phase = "queueing" /\ x.got = scans[p].got /\ x.left = scans[p].left \ {s}
      /\ x.draft = {d} /\ x.at = scans[p].at /\ x.mark = scans[p].mark
  BY <1>5, <1>6, <1>7, <1>8 DEF Scanning
<1> QED
  BY <1>1, <1>3, <1>5, <1>7, <1>8, <1>9

LEMMA FinishShape ==
    ASSUME TypeOK, NEW p \in Scanners, NEW d \in drafts, FinishSession(p, d)
    PROVE  \E x \in Scanning :
             /\ scans' = [scans EXCEPT ![p] = x] /\ scans[p].draft = {d}
             /\ \/ x = IdleScan /\ scans[p].left = {}
                \/ /\ x.phase = scans[p].phase /\ x.got = scans[p].got /\ x.draft = {}
                   /\ x.left = scans[p].left /\ x.at = scans[p].at /\ x.mark = scans[p].mark
<1>1. scans[p] \in Scanning /\ scans[p].draft = {d}
  BY ScanTypes DEF FinishSession
<1>2. CASE scans[p].left = {}
  BY <1>1, <1>2, IdleShape DEF FinishSession
<1>3. CASE scans[p].left # {}
  <2>1. PICK x : x = [scans[p] EXCEPT !.draft = {}] /\ scans' = [scans EXCEPT ![p] = x]
    BY <1>1, <1>3 DEF FinishSession, TypeOK
  <2>2. /\ x \in Scanning /\ x.phase = scans[p].phase /\ x.got = scans[p].got /\ x.draft = {}
        /\ x.left = scans[p].left /\ x.at = scans[p].at /\ x.mark = scans[p].mark
    BY <1>1, <2>1 DEF Scanning
  <2> QED
    BY <1>1, <2>1, <2>2
<1> QED
  BY <1>2, <1>3

LEMMA RowAfterQueueing ==
    ASSUME TypeOK, NEW d \in drafts, QueueSnapshot(d)
    PROVE  /\ OutboxTypeOK' /\ d \in Snapshot /\ d.key \in Sessions
           /\ \A s \in Sessions \ {d.key} : outbox'[s] = outbox[s]
           /\ d.rev >= outbox[d.key].rev => outbox'[d.key].rev = d.rev /\ outbox'[d.key].content = d.content
           /\ lastRevision' = lastRevision
<1>1. d \in Snapshot
  BY DEF TypeOK, OutboxTypeOK
<1>2. /\ d.key \in Sessions /\ d.rev \in Nat /\ d.content \in Contents
  BY <1>1 DEF Snapshot
<1>3. CASE d.rev >= outbox[d.key].rev
  <2>1. PICK r : r = [status |-> "pending", rev |-> d.rev, content |-> d.content, at |-> clock + 1]
    OBVIOUS
  <2>2. outbox' = [outbox EXCEPT ![d.key] = r] /\ clock' = clock + 1
    BY <1>3, <2>1 DEF QueueSnapshot
  <2>3. r \in Row /\ r.rev = d.rev /\ r.content = d.content
    BY <1>2, <2>1, ScanTypes DEF Row
  <2> QED
    BY <1>1, <1>2, <2>2, <2>3, ScanTypes DEF QueueSnapshot, TypeOK, OutboxTypeOK
<1>4. CASE ~(d.rev >= outbox[d.key].rev)
  BY <1>1, <1>2, <1>4 DEF QueueSnapshot, TypeOK, OutboxTypeOK
<1> QED
  BY <1>3, <1>4

LEMMA AtLeastShape ==
    ASSUME NEW counts \in Lengths, NEW more \in Lengths
    PROVE  /\ AtLeast(counts, more) \in Lengths
           /\ \A f \in Sources : /\ counts[f] <= AtLeast(counts, more)[f]
                                 /\ more[f] <= AtLeast(counts, more)[f]
BY ScanAssumption DEF AtLeast, Lengths

LEMMA ScannerType ==
    ASSUME TypeOK, NEW p \in Scanners, NEW x \in Scanning, scans' = [scans EXCEPT ![p] = x],
           OutboxTypeOK', file' = file, checkpoints' \in Lengths, interrupts' \in 0..MaxInterrupts,
           handed' \in Lengths, cut' \in Lengths
    PROVE  TypeOK'
BY DEF TypeOK

LEMMA TypeStep == TypeOK /\ [Next]_vars => TypeOK'
<1> SUFFICES ASSUME TypeOK, [Next]_vars PROVE TypeOK'
  OBVIOUS
<1>1. /\ checkpoints \in Lengths /\ interrupts \in 0..MaxInterrupts /\ OutboxTypeOK
      /\ handed \in Lengths /\ cut \in Lengths
      /\ MaxMessages \in Nat /\ MaxInterrupts \in Nat
  BY ScanAssumption DEF TypeOK
<1>2. UNCHANGED outboxVars => OutboxTypeOK'
  BY <1>1 DEF outboxVars, OutboxTypeOK
<1>3. ASSUME NEW f \in Sources, AppendMessage(f) PROVE TypeOK'
  <2>1. file' \in Lengths
    <3>1. file[f] \in 0..MaxMessages /\ file[f] < MaxMessages
      BY <1>3, ScanTypes DEF AppendMessage, Lengths
    <3>2. file[f] + 1 \in 0..MaxMessages
      BY <1>1, <3>1
    <3> QED
      BY <1>3, <3>2, ScanTypes DEF AppendMessage, Lengths
  <2> QED
    BY <1>2, <1>3, <2>1 DEF AppendMessage, TypeOK
<1>4. ASSUME NEW p \in Scanners, NEW force \in BOOLEAN, StartScan(p, force) PROVE TypeOK'
  <2>1. PICK x \in Scanning : scans' = [scans EXCEPT ![p] = x]
    BY <1>4, StartShape
  <2> QED
    BY <1>1, <1>2, <1>4, <2>1, ScannerType DEF StartScan
<1>5. ASSUME NEW p \in Scanners, NEW f \in Sources, VisitSource(p, f) PROVE TypeOK'
  <2>1. PICK x \in Scanning : scans' = [scans EXCEPT ![p] = x]
    BY <1>5, VisitShape
  <2> QED
    BY <1>1, <1>2, <1>5, <2>1, ScannerType DEF VisitSource
<1>6. ASSUME NEW p \in Scanners, NEW f \in Sources, ParseSource(p, f) PROVE TypeOK'
  <2>1. PICK x \in Scanning : scans' = [scans EXCEPT ![p] = x]
    BY <1>6, ParseShape
  <2> QED
    BY <1>1, <1>2, <1>6, <2>1, ScannerType DEF ParseSource
<1>7. ASSUME NEW p \in Scanners, NEW f \in Sources, WriteCheckpoint(p, f) PROVE TypeOK'
  <2>1. PICK x \in Scanning : scans' = [scans EXCEPT ![p] = x]
    BY <1>7, LeaveShape DEF WriteCheckpoint
  <2>2. checkpoints' \in Lengths
    <3>1. scans[p].mark \in 0..MaxMessages
      BY ScanTypes DEF Scanning
    <3> QED
      BY <1>1, <1>7, <3>1 DEF WriteCheckpoint, Lengths
  <2> QED
    BY <1>1, <1>2, <1>7, <2>1, <2>2, ScannerType DEF WriteCheckpoint
<1>8. ASSUME NEW p \in Scanners, ParseFails(p) PROVE TypeOK'
  <2>1. PICK x \in Scanning : scans' = [scans EXCEPT ![p] = x]
    BY <1>8, LeaveShape DEF ParseFails
  <2> QED
    BY <1>1, <1>2, <1>8, <2>1, ScannerType DEF ParseFails
<1>9. ASSUME NEW p \in Scanners, GroupSessions(p) PROVE TypeOK'
  <2>1. \E x \in Scanning : scans' = [scans EXCEPT ![p] = x]
    BY <1>9, GroupShape
  <2>2. PICK x \in Scanning : scans' = [scans EXCEPT ![p] = x]
    BY <2>1
  <2>3. UNCHANGED <<outboxVars, file, checkpoints, interrupts, handed, cut>>
    BY <1>9 DEF GroupSessions
  <2> QED
    BY <1>1, <1>2, <2>2, <2>3, ScannerType
<1>10. ASSUME NEW p \in Scanners, NEW s \in Sessions, TakeRevision(p, s) PROVE TypeOK'
  <2>1. PICK x \in Scanning, d \in Snapshot :
          scans' = [scans EXCEPT ![p] = x] /\ d.rev > lastRevision /\ lastRevision' = d.rev /\ drafts' = drafts \cup {d}
    BY <1>10, TakeShape
  <2>2. UNCHANGED <<outbox, clock, file, checkpoints, interrupts, handed, cut>>
    BY <1>10 DEF TakeRevision, NextRevision
  <2>3. d.rev \in Nat
    BY DEF Snapshot
  <2>4. OutboxTypeOK'
    BY <1>1, <2>1, <2>2, <2>3 DEF OutboxTypeOK
  <2> QED
    BY <1>1, <2>1, <2>2, <2>4, ScannerType
<1>11. ASSUME NEW p \in Scanners, NEW d \in drafts, FinishSession(p, d) PROVE TypeOK'
  <2>1. \E x \in Scanning : scans' = [scans EXCEPT ![p] = x]
    BY <1>11, FinishShape
  <2>2. PICK x \in Scanning : scans' = [scans EXCEPT ![p] = x]
    BY <2>1
  <2>3. OutboxTypeOK'
    BY <1>11, RowAfterQueueing DEF FinishSession
  <2>4. handed' \in Lengths
    <3>1. d.content \in Lengths
      BY ScanAssumption DEF TypeOK, OutboxTypeOK, Snapshot, Lengths
    <3> QED
      BY <1>1, <1>11, <3>1, AtLeastShape DEF FinishSession
  <2> QED
    BY <1>1, <1>11, <2>2, <2>3, <2>4, ScannerType DEF FinishSession
<1>12. ASSUME NEW p \in Scanners, Interrupt(p) PROVE TypeOK'
  <2>1. OutboxTypeOK'
    BY <1>1, <1>12 DEF Interrupt, OutboxTypeOK
  <2>2. interrupts' \in 0..MaxInterrupts
    BY <1>1, <1>12 DEF Interrupt
  <2>3. cut' \in Lengths
    <3>1. [f \in Sources |-> IF InHand(p, f) THEN scans[p].got[f] ELSE 0] \in Lengths
      BY ScanTypes, NothingShape DEF Lengths
    <3> QED
      BY <1>1, <1>12, <3>1, AtLeastShape DEF Interrupt
  <2> QED
    BY <1>1, <1>12, <2>1, <2>2, <2>3, IdleShape, ScannerType DEF Interrupt
<1>13. CASE UNCHANGED vars
  BY <1>1, <1>2, <1>13 DEF vars, scanVars, TypeOK
<1> QED
  BY <1>3, <1>4, <1>5, <1>6, <1>7, <1>8, <1>9, <1>10, <1>11, <1>12, <1>13 DEF Next

\* Sessions, revisions, checkpoints and what a scan holds keep their types,
\* whatever the number of scanners: a revision exists for every session that
\* was found (scan, next_revision and queue_snapshot).
THEOREM ScanTypeCorrect == Spec => []TypeOK
<1>1. Init => TypeOK
  BY ScanAssumption, NothingShape, IdleShape DEF Init, OutboxInit, TypeOK, OutboxTypeOK, Row, AbsentRow
<1> QED
  BY <1>1, TypeStep, PTL DEF Spec
-----------------------------------------------------------------------------
(* A checkpoint promises no messages that were not read.                   *)

\* What the lemmas about steps need of the state before.
LEMMA ScanFacts ==
    ASSUME ScanInv, NEW p \in Scanners
    PROVE  /\ TypeOK /\ Holds(scans[p]) /\ scans[p] \in Scanning
           /\ scans[p].mark \in Nat /\ scans[p].got \in Lengths
           /\ \A f \in Sources : /\ Covered(f) /\ (InHand(p, f) <=> Has(scans[p], f))
                                 /\ file[f] \in Nat /\ checkpoints[f] \in Nat /\ scans[p].got[f] \in Nat
                                 /\ handed[f] \in Nat /\ cut[f] \in Nat /\ SessionOf[f] \in Sessions
<1>1. TypeOK
  BY DEF ScanInv
<1>2. /\ file \in Lengths /\ checkpoints \in Lengths /\ handed \in Lengths /\ cut \in Lengths
      /\ scans[p].got \in Lengths /\ scans[p] \in Scanning
  BY <1>1, ScanTypes DEF TypeOK
<1>3. \A r \in Lengths, f \in Sources : r[f] \in Nat
  BY ScanAssumption DEF Lengths
<1>4. scans[p].mark \in Nat
  BY <1>2, ScanAssumption DEF Scanning
<1>5. \A f \in Sources : InHand(p, f) <=> Has(scans[p], f)
  BY DEF InHand, Has
<1> QED
  BY <1>1, <1>2, <1>3, <1>4, <1>5, ScanAssumption DEF ScanInv

\* A step of a scanner that loses nothing it has in hand: it still has it, has
\* given it to queue_snapshot, or was cut off.
LEMMA CoverStep ==
    ASSUME ScanInv, NEW p \in Scanners, NEW x \in Scanning, scans' = [scans EXCEPT ![p] = x], TypeOK',
           NEW f \in Sources, handed[f] <= handed'[f], cut[f] <= cut'[f],
           \/ Has(x, f) /\ checkpoints'[f] <= x.got[f]
           \/ /\ checkpoints'[f] = checkpoints[f]
              /\ Has(scans[p], f) => \/ scans[p].got[f] <= handed'[f]
                                     \/ scans[p].got[f] <= cut'[f]
                                     \/ Has(x, f) /\ scans[p].got[f] <= x.got[f]
    PROVE  Covered(f)'
<1>1. scans'[p] = x /\ \A q \in Scanners \ {p} : scans'[q] = scans[q]
  BY DEF ScanInv, TypeOK
<1>2. Has(x, f) => InHand(p, f)'
  BY <1>1 DEF InHand, Has
<1>3. \A q \in Scanners \ {p} : InHand(q, f) => InHand(q, f)'
  BY <1>1 DEF InHand
<1>4. /\ checkpoints'[f] \in Nat /\ handed'[f] \in Nat /\ cut'[f] \in Nat /\ x.got[f] \in Nat
      /\ checkpoints[f] \in Nat /\ handed[f] \in Nat /\ cut[f] \in Nat
      /\ \A q \in Scanners : scans[q].got[f] \in Nat
  <2>1. /\ checkpoints' \in Lengths /\ handed' \in Lengths /\ cut' \in Lengths /\ x.got \in Lengths
    BY DEF TypeOK, Scanning
  <2>2. \A r \in Lengths : r[f] \in Nat
    BY ScanAssumption DEF Lengths
  <2> QED
    BY <2>1, <2>2, ScanFacts
<1>5. CASE Has(x, f) /\ checkpoints'[f] <= x.got[f]
  BY <1>1, <1>2, <1>5 DEF Covered
<1>6. CASE /\ checkpoints'[f] = checkpoints[f]
           /\ Has(scans[p], f) => \/ scans[p].got[f] <= handed'[f]
                                  \/ scans[p].got[f] <= cut'[f]
                                  \/ Has(x, f) /\ scans[p].got[f] <= x.got[f]
  <2>1. Covered(f) /\ (InHand(p, f) <=> Has(scans[p], f))
    BY ScanFacts
  <2>2. CASE checkpoints[f] <= handed[f] \/ checkpoints[f] <= cut[f]
    BY <1>4, <1>6, <2>2 DEF Covered
  <2>3. CASE InHand(p, f) /\ checkpoints[f] <= scans[p].got[f]
    <3>1. \/ checkpoints'[f] <= handed'[f]
          \/ checkpoints'[f] <= cut'[f]
          \/ Has(x, f) /\ checkpoints'[f] <= x.got[f]
      BY <1>4, <1>6, <2>1, <2>3
    <3> QED
      BY <1>1, <1>2, <3>1 DEF Covered
  <2>4. ASSUME NEW q \in Scanners \ {p}, InHand(q, f), checkpoints[f] <= scans[q].got[f]
        PROVE  Covered(f)'
    BY <1>1, <1>3, <1>6, <2>4 DEF Covered
  <2> QED
    BY <2>1, <2>2, <2>3, <2>4 DEF Covered
<1> QED
  BY <1>5, <1>6

\* The sources grow only in AppendMessage, so the other scanners keep what
\* they hold.
LEMMA ScannerStep ==
    ASSUME ScanInv, NEW p \in Scanners, NEW x \in Scanning, scans' = [scans EXCEPT ![p] = x], TypeOK',
           file' = file, Holds(x), \A f \in Sources : Covered(f)'
    PROVE  ScanInv'
<1>1. scans'[p] = x /\ \A q \in Scanners \ {p} : scans'[q] = scans[q]
  BY DEF ScanInv, TypeOK
<1>2. ASSUME NEW q \in Scanners PROVE Holds(scans[q])'
  <2>1. Holds(scans'[q])
    BY <1>1 DEF ScanInv
  <2> QED
    BY <2>1 DEF Holds
<1> QED
  BY <1>2 DEF ScanInv

\* A step that leaves what is in hand there.
LEMMA QuietStep ==
    ASSUME ScanInv, NEW p \in Scanners, NEW x \in Scanning, scans' = [scans EXCEPT ![p] = x], TypeOK',
           UNCHANGED <<file, checkpoints, handed, cut>>, Holds(x),
           \A f \in Sources : Has(scans[p], f) /\ scans[p].got[f] > 0 => Has(x, f) /\ scans[p].got[f] <= x.got[f]
    PROVE  ScanInv'
<1>1. ASSUME NEW f \in Sources PROVE Covered(f)'
  <2>1. /\ scans[p].got[f] \in Nat /\ handed[f] \in Nat /\ cut[f] \in Nat
        /\ handed'[f] = handed[f] /\ cut'[f] = cut[f] /\ checkpoints'[f] = checkpoints[f]
    BY ScanFacts
  <2>2. Has(scans[p], f) => scans[p].got[f] <= handed'[f] \/ (Has(x, f) /\ scans[p].got[f] <= x.got[f])
    BY <2>1
  <2>3. handed[f] <= handed'[f] /\ cut[f] <= cut'[f] /\ checkpoints'[f] = checkpoints[f]
    BY <2>1
  <2> QED
    BY <2>2, <2>3, CoverStep
<1> QED
  BY <1>1, ScannerStep

LEMMA AppendKeeps ==
    ASSUME ScanInv, NEW f \in Sources, AppendMessage(f), TypeOK'
    PROVE  ScanInv'
<1>1. \A g \in Sources : file[g] \in Nat /\ file'[g] \in Nat /\ file[g] <= file'[g]
  BY ScanTypes, ScanAssumption DEF ScanInv, AppendMessage, Lengths
<1>2. UNCHANGED <<checkpoints, scans, handed, cut>>
  BY DEF AppendMessage
<1>3. \A g \in Sources : Covered(g)'
  BY <1>2 DEF ScanInv, Covered, InHand
<1>4. ASSUME NEW p \in Scanners PROVE Holds(scans[p])'
  BY <1>1, <1>2, ScanFacts DEF Holds
<1> QED
  BY <1>3, <1>4 DEF ScanInv

LEMMA StartKeeps ==
    ASSUME ScanInv, NEW p \in Scanners, NEW force \in BOOLEAN, StartScan(p, force), TypeOK'
    PROVE  ScanInv'
<1>1. PICK x \in Scanning :
         /\ scans' = [scans EXCEPT ![p] = x] /\ x.phase = "visiting" /\ x.draft = {}
         /\ x.got = Nothing /\ x.at = {} /\ scans[p].phase = "idle"
  BY ScanFacts, StartShape
<1>2. Holds(x)
  BY <1>1, NothingShape, ScanFacts DEF Holds
<1>3. \A f \in Sources : ~(scans[p].got[f] > 0)
  BY <1>1, NothingShape, ScanFacts DEF Holds
<1> QED
  BY <1>1, <1>2, <1>3, QuietStep DEF StartScan

LEMMA VisitKeeps ==
    ASSUME ScanInv, NEW p \in Scanners, NEW f \in Sources, VisitSource(p, f), TypeOK'
    PROVE  ScanInv'
<1>1. PICK x \in Scanning :
         /\ scans' = [scans EXCEPT ![p] = x] /\ scans[p].phase = "visiting"
         /\ x.draft = scans[p].draft /\ x.got = scans[p].got
         /\ \/ x.phase = "visiting" /\ x.at = scans[p].at /\ x.mark = scans[p].mark
            \/ x.phase = "parsing" /\ x.at = {f} /\ x.mark = file[f]
  BY ScanFacts, VisitShape
<1>2. Holds(x)
  BY <1>1, ScanFacts DEF Holds
<1>3. \A g \in Sources : Has(x, g) /\ scans[p].got[g] <= x.got[g]
  BY <1>1, ScanFacts DEF Has
<1> QED
  BY <1>1, <1>2, <1>3, QuietStep DEF VisitSource

LEMMA ParseKeeps ==
    ASSUME ScanInv, NEW p \in Scanners, NEW f \in Sources, ParseSource(p, f), TypeOK'
    PROVE  ScanInv'
<1>1. PICK x \in Scanning :
         /\ scans' = [scans EXCEPT ![p] = x] /\ x.phase = "parsed"
         /\ x.draft = scans[p].draft /\ x.got = [scans[p].got EXCEPT ![f] = file[f]]
         /\ x.at = {f} /\ scans[p].at = {f} /\ x.mark = scans[p].mark
         /\ scans[p].phase = "parsing"
  BY ScanFacts, ParseShape
<1>2. x.got[f] = file[f] /\ \A g \in Sources \ {f} : x.got[g] = scans[p].got[g]
  BY <1>1, ScanFacts DEF Lengths
<1>3. Holds(x)
  BY <1>1, <1>2, ScanFacts DEF Holds
<1>4. \A g \in Sources : Has(x, g) /\ scans[p].got[g] <= x.got[g]
  BY <1>1, <1>2, ScanFacts DEF Has, Holds
<1> QED
  BY <1>1, <1>3, <1>4, QuietStep DEF ParseSource

LEMMA FailKeeps ==
    ASSUME ScanInv, NEW p \in Scanners, ParseFails(p), TypeOK'
    PROVE  ScanInv'
<1>1. PICK x \in Scanning :
         /\ scans' = [scans EXCEPT ![p] = x] /\ x.phase = "visiting"
         /\ x.draft = scans[p].draft /\ x.got = scans[p].got /\ x.at = {}
  BY ScanFacts, LeaveShape DEF ParseFails
<1>2. Holds(x)
  BY <1>1, ScanFacts DEF Holds, ParseFails
<1>3. \A g \in Sources : Has(x, g) /\ scans[p].got[g] <= x.got[g]
  BY <1>1, ScanFacts DEF Has
<1> QED
  BY <1>1, <1>2, <1>3, QuietStep DEF ParseFails

\* The checkpoint is the fingerprint that was taken before parsing.
LEMMA WriteKeeps ==
    ASSUME ScanInv, NEW p \in Scanners, NEW f \in Sources, WriteCheckpoint(p, f), TypeOK'
    PROVE  ScanInv'
<1>1. PICK x \in Scanning :
         /\ scans' = [scans EXCEPT ![p] = x] /\ x.phase = "visiting"
         /\ x.draft = scans[p].draft /\ x.got = scans[p].got /\ x.at = {}
  BY ScanFacts, LeaveShape DEF WriteCheckpoint
<1>2. /\ UNCHANGED <<file, handed, cut>> /\ scans[p].phase = "parsed" /\ scans[p].at = {f}
      /\ checkpoints' = [checkpoints EXCEPT ![f] = scans[p].mark]
  BY DEF WriteCheckpoint
<1>3. scans[p].draft = {} /\ scans[p].mark <= scans[p].got[f]
  BY <1>2, ScanFacts DEF Holds
<1>4. checkpoints'[f] = scans[p].mark /\ \A g \in Sources \ {f} : checkpoints'[g] = checkpoints[g]
  BY <1>2, ScanFacts DEF TypeOK, Lengths
<1>5. Holds(x)
  BY <1>1, <1>3, ScanFacts DEF Holds
<1>6. ASSUME NEW g \in Sources PROVE Covered(g)'
  <2>1. Has(x, g) /\ scans[p].got[g] <= x.got[g] /\ handed[g] <= handed'[g] /\ cut[g] <= cut'[g]
    BY <1>1, <1>2, ScanFacts DEF Has
  <2>2. checkpoints'[g] <= x.got[g] \/ checkpoints'[g] = checkpoints[g]
    BY <1>1, <1>3, <1>4
  <2> QED
    BY <1>1, <2>1, <2>2, CoverStep
<1> QED
  BY <1>1, <1>2, <1>5, <1>6, ScannerStep

LEMMA GroupKeeps ==
    ASSUME ScanInv, NEW p \in Scanners, GroupSessions(p), TypeOK'
    PROVE  ScanInv'
<1>1. PICK x \in Scanning :
         /\ scans' = [scans EXCEPT ![p] = x] /\ scans[p].phase = "visiting"
         /\ \/ x = IdleScan /\ \A f \in Sources : ~(scans[p].got[f] > 0)
            \/ /\ x.phase = "queueing" /\ x.got = scans[p].got /\ x.draft = scans[p].draft
               /\ x.at = scans[p].at /\ x.mark = scans[p].mark
               /\ x.left = {SessionOf[f] : f \in {g \in Sources : scans[p].got[g] > 0}}
  BY ScanFacts, GroupShape
<1>2. CASE x = IdleScan /\ \A f \in Sources : ~(scans[p].got[f] > 0)
  <2>1. Holds(x)
    BY <1>2, IdleShape, NothingShape, ScanFacts DEF Holds
  <2> QED
    BY <1>1, <1>2, <2>1, QuietStep DEF GroupSessions
<1>3. CASE /\ x.phase = "queueing" /\ x.got = scans[p].got /\ x.draft = scans[p].draft
           /\ x.at = scans[p].at /\ x.mark = scans[p].mark
           /\ x.left = {SessionOf[f] : f \in {g \in Sources : scans[p].got[g] > 0}}
  <2>1. Holds(x)
    BY <1>1, <1>3, ScanFacts DEF Holds
  <2>2. \A f \in Sources : scans[p].got[f] > 0 => Has(x, f) /\ scans[p].got[f] <= x.got[f]
    BY <1>3, ScanFacts DEF Has
  <2> QED
    BY <1>1, <2>1, <2>2, QuietStep DEF GroupSessions
<1> QED
  BY <1>1, <1>2, <1>3

LEMMA TakeKeeps ==
    ASSUME ScanInv, NEW p \in Scanners, NEW s \in Sessions, TakeRevision(p, s), TypeOK'
    PROVE  ScanInv'
<1>1. PICK x \in Scanning, d \in Snapshot :
         /\ scans' = [scans EXCEPT ![p] = x] /\ scans[p].phase = "queueing" /\ s \in scans[p].left
         /\ scans[p].draft = {} /\ x.phase = "queueing" /\ x.got = scans[p].got
         /\ x.left = scans[p].left \ {s} /\ x.draft = {d} /\ x.at = scans[p].at /\ x.mark = scans[p].mark
         /\ d.key = s /\ d.content = Collected(p, s) /\ d.rev > lastRevision
         /\ lastRevision' = d.rev /\ drafts' = drafts \cup {d}
  BY ScanFacts, TakeShape
<1>2. \A f \in Sources : SessionOf[f] = s => d.content[f] = x.got[f]
  BY <1>1, CollectedType, ScanFacts
<1>3. Holds(x)
  BY <1>1, <1>2, ScanFacts DEF Holds
<1>4. \A f \in Sources : Has(scans[p], f) => Has(x, f) /\ scans[p].got[f] <= x.got[f]
  BY <1>1, ScanFacts DEF Has
<1> QED
  BY <1>1, <1>3, <1>4, QuietStep DEF TakeRevision

\* What was in hand of the session has been handed over.
LEMMA FinishKeeps ==
    ASSUME ScanInv, NEW p \in Scanners, NEW d \in drafts, FinishSession(p, d), TypeOK'
    PROVE  ScanInv'
<1>1. PICK x \in Scanning :
         /\ scans' = [scans EXCEPT ![p] = x] /\ scans[p].draft = {d}
         /\ \/ x = IdleScan /\ scans[p].left = {}
            \/ /\ x.phase = scans[p].phase /\ x.got = scans[p].got /\ x.draft = {}
               /\ x.left = scans[p].left /\ x.at = scans[p].at /\ x.mark = scans[p].mark
  BY ScanFacts, FinishShape
<1>2. UNCHANGED <<file, checkpoints, cut>> /\ handed' = AtLeast(handed, d.content)
  BY DEF FinishSession
<1>3. scans[p].phase = "queueing" /\ \A f \in Sources : SessionOf[f] = d.key => d.content[f] = scans[p].got[f]
  BY <1>1, ScanFacts DEF Holds
<1>4. \A f \in Sources : handed[f] <= handed'[f] /\ d.content[f] <= handed'[f]
  <2>1. d.content \in Lengths /\ handed \in Lengths
    BY ScanFacts, ScanAssumption DEF TypeOK, OutboxTypeOK, Snapshot, Lengths
  <2> QED
    BY <1>2, <2>1, AtLeastShape
<1>5. Holds(x)
  BY <1>1, IdleShape, NothingShape, ScanFacts DEF Holds
<1>6. ASSUME NEW f \in Sources PROVE Covered(f)'
  <2>1. CASE SessionOf[f] = d.key
    <3>1. scans[p].got[f] <= handed'[f] /\ handed[f] <= handed'[f]
      BY <1>3, <1>4, <2>1
    <3>2. cut[f] <= cut'[f] /\ checkpoints'[f] = checkpoints[f]
      BY <1>2, ScanFacts
    <3> QED
      BY <1>1, <3>1, <3>2, CoverStep
  <2>2. CASE SessionOf[f] # d.key
    <3>1. Has(scans[p], f) => Has(x, f) /\ scans[p].got[f] <= x.got[f]
      BY <1>1, <1>3, <2>2, ScanFacts DEF Has
    <3>2. handed[f] <= handed'[f] /\ cut[f] <= cut'[f] /\ checkpoints'[f] = checkpoints[f]
      BY <1>2, <1>4, ScanFacts
    <3> QED
      BY <1>1, <3>1, <3>2, CoverStep
  <2> QED
    BY <2>1, <2>2
<1> QED
  BY <1>1, <1>2, <1>5, <1>6, ScannerStep

\* What the scan had in hand is cut off.
LEMMA InterruptKeeps ==
    ASSUME ScanInv, NEW p \in Scanners, Interrupt(p), TypeOK'
    PROVE  ScanInv'
<1> DEFINE lost == [f \in Sources |-> IF InHand(p, f) THEN scans[p].got[f] ELSE 0]
<1>1. /\ scans' = [scans EXCEPT ![p] = IdleScan] /\ UNCHANGED <<file, checkpoints, handed>>
      /\ cut' = AtLeast(cut, lost)
  BY DEF Interrupt
<1>2. \A f \in Sources : cut[f] <= cut'[f] /\ (Has(scans[p], f) => scans[p].got[f] <= cut'[f])
  <2>1. lost \in Lengths /\ cut \in Lengths /\ \A f \in Sources : Has(scans[p], f) => lost[f] = scans[p].got[f]
    BY ScanFacts, NothingShape DEF TypeOK, Lengths
  <2> HIDE DEF lost
  <2> QED
    BY <1>1, <2>1, AtLeastShape
<1>3. Holds(IdleScan)
  BY IdleShape, NothingShape, ScanFacts DEF Holds
<1>4. ASSUME NEW f \in Sources PROVE Covered(f)'
  <2>1. handed[f] <= handed'[f] /\ cut[f] <= cut'[f] /\ checkpoints'[f] = checkpoints[f]
    BY <1>1, <1>2, ScanFacts
  <2> QED
    BY <1>1, <1>2, <2>1, IdleShape, CoverStep
<1> QED
  BY <1>1, <1>3, <1>4, IdleShape, ScannerStep

LEMMA ScanInvInit == Init => ScanInv
<1> SUFFICES ASSUME Init PROVE ScanInv
  OBVIOUS
<1>1. TypeOK
  BY ScanAssumption, NothingShape, IdleShape DEF Init, OutboxInit, TypeOK, OutboxTypeOK, Row, AbsentRow
<1>2. \A f \in Sources : file[f] = 0 /\ checkpoints[f] = 0 /\ handed[f] = 0
  BY NothingShape DEF Init
<1>3. Holds(IdleScan)
  BY <1>2, IdleShape, NothingShape DEF Holds
<1> QED
  BY <1>1, <1>2, <1>3 DEF Init, ScanInv, Covered

LEMMA ScanInvStep == ScanInv /\ [Next]_vars => ScanInv'
<1> SUFFICES ASSUME ScanInv, [Next]_vars PROVE ScanInv'
  OBVIOUS
<1>1. TypeOK'
  BY TypeStep DEF ScanInv
<1>2. CASE \E f \in Sources : AppendMessage(f)
  BY <1>1, <1>2, AppendKeeps
<1>3. ASSUME NEW p \in Scanners, \E force \in BOOLEAN : StartScan(p, force) PROVE ScanInv'
  BY <1>1, <1>3, StartKeeps
<1>4. ASSUME NEW p \in Scanners,
             \E f \in Sources : VisitSource(p, f) \/ ParseSource(p, f) \/ WriteCheckpoint(p, f)
      PROVE  ScanInv'
  BY <1>1, <1>4, VisitKeeps, ParseKeeps, WriteKeeps
<1>5. ASSUME NEW p \in Scanners, ParseFails(p) \/ GroupSessions(p) \/ Interrupt(p) PROVE ScanInv'
  BY <1>1, <1>5, FailKeeps, GroupKeeps, InterruptKeeps
<1>6. ASSUME NEW p \in Scanners,
             (\E s \in Sessions : TakeRevision(p, s)) \/ (\E d \in drafts : FinishSession(p, d))
      PROVE  ScanInv'
  BY <1>1, <1>6, TakeKeeps, FinishKeeps
<1>7. CASE UNCHANGED vars
  BY <1>1, <1>7 DEF vars, scanVars, ScanInv, Covered, InHand, Holds
<1> QED
  BY <1>2, <1>3, <1>4, <1>5, <1>6, <1>7 DEF Next

\* For any number of scanners and of sources to a session, a checkpoint
\* promises no messages that were not read: they went to queue_snapshot, are in
\* the hands of a scan, or were in those of one that was interrupted (scan's
\* order of file_fingerprint, parse, checkpoint and queue_snapshot).
THEOREM CheckpointIsQueuedSafe == Spec => []CheckpointIsQueued
<1>1. ScanInv => CheckpointIsQueued
  BY DEF ScanInv, Covered, CheckpointIsQueued
<1> QED
  BY <1>1, ScanInvInit, ScanInvStep, PTL DEF Spec

-----------------------------------------------------------------------------
(* Usage                                                                   *)

\* The fold behind SumTokens, on the parts of a sequence.
Summing(t, n, f) ==
    f = [s \in SUBSET (1..n) |-> IF s = {} THEN Zero ELSE Plus(f[s \ {Max(s)}], t[Max(s)])]

LEMMA MaxOfPrefix == ASSUME NEW k \in Nat, NEW s \in SUBSET (1..k), k \in s PROVE Max(s) = k
<1>1. \E x \in s : \A y \in s : x >= y
  OBVIOUS
<1>2. PICK m : m = Max(s) /\ m \in s /\ \A y \in s : m >= y
  BY <1>1 DEF Max
<1>3. m \in 1..k /\ m >= k
  BY <1>2
<1> QED
  BY <1>2, <1>3

LEMMA SummingUnfolds ==
    ASSUME NEW n \in Nat, NEW t, DOMAIN t = 1..n
    PROVE SumTokens(t) = (CHOOSE f : Summing(t, n, f))[1..n]
  BY DEF SumTokens, FoldLeft, MapThenFoldSet, Summing

\* The recursive function of the fold exists: a function on the subsets of a
\* prefix is extended to those of the next.
LEMMA SummingExists ==
    ASSUME NEW t, NEW n \in Nat
    PROVE  \E f : Summing(t, n, f)
<1> DEFINE T == {k \in Nat : ~ \E f : Summing(t, k, f)}
<1>1. SUFFICES ASSUME T # {} PROVE FALSE
  OBVIOUS
<1>2. PICK k \in T : \A m \in T : k <= m
  <2>1. T \in SUBSET Nat
    OBVIOUS
  <2> HIDE DEF T
  <2> QED
    BY <1>1, <2>1, LeastElement
<1>3. k # 0
  <2>1. Summing(t, 0, [s \in SUBSET (1..0) |-> Zero])
    <3>1. 1..0 = {}
      OBVIOUS
    <3> QED
      BY <3>1 DEF Summing
  <2> QED
    BY <2>1
<1>4. PICK f : Summing(t, k - 1, f)
  <2>1. k - 1 \in Nat /\ k - 1 \notin T
    BY <1>2, <1>3
  <2> QED
    BY <2>1
<1> DEFINE g == [s \in SUBSET (1..k) |-> IF k \in s THEN Plus(f[s \ {k}], t[k]) ELSE f[s]]
<1>5. ASSUME NEW s \in SUBSET (1..k)
      PROVE  g[s] = IF s = {} THEN Zero ELSE Plus(g[s \ {Max(s)}], t[Max(s)])
  <2>1. k \in Nat \ {0} /\ (k \notin s => s \in SUBSET (1..(k - 1))) /\ s \ {k} \in SUBSET (1..(k - 1))
    BY <1>3
  <2>2. CASE k \in s
    <3>1. Max(s) = k
      BY <2>1, <2>2, MaxOfPrefix
    <3>2. g[s \ {k}] = f[s \ {k}] /\ g[s] = Plus(f[s \ {k}], t[k])
      BY <2>2
    <3> QED
      BY <2>2, <3>1, <3>2
  <2>3. CASE k \notin s
    <3>1. f[s] = IF s = {} THEN Zero ELSE Plus(f[s \ {Max(s)}], t[Max(s)])
      BY <1>4, <2>1, <2>3 DEF Summing
    <3>2. g[s \ {Max(s)}] = f[s \ {Max(s)}] /\ g[s] = f[s]
      BY <2>3
    <3> QED
      BY <3>1, <3>2
  <2> QED
    BY <2>2, <2>3
<1>6. Summing(t, k, g)
  <2>1. g = [s \in SUBSET (1..k) |-> g[s]]
    OBVIOUS
  <2> HIDE DEF g
  <2> QED
    BY <1>5, <2>1 DEF Summing
<1> QED
  BY <1>2, <1>6

\* The sum of a prefix, as the fold has it.
LEMMA PrefixSums ==
    ASSUME NEW n \in Nat, NEW t, DOMAIN t = 1..n
    PROVE  \E f : /\ f[1..n] = SumTokens(t) /\ f[{}] = Zero
                  /\ \A k \in 1..n : f[1..k] = Plus(f[1..(k - 1)], t[k])
<1>1. PICK f : f[1..n] = SumTokens(t) /\ Summing(t, n, f)
  BY SummingExists, SummingUnfolds, Zenon
<1>2. f[{}] = Zero
  BY <1>1 DEF Summing
<1>3. ASSUME NEW k \in 1..n PROVE f[1..k] = Plus(f[1..(k - 1)], t[k])
  <2>1. 1..k \in SUBSET (1..n) /\ 1..k # {} /\ k \in 1..k /\ k \in Nat /\ 1..k \in SUBSET (1..k)
    OBVIOUS
  <2>2. Max(1..k) = k
    BY <2>1, MaxOfPrefix
  <2>3. (1..k) \ {k} = 1..(k - 1)
    BY <2>1
  <2>4. f[1..k] = Plus(f[(1..k) \ {Max(1..k)}], t[Max(1..k)])
    BY <1>1, <2>1 DEF Summing
  <2> QED
    BY <2>2, <2>3, <2>4
<1> QED
  BY <1>1, <1>2, <1>3

\* One more element is added to the sum.
LEMMA SumOfMore ==
    ASSUME NEW n \in Nat, NEW s, NEW t, DOMAIN s = 1..n, DOMAIN t = 1..(n + 1),
           \A i \in 1..n : t[i] = s[i]
    PROVE  SumTokens(t) = Plus(SumTokens(s), t[n + 1])
<1>1. PICK f : /\ f[1..n] = SumTokens(s) /\ f[{}] = Zero
               /\ \A k \in 1..n : f[1..k] = Plus(f[1..(k - 1)], s[k])
  BY PrefixSums
<1>2. PICK g : /\ g[1..(n + 1)] = SumTokens(t) /\ g[{}] = Zero
               /\ \A k \in 1..(n + 1) : g[1..k] = Plus(g[1..(k - 1)], t[k])
  <2>1. n + 1 \in Nat
    OBVIOUS
  <2> QED
    BY <2>1, PrefixSums
<1> DEFINE T == {k \in 0..n : f[1..k] # g[1..k]}
<1>3. T = {}
  <2>1. SUFFICES ASSUME T # {} PROVE FALSE
    OBVIOUS
  <2>2. PICK k \in T : \A m \in T : k <= m
    <3>1. T \in SUBSET Nat
      OBVIOUS
    <3> HIDE DEF T
    <3> QED
      BY <2>1, <3>1, LeastElement
  <2>3. k \in 1..n
    <3>1. 1..0 = {}
      OBVIOUS
    <3> QED
      BY <1>1, <1>2, <3>1
  <2>4. k - 1 \in 0..n /\ k - 1 \notin T
    BY <2>2, <2>3
  <2>5. f[1..k] = Plus(f[1..(k - 1)], s[k]) /\ g[1..k] = Plus(g[1..(k - 1)], t[k]) /\ t[k] = s[k]
    BY <1>1, <1>2, <2>3
  <2> QED
    BY <2>4, <2>5
<1>4. f[1..n] = g[1..n]
  BY <1>3
<1>5. g[1..(n + 1)] = Plus(g[1..n], t[n + 1])
  <2>1. n + 1 \in 1..(n + 1) /\ (n + 1) - 1 = n
    OBVIOUS
  <2> QED
    BY <1>2, <2>1
<1> QED
  BY <1>1, <1>2, <1>4, <1>5

LEMMA SumOfNone == SumTokens(<<>>) = Zero
<1>1. PICK f : f[1..0] = SumTokens(<<>>) /\ f[{}] = Zero
  <2>1. 0 \in Nat /\ DOMAIN <<>> = 1..0
    OBVIOUS
  <2> QED
    BY <2>1, PrefixSums
<1>2. 1..0 = {}
  OBVIOUS
<1> QED
  BY <1>1, <1>2

\* What parse remembers is what the agent last wrote, or the agent has
\* started again since; what was reported follows what was used.
UsageInv ==
    /\ UsageTypeOK
    /\ totals = parser.previous \/ totals = Zero
    /\ Reported \in Tokens
    /\ ReportsWhatWasUsed
    /\ resumes = 0 => totals = parser.previous

Reading == [model : Models, previous : Tokens, turn : Nat, activity : Nat, pending : SUBSET Signals]

LEMMA ReadingShapes ==
    ASSUME NEW x \in Reading
    PROVE  /\ [x EXCEPT !.turn = @ + 1, !.activity = 0, !.pending = {}] \in Reading
           /\ \A m \in Models : [x EXCEPT !.model = m] \in Reading
           /\ \A s \in Signals : [x EXCEPT !.pending = @ \cup {s}] \in Reading
           /\ \A p \in Tokens : [x EXCEPT !.previous = p] \in Reading
           /\ \A p \in Tokens : [x EXCEPT !.previous = p, !.activity = @ + 1, !.pending = {}] \in Reading
<1>1. x \in [model : Models, previous : Tokens, turn : Nat, activity : Nat, pending : SUBSET Signals]
  BY DEF Reading
<1>2. /\ x.model \in Models /\ x.previous \in Tokens /\ x.turn \in Nat /\ x.activity \in Nat
      /\ x.pending \in SUBSET Signals
  BY <1>1
<1>3. [x EXCEPT !.turn = @ + 1, !.activity = 0, !.pending = {}] \in Reading
  <2>1. PICK y : y = [x EXCEPT !.turn = @ + 1, !.activity = 0, !.pending = {}]
    OBVIOUS
  <2>2. y = [model |-> x.model, previous |-> x.previous, turn |-> x.turn + 1, activity |-> 0, pending |-> {}]
    BY <1>1, <2>1
  <2>3. y \in Reading
    BY <1>2, <2>2 DEF Reading
  <2> QED
    BY <2>1, <2>3
<1>4. /\ \A m \in Models : [x EXCEPT !.model = m] \in Reading
      /\ \A s \in Signals : [x EXCEPT !.pending = @ \cup {s}] \in Reading
      /\ \A p \in Tokens : [x EXCEPT !.previous = p] \in Reading
  BY <1>1 DEF Reading
<1>5. ASSUME NEW p \in Tokens
      PROVE  [x EXCEPT !.previous = p, !.activity = @ + 1, !.pending = {}] \in Reading
  <2>1. PICK y : y = [x EXCEPT !.previous = p, !.activity = @ + 1, !.pending = {}]
    OBVIOUS
  <2>2. y = [model |-> x.model, previous |-> p, turn |-> x.turn, activity |-> x.activity + 1, pending |-> {}]
    BY <1>1, <2>1
  <2>3. y \in Reading
    BY <1>2, <2>2 DEF Reading
  <2> QED
    BY <2>1, <2>3
<1> QED
  BY <1>3, <1>4, <1>5, Zenon

\* What is reported depends on the messages alone.
LEMMA ReportedOfSame == UNCHANGED messages => Reported' = Reported
  BY DEF Reported

LEMMA ReportedOfMore ==
    ASSUME messages \in Seq(Message), NEW m \in Message, messages' = Append(messages, m)
    PROVE  Reported' = Plus(Reported, m.tokens)
<1> DEFINE s == [i \in DOMAIN messages |-> messages[i].tokens]
           t == [i \in DOMAIN messages' |-> messages'[i].tokens]
<1>1. PICK n \in Nat : n = Len(messages)
  OBVIOUS
<1>2. DOMAIN messages = 1..n /\ DOMAIN messages' = 1..(n + 1)
  BY <1>1
<1>3. messages'[n + 1] = m /\ \A i \in 1..n : messages'[i] = messages[i]
  BY <1>1
<1>4. /\ DOMAIN s = 1..n /\ DOMAIN t = 1..(n + 1) /\ t[n + 1] = m.tokens
      /\ \A i \in 1..n : t[i] = s[i]
  BY <1>2, <1>3
<1>5. Reported = SumTokens(s) /\ Reported' = SumTokens(t)
  BY DEF Reported
<1> HIDE DEF s, t
<1>6. SumTokens(t) = Plus(SumTokens(s), t[n + 1])
  BY <1>4, SumOfMore
<1> QED
  BY <1>4, <1>5, <1>6

LEMMA UsageInitInv == UsageInit => UsageInv
<1> SUFFICES ASSUME UsageInit PROVE UsageInv
  OBVIOUS
<1>1. messages = <<>> /\ [i \in DOMAIN messages |-> messages[i].tokens] = <<>>
  BY DEF UsageInit
<1>2. Reported = Zero
  BY <1>1, SumOfNone DEF Reported
<1>3. Zero \in Tokens /\ Zero.input = 0 /\ Zero.output = 0
  BY DEF Zero, Tokens
<1>4. UsageTypeOK
  BY <1>1, <1>3, UsageAssumption DEF UsageInit, UsageTypeOK
<1> QED
  BY <1>2, <1>3, <1>4 DEF UsageInit, UsageInv, ReportsWhatWasUsed

\* A record that says nothing of tokens.
LEMMA QuietRecord ==
    ASSUME UsageInv, MoreRecords, UNCHANGED <<totals, used, resumes, messages>>,
           parser' \in Reading, parser'.previous = parser.previous
    PROVE  UsageInv'
<1>1. records' \in 0..MaxRecords
  BY UsageAssumption DEF MoreRecords, UsageInv, UsageTypeOK
<1>2. UsageTypeOK'
  BY <1>1 DEF UsageInv, UsageTypeOK, Reading
<1> QED
  BY <1>2, ReportedOfSame DEF UsageInv, ReportsWhatWasUsed

LEMMA TokenSums ==
    /\ \A s, t \in Tokens : /\ Plus(s, t) \in Tokens
                            /\ Plus(s, t).input = s.input + t.input
                            /\ Plus(s, t).output = s.output + t.output
    /\ \A s \in Tokens : s.input \in Nat /\ s.output \in Nat
    /\ \A s, t \in Tokens : s.input = t.input /\ s.output = t.output => s = t
    /\ Zero \in Tokens /\ Zero.input = 0 /\ Zero.output = 0
  BY DEF Tokens, Plus, Zero

\* The difference to what parse remembers is a count of tokens: those of the
\* record if it remembers the total, and no more than those if the agent has
\* started again.
LEMMA DeltaIsDue ==
    ASSUME NEW total \in Tokens, NEW previous \in Tokens, NEW tokens \in Tokens,
           total = previous \/ total = Zero, NEW delta, delta = DeltaFrom(Plus(total, tokens), previous)
    PROVE  /\ delta \in Tokens /\ delta.input <= tokens.input /\ delta.output <= tokens.output
           /\ total = previous => delta = tokens
<1>1. PICK current \in Tokens : /\ current = Plus(total, tokens)
                                /\ current.input = total.input + tokens.input
                                /\ current.output = total.output + tokens.output
  BY TokenSums
<1>2. /\ total.input \in Nat /\ total.output \in Nat /\ previous.input \in Nat /\ previous.output \in Nat
      /\ tokens.input \in Nat /\ tokens.output \in Nat
  BY TokenSums
<1>3. CASE current.input < previous.input \/ current.output < previous.output
  <2>1. delta = current
    BY <1>1, <1>3 DEF DeltaFrom
  <2>2. total = Zero /\ total # previous
    BY <1>1, <1>2, <1>3
  <2>3. current.input = tokens.input /\ current.output = tokens.output
    BY <1>1, <1>2, <2>2, TokenSums
  <2> QED
    BY <1>1, <1>2, <2>1, <2>2, <2>3
<1>4. CASE ~(current.input < previous.input \/ current.output < previous.output)
  <2>1. delta = [input |-> current.input - previous.input, output |-> current.output - previous.output]
    BY <1>1, <1>4 DEF DeltaFrom
  <2>2. delta.input = current.input - previous.input /\ delta.output = current.output - previous.output
    BY <2>1
  <2>3. /\ delta.input \in Nat /\ delta.output \in Nat
        /\ delta.input <= tokens.input /\ delta.output <= tokens.output
    BY <1>1, <1>2, <1>4, <2>2, TokenSums
  <2>4. delta \in Tokens
    BY <2>1, <2>2, <2>3 DEF Tokens
  <2>5. total = previous => delta.input = tokens.input /\ delta.output = tokens.output
    BY <1>1, <1>2, <2>2
  <2> QED
    BY <2>3, <2>4, <2>5, TokenSums
<1> QED
  BY <1>3, <1>4

LEMMA TokenCountStep ==
    ASSUME UsageInv, NEW tokens \in Tokens, TokenCount(tokens)
    PROVE  UsageInv'
<1>1. /\ totals \in Tokens /\ used \in Tokens /\ parser \in Reading /\ parser.previous \in Tokens
      /\ messages \in Seq(Message) /\ Reported \in Tokens /\ resumes \in Nat
      /\ parser.turn \in Nat /\ parser.activity \in Nat /\ parser.model \in Models
      /\ parser.pending \in SUBSET Signals
  BY DEF UsageInv, UsageTypeOK, Reading
<1>2. PICK current, delta : /\ current = Plus(totals, tokens)
                            /\ delta = DeltaFrom(current, parser.previous)
  OBVIOUS
<1>3. /\ MoreRecords /\ totals' = current /\ used' = Plus(used, tokens) /\ UNCHANGED resumes
      /\ IF Total(delta) = 0
         THEN parser' = [parser EXCEPT !.previous = current] /\ UNCHANGED messages
         ELSE AddMessage(delta)
  BY <1>2 DEF TokenCount
<1>4. /\ delta \in Tokens /\ delta.input <= tokens.input /\ delta.output <= tokens.output
      /\ totals = parser.previous => delta = tokens
  BY <1>1, <1>2, DeltaIsDue DEF UsageInv
<1>5. records' \in 0..MaxRecords
  BY <1>3, UsageAssumption DEF MoreRecords, UsageInv, UsageTypeOK
<1>6. current \in Tokens /\ used' \in Tokens
  BY <1>1, <1>2, <1>3, TokenSums
<1>7. parser' \in Reading /\ parser'.previous = current /\ messages' \in Seq(Message)
      /\ Reported' = Plus(Reported, delta)
  <2>1. CASE Total(delta) = 0
    <3>1. delta.input = 0 /\ delta.output = 0
      BY <1>4, <2>1, TokenSums DEF Total
    <3>2. Plus(Reported, delta) = Reported
      BY <1>1, <1>4, <3>1, TokenSums
    <3>3. parser' = [parser EXCEPT !.previous = current] /\ UNCHANGED messages
      BY <1>3, <2>1
    <3> QED
      BY <1>1, <1>6, <3>2, <3>3, ReportedOfSame DEF Reading
  <2>2. CASE Total(delta) # 0
    <3>1. AddMessage(delta)
      BY <1>3, <2>2
    <3>2. PICK m : m = [turn |-> IF parser.turn = 0 THEN 1 ELSE parser.turn,
                        activity |-> parser.activity + 1, model |-> parser.model,
                        tokens |-> delta, signals |-> parser.pending]
      OBVIOUS
    <3>3. m \in Message /\ m.tokens = delta
      BY <1>1, <1>4, <3>2 DEF Message
    <3>4. messages' = Append(messages, m)
      BY <3>1, <3>2 DEF AddMessage
    <3>5. parser' = [parser EXCEPT !.previous = current, !.activity = @ + 1, !.pending = {}]
      BY <1>3, <3>1 DEF AddMessage
    <3>6. parser' \in Reading /\ parser'.previous = current
      <4>1. parser' \in Reading
        BY <1>1, <1>6, <3>5, ReadingShapes
      <4>2. parser'.previous = current
        BY <1>1, <3>5 DEF Reading
      <4> QED
        BY <4>1, <4>2
    <3> QED
      BY <1>1, <3>3, <3>4, <3>6, ReportedOfMore
  <2> QED
    BY <2>1, <2>2
<1>8. UsageTypeOK'
  BY <1>1, <1>3, <1>5, <1>6, <1>7 DEF UsageTypeOK, Reading
<1>9. ReportsWhatWasUsed' /\ Reported' \in Tokens
  <2>1. PICK reported : reported = Reported' /\ reported = Plus(Reported, delta)
    BY <1>7
  <2>2. /\ reported \in Tokens /\ reported.input = Reported.input + delta.input
        /\ reported.output = Reported.output + delta.output
        /\ used'.input = used.input + tokens.input /\ used'.output = used.output + tokens.output
    <3>1. Reported \in Tokens /\ delta \in Tokens
      BY <1>1, <1>4
    <3>2. /\ reported \in Tokens /\ reported.input = Reported.input + delta.input
          /\ reported.output = Reported.output + delta.output
      <4>1. PICK r \in Tokens, d \in Tokens : r = Reported /\ d = delta
        BY <3>1
      <4>2. reported = Plus(r, d)
        BY <2>1, <4>1
      <4>3. reported \in Tokens /\ reported.input = r.input + d.input /\ reported.output = r.output + d.output
        BY <4>2, TokenSums
      <4> QED
        BY <4>1, <4>3
    <3>3. used'.input = used.input + tokens.input /\ used'.output = used.output + tokens.output
      BY <1>1, <1>3, TokenSums, Zenon
    <3> QED
      BY <3>2, <3>3
  <2>3. reported.input <= used'.input /\ reported.output <= used'.output
    <3>1. Reported.input <= used.input /\ Reported.output <= used.output
      BY DEF UsageInv, ReportsWhatWasUsed
    <3>2. /\ Reported.input \in Nat /\ Reported.output \in Nat /\ used.input \in Nat /\ used.output \in Nat
          /\ delta.input \in Nat /\ delta.output \in Nat /\ tokens.input \in Nat /\ tokens.output \in Nat
      BY <1>1, <1>4, TokenSums
    <3> QED
      BY <1>4, <2>2, <3>1, <3>2
  <2>4. resumes' = 0 => reported = used'
    BY <1>3, <1>4, <2>1 DEF UsageInv, ReportsWhatWasUsed
  <2> QED
    BY <2>1, <2>2, <2>3, <2>4 DEF ReportsWhatWasUsed
<1> QED
  BY <1>3, <1>7, <1>8, <1>9 DEF UsageInv

LEMMA UsageNextInv == UsageInv /\ [UsageNext]_usageVars => UsageInv'
<1> SUFFICES ASSUME UsageInv, [UsageNext]_usageVars PROVE UsageInv'
  OBVIOUS
<1>1. CASE UNCHANGED usageVars
  BY <1>1, ReportedOfSame DEF usageVars, UsageInv, UsageTypeOK, ReportsWhatWasUsed
<1>2. CASE UserMessage
  <2>1. parser' \in Reading /\ parser'.previous = parser.previous
    <3>1. parser \in Reading
      BY DEF UsageInv, UsageTypeOK, Reading
    <3>2. parser' \in Reading
      BY <1>2, <3>1, ReadingShapes DEF UserMessage
    <3> QED
      BY <1>2, <3>1, <3>2 DEF UserMessage, Reading
  <2> QED
    BY <1>2, <2>1, QuietRecord DEF UserMessage
<1>3. ASSUME NEW m \in Models, NameModel(m) PROVE UsageInv'
  <2>1. parser' \in Reading /\ parser'.previous = parser.previous
    <3>1. parser \in Reading
      BY DEF UsageInv, UsageTypeOK, Reading
    <3>2. parser' \in Reading
      BY <1>3, <3>1, ReadingShapes DEF NameModel
    <3> QED
      BY <1>3, <3>1, <3>2 DEF NameModel, Reading
  <2> QED
    BY <1>3, <2>1, QuietRecord DEF NameModel
<1>4. ASSUME NEW s \in Signals, ToolCall(s) PROVE UsageInv'
  <2>1. parser' \in Reading /\ parser'.previous = parser.previous
    <3>1. parser \in Reading
      BY DEF UsageInv, UsageTypeOK, Reading
    <3>2. parser' \in Reading
      BY <1>4, <3>1, ReadingShapes DEF ToolCall
    <3> QED
      BY <1>4, <3>1, <3>2 DEF ToolCall, Reading
  <2> QED
    BY <1>4, <2>1, QuietRecord DEF ToolCall
<1>5. CASE ResumeSession
  <2>1. /\ totals' = Zero /\ resumes' = resumes + 1 /\ UNCHANGED <<records, used, parser, messages>>
        /\ resumes \in Nat
    BY <1>5 DEF ResumeSession, UsageInv, UsageTypeOK
  <2>2. UsageTypeOK'
    BY <2>1, TokenSums DEF UsageInv, UsageTypeOK
  <2>3. Reported' = Reported /\ resumes' # 0
    BY <2>1, ReportedOfSame
  <2> QED
    BY <2>1, <2>2, <2>3 DEF UsageInv, ReportsWhatWasUsed
<1>6. ASSUME NEW i \in 0..MaxTokens, NEW o \in 0..MaxTokens,
             TokenCount([input |-> i, output |-> o])
      PROVE  UsageInv'
  <2>1. [input |-> i, output |-> o] \in Tokens
    BY UsageAssumption DEF Tokens
  <2> QED
    BY <1>6, <2>1, TokenCountStep
<1> QED
  BY <1>1, <1>2, <1>3, <1>4, <1>5, <1>6 DEF UsageNext

\* The type invariant of the agent's totals, the parser and its messages.
THEOREM UsageTypeCorrect == UsageSpec => []UsageTypeOK
<1>1. UsageInv => UsageTypeOK
  BY DEF UsageInv
<1> QED
  BY <1>1, UsageInitInv, UsageNextInv, PTL DEF UsageSpec

\* The adapter reports no more than the agent used, and exactly that while the
\* agent has not started its totals again, for logs of any length.
THEOREM ReportsWhatWasUsedSafe == UsageSpec => []ReportsWhatWasUsed
<1>1. UsageInv => ReportsWhatWasUsed
  BY DEF UsageInv
<1> QED
  BY <1>1, UsageInitInv, UsageNextInv, PTL DEF UsageSpec

-----------------------------------------------------------------------------
(* Two ways to add up the messages of a session.  The steps of a turn have *)
(* the tokens of its messages, and the steps of all turns, one turn after  *)
(* the other, those of all messages.                                       *)

\* Counting up to n.
LEMMA Climb ==
    ASSUME NEW n \in Nat, NEW T, 0 \in T, \A i \in 1..n : i - 1 \in T => i \in T
    PROVE  \A i \in 0..n : i \in T
<1> DEFINE F == {i \in 0..n : i \notin T}
<1>1. SUFFICES ASSUME F # {} PROVE FALSE
  OBVIOUS
<1>2. PICK k \in F : \A m \in F : k <= m
  <2>1. F \in SUBSET Nat
    OBVIOUS
  <2> HIDE DEF F
  <2> QED
    BY <1>1, <2>1, LeastElement
<1>3. k \in 1..n /\ k - 1 \in 0..n
  <2>1. k \in 0..n /\ k # 0
    BY <1>2
  <2> QED
    BY <2>1
<1>4. k - 1 \notin F
  BY <1>2, <1>3
<1> QED
  BY <1>2, <1>3, <1>4

\* What x adds to the tokens of model m, and the models of a sequence.
Share(x, m) == IF x.model = m THEN x.tokens ELSE Zero
SumOfModel(s, m) == SumTokens([i \in DOMAIN s |-> Share(s[i], m)])
ModelsOf(s) == {s[i].model : i \in DOMAIN s}

Counts(t, n) == t \in [1..n -> Tokens]

LEMMA SumAddsOne ==
    ASSUME NEW n \in Nat, NEW s, NEW t, Counts(s, n), Counts(t, n + 1),
           \A i \in 1..n : t[i] = s[i]
    PROVE  SumTokens(t) = Plus(SumTokens(s), t[n + 1])
  BY SumOfMore DEF Counts

LEMMA PlusLaws ==
    /\ \A s, t \in Tokens : Plus(s, t) \in Tokens /\ Plus(s, t) = Plus(t, s)
    /\ \A s, t, u \in Tokens : Plus(Plus(s, t), u) = Plus(s, Plus(t, u))
    /\ \A s \in Tokens : Plus(s, Zero) = s /\ Plus(Zero, s) = s
<1>1. \A s, t \in Tokens : Plus(s, t) \in Tokens /\ Plus(s, t) = Plus(t, s)
  <2> SUFFICES ASSUME NEW s \in Tokens, NEW t \in Tokens
               PROVE  Plus(s, t) \in Tokens /\ Plus(s, t) = Plus(t, s)
    OBVIOUS
  <2>1. /\ s.input \in Nat /\ s.output \in Nat /\ t.input \in Nat /\ t.output \in Nat
    BY TokenSums
  <2>2. s.input + t.input = t.input + s.input /\ s.output + t.output = t.output + s.output
    BY <2>1
  <2> QED
    BY <2>2, TokenSums
<1>2. \A s, t, u \in Tokens : Plus(Plus(s, t), u) = Plus(s, Plus(t, u))
  <2> SUFFICES ASSUME NEW s \in Tokens, NEW t \in Tokens, NEW u \in Tokens
               PROVE  Plus(Plus(s, t), u) = Plus(s, Plus(t, u))
    OBVIOUS
  <2>1. /\ s.input \in Nat /\ s.output \in Nat /\ t.input \in Nat /\ t.output \in Nat
        /\ u.input \in Nat /\ u.output \in Nat
    BY TokenSums
  <2>2. PICK a \in Tokens, b \in Tokens : a = Plus(s, t) /\ b = Plus(t, u)
    BY TokenSums
  <2>3. /\ a.input = s.input + t.input /\ a.output = s.output + t.output
        /\ b.input = t.input + u.input /\ b.output = t.output + u.output
    BY <2>2, TokenSums
  <2>4. PICK c \in Tokens, d \in Tokens : c = Plus(a, u) /\ d = Plus(s, b)
    BY TokenSums
  <2>5. /\ c.input = a.input + u.input /\ c.output = a.output + u.output
        /\ d.input = s.input + b.input /\ d.output = s.output + b.output
    BY <2>4, TokenSums
  <2>6. c.input = d.input /\ c.output = d.output
    BY <2>1, <2>3, <2>5
  <2> QED
    BY <2>2, <2>4, <2>6, TokenSums
<1>3. \A s \in Tokens : Plus(s, Zero) = s
  <2> SUFFICES ASSUME NEW s \in Tokens PROVE Plus(s, Zero) = s
    OBVIOUS
  <2>1. s.input + 0 = s.input /\ s.output + 0 = s.output
    BY TokenSums
  <2> QED
    BY <2>1, TokenSums
<1> QED
  BY <1>1, <1>2, <1>3, TokenSums

\* The sums of the parts of a sequence that has been cut in two.
Cut(c, a, n, b, p) == (\A i \in 1..n : c[i] = a[i]) /\ (\A i \in 1..p : c[n + i] = b[i])

LEMMA SumOfConcat ==
    ASSUME NEW n \in Nat, NEW p \in Nat, NEW a, NEW b, NEW c,
           Counts(a, n), Counts(b, p), Counts(c, n + p), Cut(c, a, n, b, p)
    PROVE  /\ SumTokens(a) \in Tokens /\ SumTokens(b) \in Tokens
           /\ SumTokens(c) = Plus(SumTokens(a), SumTokens(b))
<1> DEFINE Start(s, k) == [i \in 1..k |-> s[i]]
<1>1. ASSUME NEW q \in Nat, NEW s, Counts(s, q)
      PROVE  /\ \A k \in 0..q : Counts(Start(s, k), k)
             /\ \A k \in 1..q : SumTokens(Start(s, k)) = Plus(SumTokens(Start(s, k - 1)), s[k])
             /\ SumTokens(Start(s, 0)) = Zero
             /\ \A k \in 0..q : SumTokens(Start(s, k)) \in Tokens
             /\ Start(s, q) = s
  <2>1. \A k \in 0..q : Counts(Start(s, k), k)
    BY <1>1 DEF Counts
  <2>2. ASSUME NEW k \in 1..q
        PROVE  SumTokens(Start(s, k)) = Plus(SumTokens(Start(s, k - 1)), s[k])
    <3>1. PICK j \in Nat : k = j + 1
      <4>1. k - 1 \in Nat /\ k = (k - 1) + 1
        OBVIOUS
      <4> QED
        BY <4>1
    <3>2. /\ Counts(Start(s, j), j) /\ Counts(Start(s, j + 1), j + 1)
          /\ \A i \in 1..j : Start(s, j + 1)[i] = Start(s, j)[i]
          /\ Start(s, j + 1)[j + 1] = s[k]
      BY <2>1, <3>1
    <3>3. PICK x, y : x = Start(s, j) /\ y = Start(s, j + 1)
      OBVIOUS
    <3>4. SumTokens(y) = Plus(SumTokens(x), y[j + 1])
      <4>1. Counts(x, j) /\ Counts(y, j + 1) /\ \A i \in 1..j : y[i] = x[i]
        BY <3>2, <3>3
      <4> QED
        BY <4>1, SumAddsOne
    <3>5. k - 1 = j
      BY <3>1
    <3> QED
      BY <3>1, <3>2, <3>3, <3>4, <3>5
  <2>3. SumTokens(Start(s, 0)) = Zero
    <3>1. Start(s, 0) = <<>>
      OBVIOUS
    <3> QED
      BY <3>1, SumOfNone
  <2>4. \A k \in 0..q : SumTokens(Start(s, k)) \in Tokens
    <3> DEFINE T == {k \in 0..q : SumTokens(Start(s, k)) \in Tokens}
    <3>1. 0 \in T
      BY <2>3, PlusLaws, TokenSums
    <3>2. ASSUME NEW k \in 1..q, k - 1 \in T PROVE k \in T
      <4>1. s[k] \in Tokens
        BY <1>1 DEF Counts
      <4>2. SumTokens(Start(s, k - 1)) \in Tokens
        BY <3>2
      <4>3. PICK x \in Tokens, y \in Tokens : x = SumTokens(Start(s, k - 1)) /\ y = s[k]
        BY <4>1, <4>2
      <4>4. SumTokens(Start(s, k)) = Plus(x, y)
        BY <2>2, <4>3
      <4>5. SumTokens(Start(s, k)) \in Tokens
        BY <4>4, PlusLaws
      <4> QED
        BY <4>5
    <3> HIDE DEF T
    <3>3. \A k \in 0..q : k \in T
      BY <3>1, <3>2, Climb
    <3> QED
      BY <3>3 DEF T
  <2>5. Start(s, q) = s
    BY <1>1 DEF Counts
  <2> QED
    BY <2>1, <2>2, <2>3, <2>4, <2>5
<1>2. /\ SumTokens(a) \in Tokens /\ SumTokens(b) \in Tokens
  <2>1. n \in 0..n /\ p \in 0..p
    OBVIOUS
  <2> QED
    BY <1>1, <2>1
<1> DEFINE U == {k \in 0..p : SumTokens(Start(c, n + k)) = Plus(SumTokens(a), SumTokens(Start(b, k)))}
<1>3. 0 \in U
  <2>1. Start(c, n + 0) = a
    BY DEF Counts, Cut
  <2>2. SumTokens(Start(b, 0)) = Zero
    BY <1>1
  <2>3. Plus(SumTokens(a), Zero) = SumTokens(a)
    BY <1>2, PlusLaws
  <2> QED
    BY <2>1, <2>2, <2>3
<1>4. ASSUME NEW k \in 1..p, k - 1 \in U PROVE k \in U
  <2>1. n + k \in 1..(n + p) /\ (n + k) - 1 = n + (k - 1) /\ k - 1 \in 0..p /\ n + p \in Nat
    OBVIOUS
  <2>2. SumTokens(Start(c, n + k)) = Plus(SumTokens(Start(c, (n + k) - 1)), c[n + k])
    BY <1>1, <2>1
  <2>3. SumTokens(Start(c, (n + k) - 1)) = Plus(SumTokens(a), SumTokens(Start(b, k - 1)))
    BY <1>4, <2>1
  <2>4. SumTokens(Start(b, k)) = Plus(SumTokens(Start(b, k - 1)), b[k]) /\ SumTokens(Start(b, k - 1)) \in Tokens
    BY <1>1, <2>1
  <2>5. c[n + k] = b[k] /\ b[k] \in Tokens
    BY DEF Counts, Cut
  <2>6. PICK x \in Tokens, y \in Tokens, z \in Tokens :
            x = SumTokens(a) /\ y = SumTokens(Start(b, k - 1)) /\ z = b[k]
    BY <1>2, <2>4, <2>5
  <2>7. Plus(Plus(x, y), z) = Plus(x, Plus(y, z))
    BY PlusLaws
  <2> QED
    BY <2>2, <2>3, <2>4, <2>5, <2>6, <2>7
<1>5. p \in U
  <2> HIDE DEF U
  <2>1. \A k \in 0..p : k \in U
    BY <1>3, <1>4, Climb
  <2> QED
    BY <2>1
<1>6. Start(c, n + p) = c /\ Start(b, p) = b
  <2>1. n + p \in Nat
    OBVIOUS
  <2> QED
    BY <1>1, <2>1
<1> QED
  BY <1>2, <1>5, <1>6

LEMMA SumIsTokens == ASSUME NEW n \in Nat, NEW a, Counts(a, n) PROVE SumTokens(a) \in Tokens
<1>1. PICK b : b = [i \in 1..0 |-> Zero]
  OBVIOUS
<1>2. Counts(b, 0) /\ 0 \in Nat /\ n + 0 = n
  BY <1>1 DEF Counts
<1>3. Counts(a, n + 0) /\ Cut(a, a, n, b, 0)
  BY <1>2 DEF Cut
<1> QED
  BY <1>2, <1>3, SumOfConcat

\* The sums of two sequences add up as their elements do.
LEMMA SumOfPairs ==
    ASSUME NEW n \in Nat, NEW a, NEW b, NEW c, Counts(a, n), Counts(b, n),
           \A i \in 1..n : c[i] = Plus(a[i], b[i]), DOMAIN c = 1..n, Counts(c, n)
    PROVE  SumTokens(c) = Plus(SumTokens(a), SumTokens(b))
<1> DEFINE Start(s, k) == [i \in 1..k |-> s[i]]
           T == {k \in 0..n : SumTokens(Start(c, k)) = Plus(SumTokens(Start(a, k)), SumTokens(Start(b, k)))}
<1>1. 0 \in T
  <2>1. Start(a, 0) = <<>> /\ Start(b, 0) = <<>> /\ Start(c, 0) = <<>>
    OBVIOUS
  <2>2. Plus(Zero, Zero) = Zero
    BY PlusLaws, TokenSums
  <2> QED
    BY <2>1, <2>2, SumOfNone
<1>2. ASSUME NEW k \in 1..n, k - 1 \in T PROVE k \in T
  <2>1. PICK j \in Nat : k = j + 1 /\ j = k - 1 /\ j \in 0..n
    <3>1. k - 1 \in Nat /\ k = (k - 1) + 1 /\ k - 1 \in 0..n
      OBVIOUS
    <3> QED
      BY <3>1
  <2>2. ASSUME NEW s, Counts(s, n)
        PROVE  /\ SumTokens(Start(s, k)) = Plus(SumTokens(Start(s, j)), s[k])
               /\ SumTokens(Start(s, j)) \in Tokens
    <3>1. PICK x, y : x = Start(s, j) /\ y = Start(s, j + 1)
      OBVIOUS
    <3>2. Counts(x, j) /\ Counts(y, j + 1) /\ (\A i \in 1..j : y[i] = x[i]) /\ y[j + 1] = s[k]
      BY <2>1, <2>2, <3>1 DEF Counts
    <3>3. SumTokens(y) = Plus(SumTokens(x), y[j + 1]) /\ SumTokens(x) \in Tokens
      BY <3>2, SumAddsOne, SumIsTokens
    <3> QED
      BY <2>1, <3>1, <3>2, <3>3
  <2>3. PICK x \in Tokens, y \in Tokens, v \in Tokens, w \in Tokens :
            /\ x = SumTokens(Start(a, j)) /\ y = SumTokens(Start(b, j)) /\ v = a[k] /\ w = b[k]
    BY <2>2 DEF Counts
  <2>4. Plus(Plus(x, y), Plus(v, w)) = Plus(Plus(x, v), Plus(y, w))
    <3>1. Plus(Plus(x, y), Plus(v, w)) = Plus(x, Plus(y, Plus(v, w)))
      BY PlusLaws
    <3>2. Plus(y, Plus(v, w)) = Plus(Plus(y, v), w) /\ Plus(y, v) = Plus(v, y)
      BY PlusLaws
    <3>3. Plus(Plus(v, y), w) = Plus(v, Plus(y, w)) /\ Plus(y, w) \in Tokens
      BY PlusLaws
    <3>4. Plus(x, Plus(v, Plus(y, w))) = Plus(Plus(x, v), Plus(y, w))
      BY <3>3, PlusLaws
    <3> QED
      BY <3>1, <3>2, <3>3, <3>4
  <2>5. SumTokens(Start(c, j)) = Plus(x, y)
    BY <1>2, <2>1, <2>3
  <2>6. c[k] = Plus(v, w)
    BY <2>3
  <2>7. SumTokens(Start(c, k)) = Plus(Plus(x, y), Plus(v, w))
    BY <2>2, <2>5, <2>6
  <2>8. SumTokens(Start(a, k)) = Plus(x, v) /\ SumTokens(Start(b, k)) = Plus(y, w)
    BY <2>2, <2>3
  <2> QED
    BY <2>4, <2>7, <2>8
<1>3. n \in T
  <2> HIDE DEF T
  <2>1. \A k \in 0..n : k \in T
    BY <1>1, <1>2, Climb
  <2> QED
    BY <2>1
<1>4. Start(a, n) = a /\ Start(b, n) = b /\ Start(c, n) = c
  BY DEF Counts
<1> QED
  BY <1>3, <1>4

\* A message joins the steps of its turn.
Step == [model : Models, tokens : Tokens]

LEMMA SharesCount ==
    ASSUME NEW n \in Nat, NEW s, DOMAIN s = 1..n, \A i \in 1..n : s[i].tokens \in Tokens, NEW m
    PROVE  /\ Counts([i \in DOMAIN s |-> Share(s[i], m)], n) /\ SumOfModel(s, m) \in Tokens
<1>1. \A i \in 1..n : Share(s[i], m) \in Tokens
  BY TokenSums DEF Share
<1>2. PICK a : a = [i \in DOMAIN s |-> Share(s[i], m)]
  OBVIOUS
<1>3. Counts(a, n)
  BY <1>1, <1>2 DEF Counts
<1>4. SumTokens(a) \in Tokens
  BY <1>3, SumIsTokens
<1> QED
  BY <1>2, <1>3, <1>4 DEF SumOfModel

LEMMA AppendedTo ==
    ASSUME NEW S, NEW s \in Seq(S), NEW e \in S
    PROVE  /\ Len(Append(s, e)) = Len(s) + 1 /\ Append(s, e)[Len(s) + 1] = e
           /\ \A i \in 1..Len(s) : Append(s, e)[i] = s[i]
  OBVIOUS

LEMMA StepJoins ==
    ASSUME NEW s \in Seq(Step), NEW x, x.model \in Models, x.tokens \in Tokens
    PROVE  /\ AddToSteps(s, x) \in Seq(Step)
           /\ ModelsOf(AddToSteps(s, x)) = ModelsOf(s) \cup {x.model}
           /\ \A m : SumOfModel(AddToSteps(s, x), m) = Plus(SumOfModel(s, m), Share(x, m))
<1>1. PICK n \in Nat : n = Len(s) /\ DOMAIN s = 1..n
  OBVIOUS
<1>2. \A i \in 1..n : s[i] \in Step /\ s[i].model \in Models /\ s[i].tokens \in Tokens
  <2>1. \A i \in 1..n : s[i] \in Step
    BY <1>1
  <2>2. \A e \in Step : e.model \in Models /\ e.tokens \in Tokens
    BY DEF Step
  <2> QED
    BY <2>1, <2>2
<1>3. CASE ~(s # <<>> /\ Last(s).model = x.model)
  <2>1. PICK e : e = [model |-> x.model, tokens |-> x.tokens]
    OBVIOUS
  <2>2. e \in Step /\ e.model = x.model /\ e.tokens = x.tokens
    BY <2>1 DEF Step
  <2>3. PICK r \in Seq(Step) : r = Append(s, e) /\ r = AddToSteps(s, x)
    <3>1. Append(s, e) \in Seq(Step)
      BY <2>2
    <3>2. AddToSteps(s, x) = Append(s, e)
      BY <1>3, <2>1 DEF AddToSteps
    <3> QED
      BY <3>1, <3>2
  <2>4. DOMAIN r = 1..(n + 1) /\ r[n + 1] = e /\ \A i \in 1..n : r[i] = s[i]
    <3>1. e \in Step
      BY <2>2
    <3>2. /\ Len(Append(s, e)) = Len(s) + 1 /\ Append(s, e)[Len(s) + 1] = e
          /\ \A i \in 1..Len(s) : Append(s, e)[i] = s[i]
      BY <3>1, AppendedTo
    <3>3. Len(r) = n + 1 /\ r[n + 1] = e /\ \A i \in 1..n : r[i] = s[i]
      BY <1>1, <2>3, <3>2, Zenon
    <3>4. DOMAIN r = 1..Len(r)
      OBVIOUS
    <3> QED
      BY <3>3, <3>4, Zenon
  <2>5. ModelsOf(r) = ModelsOf(s) \cup {x.model}
    <3>1. 1..(n + 1) = (1..n) \cup {n + 1}
      OBVIOUS
    <3> QED
      BY <1>1, <2>2, <2>4, <3>1 DEF ModelsOf
  <2>6. ASSUME NEW m PROVE SumOfModel(r, m) = Plus(SumOfModel(s, m), Share(x, m))
    <3>1. PICK a, b : a = [i \in DOMAIN s |-> Share(s[i], m)] /\ b = [i \in DOMAIN r |-> Share(r[i], m)]
      OBVIOUS
    <3>2. \A i \in 1..(n + 1) : r[i].tokens \in Tokens
      <4>1. 1..(n + 1) = (1..n) \cup {n + 1}
        OBVIOUS
      <4> QED
        BY <1>2, <2>2, <2>4, <4>1
    <3>3. Counts(a, n) /\ Counts(b, n + 1)
      <4>1. n + 1 \in Nat
        OBVIOUS
      <4> QED
        BY <1>1, <1>2, <2>4, <3>1, <3>2, <4>1, SharesCount
    <3>4. (\A i \in 1..n : b[i] = a[i]) /\ b[n + 1] = Share(x, m)
      BY <1>1, <2>2, <2>4, <3>1 DEF Share
    <3>5. SumTokens(b) = Plus(SumTokens(a), b[n + 1])
      BY <3>3, <3>4, SumAddsOne
    <3> QED
      BY <3>1, <3>4, <3>5 DEF SumOfModel
  <2> QED
    BY <2>3, <2>5, <2>6
<1>4. CASE s # <<>> /\ Last(s).model = x.model
  <2>1. n \in 1..n /\ s[n].model = x.model
    BY <1>1, <1>4 DEF Last
  <2>2. PICK r : r = [s EXCEPT ![n].tokens = Plus(@, x.tokens)] /\ r = AddToSteps(s, x)
    BY <1>1, <1>4 DEF AddToSteps
  <2>3. PICK e : e = [s[n] EXCEPT !.tokens = Plus(@, x.tokens)]
    OBVIOUS
  <2>4. e \in Step /\ e.model = x.model /\ e.tokens = Plus(s[n].tokens, x.tokens)
    <3>1. s[n] \in Step /\ Plus(s[n].tokens, x.tokens) \in Tokens
      BY <1>2, <2>1, PlusLaws
    <3> QED
      BY <2>1, <2>3, <3>1 DEF Step
  <2>5. r = [s EXCEPT ![n] = e]
    BY <2>2, <2>3
  <2>6. r \in Seq(Step) /\ DOMAIN r = 1..n /\ r[n] = e /\ \A i \in 1..n : i # n => r[i] = s[i]
    BY <1>1, <2>1, <2>4, <2>5
  <2>7. ModelsOf(r) = ModelsOf(s) \cup {x.model}
    <3>1. \A i \in 1..n : r[i].model = s[i].model
      BY <2>1, <2>4, <2>6
    <3> QED
      BY <1>1, <2>1, <2>6, <3>1 DEF ModelsOf
  <2>8. ASSUME NEW m PROVE SumOfModel(r, m) = Plus(SumOfModel(s, m), Share(x, m))
    <3>1. PICK j \in Nat : n = j + 1
      <4>1. n - 1 \in Nat /\ n = (n - 1) + 1
        BY <2>1
      <4> QED
        BY <4>1
    <3>2. PICK a, b, c : /\ a = [i \in 1..j |-> Share(s[i], m)]
                         /\ b = [i \in DOMAIN s |-> Share(s[i], m)]
                         /\ c = [i \in DOMAIN r |-> Share(r[i], m)]
      OBVIOUS
    <3>3. Counts(b, n) /\ Counts(c, n)
      <4>1. \A i \in 1..n : r[i].tokens \in Tokens
        BY <1>2, <2>4, <2>6 DEF Step
      <4> QED
        BY <1>1, <1>2, <2>6, <3>2, <4>1, SharesCount
    <3>4. /\ Counts(a, j) /\ \A i \in 1..j : b[i] = a[i] /\ c[i] = a[i]
          /\ b[n] = Share(s[n], m) /\ c[n] = Share(e, m)
      BY <1>1, <2>1, <2>6, <3>1, <3>2, <3>3 DEF Counts
    <3>5. SumTokens(b) = Plus(SumTokens(a), Share(s[n], m)) /\ SumTokens(c) = Plus(SumTokens(a), Share(e, m))
      <4>1. Counts(b, j + 1) /\ Counts(c, j + 1)
        BY <3>1, <3>3
      <4>2. SumTokens(b) = Plus(SumTokens(a), b[j + 1])
        BY <3>4, <4>1, SumAddsOne
      <4>3. SumTokens(c) = Plus(SumTokens(a), c[j + 1])
        BY <3>4, <4>1, SumAddsOne
      <4> QED
        BY <3>1, <3>4, <4>2, <4>3
    <3>6. Share(e, m) = Plus(Share(s[n], m), Share(x, m))
      BY <2>1, <2>4, PlusLaws, TokenSums DEF Share
    <3>7. SumTokens(a) \in Tokens /\ Share(s[n], m) \in Tokens /\ Share(x, m) \in Tokens
      BY <1>2, <2>1, <3>4, SumIsTokens, TokenSums DEF Share
    <3>8. PICK u \in Tokens, v \in Tokens, w \in Tokens :
              u = SumTokens(a) /\ v = Share(s[n], m) /\ w = Share(x, m)
      BY <3>7
    <3>9. Plus(Plus(u, v), w) = Plus(u, Plus(v, w))
      BY PlusLaws
    <3> QED
      BY <3>2, <3>5, <3>6, <3>8, <3>9 DEF SumOfModel
  <2> QED
    BY <2>2, <2>6, <2>7, <2>8
<1> QED
  BY <1>3, <1>4

LEMMA MaxExists ==
    ASSUME NEW n \in Nat, NEW s \in SUBSET (1..n), s # {}
    PROVE  \E x \in s : \A y \in s : x >= y
<1> DEFINE F == {k \in Nat : \A y \in s : y <= k}
<1>1. F \in SUBSET Nat /\ F # {}
  <2>1. n \in F
    OBVIOUS
  <2> QED
    BY <2>1
<1>2. PICK k \in F : \A m \in F : k <= m
  <2> HIDE DEF F
  <2> QED
    BY <1>1, LeastElement
<1>3. k \in s
  <2>1. SUFFICES ASSUME k \notin s PROVE FALSE
    OBVIOUS
  <2>2. k - 1 \in F
    <3>1. PICK y \in s : TRUE
      OBVIOUS
    <3>2. y \in 1..n /\ y <= k
      BY <1>2
    <3>3. k - 1 \in Nat
      BY <3>2
    <3>4. \A z \in s : z <= k - 1
      BY <1>2, <2>1
    <3> QED
      BY <3>3, <3>4
  <2> QED
    BY <1>2, <2>2
<1> QED
  BY <1>2, <1>3

\* The recursive function of a fold exists, whatever is folded: step[k] is
\* what the fold makes of its result so far at element k.
Folding(base, step, n, f) ==
    \A s \in SUBSET (1..n) : f[s] = IF s = {} THEN base ELSE step[Max(s)][f[s \ {Max(s)}]]

LEMMA FoldingExists ==
    ASSUME NEW V, NEW base \in V, NEW n \in Nat, NEW step \in [1..n -> [V -> V]]
    PROVE  \E f \in [SUBSET (1..n) -> V] : Folding(base, step, n, f)
<1> DEFINE T == {k \in 0..n : \E f \in [SUBSET (1..k) -> V] : Folding(base, step, k, f)}
<1>1. 0 \in T
  <2>1. PICK f : f = [s \in SUBSET (1..0) |-> base]
    OBVIOUS
  <2>2. 1..0 = {}
    OBVIOUS
  <2>3. f \in [SUBSET (1..0) -> V] /\ Folding(base, step, 0, f)
    BY <2>1, <2>2 DEF Folding
  <2>4. 0 \in 0..n
    OBVIOUS
  <2> QED
    BY <2>3, <2>4, Zenon
<1>2. ASSUME NEW k \in 1..n, k - 1 \in T PROVE k \in T
  <2>1. PICK f \in [SUBSET (1..(k - 1)) -> V] : Folding(base, step, k - 1, f)
    BY <1>2
  <2>2. PICK g : g = [s \in SUBSET (1..k) |-> IF k \in s THEN step[k][f[s \ {k}]] ELSE f[s]]
    OBVIOUS
  <2>3. ASSUME NEW s \in SUBSET (1..k)
        PROVE  /\ g[s] \in V
               /\ g[s] = IF s = {} THEN base ELSE step[Max(s)][g[s \ {Max(s)}]]
    <3>1. (k \notin s => s \in SUBSET (1..(k - 1))) /\ s \ {k} \in SUBSET (1..(k - 1))
      OBVIOUS
    <3>2. CASE k \in s
      <4>1. Max(s) = k
        BY <3>2, MaxOfPrefix
      <4>2. g[s \ {k}] = f[s \ {k}] /\ g[s] = step[k][f[s \ {k}]]
        BY <2>2, <3>1, <3>2
      <4>3. f[s \ {k}] \in V /\ step[k] \in [V -> V]
        BY <3>1
      <4> QED
        BY <3>2, <4>1, <4>2, <4>3
    <3>3. CASE k \notin s
      <4>1. f[s] = IF s = {} THEN base ELSE step[Max(s)][f[s \ {Max(s)}]]
        BY <2>1, <3>1, <3>3 DEF Folding
      <4>2. g[s \ {Max(s)}] = f[s \ {Max(s)}] /\ g[s] = f[s] /\ f[s] \in V
        BY <2>2, <3>1, <3>3
      <4> QED
        BY <4>1, <4>2
    <3> QED
      BY <3>2, <3>3
  <2>4. g \in [SUBSET (1..k) -> V]
    BY <2>2, <2>3
  <2>5. Folding(base, step, k, g)
    BY <2>3 DEF Folding
  <2> QED
    BY <2>4, <2>5
<1> HIDE DEF T
<1>3. \A k \in 0..n : k \in T
  BY <1>1, <1>2, Climb
<1>4. n \in T
  BY <1>3
<1> QED
  BY <1>4 DEF T

LEMMA PrefixOfFold ==
    ASSUME NEW n \in Nat, NEW k \in 1..n
    PROVE  /\ 1..k \in SUBSET (1..n) /\ 1..k # {} /\ Max(1..k) = k /\ (1..k) \ {Max(1..k)} = 1..(k - 1)
<1>1. 1..k \in SUBSET (1..n) /\ 1..k # {} /\ k \in 1..k /\ k \in Nat /\ 1..k \in SUBSET (1..k)
  OBVIOUS
<1>2. Max(1..k) = k
  BY <1>1, MaxOfPrefix
<1>3. (1..k) \ {k} = 1..(k - 1)
  BY <1>1
<1> QED
  BY <1>1, <1>2, <1>3

\* The fold behind ModelActivity.
Joined(t, k, steps) == IF messages[k].turn = t THEN AddToSteps(steps, messages[k]) ELSE steps
Joining(t, n, f) ==
    f = [s \in SUBSET (1..n) |-> IF s = {} THEN <<>> ELSE Joined(t, Max(s), f[s \ {Max(s)}])]

LEMMA ActivityUnfolds ==
    ASSUME NEW t, NEW n \in Nat, DOMAIN messages = 1..n
    PROVE  ModelActivity(t) = (CHOOSE f : Joining(t, n, f))[1..n]
  BY DEF ModelActivity, FoldLeft, MapThenFoldSet, Joining, Joined

LEMMA MessageShapes ==
    ASSUME messages \in Seq(Message), NEW n \in Nat, n = Len(messages)
    PROVE  /\ DOMAIN messages = 1..n
           /\ \A i \in 1..n : /\ messages[i] \in Message /\ messages[i].model \in Models
                              /\ messages[i].tokens \in Tokens /\ messages[i].turn \in Nat
<1>1. DOMAIN messages = 1..n /\ \A i \in 1..n : messages[i] \in Message
  OBVIOUS
<1>2. \A x \in Message : x.model \in Models /\ x.tokens \in Tokens /\ x.turn \in Nat
  BY DEF Message
<1> QED
  BY <1>1, <1>2

LEMMA JoinedShape ==
    ASSUME messages \in Seq(Message), NEW k \in 1..Len(messages), NEW t, NEW s \in Seq(Step)
    PROVE  Joined(t, k, s) \in Seq(Step)
<1>1. messages[k].model \in Models /\ messages[k].tokens \in Tokens
  BY MessageShapes
<1>2. AddToSteps(s, messages[k]) \in Seq(Step)
  BY <1>1, StepJoins
<1> QED
  BY <1>2 DEF Joined

JoinsAll(t, n, f) ==
    /\ f[1..n] = ModelActivity(t) /\ f[1..0] = <<>>
    /\ \A k \in 1..n : f[1..k] = Joined(t, k, f[1..(k - 1)])

LEMMA ActivityOfPrefix ==
    ASSUME messages \in Seq(Message), NEW n \in Nat, n = Len(messages), NEW t
    PROVE  \E f : JoinsAll(t, n, f)
<1>1. DOMAIN messages = 1..n
  BY MessageShapes
<1>2. PICK step : step = [k \in 1..n |-> [s \in Seq(Step) |-> Joined(t, k, s)]]
  OBVIOUS
<1>3. step \in [1..n -> [Seq(Step) -> Seq(Step)]]
  BY <1>2, JoinedShape
<1>4. <<>> \in Seq(Step)
  OBVIOUS
<1>5. PICK g \in [SUBSET (1..n) -> Seq(Step)] : Folding(<<>>, step, n, g)
  <2> HIDE DEF Step
  <2> QED
    BY <1>3, <1>4, FoldingExists
<1>6. ASSUME NEW s \in SUBSET (1..n)
      PROVE  g[s] = IF s = {} THEN <<>> ELSE Joined(t, Max(s), g[s \ {Max(s)}])
  <2>1. CASE s = {}
    BY <1>5, <2>1 DEF Folding
  <2>2. CASE s # {}
    <3>1. Max(s) \in 1..n
      <4>1. \E x \in s : \A y \in s : x >= y
        BY <2>2, MaxExists
      <4> QED
        BY <4>1 DEF Max
    <3>2. g[s \ {Max(s)}] \in Seq(Step)
      BY <1>5
    <3>3. step[Max(s)][g[s \ {Max(s)}]] = Joined(t, Max(s), g[s \ {Max(s)}])
      BY <1>2, <3>1, <3>2
    <3> QED
      BY <1>5, <2>2, <3>3 DEF Folding
  <2> QED
    BY <2>1, <2>2
<1>7. Joining(t, n, g)
  <2>1. g = [s \in SUBSET (1..n) |-> g[s]]
    BY <1>5
  <2> QED
    BY <1>6, <2>1 DEF Joining
<1>8. PICK f : f[1..n] = ModelActivity(t) /\ Joining(t, n, f)
  BY <1>1, <1>7, ActivityUnfolds, Zenon
<1>9. f[1..0] = <<>>
  <2>1. 1..0 = {} /\ {} \in SUBSET (1..n)
    OBVIOUS
  <2> QED
    BY <1>8, <2>1 DEF Joining
<1>10. ASSUME NEW k \in 1..n PROVE f[1..k] = Joined(t, k, f[1..(k - 1)])
  <2>1. f[1..k] = Joined(t, Max(1..k), f[(1..k) \ {Max(1..k)}])
    BY <1>8, PrefixOfFold DEF Joining
  <2> QED
    BY <2>1, PrefixOfFold
<1> QED
  BY <1>8, <1>9, <1>10 DEF JoinsAll

LEMMA ConcatParts ==
    ASSUME NEW S, NEW s \in Seq(S), NEW u \in Seq(S)
    PROVE  /\ DOMAIN s = 1..Len(s) /\ DOMAIN u = 1..Len(u) /\ DOMAIN (s \o u) = 1..(Len(s) + Len(u))
           /\ \A i \in 1..Len(s) : (s \o u)[i] = s[i]
           /\ \A i \in 1..Len(u) : (s \o u)[Len(s) + i] = u[i]
  OBVIOUS

\* What the first k messages have of the turns of T, and what steps say of it.
ShareIn(T, m, i) == IF messages[i].turn \in T THEN Share(messages[i], m) ELSE Zero
SumOfTurns(T, m, k) == SumTokens([i \in 1..k |-> ShareIn(T, m, i)])
ModelsIn(T, k) == {messages[i].model : i \in {j \in 1..k : messages[j].turn \in T}}
Agrees(s, T, k) ==
    /\ s \in Seq(Step) /\ ModelsOf(s) = ModelsIn(T, k)
    /\ \A m : SumOfModel(s, m) = SumOfTurns(T, m, k)

LEMMA SharesOfTurns ==
    ASSUME messages \in Seq(Message), NEW k \in 0..Len(messages), NEW T, NEW m
    PROVE  /\ Counts([i \in 1..k |-> ShareIn(T, m, i)], k)
           /\ SumOfTurns(T, m, k) \in Tokens
           /\ k # 0 => SumOfTurns(T, m, k) = Plus(SumOfTurns(T, m, k - 1), ShareIn(T, m, k))
<1>1. \A i \in 1..Len(messages) : messages[i].tokens \in Tokens
  BY MessageShapes
<1>2. \A i \in 1..Len(messages) : ShareIn(T, m, i) \in Tokens
  BY <1>1, TokenSums DEF ShareIn, Share
<1>3. \A j \in 0..Len(messages) : Counts([i \in 1..j |-> ShareIn(T, m, i)], j)
  BY <1>2 DEF Counts
<1>4. SumOfTurns(T, m, k) \in Tokens
  <2>1. PICK a : a = [i \in 1..k |-> ShareIn(T, m, i)]
    OBVIOUS
  <2>2. Counts(a, k) /\ k \in Nat
    BY <1>3, <2>1
  <2>3. SumTokens(a) \in Tokens
    BY <2>2, SumIsTokens
  <2> QED
    BY <2>1, <2>3 DEF SumOfTurns
<1>5. ASSUME k # 0 PROVE SumOfTurns(T, m, k) = Plus(SumOfTurns(T, m, k - 1), ShareIn(T, m, k))
  <2>1. PICK j \in Nat : k = j + 1 /\ j = k - 1 /\ j \in 0..Len(messages)
    <3>1. k - 1 \in Nat /\ k = (k - 1) + 1 /\ k - 1 \in 0..Len(messages)
      BY <1>5
    <3> QED
      BY <3>1
  <2>2. PICK a, b : /\ a = [i \in 1..j |-> ShareIn(T, m, i)]
                    /\ b = [i \in 1..(j + 1) |-> ShareIn(T, m, i)]
    OBVIOUS
  <2>3. Counts(a, j) /\ Counts(b, j + 1)
    BY <1>3, <2>1, <2>2
  <2>4. (\A i \in 1..j : b[i] = a[i]) /\ b[j + 1] = ShareIn(T, m, k)
    BY <2>1, <2>2
  <2>5. SumTokens(b) = Plus(SumTokens(a), b[j + 1])
    BY <2>3, <2>4, SumAddsOne
  <2> QED
    BY <2>1, <2>2, <2>4, <2>5 DEF SumOfTurns
<1> QED
  BY <1>3, <1>4, <1>5

LEMMA NothingAgrees == ASSUME NEW T PROVE Agrees(<<>>, T, 0)
<1>1. ModelsOf(<<>>) = {} /\ ModelsIn(T, 0) = {} /\ <<>> \in Seq(Step)
  BY DEF ModelsOf, ModelsIn
<1>2. ASSUME NEW m PROVE SumOfModel(<<>>, m) = SumOfTurns(T, m, 0)
  <2>1. [i \in DOMAIN <<>> |-> Share(<<>>[i], m)] = <<>> /\ [i \in 1..0 |-> ShareIn(T, m, i)] = <<>>
    OBVIOUS
  <2> QED
    BY <2>1 DEF SumOfModel, SumOfTurns
<1> QED
  BY <1>1, <1>2 DEF Agrees

\* The steps of a turn agree with its messages.
LEMMA ActivityAgrees ==
    ASSUME messages \in Seq(Message), NEW n \in Nat, n = Len(messages), NEW t
    PROVE  Agrees(ModelActivity(t), {t}, n)
<1>0. PICK T : T = {t}
  OBVIOUS
<1>1. PICK f : /\ f[1..n] = ModelActivity(t) /\ f[1..0] = <<>>
               /\ \A k \in 1..n : f[1..k] = Joined(t, k, f[1..(k - 1)])
  <2>1. PICK f : JoinsAll(t, n, f)
    BY ActivityOfPrefix
  <2> QED
    BY <2>1 DEF JoinsAll
<1> DEFINE U == {k \in 0..n : Agrees(f[1..k], T, k)}
<1>2. 0 \in U
  BY <1>1, NothingAgrees
<1>3. ASSUME NEW k \in 1..n, k - 1 \in U PROVE k \in U
  <2>1. PICK s : s = f[1..(k - 1)] /\ Agrees(s, T, k - 1)
    BY <1>3
  <2>2. f[1..k] = Joined(t, k, s)
    BY <1>1, <2>1
  <2>3. PICK x : x = messages[k] /\ x.model \in Models /\ x.tokens \in Tokens
    BY MessageShapes
  <2>4. k \in 0..Len(messages) /\ k # 0 /\ k - 1 \in 0..Len(messages) /\ k \in 0..n
    OBVIOUS
  <2>5. \A m : /\ SumOfTurns(T, m, k) = Plus(SumOfTurns(T, m, k - 1), ShareIn(T, m, k))
               /\ SumOfTurns(T, m, k - 1) \in Tokens
    BY <2>4, SharesOfTurns
  <2>6. {j \in 1..k : messages[j].turn \in T}
          = {j \in 1..(k - 1) : messages[j].turn \in T} \cup (IF x.turn = t THEN {k} ELSE {})
    <3>1. 1..k = (1..(k - 1)) \cup {k}
      OBVIOUS
    <3> QED
      BY <1>0, <2>3, <3>1
  <2>7. CASE x.turn = t
    <3>1. f[1..k] = AddToSteps(s, x)
      BY <2>2, <2>3, <2>7 DEF Joined
    <3>2. s \in Seq(Step)
      BY <2>1 DEF Agrees
    <3>3. /\ AddToSteps(s, x) \in Seq(Step)
          /\ ModelsOf(AddToSteps(s, x)) = ModelsOf(s) \cup {x.model}
          /\ \A m : SumOfModel(AddToSteps(s, x), m) = Plus(SumOfModel(s, m), Share(x, m))
      BY <2>3, <3>2, StepJoins
    <3>4. ModelsIn(T, k) = ModelsIn(T, k - 1) \cup {x.model}
      BY <2>3, <2>6, <2>7 DEF ModelsIn
    <3>5. \A m : ShareIn(T, m, k) = Share(x, m)
      BY <1>0, <2>3, <2>7 DEF ShareIn
    <3>6. Agrees(AddToSteps(s, x), T, k)
      BY <2>1, <2>5, <3>3, <3>4, <3>5 DEF Agrees
    <3> QED
      BY <2>4, <3>1, <3>6
  <2>8. CASE x.turn # t
    <3>1. f[1..k] = s
      BY <2>2, <2>3, <2>8 DEF Joined
    <3>2. ModelsIn(T, k) = ModelsIn(T, k - 1)
      BY <2>6, <2>8 DEF ModelsIn
    <3>3. \A m : ShareIn(T, m, k) = Zero
      BY <1>0, <2>3, <2>8 DEF ShareIn
    <3>4. \A m : SumOfTurns(T, m, k) = SumOfTurns(T, m, k - 1)
      <4> SUFFICES ASSUME NEW m PROVE SumOfTurns(T, m, k) = SumOfTurns(T, m, k - 1)
        OBVIOUS
      <4>1. PICK z \in Tokens : z = SumOfTurns(T, m, k - 1)
        BY <2>5
      <4>2. Plus(z, Zero) = z
        BY PlusLaws
      <4>3. SumOfTurns(T, m, k) = Plus(z, Zero)
        BY <2>5, <3>3, <4>1
      <4> QED
        BY <4>1, <4>2, <4>3
    <3>5. Agrees(s, T, k)
      BY <2>1, <3>2, <3>4 DEF Agrees
    <3> QED
      BY <2>4, <3>1, <3>5
  <2> QED
    BY <2>7, <2>8
<1> HIDE DEF U
<1>4. \A k \in 0..n : k \in U
  BY <1>2, <1>3, Climb
<1>5. n \in U
  BY <1>4
<1> QED
  BY <1>1, <1>5, <1>0 DEF U

\* And so do the steps of several turns, one after the other.
LEMMA ConcatAgrees ==
    ASSUME messages \in Seq(Message), NEW n \in Nat, n = Len(messages),
           NEW T, NEW t, t \notin T, NEW s, NEW u, Agrees(s, T, n), Agrees(u, {t}, n)
    PROVE  Agrees(s \o u, T \cup {t}, n)
<1>1. s \in Seq(Step) /\ u \in Seq(Step)
  BY DEF Agrees
<1>2. PICK p \in Nat, q \in Nat : p = Len(s) /\ q = Len(u)
  BY <1>1
<1>3. PICK r : r = s \o u
  OBVIOUS
<1>4. r \in Seq(Step)
  BY <1>1, <1>3
<1>5. /\ DOMAIN s = 1..p /\ DOMAIN u = 1..q /\ DOMAIN r = 1..(p + q)
      /\ \A i \in 1..p : r[i] = s[i]
      /\ \A i \in 1..q : r[p + i] = u[i]
  BY <1>1, <1>2, <1>3, ConcatParts
<1>6. ModelsOf(r) = ModelsOf(s) \cup ModelsOf(u)
  <2>1. ASSUME NEW i \in 1..(p + q) PROVE i \in 1..p \/ \E j \in 1..q : i = p + j
    <3>1. CASE i <= p
      BY <3>1
    <3>2. CASE i > p
      <4>1. i - p \in 1..q /\ i = p + (i - p)
        BY <3>2
      <4> QED
        BY <4>1
    <3> QED
      BY <3>1, <3>2
  <2>2. \A i \in 1..p : i \in 1..(p + q)
    OBVIOUS
  <2>3. \A j \in 1..q : p + j \in 1..(p + q)
    OBVIOUS
  <2>4. ModelsOf(r) \subseteq ModelsOf(s) \cup ModelsOf(u)
    <3>1. ASSUME NEW i \in 1..(p + q) PROVE r[i].model \in ModelsOf(s) \cup ModelsOf(u)
      <4>1. CASE i \in 1..p
        <5>1. i \in DOMAIN s /\ r[i] = s[i]
          BY <1>5, <4>1
        <5> QED
          BY <5>1 DEF ModelsOf
      <4>2. ASSUME NEW k \in 1..q, i = p + k PROVE r[i].model \in ModelsOf(u)
        <5>1. k \in DOMAIN u /\ r[i] = u[k]
          BY <1>5, <4>2
        <5> QED
          BY <5>1 DEF ModelsOf
      <4> QED
        BY <2>1, <4>1, <4>2
    <3> QED
      BY <1>5, <3>1 DEF ModelsOf
  <2>5. ModelsOf(s) \subseteq ModelsOf(r)
    <3>1. ASSUME NEW i \in 1..p PROVE s[i].model \in ModelsOf(r)
      <4>1. i \in DOMAIN r /\ r[i] = s[i]
        BY <1>5, <2>2
      <4> QED
        BY <4>1 DEF ModelsOf
    <3> QED
      BY <1>5, <3>1 DEF ModelsOf
  <2>6. ModelsOf(u) \subseteq ModelsOf(r)
    <3>1. ASSUME NEW j \in 1..q PROVE u[j].model \in ModelsOf(r)
      <4>1. p + j \in DOMAIN r /\ r[p + j] = u[j]
        BY <1>5, <2>3
      <4> QED
        BY <4>1 DEF ModelsOf
    <3> QED
      BY <1>5, <3>1 DEF ModelsOf
  <2> QED
    BY <2>4, <2>5, <2>6
<1>7. ModelsIn(T \cup {t}, n) = ModelsIn(T, n) \cup ModelsIn({t}, n)
  BY DEF ModelsIn
<1>8. ASSUME NEW m PROVE SumOfModel(r, m) = SumOfTurns(T \cup {t}, m, n)
  <2>1. /\ \A i \in 1..p : s[i].tokens \in Tokens
        /\ \A i \in 1..q : u[i].tokens \in Tokens
        /\ \A i \in 1..(p + q) : r[i].tokens \in Tokens
    <3>1. \A e \in Step : e.tokens \in Tokens
      BY DEF Step
    <3>2. /\ \A i \in 1..p : s[i] \in Step
          /\ \A i \in 1..q : u[i] \in Step
          /\ \A i \in 1..(p + q) : r[i] \in Step
      BY <1>1, <1>4, <1>5
    <3> QED
      BY <3>1, <3>2
  <2>2. PICK a, b, c : /\ a = [i \in DOMAIN s |-> Share(s[i], m)]
                       /\ b = [i \in DOMAIN u |-> Share(u[i], m)]
                       /\ c = [i \in DOMAIN r |-> Share(r[i], m)]
    OBVIOUS
  <2>3. Counts(a, p) /\ Counts(b, q) /\ Counts(c, p + q)
    <3>1. p + q \in Nat
      OBVIOUS
    <3>2. Counts(a, p)
      BY <1>5, <2>1, <2>2, SharesCount
    <3>3. Counts(b, q)
      BY <1>5, <2>1, <2>2, SharesCount
    <3>4. Counts(c, p + q)
      BY <1>5, <2>1, <2>2, <3>1, SharesCount
    <3> QED
      BY <3>2, <3>3, <3>4
  <2>4. (\A i \in 1..p : c[i] = a[i]) /\ (\A i \in 1..q : c[p + i] = b[i])
    BY <1>5, <2>2
  <2>5. SumTokens(c) = Plus(SumTokens(a), SumTokens(b))
    <3>1. Counts(a, p)
      BY <2>3
    <3>2. Counts(b, q)
      BY <2>3
    <3>3. Counts(c, p + q)
      BY <2>3
    <3>4. Cut(c, a, p, b, q)
      BY <2>4 DEF Cut
    <3> QED
      BY <3>1, <3>2, <3>3, <3>4, SumOfConcat
  <2>6. SumOfModel(r, m) = Plus(SumOfTurns(T, m, n), SumOfTurns({t}, m, n))
    BY <2>2, <2>5 DEF SumOfModel, Agrees
  <2>7. PICK v, w, x : /\ v = [i \in 1..n |-> ShareIn(T, m, i)]
                       /\ w = [i \in 1..n |-> ShareIn({t}, m, i)]
                       /\ x = [i \in 1..n |-> ShareIn(T \cup {t}, m, i)]
    OBVIOUS
  <2>8. n \in 0..Len(messages)
    OBVIOUS
  <2>9. Counts(v, n) /\ Counts(w, n) /\ Counts(x, n)
    BY <2>7, <2>8, SharesOfTurns
  <2>10. \A i \in 1..n : x[i] = Plus(v[i], w[i])
    <3>1. ASSUME NEW i \in 1..n PROVE ShareIn(T \cup {t}, m, i) = Plus(ShareIn(T, m, i), ShareIn({t}, m, i))
      <4>1. Share(messages[i], m) \in Tokens
        BY MessageShapes, TokenSums DEF Share
      <4> QED
        BY <4>1, PlusLaws, TokenSums DEF ShareIn
    <3> QED
      BY <2>7, <3>1
  <2>11. SumTokens(x) = Plus(SumTokens(v), SumTokens(w))
    <3>1. DOMAIN x = 1..n
      BY <2>7
    <3> QED
      BY <2>9, <2>10, <3>1, SumOfPairs
  <2> QED
    BY <2>6, <2>7, <2>11 DEF SumOfTurns
<1> QED
  BY <1>3, <1>4, <1>6, <1>7, <1>8 DEF Agrees

\* The turns, in the order in which the detail has them.
LEMMA TurnsInOrder ==
    ASSUME messages \in Seq(Message)
    PROVE  \E n \in Nat : /\ SetToSeq(Turns) \in [1..n -> Turns]
                          /\ IsInjective(SetToSeq(Turns))
                          /\ Turns = {SetToSeq(Turns)[i] : i \in 1..n}
<1>1. PICK n \in Nat : n = Len(messages) /\ DOMAIN messages = 1..n
  OBVIOUS
<1>2. IsFiniteSet(Turns)
  <2>1. PICK f : f = [i \in 1..n |-> messages[i].turn]
    OBVIOUS
  <2>2. f \in Surjection(1..n, Turns)
    BY <1>1, <2>1 DEF Surjection, Turns
  <2>3. IsFiniteSet(1..n)
    BY FS_Interval
  <2> QED
    BY <2>2, <2>3, FS_Surjection
<1>3. PICK m \in Nat : m = Cardinality(Turns) /\ ExistsBijection(1..m, Turns)
  BY <1>2, FS_CardinalityType
<1>4. \E f \in [1..m -> Turns] : IsInjective(f)
  BY <1>3 DEF ExistsBijection, Bijection, Injection
<1>5. PICK f : f = SetToSeq(Turns) /\ f \in [1..m -> Turns] /\ IsInjective(f)
  BY <1>3, <1>4 DEF SetToSeq
<1>6. f \in Injection(1..m, Turns)
  BY <1>5 DEF Injection
<1>7. IsFiniteSet(1..m) /\ Cardinality(1..m) = m
  BY FS_Interval
<1>8. f \in Surjection(1..m, Turns)
  BY <1>2, <1>3, <1>6, <1>7, FS_Injection
<1>9. Turns = {f[i] : i \in 1..m}
  BY <1>5, <1>8 DEF Surjection
<1> QED
  BY <1>5, <1>9

\* The fold behind TurnDetail.
AllSteps == FoldLeft(LAMBDA all, t : all \o ModelActivity(t), <<>>, SetToSeq(Turns))
Collecting(q, n, f) ==
    f = [s \in SUBSET (1..n) |-> IF s = {} THEN <<>> ELSE f[s \ {Max(s)}] \o ModelActivity(q[Max(s)])]

InOrder(q) == q = SetToSeq(Turns)

LEMMA DetailUnfolds ==
    ASSUME NEW n \in Nat, NEW q, InOrder(q), DOMAIN q = 1..n
    PROVE  AllSteps = (CHOOSE f : Collecting(q, n, f))[1..n]
  BY DEF AllSteps, FoldLeft, MapThenFoldSet, Collecting, InOrder

Collects(q, n, f) ==
    /\ f[1..n] = AllSteps /\ f[1..0] = <<>>
    /\ \A k \in 1..n : f[1..k] = f[1..(k - 1)] \o ModelActivity(q[k])

LEMMA DetailOfPrefix ==
    ASSUME messages \in Seq(Message), NEW n \in Nat, NEW q, InOrder(q), DOMAIN q = 1..n
    PROVE  \E f : Collects(q, n, f)
<1>1. \A t : ModelActivity(t) \in Seq(Step)
  <2>1. Len(messages) \in Nat
    OBVIOUS
  <2> QED
    BY <2>1, ActivityAgrees DEF Agrees
<1>2. PICK step : step = [k \in 1..n |-> [s \in Seq(Step) |-> s \o ModelActivity(q[k])]]
  OBVIOUS
<1>3. step \in [1..n -> [Seq(Step) -> Seq(Step)]]
  <2>1. \A k \in 1..n : \A s \in Seq(Step) : s \o ModelActivity(q[k]) \in Seq(Step)
    BY <1>1
  <2> QED
    BY <1>2, <2>1
<1>4. <<>> \in Seq(Step)
  OBVIOUS
<1>5. PICK g \in [SUBSET (1..n) -> Seq(Step)] : Folding(<<>>, step, n, g)
  BY <1>3, <1>4, FoldingExists
<1>6. ASSUME NEW s \in SUBSET (1..n)
      PROVE  g[s] = IF s = {} THEN <<>> ELSE g[s \ {Max(s)}] \o ModelActivity(q[Max(s)])
  <2>1. CASE s = {}
    BY <1>5, <2>1 DEF Folding
  <2>2. CASE s # {}
    <3>1. Max(s) \in 1..n
      <4>1. \E x \in s : \A y \in s : x >= y
        BY <2>2, MaxExists
      <4> QED
        BY <4>1 DEF Max
    <3>2. g[s \ {Max(s)}] \in Seq(Step)
      BY <1>5
    <3>3. step[Max(s)][g[s \ {Max(s)}]] = g[s \ {Max(s)}] \o ModelActivity(q[Max(s)])
      BY <1>2, <3>1, <3>2
    <3> QED
      BY <1>5, <2>2, <3>3 DEF Folding
  <2> QED
    BY <2>1, <2>2
<1>7. Collecting(q, n, g)
  <2>1. g = [s \in SUBSET (1..n) |-> g[s]]
    BY <1>5
  <2> QED
    BY <1>6, <2>1 DEF Collecting
<1>8. PICK f : f[1..n] = AllSteps /\ Collecting(q, n, f)
  BY <1>7, DetailUnfolds, Zenon
<1>9. f[1..0] = <<>>
  <2>1. 1..0 = {} /\ {} \in SUBSET (1..n)
    OBVIOUS
  <2> QED
    BY <1>8, <2>1 DEF Collecting
<1>10. ASSUME NEW k \in 1..n PROVE f[1..k] = f[1..(k - 1)] \o ModelActivity(q[k])
  <2>1. f[1..k] = f[(1..k) \ {Max(1..k)}] \o ModelActivity(q[Max(1..k)])
    BY <1>8, PrefixOfFold DEF Collecting
  <2> QED
    BY <2>1, PrefixOfFold
<1> QED
  BY <1>8, <1>9, <1>10 DEF Collects

\* The steps of no turn agree with any messages of none.
LEMMA NoTurnAgrees ==
    ASSUME messages \in Seq(Message), NEW n \in Nat, n = Len(messages)
    PROVE  Agrees(<<>>, {}, n)
<1>1. PICK T : T = {}
  OBVIOUS
<1> DEFINE U == {k \in 0..n : Agrees(<<>>, T, k)}
<1>2. 0 \in U
  BY NothingAgrees
<1>3. ASSUME NEW k \in 1..n, k - 1 \in U PROVE k \in U
  <2>1. Agrees(<<>>, T, k - 1)
    BY <1>3
  <2>2. k \in 0..Len(messages) /\ k # 0 /\ k - 1 \in 0..Len(messages) /\ k \in 0..n
    OBVIOUS
  <2>3. ModelsIn(T, k) = {} /\ ModelsIn(T, k - 1) = {}
    BY <1>1 DEF ModelsIn
  <2>4. ASSUME NEW m PROVE SumOfTurns(T, m, k) = SumOfTurns(T, m, k - 1)
    <3>1. PICK z \in Tokens : z = SumOfTurns(T, m, k - 1)
      BY <2>2, SharesOfTurns
    <3>2. ShareIn(T, m, k) = Zero
      BY <1>1 DEF ShareIn
    <3>3. SumOfTurns(T, m, k) = Plus(z, Zero)
      BY <2>2, <3>1, <3>2, SharesOfTurns
    <3>4. Plus(z, Zero) = z
      BY PlusLaws
    <3> QED
      BY <3>1, <3>3, <3>4
  <2>5. Agrees(<<>>, T, k)
    BY <2>1, <2>3, <2>4 DEF Agrees
  <2> QED
    BY <2>2, <2>5
<1> HIDE DEF U
<1>4. \A k \in 0..n : k \in U
  BY <1>2, <1>3, Climb
<1>5. n \in U
  BY <1>4
<1> QED
  BY <1>1, <1>5 DEF U

LEMMA AllStepsAgree ==
    ASSUME messages \in Seq(Message), NEW n \in Nat, n = Len(messages)
    PROVE  Agrees(AllSteps, Turns, n)
<1>0. PICK q : q = SetToSeq(Turns) /\ InOrder(q)
  BY DEF InOrder
<1>1. PICK p \in Nat : q \in [1..p -> Turns] /\ IsInjective(q) /\ Turns = {q[i] : i \in 1..p}
  BY <1>0, TurnsInOrder
<1>2. PICK f : /\ f[1..p] = AllSteps /\ f[1..0] = <<>>
               /\ \A k \in 1..p : f[1..k] = f[1..(k - 1)] \o ModelActivity(q[k])
  <2>1. DOMAIN q = 1..p /\ InOrder(q)
    BY <1>0, <1>1
  <2>2. PICK f : Collects(q, p, f)
    BY <2>1, DetailOfPrefix
  <2> QED
    BY <2>2 DEF Collects
<1> DEFINE Until(k) == {q[i] : i \in 1..k}
           U == {k \in 0..p : Agrees(f[1..k], Until(k), n)}
<1>3. 0 \in U
  <2>1. Until(0) = {}
    OBVIOUS
  <2> QED
    <3>1. Agrees(f[1..0], Until(0), n)
      BY <1>2, <2>1, NoTurnAgrees
    <3>2. 0 \in 0..p
      OBVIOUS
    <3> QED
      BY <3>1, <3>2
<1>4. ASSUME NEW k \in 1..p, k - 1 \in U PROVE k \in U
  <2>1. PICK s, u, T, t : /\ s = f[1..(k - 1)] /\ u = ModelActivity(q[k])
                          /\ T = Until(k - 1) /\ t = q[k]
    OBVIOUS
  <2>2. Agrees(s, T, n)
    BY <1>4, <2>1
  <2>3. Agrees(u, {t}, n)
    BY <2>1, ActivityAgrees
  <2>4. t \notin T
    <3>1. \A i \in 1..(k - 1) : q[i] # q[k]
      BY <1>1 DEF IsInjective
    <3> QED
      BY <2>1, <3>1
  <2>5. Agrees(s \o u, T \cup {t}, n)
    BY <2>2, <2>3, <2>4, ConcatAgrees
  <2>6. f[1..k] = s \o u
    BY <1>2, <2>1
  <2>7. T \cup {t} = Until(k)
    <3>1. 1..k = (1..(k - 1)) \cup {k}
      OBVIOUS
    <3> QED
      BY <2>1, <3>1
  <2>8. k \in 0..p
    OBVIOUS
  <2> QED
    BY <2>5, <2>6, <2>7, <2>8
<1>5. p \in U
  <2> HIDE DEF U
  <2>1. \A k \in 0..p : k \in U
    BY <1>3, <1>4, Climb
  <2> QED
    BY <2>1
<1> QED
  BY <1>1, <1>2, <1>5

\* All messages are of some turn.
LEMMA SnapshotAddsUp == ASSUME messages \in Seq(Message) PROVE SnapshotReconciles
<1>1. PICK n \in Nat : n = Len(messages) /\ DOMAIN messages = 1..n
  OBVIOUS
<1>2. Agrees(AllSteps, Turns, n)
  BY <1>1, AllStepsAgree
<1>3. \A i \in 1..n : messages[i].turn \in Turns
  BY <1>1 DEF Turns
<1>4. ModelsIn(Turns, n) = {messages[i].model : i \in DOMAIN messages}
  <2>1. {j \in 1..n : messages[j].turn \in Turns} = DOMAIN messages
    BY <1>1, <1>3
  <2> QED
    BY <2>1 DEF ModelsIn
<1>5. ASSUME NEW m PROVE SumOfTurns(Turns, m, n) = SumOfModel(messages, m)
  <2>1. [i \in 1..n |-> ShareIn(Turns, m, i)] = [i \in DOMAIN messages |-> Share(messages[i], m)]
    BY <1>1, <1>3 DEF ShareIn
  <2> QED
    BY <2>1 DEF SumOfTurns, SumOfModel
<1>6. SUFFICES ASSUME TurnDetail # <<>>
               PROVE  /\ DOMAIN UsageByModel = {TurnDetail[i].model : i \in DOMAIN TurnDetail}
                      /\ \A m \in DOMAIN UsageByModel :
                            UsageByModel[m] = SumTokens([i \in DOMAIN TurnDetail |->
                               IF TurnDetail[i].model = m THEN TurnDetail[i].tokens ELSE Zero])
  BY DEF SnapshotReconciles, Reconciles
<1>7. TurnDetail = AllSteps
  BY <1>6 DEF TurnDetail, AllSteps
<1>8. ModelsOf(TurnDetail) = DOMAIN UsageByModel
  BY <1>2, <1>4, <1>7 DEF Agrees, UsageByModel
<1>9. ASSUME NEW m \in DOMAIN UsageByModel PROVE UsageByModel[m] = SumOfModel(TurnDetail, m)
  <2>1. UsageByModel[m] = SumOfModel(messages, m)
    BY <1>9 DEF UsageByModel, SumOfModel, Share
  <2> QED
    BY <1>2, <1>5, <1>7, <2>1 DEF Agrees
<1> QED
  BY <1>8, <1>9 DEF ModelsOf, SumOfModel, Share

\* The server's rules accept the turns and totals of every log, of any length,
\* number of turns and models, and wherever the detail is cut: the client's two
\* ways of adding up agree.
THEOREM SnapshotReconcilesSafe == UsageSpec => []SnapshotReconciles
<1>1. UsageInv => SnapshotReconciles
  BY SnapshotAddsUp DEF UsageInv, UsageTypeOK
<1> QED
  BY <1>1, UsageInitInv, UsageNextInv, PTL DEF UsageSpec

=============================================================================
