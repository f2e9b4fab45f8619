--------------------------- MODULE Classification ---------------------------
(***************************************************************************)
(* Classifying the turns of a session on the client: classify_turns and    *)
(* its helpers in crates/metrune-cli/src/app.rs, with the classification   *)
(* cache of state.rs.                                                      *)
(*                                                                         *)
(* A scan first walks the turns in order and settles what it can: from the *)
(* cache, by inheritance, by rule.  It then asks the classifier about the  *)
(* rest, batch by batch, and last settles the continuations that follow a  *)
(* turn it had to ask about.  Other processes scan the same session, the   *)
(* agent adds turns and the user changes the classifier meanwhile.         *)
(***************************************************************************)
EXTENDS Naturals, Sequences

CONSTANTS
    Scanners,       \* processes that classify the session
    Classifiers,    \* configured classifiers, by their fingerprint
    Missing,        \* the fingerprint when no classifier is configured
    Categories,     \* categories, "unknown" among them
    Words,          \* what texts are made of: words, category ids, signals
    Texts,          \* what a user can write, apart from "go on": sequences of words
    RuleCategory,   \* the category classify_by_rule gives the turns it knows
    MaxTurns,       \* bound on the turns of the session
    MaxSwitches,     \* bound on changes of the classifier
    BatchSize       \* texts in a request

ASSUME ClassificationAssumption ==
    /\ Missing \notin Classifiers
    /\ "unknown" \in Categories
    /\ MaxTurns \in Nat /\ MaxSwitches \in Nat /\ BatchSize \in Nat \ {0}
    /\ {"none", "continue", "signal"} \subseteq Words /\ Categories \subseteq Words \ {"signal"}
    /\ Texts \subseteq Seq(Words) /\ Texts \cap {<<"none">>, <<>>, <<"continue">>} = {}
    /\ \A text \in Texts : \A i \in DOMAIN text : text[i] # "signal"
    /\ DOMAIN RuleCategory \subseteq [intent : Texts, signals : BOOLEAN]
    /\ \A turn \in DOMAIN RuleCategory : RuleCategory[turn] \in Categories

VARIABLES
    turns,          \* the session's turns as the agent wrote them
    classifier,     \* fingerprint of the classifier configured now
    switches,        \* changes of it so far
    cache,          \* classification_cache: a set of entries
    scans,          \* what each scanner is doing
    answers         \* all answers classifiers have given

classificationVars == <<turns, classifier, switches, cache, scans, answers>>

\* <<"none">>: the source has no text; <<>>: nothing is left of it.
NoText == {<<"none">>, <<>>}
Continue == <<"continue">>
Intents == Texts \cup NoText \cup {Continue}

\* signals: the turn shows work of the agent.
Turn == [intent : Intents, signals : BOOLEAN]

Configurations == Classifiers \cup {Missing}

Assignment == [category : Categories,
               status : {"classified", "unavailable", "failed", "no_input"}]

Unavailable == [category |-> "unknown", status |-> "unavailable"]
Failed == [category |-> "unknown", status |-> "failed"]
NoInput == [category |-> "unknown", status |-> "no_input"]
Classified(c) == [category |-> c, status |-> "classified"]

\* What classification_cache_key digests: the fingerprint, and behind a
\* separator one text.
Key == [classifier : Configurations, text : Seq(Words)]

\* A turn of the snapshot in the making.
Result == [assignment : Assignment, method : {"rule", "semantic_model", "inherited", "none"},
           cached : BOOLEAN]

Unsettled == [assignment |-> Unavailable, method |-> "none", cached |-> FALSE]

\* next: the turn in hand; previous: the last assignment settled on the way;
\* pending: turns to ask about, with their keys; deferred: continuations of
\* the turn before them.
IdleScan == [phase |-> "idle", classifier |-> Missing, turns |-> <<>>, next |-> 1,
             previous |-> <<>>, results |-> <<>>, pending |-> <<>>, deferred |-> {}]

ScanRecord ==
    [phase : {"idle", "walking", "asking", "queued"}, classifier : Configurations,
     turns : Seq(Turn), next : Nat, previous : Seq(Assignment), results : Seq(Result),
     pending : Seq([turn : Nat, key : Key]), deferred : SUBSET Nat]

ClassificationTypeOK ==
    /\ turns \in Seq(Turn)
    /\ classifier \in Configurations
    /\ switches \in 0..MaxSwitches
    /\ cache \subseteq [key : Key, assignment : Assignment]
    /\ scans \in [Scanners -> ScanRecord]
    /\ \A e, f \in cache : e.key = f.key => e = f
    /\ answers \subseteq [classifier : Configurations, intent : Intents, assignment : Assignment]

ClassificationInit ==
    /\ turns = <<>>
    /\ classifier \in Configurations
    /\ switches = 0
    /\ cache = {}
    /\ scans = [p \in Scanners |-> IdleScan]
    /\ answers = {}

\* The agent and the user.
AddTurn(t) ==
    /\ Len(turns) < MaxTurns
    /\ turns' = Append(turns, t)
    /\ UNCHANGED <<classifier, switches, cache, scans, answers>>

ChangeClassifier(c) ==
    /\ switches < MaxSwitches /\ c # classifier
    /\ classifier' = c
    /\ switches' = switches + 1
    /\ UNCHANGED <<turns, cache, scans, answers>>

(***************************************************************************)
(* The walk over the turns.                                                *)
(***************************************************************************)
StartScan(p) ==
    /\ scans[p].phase \in {"idle", "queued"} /\ turns # <<>>
    /\ scans' = [scans EXCEPT ![p] =
           [IdleScan EXCEPT !.phase = "walking", !.classifier = classifier, !.turns = turns,
                            !.results = [i \in 1..Len(turns) |-> Unsettled]]]
    /\ UNCHANGED <<turns, classifier, switches, cache, answers>>

\* The text of a key: the intent, the signals and the id of the previous
\* category follow each other with nothing between them, so a category id at the
\* end of an intent and one mixed in are the same.  The zero bytes of a
\* signal's count are taken to be in no intent.
Digested(turn, previous) ==
    LET work == IF turn.signals THEN Append(turn.intent, "signal") ELSE turn.intent
    IN  IF previous = <<>> THEN work ELSE Append(work, Head(previous).category)

\* Mutant of CacheKey: the classifier's fingerprint is left out.
CacheKeyOfAny(scan, turn) ==
    [classifier |-> Missing, text |-> Digested(turn, scan.previous)]

CacheKey(scan, turn) ==
    [classifier |-> scan.classifier, text |-> Digested(turn, scan.previous)]

Cached(key) == {e.assignment : e \in {f \in cache : f.key = key}}

\* The scan with its turn in hand settled, and remembered as the previous one.
Settle(scan, assignment, method, cached) ==
    [scan EXCEPT !.results[scan.next] = [assignment |-> assignment, method |-> method,
                                         cached |-> cached],
                 !.previous = <<assignment>>, !.next = @ + 1]

Inherit(scan) == Settle(scan, Head(scan.previous), "inherited", FALSE)

\* A turn without text: work of the agent goes on with what was before it.
WithoutIntent(scan, turn) ==
    IF turn.signals /\ scan.previous # <<>>
    THEN Inherit(scan)
    ELSE [scan EXCEPT !.results[scan.next].assignment = NoInput, !.next = @ + 1]

\* "yes", "go ahead" and the like wait for the turn before them, if its source
\* has a text; otherwise the walk goes on with rule and classifier.
FollowsUnsettled(scan) ==
    scan.next > 1 /\ scan.turns[scan.next - 1].intent # <<"none">>

\* classify_turns for one turn that has an intent and is not in the cache.
WithoutCache(scan, turn) ==
    IF turn.intent = Continue /\ scan.previous # <<>>
    THEN Inherit(scan)
    ELSE IF turn.intent = Continue /\ FollowsUnsettled(scan)
    THEN [scan EXCEPT !.deferred = @ \cup {scan.next}, !.next = @ + 1]
    ELSE IF turn \in DOMAIN RuleCategory
    THEN Settle(scan, Classified(RuleCategory[turn]), "rule", FALSE)
    ELSE [scan EXCEPT !.pending = Append(@, [turn |-> scan.next, key |-> CacheKey(scan, turn)]),
                      !.next = @ + 1]

VisitTurn(p) ==
    LET scan == scans[p]
        turn == scan.turns[scan.next]
        found == Cached(CacheKey(scan, turn))
    IN  /\ scan.phase = "walking" /\ scan.next <= Len(scan.turns)
        /\ \/ /\ turn.intent \in NoText
              /\ scans' = [scans EXCEPT ![p] = WithoutIntent(scan, turn)]
           \/ /\ turn.intent \notin NoText
              /\ \E a \in found :
                    scans' = [scans EXCEPT ![p] = Settle(scan, a, "semantic_model", TRUE)]
           \/ /\ turn.intent \notin NoText /\ found = {}
              /\ scans' = [scans EXCEPT ![p] = WithoutCache(scan, turn)]
        /\ UNCHANGED <<turns, classifier, switches, cache, answers>>

EndWalk(p) ==
    /\ scans[p].phase = "walking" /\ scans[p].next > Len(scans[p].turns)
    /\ scans' = [scans EXCEPT ![p].phase = "asking"]
    /\ UNCHANGED <<turns, classifier, switches, cache, answers>>

(***************************************************************************)
(* The classifier.                                                         *)
(***************************************************************************)
\* Requests take a prefix of the pending texts, as many as count and bytes allow.
Batches(scan) ==
    {k \in 1..BatchSize : k <= Len(scan.pending)}

\* Without a classifier each text is answered with "unavailable".
Answers(c) == IF c = Missing THEN {Unavailable} ELSE {Classified(k) : k \in Categories}

WithAnswers(scan, k, given) ==
    [scan EXCEPT
        !.results = [i \in DOMAIN @ |->
            IF \E j \in 1..k : scan.pending[j].turn = i
            THEN LET j == CHOOSE j \in 1..k : scan.pending[j].turn = i
                 IN  [assignment |-> given[j], method |-> "semantic_model", cached |-> FALSE]
            ELSE @[i]],
        !.pending = SubSeq(@, k + 1, Len(@))]

\* Two texts with one key: the later answer stays.
Stored(scan, k, given) ==
    LET last == {j \in 1..k : \A h \in (j + 1)..k : scan.pending[h].key # scan.pending[j].key}
    IN  {[key |-> scan.pending[j].key, assignment |-> given[j]] : j \in last}

AskBatch(p, k) ==
    LET scan == scans[p]
    IN  /\ scan.phase = "asking" /\ k \in Batches(scan)
        /\ \E given \in [1..k -> Answers(scan.classifier)] :
              /\ scans' = [scans EXCEPT ![p] = WithAnswers(scan, k, given)]
              /\ cache' = {e \in cache : \A j \in 1..k : e.key # scan.pending[j].key}
                          \cup Stored(scan, k, given)
              /\ answers' = answers \cup
                    {[classifier |-> scan.classifier, assignment |-> given[j],
                      intent |-> scan.turns[scan.pending[j].turn].intent] : j \in 1..k}
        /\ UNCHANGED <<turns, classifier, switches>>

\* Mutant of AskFails: the error ends the scan of the session.
AskFailsHard(p, k) ==
    /\ scans[p].phase = "asking" /\ k \in Batches(scans[p])
    /\ scans[p].classifier # Missing
    /\ scans' = [scans EXCEPT ![p] = IdleScan]
    /\ UNCHANGED <<turns, classifier, switches, cache, answers>>

\* The request fails or its answer is unusable: the turns stay without a
\* category, nothing is cached, and the next batch is tried.
AskFails(p, k) ==
    LET scan == scans[p]
    IN  /\ scan.phase = "asking" /\ k \in Batches(scan)
        /\ scan.classifier # Missing
        /\ scans' = [scans EXCEPT ![p] =
              [scan EXCEPT
                  !.results = [i \in DOMAIN @ |->
                      IF \E j \in 1..k : scan.pending[j].turn = i
                      THEN [@[i] EXCEPT !.assignment = Failed] ELSE @[i]],
                  !.pending = SubSeq(@, k + 1, Len(@))]]
        /\ UNCHANGED <<turns, classifier, switches, cache, answers>>

\* Mutant of InheritDeferred: a continuation takes over whatever is before it.
InheritDeferredAlways(results, i) ==
    [results EXCEPT ![i] = [assignment |-> results[i - 1].assignment,
                            method |-> "inherited", cached |-> FALSE]]

\* A continuation takes over the category of the turn before it, if it has one.
InheritDeferred(results, i) ==
    [results EXCEPT ![i] =
        IF results[i - 1].assignment.status = "classified"
        THEN [assignment |-> results[i - 1].assignment, method |-> "inherited", cached |-> FALSE]
        ELSE [@ EXCEPT !.assignment = NoInput]]

\* Continuations are settled in the order of the turns, one after the other.
SettleDeferred(scan) ==
    LET settled[i \in 0..Len(scan.turns)] ==
            IF i = 0 THEN scan.results
            ELSE IF i \in scan.deferred THEN InheritDeferred(settled[i - 1], i)
            ELSE settled[i - 1]
    IN  settled[Len(scan.turns)]

QueueTurns(p) ==
    /\ scans[p].phase = "asking" /\ scans[p].pending = <<>>
    /\ scans' = [scans EXCEPT ![p].phase = "queued", ![p].deferred = {},
                              ![p].results = SettleDeferred(scans[p])]
    /\ UNCHANGED <<turns, classifier, switches, cache, answers>>

ClassificationNext ==
    \/ \E t \in Turn : AddTurn(t)
    \/ \E c \in Configurations : ChangeClassifier(c)
    \/ \E p \in Scanners :
          \/ StartScan(p)
          \/ VisitTurn(p)
          \/ EndWalk(p)
          \/ \E k \in 1..BatchSize : AskBatch(p, k) \/ AskFails(p, k)
          \/ QueueTurns(p)

\* A scan that has begun goes on: its own steps do not wait, and requests to
\* the classifier have a timeout, after which they fail.
ClassificationFairness ==
    \A p \in Scanners :
        /\ WF_classificationVars(VisitTurn(p))
        /\ WF_classificationVars(EndWalk(p))
        /\ WF_classificationVars(\E k \in 1..BatchSize : AskBatch(p, k) \/ AskFails(p, k))
        /\ WF_classificationVars(QueueTurns(p))

ClassificationSpec ==
    ClassificationInit /\ [][ClassificationNext]_classificationVars /\ ClassificationFairness

(***************************************************************************)
(* Properties.                                                             *)
(***************************************************************************)
\* In a session that is queued with a classifier configured, the method of a
\* turn and its category explain each other: a turn has a method exactly when
\* it has a category, and an inherited category is that of a turn before it.
\* A failed request is nobody's source (classify_turns).
TurnsAreExplained ==
    \A p \in Scanners : scans[p].phase = "queued" /\ scans[p].classifier # Missing =>
        LET results == scans[p].results
        IN  \A i \in DOMAIN results :
                /\ results[i].method # "none" <=> results[i].assignment.status = "classified"
                /\ results[i].method = "inherited" =>
                       \E j \in 1..(i - 1) : results[j].assignment = results[i].assignment

\* Two intents a key can take for each other: one is the other with a category
\* id at its end.
Alike(x, y) ==
    x = y \/ \E c \in Categories : x = Append(y, c) \/ y = Append(x, c)

\* A category taken from the cache was given by the classifier the scan is
\* configured with, to this intent or to one alike: an answer of an earlier
\* classifier, or the "unavailable" of a time without one, is never used again,
\* and no answer for another text is, but for those whose keys run together
\* (classification_cache_key, classifier_fingerprint).
CachedWasAnswered ==
    \A p \in Scanners : \A i \in DOMAIN scans[p].results :
        scans[p].results[i].cached =>
            \E a \in answers : /\ a.classifier = scans[p].classifier
                               /\ a.assignment = scans[p].results[i].assignment
                               /\ Alike(a.intent, scans[p].turns[i].intent)

\* Classification never keeps a session from being queued: every scan that
\* begins is queued in the end, however often requests fail (classify_turns
\* marks the turns of a failed batch and goes on).
ClassificationEnds ==
    \A p \in Scanners : scans[p].phase = "walking" ~> scans[p].phase = "queued"

=============================================================================
