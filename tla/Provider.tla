------------------------------ MODULE Provider ------------------------------
(***************************************************************************)
(* Asking a model provider for categories: OpenAiCompatibleClassifier of   *)
(* crates/metrune-core/src/classifier.rs, called by a client directly or   *)
(* on its behalf by the server's managed_classify_batch                    *)
(* (crates/metrune-api/src/app.rs).                                        *)
(*                                                                         *)
(* A call has a list of texts.  Several texts go out in one batch request; *)
(* what its answer does not settle is asked again text by text.  Calls run *)
(* concurrently and share the cache of response modes.                     *)
(***************************************************************************)
EXTENDS Naturals, Sequences, FiniteSets

CONSTANTS
    Callers,        \* tasks that call the classifier
    Taxonomy,     \* categories of the taxonomy
    Sizes,          \* sizes a text can have
    MaxItems,       \* texts a batch may hold (12)
    MaxBytes,       \* bytes a batch may hold (16 KiB)
    MaxTexts,       \* bound on the texts a caller has to classify
    MaxCalls        \* bound on the calls a caller makes

ASSUME ProviderAssumption ==
    /\ IsFiniteSet(Callers)
    /\ MaxItems \in Nat \ {0} /\ MaxBytes \in Nat /\ Sizes \subseteq 1..MaxBytes
    /\ MaxTexts \in Nat /\ MaxCalls \in Nat
    /\ Taxonomy \cap {"unsupported", "none"} = {}

VARIABLES
    setting,        \* response_mode of the classifier, shared by the callers
    managed,        \* the calls go through the server
    capable,        \* the provider knows response_format
    cached,         \* response_mode_cache for this endpoint and model
    calls,          \* what each caller is doing
    rejections      \* structured requests an incapable provider has refused

providerVars == <<setting, managed, capable, cached, calls, rejections>>

ResponseModes == {"structured", "prompt_json"}

\* One item of a batch answer.  An index can be out of range, a category can
\* be one the taxonomy does not have.
Items == [index : 1..(MaxItems + 1), category : Taxonomy \cup {"unsupported"}]

\* Usage is ClassifierUsage: requests counted and whether all of them
\* reported their tokens.
Usage == [requests : Nat, reported : BOOLEAN]

\* pending: sizes of the texts still to classify; size: texts of the call;
\* at: the text asked about; assigned: what is settled;
\* answered: usage of every chat answered; said: all the provider said.
IdleCall == [phase |-> "idle", pending |-> <<>>, size |-> 0, at |-> 0,
             mode |-> "prompt_json", assigned |-> <<>>,
             usage |-> [requests |-> 0, reported |-> TRUE],
             answered |-> <<>>, said |-> {}, made |-> 0,
             refused |-> "none"]

Running == {"batch", "first", "retry", "repair"}

CallRecord ==
    [phase : Running \cup {"idle", "done", "failed"}, pending : Seq(Sizes),
     size : 0..MaxItems, at : 0..MaxItems, mode : ResponseModes,
     assigned : Seq(Taxonomy \cup {"none"}), usage : Usage, answered : Seq(BOOLEAN),
     said : SUBSET (Nat \X (Taxonomy \cup {"unsupported"})), made : 0..MaxCalls,
     refused : ResponseModes \cup {"none", "bounds", "rate"}]

ProviderTypeOK ==
    /\ setting \in ResponseModes \cup {"auto"} /\ managed \in BOOLEAN /\ capable \in BOOLEAN
    /\ cached \in ResponseModes \cup {"none"}
    /\ rejections \in Nat
    /\ calls \in [Callers -> CallRecord]

ProviderInit ==
    /\ setting \in ResponseModes \cup {"auto"}
    /\ managed \in BOOLEAN
    /\ capable \in BOOLEAN
    /\ cached = "none"
    /\ calls = [c \in Callers |-> IdleCall]
    /\ rejections = 0

\* The texts a scan has left to ask about, found while it walks the turns.
Collect(c) ==
    /\ calls[c].phase \in {"idle", "done", "failed"}
    /\ calls[c].pending = <<>>
    /\ calls[c].made < MaxCalls
    /\ \E n \in 1..MaxTexts : \E sizes \in [1..n -> Sizes] :
         calls' = [calls EXCEPT ![c].pending = sizes]
    /\ UNCHANGED <<setting, managed, capable, cached, rejections>>

SumTo(sizes, n) ==
    LET sum[i \in 0..n] == IF i = 0 THEN 0 ELSE sizes[i] + sum[i - 1] IN sum[n]

\* How many of the texts left go into the next batch: as many as fit, and
\* one at least.
BatchEnd(sizes) ==
    CHOOSE n \in 1..Len(sizes) :
        /\ n <= MaxItems
        /\ n = 1 \/ SumTo(sizes, n) <= MaxBytes
        /\ \/ n = Len(sizes) \/ n = MaxItems
           \/ SumTo(sizes, n + 1) > MaxBytes

\* managed_classify_batch: what the server takes.
ManagedAccepts(sizes) ==
    /\ Len(sizes) \in 1..MaxItems
    /\ SumTo(sizes, Len(sizes)) <= MaxBytes

\* The mode of the first request about a text.
FirstMode ==
    CASE setting # "auto" -> setting
      [] cached # "none" -> cached
      [] OTHER -> "structured"

\* The call with one more request under way.
Sending(call, phase, mode) ==
    [call EXCEPT !.phase = phase, !.mode = mode]

\* The next text nothing is known about, asked alone; the call is over when
\* there is none.
NextText(call) ==
    LET open == {i \in 1..call.size : call.assigned[i] = "none"}
    IN  IF open = {}
        THEN [call EXCEPT !.phase = "done"]
        ELSE Sending([call EXCEPT !.at = CHOOSE i \in open : \A j \in open : i <= j],
                     "first", FirstMode)

\* classify_batch is entered with the next texts; a server refuses a batch it
\* does not accept, or one over the installation's rate, with no request.
Call(c) ==
    /\ calls[c].pending # <<>>
    /\ calls[c].phase \notin Running
    /\ calls[c].made < MaxCalls
    /\ LET n == BatchEnd(calls[c].pending)
           batch == SubSeq(calls[c].pending, 1, n)
           begun == [IdleCall EXCEPT
                       !.pending = SubSeq(calls[c].pending, n + 1, Len(calls[c].pending)),
                       !.size = n, !.assigned = [i \in 1..n |-> "none"],
                       !.made = calls[c].made + 1]
           refuse(why) == calls' = [calls EXCEPT ![c] =
                              [begun EXCEPT !.phase = "failed", !.refused = why]]
       IN  \/ managed /\ ~ManagedAccepts(batch) /\ refuse("bounds")
           \/ managed /\ refuse("rate")
           \/ /\ managed => ManagedAccepts(batch)
              /\ calls' = [calls EXCEPT ![c] =
                    IF n = 1 THEN NextText(begun) ELSE Sending(begun, "batch", "prompt_json")]
    /\ UNCHANGED <<setting, managed, capable, cached, rejections>>

\* A chat was answered: classifier_usage, added to the usage of the call.
\* reported: the answer has a usage block.
Answered(call, reported) ==
    [call EXCEPT !.usage = [requests |-> @.requests + 1, reported |-> @.reported /\ reported],
                 !.answered = Append(@, reported)]

\* Mutant of ParseBatch: the place in the answer stands for the index.
ParseBatchByPlace(items, n) ==
    [i \in 1..n |-> IF i <= Len(items) /\ items[i].category \in Taxonomy
                    THEN items[i].category ELSE "none"]

\* parse_batch_assignments: the first item of an index counts, and only if
\* its category is known.
ParseBatch(items, n) ==
    [i \in 1..n |->
        LET named == {k \in 1..Len(items) : items[k].index = i}
        IN  IF named = {} THEN "none"
            ELSE LET k == CHOOSE k \in named : \A j \in named : k <= j
                 IN  IF items[k].category \in Taxonomy THEN items[k].category ELSE "none"]

\* The answer to a batch request.  items is empty when it does not parse.
AnswerBatch(c) ==
    /\ calls[c].phase = "batch"
    /\ \E reported \in BOOLEAN, k \in 0..2 : \E items \in [1..k -> Items] :
         LET call == Answered(calls[c], reported)
         IN  calls' = [calls EXCEPT ![c] = NextText(
                 [call EXCEPT !.assigned = ParseBatch(items, call.size),
                              !.said = {<<items[j].index, items[j].category>> : j \in 1..k}])]
    /\ UNCHANGED <<setting, managed, capable, cached, rejections>>

\* The text in hand has its category.
Settled(call, category) ==
    [call EXCEPT !.assigned[call.at] = category, !.said = @ \cup {<<call.at, category>>}]

\* An answer that may parse: content is a category, or "unsupported" for
\* anything parse_assignment refuses.  A first answer that does not parse is
\* repaired once.
TakeAnswer(c, content, reported) ==
    LET call == Answered(calls[c], reported)
    IN  calls' = [calls EXCEPT ![c] =
            IF content \in Taxonomy THEN NextText(Settled(call, content))
            ELSE IF call.phase = "repair" THEN [call EXCEPT !.phase = "failed"]
            ELSE Sending(call, "repair", "prompt_json")]

\* An answer to a request about one text.
Answer(c) ==
    /\ calls[c].phase \in {"first", "retry", "repair"}
    /\ calls[c].mode = "structured" => capable
    /\ \E content \in Taxonomy \cup {"unsupported"}, reported \in BOOLEAN :
         TakeAnswer(c, content, reported)
    /\ cached' = IF setting = "auto" /\ calls[c].phase = "first" THEN calls[c].mode ELSE cached
    /\ UNCHANGED <<setting, managed, capable, rejections>>

\* Mutant of Reject: the mode that works is not kept.
RejectForgetting(c) ==
    /\ calls[c].phase \in {"first", "retry", "repair"}
    /\ IF setting = "auto" /\ calls[c].phase = "first"
       THEN calls' = [calls EXCEPT ![c] = Sending(@, "retry", "prompt_json")]
       ELSE calls' = [calls EXCEPT ![c].phase = "failed"]
    /\ rejections' = rejections + (IF ~capable /\ calls[c].mode = "structured" THEN 1 ELSE 0)
    /\ UNCHANGED <<setting, managed, capable, cached>>

\* HTTP 400 or 422.  In auto mode the first request is made again without
\* response_format, and the mode is kept for the calls to come.
Reject(c) ==
    /\ calls[c].phase \in {"first", "retry", "repair"}
    /\ IF setting = "auto" /\ calls[c].phase = "first"
       THEN /\ cached' = "prompt_json"
            /\ calls' = [calls EXCEPT ![c] = Sending(@, "retry", "prompt_json")]
       ELSE /\ calls' = [calls EXCEPT ![c].phase = "failed", ![c].refused = calls[c].mode]
            /\ UNCHANGED cached
    /\ rejections' = rejections + (IF ~capable /\ calls[c].mode = "structured" THEN 1 ELSE 0)
    /\ UNCHANGED <<setting, managed, capable>>

\* Mutant of Fail: a request that fails is made again.
FailRetrying(c) ==
    /\ calls[c].phase \in Running
    /\ calls' = [calls EXCEPT ![c].phase =
                    CASE @ = "first" -> "retry" [] @ = "retry" -> "first" [] OTHER -> "failed"]
    /\ UNCHANGED <<setting, managed, capable, cached, rejections>>

\* Any other failure of the request in hand: another status, the transport,
\* its 30 s, an answer with no choices; or the client's 45 s for the whole
\* managed call.
Fail(c) ==
    /\ calls[c].phase \in Running
    /\ calls' = [calls EXCEPT ![c].phase = "failed"]
    /\ UNCHANGED <<setting, managed, capable, cached, rejections>>

ProviderNext ==
    \E c \in Callers :
        \/ Collect(c) \/ Call(c)
        \/ AnswerBatch(c) \/ Answer(c) \/ Reject(c) \/ Fail(c)

\* A request ends: the HTTP client bounds it by 30 s.  A scan goes through
\* its batches.
ProviderFairness ==
    \A c \in Callers :
        /\ WF_providerVars(Call(c))
        /\ WF_providerVars(AnswerBatch(c) \/ Answer(c) \/ Reject(c) \/ Fail(c))

ProviderSpec == ProviderInit /\ [][ProviderNext]_providerVars /\ ProviderFairness

-----------------------------------------------------------------------------

\* A call that succeeds has a category for each of its texts, and it is one
\* the provider gave for that text: an answer with items missing, repeated,
\* out of range or in another order never labels a text with a neighbour's
\* category, and no text is left at the default.  Its usage counts each chat
\* answered on its behalf once, through batch, rest and repair, and calls the
\* tokens reported only if every one of those answers reported them.
AnswersTheText ==
    \A c \in Callers : calls[c].phase = "done" =>
        /\ \A i \in 1..calls[c].size :
             /\ calls[c].assigned[i] # "none"
             /\ <<i, calls[c].assigned[i]>> \in calls[c].said
        /\ calls[c].usage.requests = Len(calls[c].answered)
        /\ calls[c].usage.reported <=> \A k \in 1..Len(calls[c].answered) : calls[c].answered[k]

\* In auto mode such a provider is sent response_format at most once by each
\* caller: by those already under way when the first rejection is learned.
RejectionIsLearned ==
    setting = "auto" /\ ~capable => rejections <= Cardinality(Callers)

\* Every call ends and a scan gets through its texts (its bound on calls
\* aside): no answer makes a call ask for ever.
CallsEnd ==
    \A c \in Callers :
        calls[c].phase \in Running \/ (calls[c].pending # <<>> /\ calls[c].made < MaxCalls)
            ~> calls[c].phase \notin Running
               /\ (calls[c].pending = <<>> \/ calls[c].made = MaxCalls)
=============================================================================
