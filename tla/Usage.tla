------------------------------- MODULE Usage --------------------------------
(***************************************************************************)
(* From an agent's log to a snapshot the server accepts: the Codex adapter *)
(* (crates/metrune-core/src/adapters/codex.rs), the aggregation of lib.rs  *)
(* with turn_from_messages of the client, and the reconciliation rules of  *)
(* validate_snapshot on the server.                                        *)
(*                                                                         *)
(* Codex writes the running total of a session's tokens; the adapter       *)
(* reports differences.  A resumed session may start its totals again.     *)
(* Each step is one record, written by the agent and read by parse: what   *)
(* parse makes of a log depends on the records before only.                *)
(***************************************************************************)
EXTENDS Naturals, Sequences, FiniteSets, SequencesExt

CONSTANTS
    Models,         \* model identifiers, canonical
    Signals,        \* workflow signals
    MaxRecords,     \* bound on the records of a log
    MaxTokens,      \* bound on the tokens of each kind a record adds
    DetailLimit     \* model steps of a session above which turn detail is cut

ASSUME UsageAssumption ==
    /\ MaxRecords \in Nat /\ MaxTokens \in Nat /\ DetailLimit \in Nat
    /\ Models # {}

VARIABLES
    records,        \* number of records in the log
    totals,         \* the agent's own running totals
    used,           \* tokens really used, over all totals
    resumes,        \* times the agent started its totals again
    parser,         \* local variables of parse
    messages        \* usage messages parse has produced

usageVars == <<records, totals, used, resumes, parser, messages>>

Tokens == [input : Nat, output : Nat]
Zero == [input |-> 0, output |-> 0]
Plus(s, t) == [input |-> s.input + t.input, output |-> s.output + t.output]
Total(t) == t.input + t.output

SumTokens(s) == FoldLeft(Plus, Zero, s)

Message == [turn : Nat, activity : Nat, model : Models, tokens : Tokens,
            signals : SUBSET Signals]

UsageTypeOK ==
    /\ records \in 0..MaxRecords
    /\ totals \in Tokens /\ used \in Tokens
    /\ resumes \in Nat
    /\ parser \in [model : Models, previous : Tokens, turn : Nat, activity : Nat,
                   pending : SUBSET Signals]
    /\ messages \in Seq(Message)

UsageInit ==
    /\ records = 0
    /\ totals = Zero /\ used = Zero
    /\ resumes = 0
    /\ \E m \in Models :
          parser = [model |-> m, previous |-> Zero, turn |-> 0, activity |-> 0,
                    pending |-> {}]
    /\ messages = <<>>

MoreRecords == records < MaxRecords /\ records' = records + 1

(***************************************************************************)
(* Records.                                                                *)
(***************************************************************************)
\* A message of the user opens a turn; a tool's result does not.
UserMessage ==
    /\ MoreRecords
    /\ parser' = [parser EXCEPT !.turn = @ + 1, !.activity = 0, !.pending = {}]
    /\ UNCHANGED <<totals, used, resumes, messages>>

\* Any record may name the model in use from here on.
NameModel(m) ==
    /\ MoreRecords
    /\ m # parser.model
    /\ parser' = [parser EXCEPT !.model = m]
    /\ UNCHANGED <<totals, used, resumes, messages>>

ToolCall(s) ==
    /\ MoreRecords
    /\ parser' = [parser EXCEPT !.pending = @ \cup {s}]
    /\ UNCHANGED <<totals, used, resumes, messages>>

\* The agent is started again on the same log and counts from zero.
ResumeSession ==
    /\ totals # Zero
    /\ totals' = Zero
    /\ resumes' = resumes + 1
    /\ UNCHANGED <<records, used, parser, messages>>

\* Mutant of DeltaFrom: an unchanged total counts as started again.
DeltaFromAtMost(current, previous) ==
    IF current.input <= previous.input \/ current.output <= previous.output
    THEN current
    ELSE [input |-> current.input - previous.input,
          output |-> current.output - previous.output]

\* delta_from: a total that shrinks in any kind was started again.
DeltaFrom(current, previous) ==
    IF current.input < previous.input \/ current.output < previous.output
    THEN current
    ELSE [input |-> current.input - previous.input,
          output |-> current.output - previous.output]

\* The difference becomes a message of the open turn.  Usage before the first
\* message of the user is of turn one.
AddMessage(delta) ==
    /\ parser' = [parser EXCEPT !.previous = totals', !.activity = @ + 1, !.pending = {}]
    /\ messages' = Append(messages,
          [turn |-> IF parser.turn = 0 THEN 1 ELSE parser.turn,
           activity |-> parser.activity + 1, model |-> parser.model,
           tokens |-> delta, signals |-> parser.pending])

\* A token_count record with the agent's new totals.
TokenCount(tokens) ==
    LET current == Plus(totals, tokens)
        delta == DeltaFrom(current, parser.previous)
    IN  /\ MoreRecords
        /\ totals' = current
        /\ used' = Plus(used, tokens)
        /\ IF Total(delta) = 0
           THEN /\ parser' = [parser EXCEPT !.previous = current]
                /\ UNCHANGED messages
           ELSE AddMessage(delta)
        /\ UNCHANGED resumes

UsageNext ==
    \/ UserMessage
    \/ \E m \in Models : NameModel(m)
    \/ \E s \in Signals : ToolCall(s)
    \/ ResumeSession
    \/ \E i, o \in 0..MaxTokens : TokenCount([input |-> i, output |-> o])

UsageSpec == UsageInit /\ [][UsageNext]_usageVars

(***************************************************************************)
(* Aggregation of the messages into a snapshot.                            *)
(***************************************************************************)
Turns == {messages[i].turn : i \in DOMAIN messages}

\* Mutant of AddToSteps: a call replaces the tokens of the step it joins.
ReplaceInSteps(steps, m) ==
    IF steps # <<>> /\ Last(steps).model = m.model
    THEN [steps EXCEPT ![Len(steps)].tokens = m.tokens]
    ELSE Append(steps, [model |-> m.model, tokens |-> m.tokens])

\* turn_from_messages: consecutive calls of one model are one step, so that a
\* turn that goes from A to B and back has three.
AddToSteps(steps, m) ==
    IF steps # <<>> /\ Last(steps).model = m.model
    THEN [steps EXCEPT ![Len(steps)].tokens = Plus(@, m.tokens)]
    ELSE Append(steps, [model |-> m.model, tokens |-> m.tokens])

\* The steps of one turn, from its messages among all of the log.
ModelActivity(t) ==
    FoldLeft(LAMBDA steps, m : IF m.turn = t THEN AddToSteps(steps, m) ELSE steps, <<>>, messages)

\* The steps of all turns; none when the detail is too long for a snapshot.
TurnDetail ==
    LET steps == FoldLeft(LAMBDA all, t : all \o ModelActivity(t), <<>>, SetToSeq(Turns))
    IN  IF Len(steps) > DetailLimit THEN <<>> ELSE steps

\* usage_by_model of aggregate_session, over all messages.
UsageByModel ==
    [m \in {messages[i].model : i \in DOMAIN messages} |->
        SumTokens([i \in DOMAIN messages |->
            IF messages[i].model = m THEN messages[i].tokens ELSE Zero])]

\* The part of validate_snapshot that compares the turns with the session.
Reconciles(steps, usage) ==
    steps # <<>> =>
        /\ DOMAIN usage = {steps[i].model : i \in DOMAIN steps}
        /\ \A m \in DOMAIN usage :
              usage[m] = SumTokens([i \in DOMAIN steps |->
                             IF steps[i].model = m THEN steps[i].tokens ELSE Zero])

(***************************************************************************)
(* Properties.                                                             *)
(***************************************************************************)
Reported == SumTokens([i \in DOMAIN messages |-> messages[i].tokens])

\* The adapter reports the tokens the agent used, exactly so while the agent
\* never started its totals again, and never more than it used: totals are
\* taken as differences, and whole where they were started again (delta_from).
ReportsWhatWasUsed ==
    /\ Reported.input <= used.input
    /\ Reported.output <= used.output
    /\ resumes = 0 => Reported = used

\* The snapshot of any log passes the server's reconciliation of turns and
\* session: the client's two ways of adding up the same messages agree
\* (aggregate_session_v2, turn_from_messages, validate_snapshot).
SnapshotReconciles == Reconciles(TurnDetail, UsageByModel)

=============================================================================
