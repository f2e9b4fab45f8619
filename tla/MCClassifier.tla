--------------------------- MODULE MCClassifier ---------------------------
(***************************************************************************)
(* Instances, for TLC, of the parts that classify sessions: how a scan     *)
(* settles the turns, how a call to the provider gets its answers, how a   *)
(* client comes by its classifier.  One behaviour is a behaviour of one of *)
(* them.                                                                   *)
(***************************************************************************)
EXTENDS Classification, Provider, Provisioning, TLC

CONSTANTS c1, idA

VARIABLE part   \* the part that runs

\* Classification: two texts of which one is the other with a category id at
\* its end; a rule knows the shorter where the agent has not worked, the longer
\* where it has.
MCTexts == {<<"unit">>, <<"unit", "debugging">>}
MCRuleCategory ==
    [t \in {[intent |-> <<"unit">>, signals |-> FALSE],
            [intent |-> <<"unit", "debugging">>, signals |-> TRUE]} |-> "debugging"]

\* Provisioning: a deployment with a classifier of its own.
MCFallback ==
    [settings |-> [version |-> 0, enabled |-> TRUE, mode |-> "local", needsKey |-> TRUE, id |-> idA],
     hasKey |-> TRUE]

\* "turns": one scan at a time over a longer session; "shared": scans that
\* overlap; "call": one caller with several texts; "modes": callers that share
\* what they learn of the provider, with one text each.
Parts == {"turns", "shared", "call", "modes", "provisioning"}

\* Scanners do not differ.
MCSymmetry == Permutations(Scanners)

OneScanner == \E p \in Scanners : \A q \in Scanners \ {p} : scans'[q] = IdleScan
FewTurns == Len(turns') < MaxTurns
OneCaller == \A c \in Callers \ {c1} : calls'[c] = calls[c]
OneText == \A c \in Callers : Len(calls'[c].pending) + calls'[c].size <= 1

classifierVars == <<part, classificationVars, providerVars, provisioningVars>>

ClassifierInit ==
    /\ part \in Parts
    /\ ClassificationInit /\ ProviderInit /\ ProvisioningInit
    \* What the parts that do not run start from makes no difference.
    /\ part \notin {"turns", "shared"} => classifier = Missing
    /\ part \notin {"call", "modes"} => setting = "auto" /\ managed /\ capable

ClassifierNext ==
    \/ /\ part = "turns" /\ ClassificationNext /\ OneScanner
       /\ UNCHANGED <<part, providerVars, provisioningVars>>
    \/ /\ part = "shared" /\ ClassificationNext /\ FewTurns
       /\ UNCHANGED <<part, providerVars, provisioningVars>>
    \/ /\ part = "call" /\ ProviderNext /\ OneCaller
       /\ UNCHANGED <<part, classificationVars, provisioningVars>>
    \/ /\ part = "modes" /\ ProviderNext /\ OneText
       /\ UNCHANGED <<part, classificationVars, provisioningVars>>
    \/ /\ part = "provisioning" /\ ProvisioningNext
       /\ UNCHANGED <<part, classificationVars, providerVars>>

ClassifierSpec ==
    /\ ClassifierInit /\ [][ClassifierNext]_classifierVars
    /\ ClassificationFairness /\ ProviderFairness /\ ProvisioningFairness
===========================================================================
