SPECIFICATION ClassifierSpec
CONSTANTS
    Scanners = {s1}
    Classifiers = {k1}
    Missing = missing
    Categories = {"unknown", "debugging"}
    RuleCategory <- MCRuleCategory
    Words = {"none", "continue", "signal", "unit", "unknown", "debugging"}
    Texts <- MCTexts
    MaxTurns = 2
    MaxSwitches = 1
    BatchSize = 2
    c1 = c1
    Callers = {c1}
    Taxonomy = {"testing"}
    Sizes = {1}
    MaxItems = 2
    MaxBytes = 2
    MaxTexts = 3
    MaxCalls = 2
    idA = idA
    NoId = NoId
    OwnId = OwnId
    Admins = {a1}
    Procs = {p1}
    Ids = {idA, idB}
    Fallback <- MCFallback
    MaxRotations = 2
    MaxChanges = 1
    MaxUses = 2
    MaxDrops = 1
    MaxCrashes = 1
PROPERTIES ClassificationEnds CallsEnd EventuallyCurrent
CHECK_DEADLOCK FALSE
