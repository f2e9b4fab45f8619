SPECIFICATION ClassifierSpec
CONSTANTS
    Scanners = {s1, s2}
    Classifiers = {k1}
    Missing = missing
    Categories = {"unknown", "debugging"}
    RuleCategory <- MCRuleCategory
    Words = {"none", "continue", "signal", "unit", "unknown", "debugging"}
    Texts <- MCTexts
    MaxTurns = 3
    MaxSwitches = 1
    BatchSize = 2
    c1 = c1
    Callers = {c1, c2}
    Taxonomy = {"testing", "research"}
    Sizes = {1, 2}
    MaxItems = 2
    MaxBytes = 3
    MaxTexts = 3
    MaxCalls = 2
    idA = idA
    NoId = NoId
    OwnId = OwnId
    Admins = {a1, a2}
    Procs = {p1}
    Ids = {idA, idB}
    Fallback <- MCFallback
    MaxRotations = 2
    MaxChanges = 1
    MaxUses = 2
    MaxDrops = 1
    MaxCrashes = 1
SYMMETRY MCSymmetry
INVARIANTS TurnsAreExplained CachedWasAnswered AnswersTheText RejectionIsLearned
           VersionNamesOneSecret HeldAsProfiled
CHECK_DEADLOCK FALSE
