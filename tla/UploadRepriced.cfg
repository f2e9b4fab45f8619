SPECIFICATION Spec
CONSTANTS
    s1 = s1  s2 = s2
    q1 = q1  q2 = q2  q3 = q3
    watch = watch  manual = manual
    Sessions = {s1, s2}
    Contents = {"valid"}
    NoContent = "none"
    MaxRevision = 2
    MaxDrafts = 1
    Uploaders = {watch}
    Watch = watch
    Requests = {q1}
    NoRequest = "none"
    BatchLimit = 1
    Observed = {0}
    MaxFaults = 0
    MaxRestarts = 2
SYMMETRY MCSymmetry
INVARIANTS NewestIsVisible
CHECK_DEADLOCK FALSE
