SPECIFICATION FairSpec
CONSTANTS
    s1 = s1  s2 = s2
    q1 = q1  q2 = q2  q3 = q3
    watch = watch  manual = manual
    Sessions = {s1, s2}
    Contents = {"valid", "invalid"}
    NoContent = "none"
    MaxRevision = 3
    MaxDrafts = 1
    Uploaders = {watch}
    Watch = watch
    Requests = {q1, q2}
    NoRequest = "none"
    BatchLimit = 1
    Observed = {0}
    MaxFaults = 1
    MaxRestarts = 1
INVARIANTS NewestIsVisible
PROPERTIES EventuallyAcked
CHECK_DEADLOCK FALSE
