SPECIFICATION FairSpec
CONSTANTS
    s1 = s1  s2 = s2
    q1 = q1  q2 = q2  q3 = q3
    watch = watch  manual = manual
    Sessions = {s1, s2}
    Contents = {"valid", "overpriced"}
    NoContent = "none"
    MaxRevision = 2
    MaxDrafts = 1
    Uploaders = {watch}
    Watch = watch
    Requests = {q1}
    NoRequest = "none"
    BatchLimit = 2
    Observed = {0}
    MaxFaults = 0
    MaxRestarts = 0
PROPERTIES ValidEventuallyAcked
CHECK_DEADLOCK FALSE
