SPECIFICATION Spec
CONSTANTS
    s1 = s1  s2 = s2
    q1 = q1  q2 = q2  q3 = q3
    watch = watch  manual = manual
    Sessions = {s1, s2}
    Contents = {"valid", "invalid", "overpriced"}
    NoContent = "none"
    MaxRevision = 3
    MaxDrafts = 2
    Uploaders = {watch, manual}
    Watch = watch
    Requests = {q1, q2}
    NoRequest = "none"
    BatchLimit = 2
    Observed = {0, 3}
    MaxFaults = 2
    MaxRestarts = 0
SYMMETRY MCSymmetry
INVARIANTS AckedIsStored CompletedIsStored InFlightIsNotNewer
PROPERTIES ImplementsDelivery
CHECK_DEADLOCK FALSE
