SPECIFICATION ClientSpec
CONSTANTS
    f1 = f1  f2 = f2  f3 = f3  s1 = s1  s2 = s2  p1 = p1  p2 = p2
    Sessions = {s1, s2}
    Sources = {f1, f2, f3}
    SessionOf <- MCSessionOf
    Contents <- MCContents
    NoContent <- MCNoContent
    Scanners = {p1}
    MaxMessages = 1
    MaxInterrupts = 0
    MaxRevision = 2
    MaxDrafts = 1
    Models = {m1, m2}
    Signals = {g1}
    MaxRecords = 1
    MaxTokens = 1
    DetailLimit = 2
    Procs = {p1, p2}
    Token = "installation"
    Others = {"a", "b"}
    MaxSets = 1
    MaxCrashes = 0
    InitialInterval = 1
    MaxInterval = 4
    Increment = 1
    Lifetime = 14
    Timeout = 3
    Latency = 1
    MaxTime = 0
    MaxFaults = 0
    Watchers = {w1}
    Current <- MCCurrent
    Versions <- MCVersions
    Interval = 2
    MaxHour = 0
    MaxChanges = 0
    Updaters = {p1, p2}
    MaxRelease = 3
    Mirrored = TRUE
    MaxCopies = 4
    MaxRuns = 0
PROPERTY ResumedHasMore
CHECK_DEADLOCK FALSE
