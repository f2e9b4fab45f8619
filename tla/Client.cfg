SPECIFICATION ClientSpec
CONSTANTS
    f1 = f1  f2 = f2  f3 = f3  s1 = s1  s2 = s2  p1 = p1  p2 = p2
    Sessions = {s1}
    Sources = {f1, f2}
    SessionOf <- MCSessionOf
    Contents <- MCContents
    NoContent <- MCNoContent
    Scanners = {p1, p2}
    MaxMessages = 2
    MaxInterrupts = 1
    MaxRevision = 2
    MaxDrafts = 2
    Models = {m1, m2}
    Signals = {g1}
    MaxRecords = 6
    MaxTokens = 1
    DetailLimit = 2
    Procs = {p1, p2}
    Token = "installation"
    Others = {"a", "b"}
    MaxSets = 3
    MaxCrashes = 2
    InitialInterval = 1
    MaxInterval = 4
    Increment = 1
    Lifetime = 14
    Timeout = 3
    Latency = 1
    MaxTime = 18
    MaxFaults = 3
    Watchers = {w1}
    Current <- MCCurrent
    Versions <- MCVersions
    Interval = 2
    MaxHour = 2
    MaxChanges = 2
    Updaters = {p1, p2}
    MaxRelease = 3
    Mirrored = TRUE
    MaxCopies = 4
    MaxRuns = 3
SYMMETRY Perms
INVARIANTS CheckpointIsQueued ReportsWhatWasUsed SnapshotReconciles NeverStale TokenIsKept
           ClientKeepsPace GivesUpOnlyLate RefusedIsTold NothingIsLost InstallsTheManifest
CHECK_DEADLOCK FALSE
