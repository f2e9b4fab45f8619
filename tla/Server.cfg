SPECIFICATION ServerSpec
CONSTANTS
    l1 = l1  p1 = p1  r1 = r1  o1 = o1  i1 = i1  a1 = a1
    e1 = e1  e2 = e2  t1 = t1  t2 = t2
    Links = {l1, l2}
    WebSessions = {s1, s2}
    Logins = {p1, p2}
    Resets = {r1, r2}
    AccountOrgs = {o1, o2}
    NoneSelected = NoneSelected
    MaxIssuing = 2
    MaxChanges = 2
    Attempts = {b1, b2}
    Callbacks = {c1, c2}
    Invites = {i1}
    InviteOrg <- MCInviteOrg
    InviteEmail <- MCInviteEmail
    Users = {u1, u2, u3}
    Orgs = {o1, o2, o3}
    DefaultOrg = o1
    Identities <- MCIdentities
    NoSubject = NoSubject
    MaxRotations = 1
    Callers = {"k1", "k2", "k3"}
    Accounts = {"a", "b", "c"}
    SignIns = {"l1", "l2"}
    Window = 2
    MaxRequests = 2
    MaxKeys = 2
    MaxFailures = 2
    MaxLoginKeys = 2
    MaxTime = 4
    Instances = {x1, x2}
    Keys = {k1, k2}
    NoKey = NoKey
    EmptyKey = EmptyKey
    Organizations = {o1, o2, seed}
    SeedOrg = seed
    NoOrg = NoOrg
    Credentials = {d1, d2}
    MaxStops = 3
    MaxLosses = 1
    Names <- MCNames
    Catalogues <- MCCatalogues
    Aliases <- MCAliases
    Admins = {a1, a2}
    Authorities = {"organization_override", "manual"}
    Rates = {"low", "high"}
    Sessions = {"s"}
    MaxRows = 4
    MaxStarts = 3
    MaxUploads = 1
INVARIANTS LinkSetsOnce OlderSessionsOverlapped SessionsEndWithMode OneSessionPerAttempt
           SubjectIsStable RefusalIsDue OvershootIsBounded ServesWithTheKey NoLegacyRows
           DisplacedStaysClosed CatalogueIsCurrent EstimatesCanBeAudited
CHECK_DEADLOCK FALSE
