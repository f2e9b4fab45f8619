SPECIFICATION MCSpec
CONSTANTS
    u1 = u1  u2 = u2  u3 = u3  h1 = h1  h2 = h2  i1 = i1  i2 = i2
    c1 = c1  d1 = d1  r1 = r1  r2 = r2
    Users = {u1, u2, u3}
    Founder = u1
    Roles = {"viewer", "admin"}
    Handlers = {h1, h2}
    Invitations = {i1, i2}
    ServiceToken = TRUE
    ReaddMembers = FALSE
    Codes = {c1}
    Devices = {d1}
    NoGrant = "none"
    Redeemers = {r1, r2}
SYMMETRY MCSymmetry
INVARIANTS AdminRemains OneInstallationPerGrant
PROPERTIES SettledGrantsStay
CHECK_DEADLOCK FALSE
