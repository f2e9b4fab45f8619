SPECIFICATION MembershipSpec
CONSTANTS
    u1 = u1  u2 = u2  u3 = u3  h1 = h1  h2 = h2  i1 = i1  i2 = i2
    Users = {u1, u2, u3}
    Founder = u1
    Roles = {"viewer", "admin"}
    Handlers = {h1}
    Invitations = {i1}
    ServiceToken = FALSE
    ReaddMembers = TRUE
SYMMETRY MCSymmetry
INVARIANTS AdminRemains
CHECK_DEADLOCK FALSE
