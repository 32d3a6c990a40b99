SPECIFICATION MCSpec
CONSTANTS
    u1 = u1
    u2 = u2
    i1 = i1
    k1 = k1
    k2 = k2
    k3 = k3
    s1 = s1
    s2 = s2
    None = None
    Users = {u1, u2}
    Invites = {i1}
    Sessions = {k1, k2, k3}
    Slots = {s1, s2}
    InviteRoles = {"owner", "member"}
    NewRoles = {"owner", "member"}
    MaxRequests = 3
    MaxFaults = 1
    Terminals = {1, 2}
    Absent = Absent
    MaxOps = 4
INVARIANTS
    FounderOwns
    InviteOnce
    SessionUsable
    KeyNotLost
PROPERTIES
    OwnerGuarded
SYMMETRY Symmetry
CHECK_DEADLOCK FALSE
