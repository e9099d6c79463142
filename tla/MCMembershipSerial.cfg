SPECIFICATION Spec
CONSTANTS
    Users = {u1, u2}
    Sessions = {s1}
    MemberIds = {m1, m2, m3}
    RequestIds = {r1, r2}
    Capacities = {1, 2}
    Calls = {c1}
SYMMETRY Symmetry
INVARIANTS
    OneMembershipPerGuest
PROPERTIES
    ImplementsRoster
    FinishedWhenPaid
