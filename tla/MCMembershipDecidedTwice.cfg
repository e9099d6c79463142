SPECIFICATION Spec
CONSTANTS
    Users = {u1, u2}
    Sessions = {s1}
    MemberIds = {m1, m2}
    RequestIds = {r1}
    Capacities = {2}
    Calls = {c1, c2}
SYMMETRY Symmetry
PROPERTIES
    DecidedOnce
