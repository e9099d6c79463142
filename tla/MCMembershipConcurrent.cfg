SPECIFICATION Spec
CONSTANTS
    Users = {u1, u2}
    Sessions = {s1}
    MemberIds = {m1, m2}
    RequestIds = {r1}
    Capacities = {1}
    Calls = {c1, c2}
SYMMETRY Symmetry
INVARIANTS
    TypeOK
    AcceptedHasMembership
    FinishedWasStarted
