SPECIFICATION Spec
CONSTANTS
    Files = {f1, f2}
    NoFile = none
    Sessions = {s1}
    Calls = {c1, c2}
    Nights = {n1, n2}
    SCHEDULE_ENABLE = TRUE
INVARIANTS
    TypeOK
    AvatarIsThere
PROPERTIES
    SweepSparesReferenced
    OrphansAreSwept
