SPECIFICATION Spec
CONSTANTS
    Users = {u1, u2}
    Devices = {d1, d2}
    Notes = {n1}
    Calls = {c1, c2}
    FirebaseAppName = "[DEFAULT]"
SYMMETRY Symmetry
INVARIANTS
    TypeOK
    SignedOutHasNoToken
    HistoryTellsPushes
    HistoryHasDetail
    UnreadUntilOpened
