SPECIFICATION Spec
CONSTANTS
    Passwords = {p1, p2}
    Calls = {c1, c2}
    MaxTime = 2
SYMMETRY Symmetry
INVARIANTS
    TypeOK
    RevokedStaysRevoked
    TokensOnlyForVerified
    StagesFollowState
    AnswerIsUsable
