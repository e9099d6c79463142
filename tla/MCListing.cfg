SPECIFICATION Spec
CONSTANTS
    MaxId = 3
    Keys = {1, 2}
    Scopes = {1, 2}
    PageSizes = {0, 1, 2}
    PAGINATION_PAGE_SIZE = 2
    Selections <- SomeSelections
    Includes <- SomeIncludes
    Sorts <- SomeSorts
    ErrorCodes = {"SYNTAX_ERROR", "other"}
    FIXED_STATUS_CODE = TRUE
INVARIANTS
    TypeOK
    WalkMissesNothing
    FailureIsTold
    WalkRepeatsNothing
    WalkIsSorted
    ScopeIsKept
