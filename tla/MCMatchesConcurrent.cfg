SPECIFICATION Spec
CONSTANTS
    MaxMatches = 1
    MaxTeams = 4
    Members <- TwoMembers
    UserOf <- UserOfTwo
    Sheets <- OneSheet
    BetsResent = {{}, {1}}
    TypesResent = {"unset"}
    Calls = {c1, c2}
    MaxMoney = 1
    MaxSettled = 1
SYMMETRY Symmetry
INVARIANTS
    TypeOK
    ResultsAreSettled
