SPECIFICATION Spec
CONSTANTS
    MaxMatches = 2
    MaxTeams = 4
    Members <- ThreeMembers
    UserOf <- UserOfThree
    Sheets <- SinglesSheets
    BetsResent = {{}}
    TypesResent = {"DOUBLES"}
    Calls = {c1}
    MaxMoney = 2
    MaxSettled = 2
INVARIANTS
    FinishedHasResults
    MoneyIsZeroSum
    BalanceMatchesResults
PROPERTIES
    FinishedIsFinal
    LineupFixedAfterStart
    ImplementsSettlement
