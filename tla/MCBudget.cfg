SPECIFICATION BudgetSpec
CONSTANTS
    Callers = {c1, c2}
    Keys = {1, 2}
    Dimensions <- MCDimensions
    Policies = {"all", "mine"}
    Scope <- MCScope
    AnyValue = Null
    NoKey = 0
    NoLimit = NoLimit
    LimitChoices <- MCLimitChoices
    Requested <- MCRequested
    Reports <- MCReports
    Prices <- MCPrices
    PriceUnit = 2
    MaxMatched = 2
    MonthLength = 2
    OperatorWaits = TRUE
    MaxDay = 1
    MaxEdits = 1
    MaxFaults = 1
CHECK_DEADLOCK FALSE
SYMMETRY Symmetry
INVARIANTS
    BudgetConservation
    CalledOnce
PROPERTIES
    SpendWithinLimit
    UsageFinal
