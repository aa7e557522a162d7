CONSTANTS
    Requests = {r1, r2}
    PlanPeriods = {"previous", "current"}
    Cats = {1, 2}
    Budgeted = {1, 2, 3}
    ParentOf <- Tree
    BudgetAmounts = {0, 1, 3}
    MaxBudget = 3
    MonthStart <- Calendar
    CycleDays = {1, 2}
    FutureCount = 1
    MaxSteps = 2
    MaxRows = 1
    HandMade <- Windows
    CloseDates = {4}
    MaxWipes = 1
    BookMonth = 6
    Start = 6
    Today = 8
    FirstEnd = 11
    LastDay = 23
    DailyMonths = 1
    CloseDay = 4
    PayDelay = 3
    LoanDay = 3
    Term = 4
    Payment = 5
    Rate = 20
    MaxBookRows = 4
    FirstRows <- BookRows
    FirstTemplates <- BookTemplates
    FirstOpenings <- BookOpenings
    FirstCards <- BookCards
    Plans = {p1, p2}
    Accounts = {"x", "y"}
    Scenarios <- SomeScenarios
    Horizons = {2, 4}
    HorizonMax <- Longest
    Month = 4
    FirstBooks <- SomeBooks
    MaxCompared = 2
    MaxActs = 1
CHECK_DEADLOCK FALSE
SPECIFICATION PlanningSpec
SYMMETRY Symmetry
CONSTRAINT Followed
INVARIANTS PlansSafe PeriodsSafe ProjectionSafe ScenariosSafe
PROPERTIES PlansKept ForecastHolds TotalsAndDaysKept
