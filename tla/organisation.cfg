CONSTANTS
    Requests = {r1, r2}
    Ids = {1, 2, 3, 4, 5, 6}
    SystemRow <- Recommended
    Deps = {d1}
    MaxCatEdits = 4
    MaxOverlaps = 2
    Orgs = {o1, o2}
    TagNames = {n1, n2}
    Eligible = {n1}
    Merchants = {m1}
    MinContributors = 2
    Absent = Absent
    Accts = {1, 2}
    Bodies <- SomeBodies
    NewRows <- SomeRows
    MaxAcctReqs = 3
    Steps = {1, 2}
    Counts = {0, 1}
    Cycle = 2
    MaxDay = 5
    MaxCatchup = 3
    MaxAsked = 4
    Overlapping = {"generates", "stops", "moves"}
    Starts = {"new", "spent"}
    Ttl = 1
    MaxWritten = 1
CHECK_DEADLOCK FALSE
SPECIFICATION Spec
SYMMETRY Symmetry
CONSTRAINT Followed
INVARIANTS CategoriesSafe SharingSafe AccountsSafe SeriesSafe ResetSafe
