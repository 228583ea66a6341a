\* Two jobs of one project that fit the budget only one at a time, deploys that
\* outlive the stuck limit, a crash or shutdown anywhere, deletes that leave job
\* rows behind; every interleaving of API calls, tick and goroutines.
SPECIFICATION Spec
CONSTANTS
    MaxJobs = 2
    Projects = {"p1"}
    ProjectOf <- OneProject
    Estimate <- TightEstimates
    Slugs = {"s1"}
    Modes = {"rebuild"}
    CascadeDelete = FALSE
    MaxFaults = 0
    AvailableRAM = 2
    FreeLevels = {2}
    MaxStops = 1
INVARIANTS
    TypeOK
    RowShowsPhase
    CancelledNeverRuns
    SpawnsOnce
    SuccessIsEarned
    WorkspaceIsolation
    OrphansExplained
PROPERTIES
    ImplementsLifecycle
