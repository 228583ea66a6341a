\* All writers against the state machine: deploys of either mode, two of them at
\* once when the first outlives the stuck limit, a hot swap over what the first has
\* deployed, deletes that take the rows with them. The inductive invariant of the
\* proofs is evaluated on all of it.
SPECIFICATION Spec
CONSTANTS
    MaxJobs = 2
    Projects = {"p1"}
    ProjectOf <- OneProject
    Estimate <- TightEstimates
    Slugs = {"s1"}
    Modes = {"rebuild", "hot_swap"}
    CascadeDelete = TRUE
    MaxFaults = 0
    AvailableRAM = 2
    FreeLevels = {2}
    MaxStops = 0
INVARIANTS
    RefinementInv
PROPERTIES
    ImplementsLifecycle
