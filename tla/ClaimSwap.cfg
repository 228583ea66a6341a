\* A second deploy whose compose up fails.
SPECIFICATION Spec
CONSTANTS
    MaxJobs = 2
    Projects = {"p1"}
    ProjectOf <- OneProject
    Estimate <- NoEstimate
    Slugs = {"s1"}
    Modes = {"rebuild"}
    CascadeDelete = TRUE
    MaxFaults = 0
    AvailableRAM = 2
    FreeLevels = {2}
    MaxStops = 0
INVARIANTS
    SwapFailureRestoresService
