\* A crash during a hot swap.
SPECIFICATION FairSpec
CONSTANTS
    MaxJobs = 1
    Projects = {"p1"}
    ProjectOf <- OneProject
    Estimate <- NoEstimate
    Slugs = {"s1"}
    Modes = {"hot_swap"}
    CascadeDelete = TRUE
    MaxFaults = 0
    AvailableRAM = 2
    FreeLevels = {2}
    MaxStops = 1
PROPERTIES
    RestartResetsInterrupted
