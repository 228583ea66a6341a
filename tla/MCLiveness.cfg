\* Deploys: hung stages, memory that never comes for the second job, one failed
\* write, one crash or shutdown in the middle of a hot swap. Log: two viewers, a
\* channel that holds one line, so that a slow viewer misses some. Shells: two
\* sessions of one page.
SPECIFICATION PartSpec
CONSTANTS
    MaxJobs = 2
    Projects = {"p1"}
    ProjectOf <- OneProject
    Estimate <- SecondNeedsMemory
    Slugs = {"s1"}
    Modes = {"hot_swap"}
    CascadeDelete = TRUE
    MaxFaults = 1
    AvailableRAM = 2
    FreeLevels = {0}
    MaxStops = 1
    Streams = {l1, l2}
    Capacity = 1
    MaxLines = 2
    Sessions = {w1, w2}
    NoSession = NoSession
    MaxLoads = 1
    MaxDue = 1
INVARIANTS
    PartsTypeOK
    NoLineSkipped
    ShellsExplained
PROPERTIES
    ExecutingEnds
    QueueDrains
    SubscriptionsReclaimed
    SessionsEnd
\* The log ends and both viewers leave; the page is left and the shells end.
CHECK_DEADLOCK FALSE
