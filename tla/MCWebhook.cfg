\* Three requests among the deliveries of an app that another one may replace.
SPECIFICATION Spec
CONSTANTS
    a1 = a1
    a2 = a2
    Apps = {a1, a2}
    None = None
    push = push
    tag = tag
    install = install
    ping = ping
    junk = junk
    Deliveries = {push, tag, install, ping, junk}
    KindOf <- Kind
    AppOf <- Sender
    Requests = {r1, r2, r3}
    MaxProjects = 2
    MaxFaults = 1
SYMMETRY RequestSymmetry
INVARIANTS
    TypeOK
    AcknowledgedIsQueued
    DuplicatesExplained
    InstallationOfApp
\* All requests are answered and the bounds are reached.
CHECK_DEADLOCK FALSE
