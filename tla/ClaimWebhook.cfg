\* One push that a project wants and whose lookup of that project fails.
SPECIFICATION Spec
CONSTANTS
    a1 = a1
    a2 = a2
    Apps = {a1}
    None = None
    push = push
    tag = tag
    install = install
    ping = ping
    junk = junk
    Deliveries = {push}
    KindOf <- Kind
    AppOf <- Sender
    Requests = {r1, r2}
    MaxProjects = 1
    MaxFaults = 1
INVARIANTS
    IgnoredOnlyWithoutProject
CHECK_DEADLOCK FALSE
