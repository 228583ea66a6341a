\* A push that is handled, and a tag that is found under its key.
SPECIFICATION Spec
CONSTANTS
    a1 = a1
    a2 = a2
    Apps = {a1}
    None = None
    push = push
    tag = tag
    install = install
    ping = ping
    junk = junk
    Deliveries = {push, tag}
    KindOf <- Kind
    AppOf <- Sender
    Requests = {r1, r2}
    MaxProjects = 1
    MaxFaults = 0
INVARIANTS
    DuplicateWasProcessed
CHECK_DEADLOCK FALSE
