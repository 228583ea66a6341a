\* Dashboard: a page that may reconnect once after a stream and fall back to
\* polling, and a channel that holds one event, so that a slow page misses some.
\* Project: two deploys with three writes each. List: two queries of up to two
\* pages. Limiter: three windows of one address. Health: two
\* services with up to two entries. Service: two ports, two URLs.
SPECIFICATION PartSpec
CONSTANTS
    Streams = {d1, d2}
    NoStream = NoStream
    Capacity = 1
    Jobs <- OneJob
    MaxWrites = 4
    ReadFails = TRUE
    Deploys = {j1, j2}
    NoDeploy = NoDeploy
    MaxChanges = 3
    Queries = {q1, q2}
    NoQuery = NoQuery
    MaxPages = 2
    MaxRequests = 3
    Addresses = {c1}
    NoHeader = NoHeader
    TrustProxy = FALSE
    MaxReq = 2
    Window = 2
    MaxTime = 7
    MaxCount = 3
    Services = {s1, s2}
    MaxEntries = 2
    AppPort = 1
    Ports = {1, 2}
    URLs = {u1}
    NoURL = NoURL
    Nil = Nil
INVARIANTS
    PagesTypeOK
    DivergenceExplained
    LogsFollowJob
    JobShownExplained
    RowsExplained
    WindowBound
    RefusedOnlyWhenSpent
    SkipIsOrderIndependent
    ServiceAsReported
PROPERTIES
    StreamsNeverGoBack
\* A page is left, a bound on writes, requests or time is reached, a health check
\* has ended.
CHECK_DEADLOCK FALSE
