CONSTANTS
    Jobs = {j1, j2, d1}
    Delayed = {d1}
    Workers = {w1}
    Closers = {a, b}
    Buffer = 1
    None = None
    Runs = {r1, r2}
    Callers = {e1, e2}
    Handlers = {h1, h2}
    utc = utc
    Scheduled = {hourly, daily, weekly, unnamed}
    IntervalJobs = {hourly}
    BadJobs = {unnamed}
    Zones = {utc}
    ZoneOf <- OneZone
    MaxOverlap = 2
    Rpcs = {x1, x2}
SPECIFICATION ServerSpec
INVARIANTS GracefulStop NothingRunsAfterRun
PROPERTIES FirstCloseWaits CloseReleases AcceptedRuns StopsWhenCancelled RunEnds GrpcStops
CHECK_DEADLOCK FALSE
